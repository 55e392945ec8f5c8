---------------------------- MODULE MCReadiness -----------------------------
(* A small pod for TLC. *)
EXTENDS Readiness

\* The Kubernetes ConfigMap, with a strong DJANGO_SECRET_KEY in the Secret.
ConfigMap == [healthChecks |-> TRUE, redis |-> "checked", secret |-> "real", hosts |-> {".example.com"},
              corsAll |-> FALSE, engine |-> "postgresql", sslRedirect |-> TRUE]
MCManifests == {ConfigMap}

\* The ConfigMap for a cluster whose probes pass; without REDIS_URL; without checks; the
\* ConfigMap itself; and one that each guard of prod.py refuses.
Probed == [ConfigMap EXCEPT !.hosts = @ \cup {"pod"}, !.sslRedirect = FALSE]
MCDeployments ==
  {Probed, [Probed EXCEPT !.redis = "no_url"], [Probed EXCEPT !.redis = "unchecked", !.healthChecks = FALSE],
   ConfigMap, [Probed EXCEPT !.secret = "placeholder"], [Probed EXCEPT !.hosts = {"localhost"}],
   [Probed EXCEPT !.hosts = @ \cup {"*"}], [Probed EXCEPT !.corsAll = TRUE], [Probed EXCEPT !.engine = "sqlite3"]}
=============================================================================
