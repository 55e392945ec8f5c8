----------------------------- MODULE Readiness ------------------------------
(***************************************************************************)
(* The readiness probe of one web pod: gunicorn's worker processes, each   *)
(* with a persistent database connection, ReadinessView, and the kubelet   *)
(* that takes the pod out of the service when the probe keeps failing.     *)
(*                                                                         *)
(* The pod runs config.settings.prod, whose guards refuse some environments*)
(* and whose host and HTTPS checks also meet the probe.                    *)
(*                                                                         *)
(* Django keeps a connection for DB_CONN_MAX_AGE seconds and looks at it   *)
(* when a request starts and when it ends; only a cursor checks its health *)
(* (DB_CONN_HEALTH_CHECKS). ReadinessView opens no cursor. An outage kills *)
(* the server's end of every connection; the process does not notice.      *)
(***************************************************************************)
EXTENDS Naturals

CONSTANTS Workers,           \* gunicorn worker processes of the pod
          Deployments,       \* the settings a deployment may have
          FailureThreshold,  \* failureThreshold of the readiness probe
          None               \* no probe is under way

ASSUME WorkersAssumption == None \notin Workers

LocalHosts == {"localhost", "127.0.0.1", "0.0.0.0"}
Hosts == LocalHosts \cup {"*", ".example.com", "pod"}     \* "pod" is the pod's own address

\* DB_CONN_HEALTH_CHECKS; READINESS_CHECK_REDIS and whether REDIS_URL is set;
\* DJANGO_SECRET_KEY; DJANGO_ALLOWED_HOSTS; CORS_ALLOW_ALL_ORIGINS; the engine of
\* DATABASE_URL; SECURE_SSL_REDIRECT.
ASSUME DeploymentsAssumption ==
  Deployments \subseteq [healthChecks: BOOLEAN, redis: {"unchecked", "no_url", "checked"},
                        secret: {"", "placeholder", "real"}, hosts: SUBSET Hosts,
                        corsAll: BOOLEAN, engine: {"sqlite3", "postgresql"}, sslRedirect: BOOLEAN]
ASSUME ThresholdAssumption == FailureThreshold \in Nat \ {0}

VARIABLES settings,   \* the deployment's environment, the same all the time
          dbUp,       \* the database accepts connections
          redisUp,    \* Redis answers
          conn,       \* the connection object of each worker
          phase,      \* what each worker is doing
          disturbed,  \* the workers whose request has seen a database outage
          spent,      \* the workers that lost a statement since the last outage ended
          probed,     \* the worker the kubelet waits for, None between two probes
          failures    \* consecutive failed probes, up to the threshold

vars == <<settings, dbUp, redisUp, conn, phase, disturbed, spent, probed, failures>>
world == <<settings, dbUp, redisUp>>
kubelet == <<probed, failures>>

\* The pod is an endpoint of the service.
ready == failures < FailureThreshold

\* health: no connection, a working one, or one whose server side is gone.
\* checked is Django's health_check_done, errored its errors_occurred.
Connection(health, errored, aged, checked) ==
  [health |-> health, errored |-> errored, aged |-> aged, checked |-> checked]
NoConnection == Connection("none", FALSE, FALSE, FALSE)
NewConnection == Connection("live", FALSE, FALSE, TRUE)

\* The guards of config.settings.prod: a process that imports it ends with an error.
Refuses(s) ==
  \/ s.secret \in {"", "placeholder"}
  \/ s.hosts \subseteq LocalHosts \/ "*" \in s.hosts
  \/ s.corsAll
  \/ s.engine = "sqlite3"

\* The probe comes over HTTP with the pod's address as its host. Django answers another
\* host with 400, and with SECURE_SSL_REDIRECT redirects to HTTPS, which the pod does not
\* speak.
Admits(s) == "pod" \in s.hosts /\ ~s.sslRedirect

Goto(w, place) == phase' = [phase EXCEPT ![w] = place]

-----------------------------------------------------------------------------
(* The environment.                                                        *)

DatabaseStops ==
  /\ dbUp /\ dbUp' = FALSE
  /\ conn' = [w \in Workers |-> IF conn[w].health = "live" THEN [conn[w] EXCEPT !.health = "dead"] ELSE conn[w]]
  /\ disturbed' = disturbed \cup {w \in Workers : phase[w] # "idle"}
  /\ spent' = {}
  /\ UNCHANGED <<settings, redisUp, phase, kubelet>>

DatabaseReturns ==
  /\ ~dbUp /\ dbUp' = TRUE
  /\ UNCHANGED <<settings, redisUp, conn, phase, disturbed, spent, kubelet>>

RedisChanges ==
  /\ settings.redis = "checked"
  /\ redisUp' = ~redisUp
  /\ UNCHANGED <<settings, dbUp, conn, phase, disturbed, spent, kubelet>>

NeverAges(c) == FALSE                                    \* mutant: CONN_MAX_AGE = None
MayAge(c) == c.health # "none" /\ ~c.aged

\* DB_CONN_MAX_AGE seconds after it was opened a connection is obsolete.
ConnectionAges(w) ==
  /\ MayAge(conn[w])
  /\ conn' = [conn EXCEPT ![w].aged = TRUE]
  /\ UNCHANGED <<world, phase, disturbed, spent, kubelet>>

-----------------------------------------------------------------------------
(* Requests.                                                               *)

\* close_if_unusable_or_obsolete, called when a request starts and when it ends.
\* Mutants: a failed connection is kept; the health check of an earlier request counts.
KeepsErrored(c) == IF c.aged THEN NoConnection ELSE [c EXCEPT !.errored = FALSE, !.checked = FALSE]
StaysChecked(c) == IF c.aged \/ (c.errored /\ c.health = "dead") THEN NoConnection ELSE [c EXCEPT !.errored = FALSE]
CloseOld(c) ==
  IF c.aged \/ (c.errored /\ c.health = "dead") THEN NoConnection
  ELSE [c EXCEPT !.errored = FALSE, !.checked = c.errored]

\* A worker that refuses its settings never takes a request.
Start(w, place) ==
  /\ phase[w] = "idle" /\ ~Refuses(settings)
  /\ conn' = [conn EXCEPT ![w] = CloseOld(@)]
  /\ disturbed' = IF dbUp THEN disturbed \ {w} ELSE disturbed \cup {w}
  /\ Goto(w, place)
  /\ UNCHANGED <<world, spent>>

Finish(w) ==
  /\ phase[w] \in {"answered", "failed"}
  /\ conn' = [conn EXCEPT ![w] = CloseOld(@)]
  /\ Goto(w, "idle")
  /\ UNCHANGED <<world, disturbed, spent, kubelet>>

StartRequest(w) == Start(w, "cursor") /\ UNCHANGED kubelet

\* cursor(): the health check, then ensure_connection.
HealthChecked(c) ==
  IF ~settings.healthChecks \/ c.checked THEN c
  ELSE IF c.health = "dead" THEN NoConnection ELSE [c EXCEPT !.checked = (c.health = "live")]

OpenCursor(w) ==
  /\ phase[w] = "cursor"
  /\ LET c == HealthChecked(conn[w])
     IN  \/ c.health # "none" /\ conn' = [conn EXCEPT ![w] = c] /\ Goto(w, "execute")
         \/ c.health = "none" /\ dbUp /\ conn' = [conn EXCEPT ![w] = NewConnection] /\ Goto(w, "execute")
         \/ c.health = "none" /\ ~dbUp /\ conn' = [conn EXCEPT ![w] = c] /\ Goto(w, "failed")
  /\ UNCHANGED <<world, disturbed, spent, kubelet>>

\* A statement works, is refused by a working server (errored), or loses its connection.
Execute(w) ==
  /\ phase[w] = "execute"
  /\ \/ /\ conn[w].health = "live"
        /\ \E errored \in BOOLEAN : conn' = [conn EXCEPT ![w].errored = errored]
        /\ Goto(w, "answered")
        /\ UNCHANGED spent
     \/ /\ conn[w].health = "dead"
        /\ conn' = [conn EXCEPT ![w].errored = TRUE]
        /\ spent' = spent \cup {w}
        /\ Goto(w, "failed")
  /\ UNCHANGED <<world, disturbed, kubelet>>

-----------------------------------------------------------------------------
(* The readiness probe.                                                    *)

\* What the kubelet makes of a result of the probe it waits for.
Count(ok) ==
  failures' = IF ok THEN 0 ELSE IF ready THEN failures + 1 ELSE failures

\* ReadinessView returns: the kubelet may have stopped waiting for the answer.
Answer(w, ok) ==
  /\ Goto(w, "answered")
  /\ \/ probed = w /\ probed' = None /\ Count(ok)
     \/ probed # w /\ UNCHANGED kubelet

StartProbe(w) ==
  /\ probed = None
  /\ probed' = w
  /\ Start(w, "ensure")
  /\ UNCHANGED failures

\* connection.ensure_connection(): it connects if there is no connection object.
OnlyIfConnected(w) == conn[w].health # "none"            \* mutant: never connects
AlwaysConnects(w) == TRUE                                \* mutant: a failed connect is swallowed
Connectable(w) == conn[w].health # "none" \/ dbUp

\* The middlewares answer a probe they do not let pass.
TurnAway(w) ==
  /\ phase[w] = "ensure" /\ ~Admits(settings)
  /\ Answer(w, FALSE)
  /\ UNCHANGED <<world, conn, disturbed, spent>>

EnsureConnection(w) ==
  /\ phase[w] = "ensure" /\ Admits(settings)
  /\ \/ /\ Connectable(w)
        /\ conn' = [conn EXCEPT ![w] = IF @.health = "none" THEN NewConnection ELSE @]
        /\ \/ settings.redis = "checked" /\ Goto(w, "redis") /\ UNCHANGED kubelet
           \/ settings.redis # "checked" /\ Answer(w, settings.redis = "unchecked")
     \/ ~Connectable(w) /\ Answer(w, FALSE) /\ UNCHANGED conn
  /\ UNCHANGED <<world, disturbed, spent>>

PingRedis(w) ==
  /\ phase[w] = "redis"
  /\ Answer(w, redisUp)
  /\ UNCHANGED <<world, conn, disturbed, spent>>

\* Only an outage of a dependency it uses makes the view slow.
Slow == ~dbUp \/ ~redisUp

\* The kubelet waits timeoutSeconds for an answer.
ProbeTimesOut ==
  /\ probed # None
  /\ Slow
  /\ probed' = None
  /\ Count(FALSE)
  /\ UNCHANGED <<world, conn, phase, disturbed, spent>>

\* gunicorn replaces a worker: an idle one after max_requests, a busy one when it has
\* been silent for GUNICORN_TIMEOUT.
Recycle(w) ==
  /\ probed = w => Slow
  /\ conn' = [conn EXCEPT ![w] = NoConnection]
  /\ disturbed' = disturbed \ {w}
  /\ Goto(w, "idle")
  /\ \/ probed = w /\ probed' = None /\ Count(FALSE)
     \/ probed # w /\ UNCHANGED kubelet
  /\ UNCHANGED <<world, spent>>

-----------------------------------------------------------------------------
Init ==
  /\ settings \in Deployments
  /\ dbUp \in BOOLEAN /\ redisUp = TRUE
  /\ conn = [w \in Workers |-> NoConnection]
  /\ phase = [w \in Workers |-> "idle"]
  /\ disturbed = {}
  /\ spent = {}
  /\ probed = None
  /\ failures = FailureThreshold

\* What a worker does once it has a request.
Proceed(w) == TurnAway(w) \/ EnsureConnection(w) \/ PingRedis(w) \/ OpenCursor(w) \/ Execute(w) \/ Finish(w)

Next ==
  \/ DatabaseStops \/ DatabaseReturns \/ RedisChanges \/ ProbeTimesOut
  \/ \E w \in Workers :
       \/ StartRequest(w) \/ StartProbe(w) \/ Proceed(w)
       \/ ConnectionAges(w) \/ Recycle(w)

Spec == Init /\ [][Next]_vars

\* The kubelet probes every period and gunicorn hands its probe to a worker between
\* other requests; workers finish what they do and time passes. Nothing has to fail,
\* to come back or to be replaced.
FairSpec ==
  /\ Spec
  /\ SF_vars(\E w \in Workers : StartProbe(w))
  /\ \A w \in Workers : WF_vars(Proceed(w)) /\ WF_vars(ConnectionAges(w))

-----------------------------------------------------------------------------
(* Properties.                                                             *)

Healths == {"none", "live", "dead"}
Phases == {"idle", "ensure", "redis", "cursor", "execute", "answered", "failed"}

\* Every variable holds a value of its kind; a working connection needs a database.
TypeOK ==
  /\ settings \in Deployments
  /\ dbUp \in BOOLEAN /\ redisUp \in BOOLEAN
  /\ conn \in [Workers -> [health: Healths, errored: BOOLEAN, aged: BOOLEAN, checked: BOOLEAN]]
  /\ phase \in [Workers -> Phases]
  /\ disturbed \subseteq Workers
  /\ spent \subseteq Workers
  /\ probed \in Workers \cup {None}
  /\ failures \in 0 .. FailureThreshold
  /\ \A w \in Workers : conn[w].health = "live" => dbUp

\* With health checks a request loses its connection only when the database was down
\* while the request ran: a connection that died between two requests, or during an
\* earlier one, is replaced without an error (docs/ha.md:13, base.py:121).
OutagesBetweenRequestsAreHidden ==
  settings.healthChecks => \A w \in Workers : phase[w] = "failed" => w \in disturbed

\* A database outage that lasts takes the pod out of the service in the end, although
\* the connections its workers hold hide the outage from the probe for a while.
OutageStopsTraffic == <>[]~dbUp => <>[]~ready

DependenciesUp == dbUp /\ redisUp /\ settings.redis # "no_url"

\* When the dependencies are back for good, a pod that starts and lets the probe pass is
\* ready again for good.
TrafficReturns ==
  <>[]DependenciesUp /\ ~Refuses(settings) /\ Admits(settings) => <>[]ready

\* Between two outages a worker loses a statement to a dead connection at most once,
\* even without health checks: the request that meets one gets rid of it.
LosesOneStatement ==
  [][\A w \in spent : ~(phase[w] = "execute" /\ phase'[w] = "failed")]_vars

\* docs/observability.md:93, docs/ha.md:23: a pod whose settings are accepted becomes ready
\* when its dependencies are up, whether or not its address is one of its hosts.
AcceptedPodsBecomeReady == <>[]DependenciesUp /\ ~Refuses(settings) => <>[]ready
=============================================================================
