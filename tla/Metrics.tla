------------------------------ MODULE Metrics -------------------------------
(***************************************************************************)
(* The Prometheus metrics of the web service: MetricsMiddleware counts     *)
(* requests in the registry of its process, GET /metrics shows the         *)
(* registry of the process that happens to answer, and Prometheus keeps    *)
(* the samples. prometheus_client's multiprocess mode is not configured:   *)
(* a registry starts empty in every gunicorn process and vanishes with it. *)
(***************************************************************************)
EXTENDS Naturals, FiniteSets, Sequences, Functions

CONSTANTS Processes,     \* gunicorn worker processes behind the service
          Threads,       \* their threads
          Deployments,   \* which threads may share a process
          Clients,       \* records: where a request comes from and its headers
          Paths,         \* paths no URL pattern matches
          AllowedCidrs,  \* METRICS_ALLOWED_CIDRS
          NetworkOf,     \* the addresses of each well-formed CIDR
          MetricsToken,  \* METRICS_TOKEN, None if empty
          MaxRequests,   \* the most requests a process accepts before gunicorn replaces it:
                         \* max_requests, its jitter and, with several threads, the
                         \* connections that were already open when it was reached
          MaxTotal,      \* bound: requests of a behaviour
          None

ASSUME DeploymentsAssumption == Deployments \subseteq [Threads -> Processes]
ASSUME BoundsAssumption == MaxRequests \in Nat \ {0} /\ MaxTotal \in Nat
\* A process has as many threads as it was started with, and gunicorn bounds the request
\* line, so there are only so many paths.
ASSUME FiniteAssumption == IsFiniteSet(Threads) /\ IsFiniteSet(Paths)

VARIABLES enabled,   \* METRICS_ENABLED
          process,   \* the process of each thread
          registry,  \* django_api_requests_total, summed over methods and statuses
          served,    \* requests each process has accepted
          rejected,  \* those that a middleware outside MetricsMiddleware answered
          req,       \* what each thread executes
          handled,   \* history: requests that came through the middleware, by label
          sample,    \* Prometheus: the last value of each series
          inferred   \* Prometheus: the increase of each series, resets accounted for

vars == <<enabled, process, registry, served, rejected, req, handled, sample, inferred>>
settings == <<enabled, process>>
counters == <<registry, served, rejected, handled>>
prometheus == <<sample, inferred>>

\* An API view, the metrics view, and what is left unresolved.
Targets == {"items", "metrics"} \cup Paths
Addresses == UNION Range(NetworkOf)
Zeros == [l \in Targets |-> 0]
Idle == [at |-> "idle"]
Requests == [at: {"view", "returned", "raised"}, client: Clients, target: Targets]

-----------------------------------------------------------------------------
(* The permission of the metrics view.                                     *)

\* The first address of X-Forwarded-For, else the peer; None if it is not an address.
ClientIp(c) ==
  LET raw == IF c.forwarded # <<>> THEN Head(c.forwarded) ELSE c.remote
  IN IF raw \in Addresses THEN raw ELSE None

\* A malformed CIDR is skipped.
AllowedNetworks == {NetworkOf[cidr] : cidr \in AllowedCidrs \cap DOMAIN NetworkOf}

InternalMetricsPermission(c) ==
  \/ ~enabled
  \/ MetricsToken # None /\ c.token = MetricsToken
  \/ \E network \in AllowedNetworks : ClientIp(c) \in network

-----------------------------------------------------------------------------
(* Requests.                                                               *)

NeverDue(p) == TRUE                                   \* mutant: --max-requests 0
MayAccept(p) == served[p] < MaxRequests

\* gunicorn hands a request to an idle thread; a middleware outside the metrics middleware
\* may answer it: the redirect to HTTPS, CORS, whitenoise or the tenant's.
Receive(t, c, target) ==
  LET p == process[t] IN
  /\ req[t] = Idle
  /\ MayAccept(p)
  /\ served' = [served EXCEPT ![p] = @ + 1]
  /\ \/ /\ req' = [req EXCEPT ![t] = [at |-> "view", client |-> c, target |-> target]]
        /\ UNCHANGED rejected
     \/ /\ rejected' = [rejected EXCEPT ![p] = @ + 1]
        /\ UNCHANGED req
  /\ UNCHANGED <<settings, registry, handled, prometheus>>

\* Authentication, permissions, throttles and the view: an answer or an exception.
Handle(t) ==
  /\ req[t].at = "view"
  /\ \E end \in {"returned", "raised"} : req' = [req EXCEPT ![t].at = end]
  /\ UNCHANGED <<settings, counters, prometheus>>

\* A reader of samples takes a smaller value for a restart from zero.
Increase(old, new) == IF new >= old THEN new - old ELSE new

\* MetricsView.get: Prometheus receives the series of this process that exist.
Scrape(t) ==
  LET shown == registry[process[t]] IN
  /\ req[t].at = "view" /\ req[t].target = "metrics"
  /\ enabled /\ InternalMetricsPermission(req[t].client)
  /\ sample' = [l \in Targets |-> IF shown[l] > 0 THEN shown[l] ELSE sample[l]]
  /\ inferred' = [l \in Targets |-> inferred[l] + IF shown[l] > 0 THEN Increase(sample[l], shown[l]) ELSE 0]
  /\ req' = [req EXCEPT ![t].at = "returned"]
  /\ UNCHANGED <<settings, counters>>

\* _track_request_metrics after an answer and before an exception is raised again.
\* Mutants: exceptions are not tracked; the except branch falls through.
AnswersOnly(r) == IF r.at = "returned" THEN 1 ELSE 0
FallsThrough(r) == IF r.at = "returned" THEN 1 ELSE 2
Increment(r) == 1

\* MetricsMiddleware: the label is the view's name, or the path if none was resolved.
Count(t) ==
  LET r == req[t] IN
  /\ r.at \in {"returned", "raised"}
  /\ registry' = IF enabled THEN [registry EXCEPT ![process[t]][r.target] = @ + Increment(r)] ELSE registry
  /\ handled' = [handled EXCEPT ![r.target] = @ + 1]
  /\ req' = [req EXCEPT ![t] = Idle]
  /\ UNCHANGED <<settings, served, rejected, prometheus>>

\* gunicorn replaces a process: after --max-requests, a timeout or a crash.
Restart(p) ==
  /\ registry' = [registry EXCEPT ![p] = Zeros]
  /\ served' = [served EXCEPT ![p] = 0]
  /\ rejected' = [rejected EXCEPT ![p] = 0]
  /\ req' = [t \in Threads |-> IF process[t] = p THEN Idle ELSE req[t]]
  /\ UNCHANGED <<settings, handled, prometheus>>

-----------------------------------------------------------------------------
Init ==
  /\ enabled \in BOOLEAN
  /\ process \in Deployments
  /\ registry = [p \in Processes |-> Zeros]
  /\ served = [p \in Processes |-> 0] /\ rejected = [p \in Processes |-> 0]
  /\ req = [t \in Threads |-> Idle]
  /\ handled = Zeros
  /\ sample = Zeros /\ inferred = Zeros

Total == SumFunction(handled)

Next ==
  \/ \E t \in Threads :
       \/ Handle(t) \/ Scrape(t) \/ Count(t)
       \/ Total < MaxTotal /\ \E c \in Clients, target \in Targets : Receive(t, c, target)
  \/ \E p \in Processes : Restart(p)

Spec == Init /\ [][Next]_vars

-----------------------------------------------------------------------------
(* Properties.                                                             *)

\* Every variable holds a value of its kind; no process accepts more than its share.
TypeOK ==
  /\ enabled \in BOOLEAN /\ process \in Deployments
  /\ registry \in [Processes -> [Targets -> Nat]]
  /\ served \in [Processes -> 0 .. MaxRequests] /\ rejected \in [Processes -> Nat]
  /\ \A p \in Processes : rejected[p] <= served[p]
  /\ req \in [Threads -> {Idle} \cup Requests]
  /\ handled \in [Targets -> Nat] /\ sample \in [Targets -> Nat] /\ inferred \in [Targets -> Nat]

\* metrics.py:71: between two replacements the registry of a process counts every request
\* that reaches MetricsMiddleware once, however it ends, and nothing else.
RegistryCountsEachRequestOnce ==
  enabled => \A p \in Processes :
    SumFunction(registry[p]) + Cardinality({t \in Threads : process[t] = p /\ req[t] # Idle})
      = served[p] - rejected[p]

\* metrics.py:55, start-gunicorn.sh:13: unresolved paths become labels without a bound of
\* their own; replacing the process is what limits the series of a registry.
SeriesAreBounded ==
  \A p \in Processes : Cardinality({l \in Targets : registry[p][l] > 0}) <= MaxRequests

NeverOvercounts == \A l \in Targets : inferred[l] <= handled[l]

\* With one process Prometheus never infers more requests than were handled, although the
\* counters start again from zero whenever the process is replaced.
OneProcessIsNotOvercounted == Cardinality(Range(process)) = 1 => NeverOvercounts
=============================================================================
