-------------------------- MODULE ReadinessProofs ---------------------------
(***************************************************************************)
(* Theorems about Readiness, for every set of workers and deployments and  *)
(* every failure threshold.                                                *)
(***************************************************************************)
EXTENDS Readiness, TLAPS

-----------------------------------------------------------------------------
(* The inductive invariant.                                                *)

Connections == [health: Healths, errored: BOOLEAN, aged: BOOLEAN, checked: BOOLEAN]

\* What holds of one worker: a request that runs beside an outage is known to be disturbed,
\* with health checks a statement meets a dead connection only in such a request, and a
\* worker that has lost a statement keeps the dead connection no longer than this request.
WorkerOK(w) ==
  /\ conn[w].health = "live" => dbUp
  /\ phase[w] # "idle" /\ ~dbUp => w \in disturbed
  /\ settings.healthChecks =>
       /\ conn[w].health = "dead" /\ phase[w] = "execute" => w \in disturbed
       /\ conn[w].health = "dead" /\ phase[w] = "cursor" /\ conn[w].checked => w \in disturbed
       /\ phase[w] = "failed" => w \in disturbed
  /\ w \in spent /\ conn[w].health = "dead" => phase[w] = "failed" /\ conn[w].errored

IInv == TypeOK /\ \A w \in Workers : WorkerOK(w)

-----------------------------------------------------------------------------
(* Lemmas about the connection object.                                     *)

USE WorkersAssumption, ThresholdAssumption

\* close_if_unusable_or_obsolete closes what has failed and is gone; a connection it marks
\* as checked is not a dead one.
LEMMA CloseOldCloses ==
  ASSUME NEW c \in Connections
  PROVE  /\ CloseOld(c) \in Connections
         /\ CloseOld(c).health \in {"none", c.health}
         /\ c.errored => CloseOld(c).health # "dead"
         /\ CloseOld(c).checked => CloseOld(c).health # "dead"
<1>1. CASE c.aged \/ (c.errored /\ c.health = "dead")
  BY <1>1 DEF CloseOld, NoConnection, Connection, Connections, Healths
<1>2. CASE ~(c.aged \/ (c.errored /\ c.health = "dead"))
  <2>1. CloseOld(c) = [health |-> c.health, errored |-> FALSE, aged |-> c.aged, checked |-> c.errored]
    BY <1>2 DEF CloseOld, Connections
  <2>2. CloseOld(c) \in Connections
    BY <2>1 DEF Connections
  <2>3. CloseOld(c).health = c.health /\ CloseOld(c).checked = c.errored
    BY <2>1
  <2> QED
    BY <1>2, <2>2, <2>3
<1> QED
  BY <1>1, <1>2

\* With DB_CONN_HEALTH_CHECKS a cursor keeps a dead connection only if its health check is
\* already done.
LEMMA HealthCheckedReplaces ==
  ASSUME NEW c \in Connections
  PROVE  /\ HealthChecked(c) \in Connections
         /\ HealthChecked(c).health \in {"none", c.health}
         /\ settings.healthChecks /\ HealthChecked(c).health = "dead" => c.checked
         /\ HealthChecked(c).health # "none" => HealthChecked(c).errored = c.errored
<1>1. CASE ~settings.healthChecks \/ c.checked
  BY <1>1 DEF HealthChecked
<1>2. CASE ~(~settings.healthChecks \/ c.checked) /\ c.health = "dead"
  BY <1>2 DEF HealthChecked, NoConnection, Connection, Connections, Healths
<1>3. CASE ~(~settings.healthChecks \/ c.checked) /\ c.health # "dead"
  <2>1. HealthChecked(c) = [health |-> c.health, errored |-> c.errored, aged |-> c.aged, checked |-> (c.health = "live")]
    BY <1>3 DEF HealthChecked, Connections
  <2>2. (c.health = "live") \in BOOLEAN
    BY Zenon
  <2>3. HealthChecked(c) \in Connections
    BY <2>1, <2>2 DEF Connections
  <2>4. HealthChecked(c).health = c.health /\ HealthChecked(c).errored = c.errored
    BY <2>1
  <2> QED
    BY <1>3, <2>3, <2>4
<1> QED
  BY <1>1, <1>2, <1>3

\* The two connections the code makes.
LEMMA MadeConnections ==
  /\ NoConnection \in Connections /\ NoConnection.health = "none"
  /\ NewConnection \in Connections /\ NewConnection.health = "live"
  BY DEF NoConnection, NewConnection, Connection, Connections, Healths

-----------------------------------------------------------------------------
(* Steps of one worker.                                                    *)

\* What a worker w does with its own connection and place concerns no other worker.
LEMMA OtherWorkers ==
  ASSUME IInv, NEW w \in Workers, UNCHANGED world,
         NEW c \in Connections, conn' = [conn EXCEPT ![w] = c],
         NEW place \in Phases, phase' = [phase EXCEPT ![w] = place],
         disturbed' \subseteq Workers, spent' \subseteq Workers,
         \A v \in Workers \ {w} : (v \in disturbed <=> v \in disturbed') /\ (v \in spent' => v \in spent),
         probed' \in Workers \cup {None}, failures' \in 0 .. FailureThreshold,
         WorkerOK(w)'
  PROVE  IInv'
<1>1. conn'[w] = c /\ phase'[w] = place /\ \A v \in Workers \ {w} : conn'[v] = conn[v] /\ phase'[v] = phase[v]
  BY DEF IInv, TypeOK
<1>2. UNCHANGED <<settings, dbUp, redisUp>>
  BY DEF world
<1>3. ASSUME NEW v \in Workers PROVE WorkerOK(v)'
  <2>1. CASE v # w
    <3>1. WorkerOK(v)
      BY DEF IInv
    <3> QED
      BY <1>1, <1>2, <2>1, <3>1 DEF WorkerOK
  <2> QED
    BY <2>1
<1>4. conn' \in [Workers -> Connections] /\ phase' \in [Workers -> Phases]
  BY DEF IInv, TypeOK, Connections
<1>5. TypeOK'
  BY <1>2, <1>3, <1>4 DEF IInv, TypeOK, WorkerOK, Connections
<1> QED
  BY <1>3, <1>5 DEF IInv

\* What the invariant says of the worker that takes a step.
LEMMA OfWorker ==
  ASSUME IInv, NEW w \in Workers
  PROVE  /\ conn[w] \in Connections /\ phase[w] \in Phases /\ WorkerOK(w)
         /\ conn = [conn EXCEPT ![w] = conn[w]]
         /\ disturbed \subseteq Workers /\ spent \subseteq Workers
         /\ probed \in Workers \cup {None} /\ failures \in 0 .. FailureThreshold
  BY DEF IInv, TypeOK, Connections

\* The count of failed probes stays within the threshold.
LEMMA CountType ==
  ASSUME TypeOK, NEW ok, Count(ok)
  PROVE  failures' \in 0 .. FailureThreshold
<1>1. failures' = 0 \/ (failures < FailureThreshold /\ failures' = failures + 1) \/ failures' = failures
  BY DEF Count, ready
<1> QED
  BY <1>1 DEF TypeOK

\* A request, or a probe, starts at a worker whose connection is looked at first.
LEMMA StartStep ==
  ASSUME IInv, NEW w \in Workers, NEW place \in {"cursor", "ensure"}, Start(w, place),
         probed' \in Workers \cup {None}, failures' \in 0 .. FailureThreshold
  PROVE  IInv'
<1> DEFINE c == CloseOld(conn[w])
<1>1. c \in Connections /\ c.health \in {"none", conn[w].health} /\ (c.checked => c.health # "dead")
  BY OfWorker, CloseOldCloses
<1>2. WorkerOK(w) /\ phase[w] = "idle" /\ UNCHANGED <<world, spent>>
  BY OfWorker DEF Start
<1>3. conn' = [conn EXCEPT ![w] = c] /\ phase' = [phase EXCEPT ![w] = place] /\ place \in Phases
  BY DEF Start, Goto, Phases
<1>4. conn'[w] = c /\ phase'[w] = place
  BY <1>3 DEF IInv, TypeOK
<1>5. disturbed' = IF dbUp THEN disturbed \ {w} ELSE disturbed \cup {w}
  BY DEF Start
<1>6. WorkerOK(w)'
  BY <1>1, <1>2, <1>4, <1>5 DEF WorkerOK, world
<1>7. disturbed' \subseteq Workers /\ spent' \subseteq Workers
      /\ \A v \in Workers \ {w} : (v \in disturbed <=> v \in disturbed') /\ (v \in spent' => v \in spent)
  BY <1>2, <1>5, OfWorker
<1> HIDE DEF c
<1> QED
  BY <1>1, <1>2, <1>3, <1>6, <1>7, OtherWorkers

\* close_old_connections at the end of a request gets rid of a connection that was lost.
LEMMA FinishStep ==
  ASSUME IInv, NEW w \in Workers, Finish(w)
  PROVE  IInv'
<1> DEFINE c == CloseOld(conn[w])
<1>1. c \in Connections /\ c.health \in {"none", conn[w].health} /\ (conn[w].errored => c.health # "dead")
  BY OfWorker, CloseOldCloses
<1>2. WorkerOK(w) /\ UNCHANGED <<world, spent, disturbed, kubelet>>
  BY OfWorker DEF Finish
<1>3. conn' = [conn EXCEPT ![w] = c] /\ phase' = [phase EXCEPT ![w] = "idle"] /\ "idle" \in Phases
  BY DEF Finish, Goto, Phases
<1>4. conn'[w] = c /\ phase'[w] = "idle"
  BY <1>3 DEF IInv, TypeOK
<1>6. WorkerOK(w)'
  BY <1>1, <1>2, <1>4 DEF WorkerOK, world
<1>7. /\ disturbed' \subseteq Workers /\ spent' \subseteq Workers
      /\ \A v \in Workers \ {w} : (v \in disturbed <=> v \in disturbed') /\ (v \in spent' => v \in spent)
      /\ probed' \in Workers \cup {None} /\ failures' \in 0 .. FailureThreshold
  BY <1>2, OfWorker DEF kubelet
<1> HIDE DEF c
<1> QED
  BY <1>1, <1>2, <1>3, <1>6, <1>7, OtherWorkers

\* A cursor is opened on a connection that was checked, or a new one.
LEMMA OpenCursorStep ==
  ASSUME IInv, NEW w \in Workers, OpenCursor(w)
  PROVE  IInv'
<1> DEFINE h == HealthChecked(conn[w])
<1>1. /\ h \in Connections /\ h.health \in {"none", conn[w].health}
      /\ (settings.healthChecks /\ h.health = "dead" => conn[w].checked)
  BY OfWorker, HealthCheckedReplaces
<1>2. WorkerOK(w) /\ phase[w] = "cursor" /\ UNCHANGED <<world, disturbed, spent, kubelet>>
  BY OfWorker DEF OpenCursor
<1>3. /\ disturbed' \subseteq Workers /\ spent' \subseteq Workers
      /\ \A v \in Workers \ {w} : (v \in disturbed <=> v \in disturbed') /\ (v \in spent' => v \in spent)
      /\ probed' \in Workers \cup {None} /\ failures' \in 0 .. FailureThreshold
  BY <1>2, OfWorker DEF kubelet
<1>4. PICK c \in Connections, place \in {"execute", "failed"} :
        /\ conn' = [conn EXCEPT ![w] = c] /\ phase' = [phase EXCEPT ![w] = place]
        /\ \/ c = h /\ h.health # "none" /\ place = "execute"
           \/ c.health = "live" /\ dbUp /\ place = "execute"
           \/ c = h /\ h.health = "none" /\ ~dbUp /\ place = "failed"
  BY <1>1, MadeConnections DEF OpenCursor, Goto
<1>5. conn'[w] = c /\ phase'[w] = place /\ place \in Phases
  BY <1>4 DEF IInv, TypeOK, Phases
<1> HIDE DEF h
<1>6. WorkerOK(w)'
  BY <1>1, <1>2, <1>4, <1>5 DEF WorkerOK, world
<1> QED
  BY <1>2, <1>3, <1>4, <1>5, <1>6, OtherWorkers

\* A statement on a dead connection fails in a request that the outage disturbed.
LEMMA ExecuteStep ==
  ASSUME IInv, NEW w \in Workers, Execute(w)
  PROVE  IInv'
<1>1. /\ conn[w] \in Connections /\ WorkerOK(w) /\ phase[w] = "execute"
      /\ UNCHANGED <<world, disturbed, kubelet>>
  BY OfWorker DEF Execute
<1>2. PICK e \in BOOLEAN, place \in {"answered", "failed"} :
        /\ conn' = [conn EXCEPT ![w].errored = e] /\ phase' = [phase EXCEPT ![w] = place]
        /\ \/ conn[w].health = "live" /\ place = "answered" /\ spent' = spent
           \/ conn[w].health = "dead" /\ place = "failed" /\ e = TRUE /\ spent' = spent \cup {w}
  BY DEF Execute, Goto
<1> DEFINE c == [health |-> conn[w].health, errored |-> e, aged |-> conn[w].aged, checked |-> conn[w].checked]
<1>3. c \in Connections /\ c.health = conn[w].health /\ c.errored = e
  BY <1>1 DEF Connections
<1>4. conn' = [conn EXCEPT ![w] = c]
  <2>1. [conn[w] EXCEPT !.errored = e] = c
    BY <1>1 DEF Connections
  <2> QED
    BY <1>2, <2>1
<1>5. conn'[w] = c /\ phase'[w] = place /\ place \in Phases
  BY <1>2, <1>4 DEF IInv, TypeOK, Phases
<1>6. /\ disturbed' \subseteq Workers /\ spent' \subseteq Workers
      /\ \A v \in Workers \ {w} : (v \in disturbed <=> v \in disturbed') /\ (v \in spent' => v \in spent)
      /\ probed' \in Workers \cup {None} /\ failures' \in 0 .. FailureThreshold
  BY <1>1, <1>2, OfWorker DEF kubelet
<1> HIDE DEF c
<1>7. WorkerOK(w)'
  BY <1>1, <1>2, <1>3, <1>5 DEF WorkerOK, world
<1> QED
  BY <1>1, <1>2, <1>3, <1>4, <1>5, <1>6, <1>7, OtherWorkers

\* The probe leaves the view or goes on to Redis; it opens no cursor.
LEMMA ProbeStep ==
  ASSUME IInv, NEW w \in Workers, TurnAway(w) \/ EnsureConnection(w) \/ PingRedis(w)
  PROVE  IInv'
<1>1. /\ conn[w] \in Connections /\ WorkerOK(w) /\ phase[w] \in {"ensure", "redis"}
      /\ UNCHANGED <<world, disturbed, spent>>
  BY OfWorker DEF TurnAway, EnsureConnection, PingRedis
<1>2. PICK c \in Connections, place \in {"redis", "answered"} :
        /\ conn' = [conn EXCEPT ![w] = c] /\ phase' = [phase EXCEPT ![w] = place]
        /\ c = conn[w] \/ (c.health = "live" /\ dbUp)
  <2>1. \A ok : Answer(w, ok) => phase' = [phase EXCEPT ![w] = "answered"]
    BY DEF Answer, Goto
  <2>2. CASE TurnAway(w) \/ PingRedis(w)
    BY <1>1, <2>1, <2>2, OfWorker DEF TurnAway, PingRedis
  <2>3. CASE EnsureConnection(w)
    <3>1. \/ phase' = [phase EXCEPT ![w] = "redis"]
          \/ phase' = [phase EXCEPT ![w] = "answered"]
      BY <2>1, <2>3 DEF EnsureConnection, Goto
    <3>2. \/ conn' = [conn EXCEPT ![w] = conn[w]]
          \/ dbUp /\ conn' = [conn EXCEPT ![w] = NewConnection]
      BY <2>3, OfWorker DEF EnsureConnection, Connectable
    <3> QED
      BY <1>1, <3>1, <3>2, MadeConnections
  <2> QED
    BY <2>2, <2>3
<1>3. probed' \in Workers \cup {None} /\ failures' \in 0 .. FailureThreshold
  <2>1. ASSUME NEW ok, Answer(w, ok) PROVE probed' \in Workers \cup {None} /\ failures' \in 0 .. FailureThreshold
    BY <2>1, CountType, OfWorker DEF Answer, kubelet, IInv
  <2> QED
    BY <2>1, OfWorker DEF TurnAway, EnsureConnection, PingRedis, kubelet
<1>4. conn'[w] = c /\ phase'[w] = place /\ place \in Phases
  BY <1>2 DEF IInv, TypeOK, Phases
<1>5. WorkerOK(w)'
  BY <1>1, <1>2, <1>4 DEF WorkerOK, world
<1>6. /\ disturbed' \subseteq Workers /\ spent' \subseteq Workers
      /\ \A v \in Workers \ {w} : (v \in disturbed <=> v \in disturbed') /\ (v \in spent' => v \in spent)
  BY <1>1, OfWorker
<1> QED
  BY <1>1, <1>2, <1>3, <1>4, <1>5, <1>6, OtherWorkers

\* A replaced worker has no connection and no request.
LEMMA RecycleStep ==
  ASSUME IInv, NEW w \in Workers, Recycle(w)
  PROVE  IInv'
<1>1. /\ conn' = [conn EXCEPT ![w] = NoConnection] /\ phase' = [phase EXCEPT ![w] = "idle"]
      /\ disturbed' = disturbed \ {w} /\ UNCHANGED <<world, spent>> /\ "idle" \in Phases
  BY DEF Recycle, Goto, Phases
<1>2. conn'[w] = NoConnection /\ phase'[w] = "idle"
  BY <1>1 DEF IInv, TypeOK
<1>3. WorkerOK(w)'
  BY <1>1, <1>2, MadeConnections DEF WorkerOK
<1>4. probed' \in Workers \cup {None} /\ failures' \in 0 .. FailureThreshold
  BY CountType, OfWorker DEF Recycle, kubelet, IInv
<1>5. /\ disturbed' \subseteq Workers /\ spent' \subseteq Workers
      /\ \A v \in Workers \ {w} : (v \in disturbed <=> v \in disturbed') /\ (v \in spent' => v \in spent)
  BY <1>1, OfWorker
<1> QED
  BY <1>1, <1>3, <1>4, <1>5, MadeConnections, OtherWorkers

\* The age of a connection is no part of the invariant.
LEMMA AgeStep ==
  ASSUME IInv, NEW w \in Workers, ConnectionAges(w)
  PROVE  IInv'
<1>1. conn[w] \in Connections /\ phase[w] \in Phases /\ WorkerOK(w) /\ UNCHANGED <<world, phase, disturbed, spent, kubelet>>
  BY OfWorker DEF ConnectionAges
<1> DEFINE c == [health |-> conn[w].health, errored |-> conn[w].errored, aged |-> TRUE, checked |-> conn[w].checked]
<1>2. /\ c \in Connections
      /\ c.health = conn[w].health /\ c.errored = conn[w].errored /\ c.checked = conn[w].checked
  BY <1>1 DEF Connections
<1>3. conn' = [conn EXCEPT ![w] = c]
  <2>1. \A d \in Connections, b \in BOOLEAN :
          [d EXCEPT !.aged = b] = [health |-> d.health, errored |-> d.errored, aged |-> b, checked |-> d.checked]
    BY DEF Connections
  <2> QED
    BY <1>1, <2>1 DEF ConnectionAges
<1>4. conn'[w] = c /\ phase'[w] = phase[w] /\ phase' = [phase EXCEPT ![w] = phase[w]]
  BY <1>1, <1>3 DEF IInv, TypeOK
<1> HIDE DEF c
<1>5. WorkerOK(w)'
  BY <1>1, <1>2, <1>4 DEF WorkerOK, world
<1>6. /\ disturbed' \subseteq Workers /\ spent' \subseteq Workers
      /\ \A v \in Workers \ {w} : (v \in disturbed <=> v \in disturbed') /\ (v \in spent' => v \in spent)
      /\ probed' \in Workers \cup {None} /\ failures' \in 0 .. FailureThreshold
  BY <1>1, OfWorker DEF kubelet
<1> QED
  BY <1>1, <1>2, <1>3, <1>4, <1>5, <1>6, OtherWorkers

-----------------------------------------------------------------------------
(* Steps of the environment.                                               *)

\* An outage disturbs every request that runs, and starts the count of lost statements anew.
LEMMA DatabaseStopsStep == IInv /\ DatabaseStops => IInv'
<1> SUFFICES ASSUME IInv, DatabaseStops PROVE IInv'
  OBVIOUS
<1>1. /\ dbUp' = FALSE /\ spent' = {} /\ disturbed' = disturbed \cup {w \in Workers : phase[w] # "idle"}
      /\ UNCHANGED <<settings, redisUp, phase, probed, failures>>
  BY DEF DatabaseStops, kubelet
<1>2. ASSUME NEW w \in Workers
      PROVE  /\ conn'[w] \in Connections /\ conn'[w].health # "live"
  <2>1. conn'[w] = IF conn[w].health = "live" THEN [conn[w] EXCEPT !.health = "dead"] ELSE conn[w]
    BY DEF DatabaseStops
  <2>2. conn[w] \in Connections
    BY OfWorker
  <2>3. [conn[w] EXCEPT !.health = "dead"] \in Connections /\ [conn[w] EXCEPT !.health = "dead"].health = "dead"
    BY <2>2 DEF Connections, Healths
  <2> QED
    BY <2>1, <2>2, <2>3
<1>3. conn' \in [Workers -> Connections]
  <2>1. conn' = [w \in Workers |-> conn'[w]]
    BY DEF DatabaseStops
  <2> QED
    BY <1>2, <2>1
<1>4. TypeOK'
  BY <1>1, <1>2, <1>3 DEF IInv, TypeOK, Connections
<1>5. ASSUME NEW w \in Workers PROVE WorkerOK(w)'
  <2>1. phase[w] # "idle" => w \in disturbed'
    BY <1>1
  <2> QED
    BY <1>1, <1>2, <2>1 DEF WorkerOK
<1> QED
  BY <1>4, <1>5 DEF IInv

\* The other steps of the environment are none of a worker's.
LEMMA EnvironmentStep ==
  ASSUME IInv, DatabaseReturns \/ RedisChanges \/ ProbeTimesOut \/ UNCHANGED vars
  PROVE  IInv'
<1>1. UNCHANGED <<settings, conn, phase, disturbed, spent>> /\ (dbUp => dbUp')
  <2>1. UNCHANGED <<settings, conn, phase, disturbed, spent>>
    BY DEF DatabaseReturns, RedisChanges, ProbeTimesOut, vars, world
  <2>2. dbUp' = TRUE \/ dbUp' = dbUp
    BY DEF DatabaseReturns, RedisChanges, ProbeTimesOut, vars, world
  <2> QED
    BY <2>1, <2>2
<1>2. dbUp' \in BOOLEAN /\ redisUp' \in BOOLEAN
  BY DEF DatabaseReturns, RedisChanges, ProbeTimesOut, vars, world, IInv, TypeOK
<1>3. probed' \in Workers \cup {None} /\ failures' \in 0 .. FailureThreshold
  BY CountType DEF DatabaseReturns, RedisChanges, ProbeTimesOut, vars, kubelet, IInv, TypeOK
<1>4. TypeOK'
  BY <1>1, <1>2, <1>3 DEF IInv, TypeOK
<1>5. ASSUME NEW w \in Workers PROVE WorkerOK(w)'
  BY <1>1, OfWorker DEF WorkerOK
<1> QED
  BY <1>4, <1>5 DEF IInv

\* A pod whose workers have just been forked satisfies the invariant.
LEMMA InitInvariant == Init => IInv
<1> SUFFICES ASSUME Init PROVE IInv
  OBVIOUS
<1>1. conn \in [Workers -> Connections] /\ \A w \in Workers : conn[w].health = "none" /\ phase[w] = "idle"
  BY MadeConnections DEF Init
<1>2. TypeOK
  BY <1>1 DEF Init, TypeOK, Connections, Phases
<1>3. \A w \in Workers : WorkerOK(w)
  BY <1>1 DEF Init, WorkerOK
<1> QED
  BY <1>2, <1>3 DEF IInv

-----------------------------------------------------------------------------
(* The theorems.                                                           *)

\* A worker's steps keep the invariant.
LEMMA WorkerStep ==
  ASSUME IInv, NEW w \in Workers,
         StartRequest(w) \/ StartProbe(w) \/ Proceed(w) \/ ConnectionAges(w) \/ Recycle(w)
  PROVE  IInv'
<1>1. CASE StartRequest(w)
  <2>1. Start(w, "cursor") /\ probed' \in Workers \cup {None} /\ failures' \in 0 .. FailureThreshold
    BY <1>1, OfWorker DEF StartRequest, kubelet
  <2> QED
    BY <2>1, StartStep
<1>2. CASE StartProbe(w)
  <2>1. Start(w, "ensure") /\ probed' \in Workers \cup {None} /\ failures' \in 0 .. FailureThreshold
    BY <1>2, OfWorker DEF StartProbe
  <2> QED
    BY <2>1, StartStep
<1>3. CASE Proceed(w)
  BY <1>3, ProbeStep, OpenCursorStep, ExecuteStep, FinishStep DEF Proceed
<1> QED
  BY <1>1, <1>2, <1>3, AgeStep, RecycleStep

\* The inductive invariant holds in every state, for every pod.
THEOREM Invariance == Spec => []IInv
<1>1. IInv /\ [Next]_vars => IInv'
  BY DatabaseStopsStep, EnvironmentStep, WorkerStep DEF Next
<1> QED
  BY InitInvariant, <1>1, PTL DEF Spec

\* Every variable of Readiness keeps its type, and a working connection has a database.
THEOREM TypeCorrect == Spec => []TypeOK
<1>1. IInv => TypeOK
  BY DEF IInv
<1> QED
  BY Invariance, <1>1, PTL

\* base.py:121: with DB_CONN_HEALTH_CHECKS only a request that ran beside an outage fails.
THEOREM OutagesAreHidden == Spec => []OutagesBetweenRequestsAreHidden
<1>1. IInv => OutagesBetweenRequestsAreHidden
  BY DEF IInv, WorkerOK, OutagesBetweenRequestsAreHidden
<1> QED
  BY Invariance, <1>1, PTL

\* Between two outages no worker loses a second statement, health checks or not.
THEOREM OneStatementIsLost == Spec => LosesOneStatement
<1>1. IInv /\ [Next]_vars => [\A w \in spent : ~(phase[w] = "execute" /\ phase'[w] = "failed")]_vars
  <2> SUFFICES ASSUME IInv, [Next]_vars, NEW w \in spent, phase[w] = "execute", phase'[w] = "failed" PROVE FALSE
    OBVIOUS
  <2>1. w \in Workers /\ conn[w].health # "dead"
    BY DEF IInv, TypeOK, WorkerOK
  <2>2. PICK v \in Workers : StartRequest(v) \/ StartProbe(v) \/ Proceed(v) \/ Recycle(v)
    BY DEF Next, DatabaseStops, DatabaseReturns, RedisChanges, ProbeTimesOut, ConnectionAges, vars
  <2>3. ASSUME NEW place, Goto(v, place) PROVE v = w /\ place = "failed"
    BY <2>1, <2>3 DEF Goto, IInv, TypeOK
  <2>4. ~(StartRequest(v) \/ StartProbe(v) \/ Finish(v) \/ Recycle(v))
    <3>1. ~Goto(v, "cursor") /\ ~Goto(v, "ensure") /\ ~Goto(v, "idle")
      BY <2>3
    <3> QED
      BY <3>1 DEF StartRequest, StartProbe, Start, Finish, Recycle
  <2>5. ~(TurnAway(v) \/ EnsureConnection(v) \/ PingRedis(v))
    BY <2>3 DEF TurnAway, EnsureConnection, PingRedis, Answer
  <2>6. ~(OpenCursor(v) \/ Execute(v))
    BY <2>1, <2>3 DEF OpenCursor, Execute
  <2> QED
    BY <2>2, <2>4, <2>5, <2>6 DEF Proceed
<1> QED
  BY Invariance, <1>1, PTL DEF Spec, LosesOneStatement
=============================================================================
