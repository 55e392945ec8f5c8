--------------------------- MODULE MetricsProofs ----------------------------
(***************************************************************************)
(* Theorems about Metrics, for every number of processes, threads, clients *)
(* and paths and every value of --max-requests.                            *)
(***************************************************************************)
EXTENDS Metrics, SumProofs

-----------------------------------------------------------------------------
(* The inductive invariant.                                                *)

\* With METRICS_ENABLED off nothing is counted.
SilentWhenDisabled == ~enabled => \A p \in Processes : registry[p] = Zeros

\* Requests of a process that are past the outer middlewares and not yet counted.
Open(p) == {t \in Threads : process[t] = p /\ req[t] # Idle}

Alone(q) == \A t \in Threads : process[t] = q

\* What the next scrape would add is handled already. OneProcessIsNotOvercounted says so
\* of the past scrapes only, which no step from an unscraped registry preserves.
NextScrapeIsCovered(q) ==
  \A l \in Targets : inferred[l] + Increase(sample[l], registry[q][l]) <= handled[l]

IInv ==
  /\ TypeOK
  /\ SilentWhenDisabled
  /\ RegistryCountsEachRequestOnce
  /\ \A q \in Processes : Alone(q) => NextScrapeIsCovered(q)

-----------------------------------------------------------------------------
(* Lemmas about labels, sums and threads.                                  *)

\* There are finitely many labels.
LEMMA TargetsFinite == IsFiniteSet(Targets)
<1>1. IsFiniteSet({"items"} \cup {"metrics"})
  BY FS_Singleton, FS_Union
<1>2. Targets = ({"items"} \cup {"metrics"}) \cup Paths
  BY DEF Targets
<1> QED
  BY <1>1, <1>2, FS_Union, FiniteAssumption

\* A registry is summed over the labels.
LEMMA SumOverTargets ==
  ASSUME NEW r \in [Targets -> Nat]
  PROVE  SumFunction(r) = SumFunctionOnSet(r, Targets) /\ SumFunction(r) \in Nat
<1>1. DOMAIN r = Targets /\ \A l \in Targets : r[l] \in Nat
  OBVIOUS
<1>2. SumFunction(r) = SumFunctionOnSet(r, Targets)
  BY <1>1 DEF SumFunction
<1> QED
  BY <1>1, <1>2, TargetsFinite, SumType

\* One request more with one label is one more in the registry.
LEMMA SumIncremented ==
  ASSUME NEW r \in [Targets -> Nat], NEW l \in Targets
  PROVE  SumFunction([r EXCEPT ![l] = @ + 1]) = SumFunction(r) + 1
<1> DEFINE s == [r EXCEPT ![l] = @ + 1]
<1>1. s \in [Targets -> Nat] /\ s[l] = r[l] + 1 /\ \A m \in Targets \ {l} : s[m] = r[m]
  OBVIOUS
<1> HIDE DEF s
<1>2. SumFunction(s) = SumFunctionOnSet(s, Targets) /\ SumFunction(r) = SumFunctionOnSet(r, Targets)
  BY <1>1, SumOverTargets
<1>3. r[l] \in Nat /\ s[l] \in Nat /\ \A m \in Targets : r[m] \in Nat
  BY <1>1
<1>4. /\ SumFunctionOnSet(s, Targets) \in Nat /\ SumFunctionOnSet(r, Targets) \in Nat
      /\ SumFunctionOnSet(s, Targets) + r[l] = SumFunctionOnSet(r, Targets) + s[l]
  BY <1>1, <1>3, TargetsFinite, SumChanges
<1>5. SumFunction(s) = SumFunction(r) + 1
  BY <1>1, <1>2, <1>3, <1>4
<1> QED
  BY <1>5 DEF s

\* An empty registry has counted nothing.
LEMMA SumOfEmptyRegistry == SumFunction(Zeros) = 0
<1>1. DOMAIN Zeros = Targets /\ \A l \in Targets : Zeros[l] = 0
  BY DEF Zeros
<1> QED
  BY <1>1, TargetsFinite, SumOfZeros DEF SumFunction

\* A process has finitely many open requests.
LEMMA OpenFinite ==
  ASSUME NEW p
  PROVE  IsFiniteSet(Open(p)) /\ Cardinality(Open(p)) \in Nat
  BY FiniteAssumption, FS_Subset, FS_CardinalityType DEF Open

\* What one thread does changes the open requests of its process only, by that one.
LEMMA OpenChanges ==
  ASSUME process' = process, NEW t \in Threads, \A u \in Threads \ {t} : req'[u] = req[u], NEW p
  PROVE  /\ (process[t] # p \/ (req[t] = Idle <=> req'[t] = Idle)) => Cardinality(Open(p)') = Cardinality(Open(p))
         /\ (process[t] = p /\ req[t] = Idle /\ req'[t] # Idle) => Cardinality(Open(p)') = Cardinality(Open(p)) + 1
         /\ (process[t] = p /\ req[t] # Idle /\ req'[t] = Idle) => Cardinality(Open(p)') + 1 = Cardinality(Open(p))
<1>1. IsFiniteSet(Open(p)) /\ Cardinality(Open(p)) \in Nat
  BY OpenFinite
<1>2. ASSUME process[t] # p \/ (req[t] = Idle <=> req'[t] = Idle)
      PROVE  Cardinality(Open(p)') = Cardinality(Open(p))
  <2>1. Open(p)' = Open(p)
    BY <1>2 DEF Open
  <2> QED
    BY <2>1
<1>3. ASSUME process[t] = p, req[t] = Idle, req'[t] # Idle
      PROVE  Cardinality(Open(p)') = Cardinality(Open(p)) + 1
  <2>1. Open(p)' = Open(p) \cup {t} /\ t \notin Open(p)
    BY <1>3 DEF Open
  <2> QED
    BY <1>1, <2>1, FS_AddElement
<1>4. ASSUME process[t] = p, req[t] # Idle, req'[t] = Idle
      PROVE  Cardinality(Open(p)') + 1 = Cardinality(Open(p))
  <2>1. Open(p)' = Open(p) \ {t} /\ t \in Open(p)
    BY <1>4 DEF Open
  <2>2. Cardinality(Open(p)') = Cardinality(Open(p)) - 1
    BY <1>1, <2>1, FS_RemoveElement
  <2> QED
    BY <1>1, <2>2
<1> QED
  BY <1>2, <1>3, <1>4

\* The thread of a request at one of its places executes it.
LEMMA Executing ==
  ASSUME TypeOK, NEW t \in Threads, req[t] # Idle
  PROVE  /\ req[t] \in Requests /\ req[t].target \in Targets
         /\ process[t] \in Processes
  BY DeploymentsAssumption DEF TypeOK, Requests

\* A request on its way is another value than an idle thread.
LEMMA RequestsAreNotIdle == \A r \in Requests : r # Idle
  BY DEF Requests, Idle

-----------------------------------------------------------------------------
(* Each action keeps the invariant.                                        *)

CountedOnce(p) ==
  SumFunction(registry[p]) + Cardinality(Open(p)) = served[p] - rejected[p]

\* The invariant with its counting part by process.
LEMMA ByProcess ==
  IInv <=> /\ TypeOK /\ SilentWhenDisabled
           /\ enabled => \A p \in Processes : CountedOnce(p)
           /\ \A q \in Processes : Alone(q) => NextScrapeIsCovered(q)
  BY DEF IInv, RegistryCountsEachRequestOnce, CountedOnce, Open

\* A request accepted, and perhaps answered before it reaches the metrics middleware.
LEMMA ReceiveStep ==
  ASSUME IInv, NEW t \in Threads, NEW c \in Clients, NEW target \in Targets, Receive(t, c, target)
  PROVE  IInv'
<1> DEFINE p == process[t]
<1> TypeOK
  BY DEF IInv
<1>1. p \in Processes
  BY DeploymentsAssumption DEF TypeOK
<1>2. /\ UNCHANGED <<enabled, process, registry, handled, sample, inferred>>
      /\ served' = [served EXCEPT ![p] = @ + 1] /\ served[p] < MaxRequests /\ req[t] = Idle
  BY DEF Receive, MayAccept, settings, prometheus
<1>3. \/ rejected' = rejected /\ \E r \in Requests : req' = [req EXCEPT ![t] = r]
      \/ rejected' = [rejected EXCEPT ![p] = @ + 1] /\ req' = req
  <2>1. [at |-> "view", client |-> c, target |-> target] \in Requests
    BY DEF Requests
  <2> QED
    BY <2>1 DEF Receive
<1>4. served' \in [Processes -> 0 .. MaxRequests] /\ served[p] \in Nat /\ served'[p] = served[p] + 1
      /\ \A q \in Processes \ {p} : served'[q] = served[q]
  BY <1>1, <1>2, BoundsAssumption DEF TypeOK
<1>5. \A q \in Processes : served[q] \in Nat /\ rejected[q] \in Nat /\ rejected[q] <= served[q]
  BY BoundsAssumption DEF TypeOK
<1>6. req' \in [Threads -> {Idle} \cup Requests] /\ rejected' \in [Processes -> Nat]
  BY <1>1, <1>3 DEF TypeOK
<1>7. \A q \in Processes : rejected'[q] <= served'[q]
  <2> TAKE q \in Processes
  <2>1. rejected'[q] = rejected[q] \/ (q = p /\ rejected'[q] = rejected[q] + 1)
    BY <1>1, <1>3 DEF TypeOK
  <2>2. served'[q] = IF q = p THEN served[q] + 1 ELSE served[q]
    BY <1>4
  <2> QED
    BY <1>5, <2>1, <2>2
<1>8. TypeOK'
  BY <1>2, <1>4, <1>6, <1>7 DEF TypeOK
<1>9. SilentWhenDisabled'
  BY <1>2 DEF IInv, SilentWhenDisabled
<1>10. ASSUME enabled', NEW q \in Processes PROVE CountedOnce(q)'
  <2>1. CountedOnce(q) /\ registry'[q] = registry[q] /\ Cardinality(Open(q)) \in Nat
    BY <1>2, <1>10, ByProcess, OpenFinite
  <2>2. SumFunction(registry[q]) \in Nat
    BY SumOverTargets DEF TypeOK
  <2>3. CASE rejected' = rejected /\ \E r \in Requests : req' = [req EXCEPT ![t] = r]
    <3>1. req'[t] # Idle /\ \A u \in Threads \ {t} : req'[u] = req[u]
      BY <2>3, RequestsAreNotIdle DEF TypeOK
    <3>2. Cardinality(Open(q)') = IF q = p THEN Cardinality(Open(q)) + 1 ELSE Cardinality(Open(q))
      BY <1>2, <3>1, OpenChanges
    <3> QED
      BY <1>4, <1>5, <2>1, <2>2, <2>3, <3>2 DEF CountedOnce
  <2>4. CASE rejected' = [rejected EXCEPT ![p] = @ + 1] /\ req' = req
    <3>1. Open(q)' = Open(q)
      BY <1>2, <2>4 DEF Open
    <3>2. rejected'[q] = IF q = p THEN rejected[q] + 1 ELSE rejected[q]
      BY <1>1, <2>4 DEF TypeOK
    <3> QED
      BY <1>4, <1>5, <2>1, <2>2, <3>1, <3>2 DEF CountedOnce
  <2> QED
    BY <1>3, <2>3, <2>4
<1>11. \A q \in Processes : Alone(q)' => NextScrapeIsCovered(q)'
  BY <1>2 DEF IInv, Alone, NextScrapeIsCovered
<1> QED
  BY <1>8, <1>9, <1>10, <1>11 DEF IInv, RegistryCountsEachRequestOnce, CountedOnce, Open

\* The view ends, with an answer or an exception, and nothing is counted yet.
LEMMA HandleStep ==
  ASSUME IInv, NEW t \in Threads, Handle(t)
  PROVE  IInv'
<1> TypeOK
  BY DEF IInv
<1>1. UNCHANGED <<enabled, process, registry, served, rejected, handled, sample, inferred>> /\ req[t].at = "view"
  BY DEF Handle, settings, counters, prometheus
<1>2. req[t] # Idle
  BY <1>1 DEF Idle
<1>3. PICK end \in {"returned", "raised"} : req' = [req EXCEPT ![t].at = end]
  BY DEF Handle
<1>4. [req[t] EXCEPT !.at = end] \in Requests
  BY <1>2, Executing DEF Requests
<1>5. req'[t] \in Requests /\ req' \in [Threads -> {Idle} \cup Requests] /\ \A u \in Threads \ {t} : req'[u] = req[u]
  BY <1>3, <1>4 DEF TypeOK
<1>6. TypeOK'
  BY <1>1, <1>5 DEF TypeOK
<1>7. SilentWhenDisabled'
  BY <1>1 DEF IInv, SilentWhenDisabled
<1>8. ASSUME enabled', NEW q \in Processes PROVE CountedOnce(q)'
  <2>1. CountedOnce(q)
    BY <1>1, <1>8, ByProcess
  <2>2. Cardinality(Open(q)') = Cardinality(Open(q))
    BY <1>1, <1>2, <1>5, OpenChanges, RequestsAreNotIdle
  <2> QED
    BY <1>1, <2>1, <2>2 DEF CountedOnce
<1>9. \A q \in Processes : Alone(q)' => NextScrapeIsCovered(q)'
  BY <1>1 DEF IInv, Alone, NextScrapeIsCovered
<1> QED
  BY <1>6, <1>7, <1>8, <1>9 DEF IInv, RegistryCountsEachRequestOnce, CountedOnce, Open

\* Reading two equal samples adds nothing.
LEMMA IncreaseType ==
  ASSUME NEW old \in Nat, NEW new \in Nat
  PROVE  Increase(old, new) \in Nat /\ Increase(new, new) = 0 /\ Increase(old, 0) = 0
  BY DEF Increase

\* Prometheus takes the series of the process that answers: what it had yet to add to them
\* becomes what it has added.
LEMMA ScrapeStep ==
  ASSUME IInv, NEW t \in Threads, Scrape(t)
  PROVE  IInv'
<1> DEFINE shown == registry[process[t]]
<1> TypeOK
  BY DEF IInv
<1>1. /\ UNCHANGED <<enabled, process, registry, served, rejected, handled>> /\ req[t].at = "view"
      /\ sample' = [l \in Targets |-> IF shown[l] > 0 THEN shown[l] ELSE sample[l]]
      /\ inferred' = [l \in Targets |-> inferred[l] + IF shown[l] > 0 THEN Increase(sample[l], shown[l]) ELSE 0]
      /\ req' = [req EXCEPT ![t].at = "returned"]
  BY DEF Scrape, settings, counters
<1>2. req[t] # Idle
  BY <1>1 DEF Idle
<1>3. [req[t] EXCEPT !.at = "returned"] \in Requests /\ process[t] \in Processes
  BY <1>2, Executing DEF Requests
<1>4. req'[t] \in Requests /\ req' \in [Threads -> {Idle} \cup Requests] /\ \A u \in Threads \ {t} : req'[u] = req[u]
  BY <1>1, <1>3 DEF TypeOK
<1>5. \A l \in Targets : /\ shown[l] \in Nat /\ sample[l] \in Nat /\ inferred[l] \in Nat
                         /\ Increase(sample[l], shown[l]) \in Nat
  BY <1>3, IncreaseType DEF TypeOK
<1>6. sample' \in [Targets -> Nat] /\ inferred' \in [Targets -> Nat]
  <2>1. \A l \in Targets : (inferred[l] + IF shown[l] > 0 THEN Increase(sample[l], shown[l]) ELSE 0) \in Nat
    BY <1>5
  <2> HIDE DEF shown
  <2> QED
    BY <1>1, <1>5, <2>1
<1>7. TypeOK'
  BY <1>1, <1>4, <1>6 DEF TypeOK
<1>8. SilentWhenDisabled'
  BY <1>1 DEF IInv, SilentWhenDisabled
<1>9. ASSUME enabled', NEW q \in Processes PROVE CountedOnce(q)'
  <2>1. CountedOnce(q)
    BY <1>1, <1>9, ByProcess
  <2>2. Cardinality(Open(q)') = Cardinality(Open(q))
    BY <1>1, <1>2, <1>4, OpenChanges, RequestsAreNotIdle
  <2> QED
    BY <1>1, <2>1, <2>2 DEF CountedOnce
<1>10. ASSUME NEW q \in Processes, Alone(q)' PROVE NextScrapeIsCovered(q)'
  <2>1. NextScrapeIsCovered(q) /\ shown = registry[q]
    BY <1>1, <1>10 DEF IInv, Alone
  <2> SUFFICES ASSUME NEW l \in Targets
               PROVE  inferred'[l] + Increase(sample'[l], registry'[q][l]) <= handled'[l]
    BY DEF NextScrapeIsCovered
  <2>2. inferred[l] + Increase(sample[l], shown[l]) <= handled[l] /\ registry'[q][l] = shown[l] /\ handled'[l] = handled[l]
    BY <1>1, <2>1 DEF NextScrapeIsCovered
  <2>3. CASE shown[l] > 0
    <3>1. sample'[l] = shown[l] /\ inferred'[l] = inferred[l] + Increase(sample[l], shown[l])
      BY <1>1, <2>3
    <3>2. Increase(shown[l], shown[l]) = 0
      BY <1>5, IncreaseType
    <3> HIDE DEF shown
    <3> QED
      BY <1>5, <2>2, <3>1, <3>2
  <2>4. CASE ~(shown[l] > 0)
    <3>1. sample'[l] = sample[l] /\ inferred'[l] = inferred[l]
      BY <1>1, <1>5, <2>4
    <3> QED
      BY <2>2, <3>1
  <2> QED
    BY <2>3, <2>4
<1> QED
  BY <1>7, <1>8, <1>9, <1>10 DEF IInv, RegistryCountsEachRequestOnce, CountedOnce, Open

\* The middleware counts the request, once, whether it was answered or raised.
LEMMA CountStep ==
  ASSUME IInv, NEW t \in Threads, Count(t)
  PROVE  IInv'
<1> DEFINE p == process[t]
           label == req[t].target
<1> TypeOK
  BY DEF IInv
<1>1. /\ UNCHANGED <<enabled, process, served, rejected, sample, inferred>>
      /\ req[t].at \in {"returned", "raised"} /\ req' = [req EXCEPT ![t] = Idle]
      /\ registry' = IF enabled THEN [registry EXCEPT ![p][label] = @ + 1] ELSE registry
      /\ handled' = [handled EXCEPT ![label] = @ + 1]
  BY DEF Count, settings, prometheus, Increment
<1>2. req[t] # Idle
  BY <1>1 DEF Idle
<1>3. p \in Processes /\ label \in Targets
  BY <1>2, Executing
<1> HIDE DEF p, label
<1>4. req'[t] = Idle /\ req' \in [Threads -> {Idle} \cup Requests] /\ \A u \in Threads \ {t} : req'[u] = req[u]
  BY <1>1 DEF TypeOK
<1>5. handled' \in [Targets -> Nat] /\ handled'[label] = handled[label] + 1
      /\ \A l \in Targets \ {label} : handled'[l] = handled[l]
  BY <1>1, <1>3 DEF TypeOK
<1>6. enabled => /\ registry'[p] = [registry[p] EXCEPT ![label] = @ + 1]
                 /\ \A q \in Processes \ {p} : registry'[q] = registry[q]
  BY <1>1, <1>3 DEF TypeOK
<1>7. registry' \in [Processes -> [Targets -> Nat]]
  <2>1. registry[p] \in [Targets -> Nat]
    BY <1>3 DEF TypeOK
  <2>2. [registry[p] EXCEPT ![label] = @ + 1] \in [Targets -> Nat]
    BY <1>3, <2>1
  <2> QED
    BY <1>1, <1>3, <2>2 DEF TypeOK
<1>8. TypeOK'
  BY <1>1, <1>4, <1>5, <1>7 DEF TypeOK
<1>9. SilentWhenDisabled'
  BY <1>1 DEF IInv, SilentWhenDisabled
<1>10. ASSUME enabled', NEW q \in Processes PROVE CountedOnce(q)'
  <2>1. CountedOnce(q) /\ registry[q] \in [Targets -> Nat]
    BY <1>1, <1>10, ByProcess DEF TypeOK
  <2>2. SumFunction(registry[q]) \in Nat /\ Cardinality(Open(q)) \in Nat
    BY <2>1, OpenFinite, SumOverTargets
  <2>3. Cardinality(Open(q)') \in Nat
    BY <1>8, FiniteAssumption, FS_Subset, FS_CardinalityType DEF Open
  <2>4. CASE q = p
    <3>1. SumFunction(registry'[q]) = SumFunction(registry[q]) + 1
      BY <1>1, <1>3, <1>6, <1>10, <2>1, <2>4, SumIncremented
    <3>2. Cardinality(Open(q)') + 1 = Cardinality(Open(q))
      BY <1>1, <1>2, <1>4, <2>4, OpenChanges DEF p
    <3> QED
      BY <1>1, <2>1, <2>2, <2>3, <3>1, <3>2 DEF CountedOnce
  <2>5. CASE q # p
    <3>1. Cardinality(Open(q)') = Cardinality(Open(q))
      BY <1>1, <1>4, <2>5, OpenChanges DEF p
    <3> QED
      BY <1>1, <1>6, <1>10, <2>1, <2>5, <3>1 DEF CountedOnce
  <2> QED
    BY <2>4, <2>5
<1>11. ASSUME NEW q \in Processes, Alone(q)' PROVE NextScrapeIsCovered(q)'
  <2>1. NextScrapeIsCovered(q) /\ p = q
    BY <1>1, <1>11 DEF IInv, Alone, p
  <2> SUFFICES ASSUME NEW l \in Targets
               PROVE  inferred'[l] + Increase(sample'[l], registry'[q][l]) <= handled'[l]
    BY DEF NextScrapeIsCovered
  <2>2. inferred[l] + Increase(sample[l], registry[q][l]) <= handled[l]
    BY <2>1 DEF NextScrapeIsCovered
  <2>3. registry[q][l] \in Nat /\ sample[l] \in Nat /\ inferred[l] \in Nat /\ handled[l] \in Nat
    BY DEF TypeOK
  <2>4. sample'[l] = sample[l] /\ inferred'[l] = inferred[l]
    BY <1>1
  <2>5. CASE registry'[q][l] = registry[q][l]
    <3>1. handled'[l] >= handled[l]
      BY <1>5, <2>3
    <3>2. Increase(sample[l], registry[q][l]) \in Nat /\ handled'[l] \in Nat
      <4>1. Increase(sample[l], registry[q][l]) \in Nat
        BY <2>3, IncreaseType
      <4>2. handled'[l] \in Nat
        BY <1>5
      <4> QED
        BY <4>1, <4>2
    <3> QED
      BY <2>2, <2>3, <2>4, <2>5, <3>1, <3>2
  <2>6. CASE l = label /\ registry'[q][l] = registry[q][l] + 1
    <3>1. handled'[l] = handled[l] + 1
      BY <1>5, <2>6
    <3>2. Increase(sample[l], registry[q][l] + 1) <= Increase(sample[l], registry[q][l]) + 1
      BY <2>3 DEF Increase
    <3>3. Increase(sample[l], registry[q][l]) \in Nat /\ Increase(sample[l], registry[q][l] + 1) \in Nat
      <4>1. registry[q][l] + 1 \in Nat
        BY <2>3
      <4> QED
        BY <2>3, <4>1, IncreaseType
    <3> QED
      BY <2>2, <2>3, <2>4, <2>6, <3>1, <3>2, <3>3
  <2>7. registry'[q][l] = registry[q][l] \/ (l = label /\ registry'[q][l] = registry[q][l] + 1)
    <3>1. CASE enabled
      BY <1>3, <1>6, <2>1, <3>1 DEF TypeOK
    <3>2. CASE ~enabled
      BY <1>1, <3>2
    <3> QED
      BY <3>1, <3>2
  <2> QED
    BY <2>5, <2>6, <2>7
<1> QED
  BY <1>8, <1>9, <1>10, <1>11 DEF IInv, RegistryCountsEachRequestOnce, CountedOnce, Open

\* The registry of a replaced process starts again from nothing, with no request open.
LEMMA RestartStep ==
  ASSUME IInv, NEW p \in Processes, Restart(p)
  PROVE  IInv'
<1> TypeOK
  BY DEF IInv
<1>1. /\ UNCHANGED <<enabled, process, handled, sample, inferred>>
      /\ registry' = [registry EXCEPT ![p] = Zeros]
      /\ served' = [served EXCEPT ![p] = 0] /\ rejected' = [rejected EXCEPT ![p] = 0]
      /\ req' = [t \in Threads |-> IF process[t] = p THEN Idle ELSE req[t]]
  BY DEF Restart, settings, prometheus
<1>2. Zeros \in [Targets -> Nat] /\ 0 \in 0 .. MaxRequests
  BY BoundsAssumption DEF Zeros
<1>3. /\ registry' \in [Processes -> [Targets -> Nat]]
      /\ served' \in [Processes -> 0 .. MaxRequests] /\ rejected' \in [Processes -> Nat]
      /\ req' \in [Threads -> {Idle} \cup Requests]
  BY <1>1, <1>2 DEF TypeOK
<1>4. /\ registry'[p] = Zeros /\ served'[p] = 0 /\ rejected'[p] = 0
      /\ \A q \in Processes \ {p} : registry'[q] = registry[q] /\ served'[q] = served[q] /\ rejected'[q] = rejected[q]
  BY <1>1 DEF TypeOK
<1>5. \A q \in Processes : rejected'[q] <= served'[q]
  BY <1>4 DEF TypeOK
<1>6. TypeOK'
  BY <1>1, <1>3, <1>5 DEF TypeOK
<1>7. SilentWhenDisabled'
  BY <1>1, <1>4 DEF IInv, SilentWhenDisabled, Zeros
<1>8. ASSUME enabled', NEW q \in Processes PROVE CountedOnce(q)'
  <2>1. CASE q = p
    <3>1. Open(q)' = {}
      BY <1>1, <2>1 DEF Open
    <3>2. Cardinality(Open(q)') = 0
      BY <3>1, FS_EmptySet
    <3> QED
      BY <1>4, <2>1, <3>2, SumOfEmptyRegistry DEF CountedOnce
  <2>2. CASE q # p
    <3>1. Open(q)' = Open(q)
      BY <1>1, <2>2 DEF Open
    <3>2. CountedOnce(q)
      BY <1>1, <1>8, ByProcess
    <3> QED
      BY <1>4, <2>2, <3>1, <3>2 DEF CountedOnce
  <2> QED
    BY <2>1, <2>2
<1>9. ASSUME NEW q \in Processes, Alone(q)' PROVE NextScrapeIsCovered(q)'
  <2>1. NextScrapeIsCovered(q)
    BY <1>1, <1>9 DEF IInv, Alone
  <2>2. CASE q # p
    BY <1>1, <1>4, <2>1, <2>2 DEF NextScrapeIsCovered
  <2>3. CASE q = p
    <3> SUFFICES ASSUME NEW l \in Targets
                 PROVE  inferred'[l] + Increase(sample'[l], registry'[q][l]) <= handled'[l]
      BY DEF NextScrapeIsCovered
    <3>1. registry[q][l] \in Nat /\ sample[l] \in Nat /\ inferred[l] \in Nat /\ handled[l] \in Nat
      BY DEF TypeOK
    <3>2. Increase(sample[l], registry[q][l]) \in Nat /\ Increase(sample[l], 0) = 0
      BY <3>1, IncreaseType
    <3>3. registry'[q][l] = 0 /\ sample'[l] = sample[l] /\ inferred'[l] = inferred[l] /\ handled'[l] = handled[l]
      BY <1>1, <1>4, <2>3 DEF Zeros
    <3>4. inferred[l] + Increase(sample[l], registry[q][l]) <= handled[l]
      BY <2>1 DEF NextScrapeIsCovered
    <3> QED
      BY <3>1, <3>2, <3>3, <3>4
  <2> QED
    BY <2>2, <2>3
<1> QED
  BY <1>6, <1>7, <1>8, <1>9 DEF IInv, RegistryCountsEachRequestOnce, CountedOnce, Open

\* A service whose processes have just started satisfies the invariant.
LEMMA InitInvariant == Init => IInv
<1> SUFFICES ASSUME Init PROVE IInv
  OBVIOUS
<1>1. Zeros \in [Targets -> Nat] /\ 0 \in 0 .. MaxRequests /\ \A l \in Targets : Zeros[l] = 0
  BY BoundsAssumption DEF Zeros
<1>2. TypeOK
  BY <1>1 DEF Init, TypeOK
<1>3. SilentWhenDisabled
  BY DEF Init, SilentWhenDisabled
<1>4. ASSUME NEW p \in Processes PROVE CountedOnce(p)
  <2>1. Open(p) = {}
    BY DEF Open, Init
  <2> QED
    BY <2>1, FS_EmptySet, SumOfEmptyRegistry DEF Init, CountedOnce
<1>5. ASSUME NEW q \in Processes PROVE NextScrapeIsCovered(q)
  BY <1>1, IncreaseType DEF Init, NextScrapeIsCovered
<1> QED
  BY <1>2, <1>3, <1>4, <1>5, ByProcess

-----------------------------------------------------------------------------
(* The theorems.                                                           *)

\* The inductive invariant holds in every state, for every service.
THEOREM Invariance == Spec => []IInv
<1>1. IInv /\ [Next]_vars => IInv'
  <2>1. IInv /\ UNCHANGED vars => IInv'
    BY DEF vars, IInv, TypeOK, SilentWhenDisabled, RegistryCountsEachRequestOnce, Alone, NextScrapeIsCovered
  <2> QED
    BY <2>1, ReceiveStep, HandleStep, ScrapeStep, CountStep, RestartStep DEF Next
<1> QED
  BY InitInvariant, <1>1, PTL DEF Spec

\* Every variable of Metrics keeps its type; no process accepts more than --max-requests.
THEOREM TypeCorrect == Spec => []TypeOK
<1>1. IInv => TypeOK
  BY DEF IInv
<1> QED
  BY Invariance, <1>1, PTL

\* metrics.py:71: a registry counts every request that reaches the middleware exactly once.
THEOREM RequestsAreCountedOnce == Spec => []RegistryCountsEachRequestOnce
<1>1. IInv => RegistryCountsEachRequestOnce
  BY DEF IInv
<1> QED
  BY Invariance, <1>1, PTL

\* metrics.py:55, start-gunicorn.sh:13: a registry never has more series than --max-requests.
THEOREM SeriesStayBounded == Spec => []SeriesAreBounded
<1>1. IInv => SeriesAreBounded
  <2> SUFFICES ASSUME IInv, NEW p \in Processes
               PROVE  Cardinality({l \in Targets : registry[p][l] > 0}) <= MaxRequests
    BY DEF SeriesAreBounded
  <2> DEFINE Series == {l \in Targets : registry[p][l] > 0}
  <2>1. /\ registry[p] \in [Targets -> Nat] /\ MaxRequests \in Nat
        /\ served[p] \in 0 .. MaxRequests /\ rejected[p] \in Nat
    BY BoundsAssumption DEF IInv, TypeOK
  <2>2. CASE enabled
    <3>1. Cardinality(Series) <= SumFunction(registry[p])
      BY <2>1, TargetsFinite, SumOverTargets, SumCountsPositives
    <3>2. SumFunction(registry[p]) + Cardinality(Open(p)) = served[p] - rejected[p]
      BY <2>2, ByProcess DEF CountedOnce
    <3>3. SumFunction(registry[p]) \in Nat /\ Cardinality(Open(p)) \in Nat /\ Cardinality(Series) \in Nat
      BY <2>1, OpenFinite, SumOverTargets, TargetsFinite, FS_Subset, FS_CardinalityType
    <3> QED
      BY <2>1, <3>1, <3>2, <3>3
  <2>3. CASE ~enabled
    <3>1. Series = {}
      BY <2>3 DEF IInv, SilentWhenDisabled, Zeros
    <3> QED
      BY <2>1, <3>1, FS_EmptySet
  <2> QED
    BY <2>2, <2>3
<1> QED
  BY Invariance, <1>1, PTL

\* With one process behind the service Prometheus never infers more than was handled,
\* however often and whenever the process is replaced.
THEOREM OneProcessCountsAreSound == Spec => []OneProcessIsNotOvercounted
<1>1. IInv => OneProcessIsNotOvercounted
  <2> SUFFICES ASSUME IInv, Cardinality(Range(process)) = 1, NEW l \in Targets
               PROVE  inferred[l] <= handled[l]
    BY DEF OneProcessIsNotOvercounted, NeverOvercounts
  <2>1. process \in [Threads -> Processes]
    BY DeploymentsAssumption DEF IInv, TypeOK
  <2>2. IsFiniteSet(Range(process))
    <3>1. process \in Surjection(Threads, Range(process))
      BY <2>1 DEF Range, Surjection
    <3> QED
      BY <3>1, FiniteAssumption, FS_Surjection
  <2>3. PICK q : Range(process) = {q}
    BY <2>2, FS_Singleton
  <2>4. q \in Processes /\ Alone(q)
    BY <2>1, <2>3 DEF Range, Alone
  <2>5. inferred[l] + Increase(sample[l], registry[q][l]) <= handled[l]
    BY <2>4 DEF IInv, NextScrapeIsCovered
  <2>6. inferred[l] \in Nat /\ handled[l] \in Nat /\ sample[l] \in Nat /\ registry[q][l] \in Nat
    BY <2>4 DEF IInv, TypeOK
  <2>7. Increase(sample[l], registry[q][l]) \in Nat
    BY <2>6, IncreaseType
  <2> QED
    BY <2>5, <2>6, <2>7
<1> QED
  BY Invariance, <1>1, PTL
=============================================================================
