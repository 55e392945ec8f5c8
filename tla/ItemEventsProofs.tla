-------------------------- MODULE ItemEventsProofs --------------------------
(***************************************************************************)
(* Theorems about ItemEvents, for every number of processes, events, items *)
(* and retries and every bound on interruptions.                           *)
(***************************************************************************)
EXTENDS ItemEvents, SumProofs

-----------------------------------------------------------------------------
(* The inductive invariant.                                                *)

\* A process that retries has a retry left: the message it publishes exists.
TaskOK(p) ==
  /\ task[p].phase = "idle" <=> task[p] = Idle
  /\ task[p].phase # "idle" => task[p].event \in Events
  /\ task[p].phase = "retry" => task[p].retries < MaxRetries

\* Nothing knows an event before it is published.
Unknown(e) ==
  /\ processed[e] = 0
  /\ \A m \in MessagesOf(e) : ready[m] + orphans[m] = 0
  /\ \A p \in Procs : task[p].event # e

\* The executions the broker would replace if they died: they have a message reserved.
Responsible(e) == {p \in Attempts(e) : task[p].reserved}

\* An event that has not ended has a message or an execution that still does something
\* for it and that is replaced if it dies. NoEventLost also counts executions that are
\* only about to be acknowledged or have lost their message to a broken connection, and
\* is not inductive for that reason.
Kept(e) ==
  \/ outcome[e] # {}
  \/ \E m \in MessagesOf(e) : ready[m] + orphans[m] > 0
  \/ \E p \in Procs : p \in Responsible(e)

Bounded(e) == processed[e] + Copies(e) + Cardinality(Attempts(e)) <= 1 + interruptions

EventOK(e) == (IF about[e] = None THEN Unknown(e) ELSE Kept(e)) /\ Bounded(e)

IInv == TypeOK /\ (\A p \in Procs : TaskOK(p)) /\ (\A e \in Events : EventOK(e))

-----------------------------------------------------------------------------
(* Lemmas about messages and executions.                                   *)

USE EventsAssumption, ProcsAssumption, BoundsAssumption

\* The copies of a message, in the queue or unacknowledged.
HeldCopies(m) == ready[m] + orphans[m]

\* An event has as many messages as there are numbers of retries.
LEMMA MessagesFinite ==
  ASSUME NEW e \in Events
  PROVE  IsFiniteSet(MessagesOf(e))
<1> DEFINE f == [r \in 0 .. MaxRetries |-> [event |-> e, retries |-> r]]
<1>1. f \in [0 .. MaxRetries -> MessagesOf(e)]
  BY DEF MessagesOf, Messages
<1>2. \A m \in MessagesOf(e) : \E r \in 0 .. MaxRetries : f[r] = m
  BY DEF MessagesOf, Messages
<1>3. f \in Surjection(0 .. MaxRetries, MessagesOf(e))
  BY <1>1, <1>2, Fun_IsSurj
<1> QED
  BY <1>3, FS_Interval, FS_Surjection

\* A copy more or less of one message is one more or less of its event's.
LEMMA CopiesChange ==
  ASSUME ready \in [Messages -> Nat], orphans \in [Messages -> Nat],
         ready' \in [Messages -> Nat], orphans' \in [Messages -> Nat],
         NEW m \in Messages, \A n \in Messages \ {m} : HeldCopies(n)' = HeldCopies(n),
         NEW e \in Events
  PROVE  /\ Copies(e) \in Nat /\ Copies(e)' \in Nat
         /\ m.event = e => Copies(e)' + HeldCopies(m) = Copies(e) + HeldCopies(m)'
         /\ m.event # e => Copies(e)' = Copies(e)
<1> DEFINE f == [n \in Messages |-> ready[n] + orphans[n]]
           g == [n \in Messages |-> ready'[n] + orphans'[n]]
<1>1. IsFiniteSet(MessagesOf(e)) /\ MessagesOf(e) \subseteq Messages
  BY MessagesFinite DEF MessagesOf
<1>2. /\ \A n \in MessagesOf(e) : f[n] \in Nat /\ g[n] \in Nat
      /\ f[m] = HeldCopies(m) /\ g[m] = HeldCopies(m)' /\ g[m] \in Nat
      /\ \A n \in MessagesOf(e) \ {m} : g[n] = f[n]
  BY <1>1 DEF HeldCopies
<1>3. Copies(e) = SumFunctionOnSet(f, MessagesOf(e)) /\ Copies(e)' = SumFunctionOnSet(g, MessagesOf(e))
  BY DEF Copies, MessagesOf
<1> HIDE DEF f, g
<1>4. Copies(e) \in Nat /\ Copies(e)' \in Nat
  BY <1>1, <1>2, <1>3, SumType
<1>5. CASE m.event = e
  <2>1. m \in MessagesOf(e)
    BY <1>5 DEF MessagesOf
  <2> QED
    BY <1>1, <1>2, <1>3, <1>4, <1>5, <2>1, SumChanges
<1>6. CASE m.event # e
  <2>1. \A n \in MessagesOf(e) : g[n] = f[n]
    BY <1>2, <1>6 DEF MessagesOf
  <2> QED
    BY <1>1, <1>2, <1>3, <1>4, <1>6, <2>1, SumSame
<1> QED
  BY <1>5, <1>6

\* Messages that stay as they are count as before.
LEMMA CopiesStay ==
  ASSUME ready \in [Messages -> Nat], orphans \in [Messages -> Nat],
         \A n \in Messages : HeldCopies(n)' = HeldCopies(n), NEW e \in Events
  PROVE  Copies(e) \in Nat /\ Copies(e)' = Copies(e)
<1> DEFINE f == [n \in Messages |-> ready[n] + orphans[n]]
           g == [n \in Messages |-> ready'[n] + orphans'[n]]
<1>1. IsFiniteSet(MessagesOf(e)) /\ MessagesOf(e) \subseteq Messages
  BY MessagesFinite DEF MessagesOf
<1>2. \A n \in MessagesOf(e) : f[n] \in Nat /\ g[n] = f[n]
  BY <1>1 DEF HeldCopies
<1>3. Copies(e) = SumFunctionOnSet(f, MessagesOf(e)) /\ Copies(e)' = SumFunctionOnSet(g, MessagesOf(e))
  BY DEF Copies, MessagesOf
<1> HIDE DEF f, g
<1> QED
  BY <1>1, <1>2, <1>3, SumType, SumSame

\* There are finitely many processes, so an event has finitely many executions.
LEMMA AttemptsFinite ==
  ASSUME NEW e
  PROVE  IsFiniteSet(Attempts(e)) /\ Cardinality(Attempts(e)) \in Nat
  BY FS_Subset, FS_CardinalityType DEF Attempts

\* What one process does changes the count of executions by that one.
LEMMA AttemptsChange ==
  ASSUME NEW p \in Procs, \A q \in Procs \ {p} : task'[q] = task[q], NEW e
  PROVE  /\ Cardinality(Attempts(e)) \in Nat /\ Cardinality(Attempts(e)') \in Nat
         /\ (p \in Attempts(e)) /\ (p \in Attempts(e)') => Cardinality(Attempts(e)') = Cardinality(Attempts(e))
         /\ (p \notin Attempts(e)) /\ (p \notin Attempts(e)') => Cardinality(Attempts(e)') = Cardinality(Attempts(e))
         /\ (p \in Attempts(e)) /\ (p \notin Attempts(e)') => Cardinality(Attempts(e)') = Cardinality(Attempts(e)) - 1
         /\ (p \notin Attempts(e)) /\ (p \in Attempts(e)') => Cardinality(Attempts(e)') = Cardinality(Attempts(e)) + 1
<1> DEFINE A == Attempts(e)
           B == Attempts(e)'
<1>1. IsFiniteSet(A) /\ Cardinality(A) \in Nat
  BY AttemptsFinite
<1>2. \A q \in Procs \ {p} : q \in A <=> q \in B
  BY DEF Attempts
<1>3. A \subseteq Procs /\ B \subseteq Procs
  BY DEF Attempts
<1>4. IsFiniteSet(B) /\ Cardinality(B) \in Nat
  BY <1>3, FS_Subset, FS_CardinalityType
<1> HIDE DEF A, B
<1>5. CASE (p \in A /\ p \in B) \/ (p \notin A /\ p \notin B)
  <2>1. A = B
    BY <1>2, <1>3, <1>5
  <2> QED
    BY <1>1, <1>5, <2>1 DEF A, B
<1>6. CASE p \in A /\ p \notin B
  <2>1. B = A \ {p}
    BY <1>2, <1>3, <1>6
  <2> QED
    BY <1>1, <1>4, <1>6, <2>1, FS_RemoveElement DEF A, B
<1>7. CASE p \notin A /\ p \in B
  <2>1. B = A \cup {p}
    BY <1>2, <1>3, <1>7
  <2> QED
    BY <1>1, <1>4, <1>7, <2>1, FS_AddElement DEF A, B
<1>8. \/ (p \in A /\ p \in B) \/ (p \notin A /\ p \notin B)
      \/ p \in A /\ p \notin B
      \/ p \notin A /\ p \in B
  OBVIOUS
<1> QED
  BY <1>5, <1>6, <1>7, <1>8

-----------------------------------------------------------------------------
(* The steps of a process that has a task.                                 *)

Active == {"parse", "query", "process", "retry"}

\* What a step may do to the event of its task: d more copies of a message, k more
\* processings, for i interruptions; and it may not give up the last thing that is done
\* for the event.
Messaged(p, m, d) ==
  /\ ready' \in [Messages -> Nat] /\ orphans' \in [Messages -> Nat]
  /\ m.event = task[p].event
  /\ \A n \in Messages \ {m} : HeldCopies(n)' = HeldCopies(n)
  /\ HeldCopies(m)' = HeldCopies(m) + d
Counted(p, k) ==
  /\ processed' \in [Events -> Nat]
  /\ \A e \in Events : processed'[e] = IF e = task[p].event THEN processed[e] + k ELSE processed[e]
Interrupted(i) == interruptions' = interruptions + i /\ interruptions' <= MaxInterruptions
Ended ==
  /\ outcome' \in [Events -> SUBSET Outcomes]
  /\ \A e \in Events : outcome[e] \subseteq outcome'[e]
Answers(t) == t.phase \in Active /\ t.reserved
NotGivenUp(p, d) ==
  outcome'[task[p].event] # {} \/ d = 1 \/ Answers(task'[p]) \/ ~Answers(task[p])
InBudget(p, d, k, i) ==
  d + k + (IF task'[p].phase \in Active THEN 1 ELSE 0) <= i + (IF task[p].phase \in Active THEN 1 ELSE 0)

\* Such a step keeps what is known of every event.
LEMMA ProcessStep ==
  ASSUME IInv, NEW p \in Procs, task[p].phase # "idle", UNCHANGED about,
         \A q \in Procs \ {p} : task'[q] = task[q],
         task'[p] = Idle \/ task'[p].event = task[p].event,
         NEW m \in Messages, NEW d \in {0, 1}, NEW k \in {0, 1}, NEW i \in {0, 1},
         Messaged(p, m, d), Counted(p, k), Interrupted(i), Ended, NotGivenUp(p, d), InBudget(p, d, k, i)
  PROVE  \A e \in Events : EventOK(e)'
<1> USE DEF Messaged, Counted, Interrupted, Ended, NotGivenUp, InBudget
<1> DEFINE E == task[p].event
<1> SUFFICES ASSUME NEW e \in Events PROVE EventOK(e)'
  OBVIOUS
<1>1. /\ E \in Events /\ ready \in [Messages -> Nat] /\ orphans \in [Messages -> Nat]
      /\ processed[e] \in Nat /\ interruptions \in Nat
  BY DEF IInv, TaskOK, TypeOK
<1>2. EventOK(e)
  BY DEF IInv
<1>3. /\ Copies(e) \in Nat /\ Copies(e)' \in Nat
      /\ m.event = e => Copies(e)' + HeldCopies(m) = Copies(e) + HeldCopies(m)'
      /\ m.event # e => Copies(e)' = Copies(e)
  BY <1>1, CopiesChange
<1>4. HeldCopies(m) \in Nat
  BY <1>1 DEF HeldCopies
<1>5. /\ p \in Attempts(e) <=> (e = E /\ task[p].phase \in Active)
      /\ (p \in Attempts(e)') <=> (e = E /\ task'[p].phase \in Active)
      /\ p \in Responsible(e) <=> (e = E /\ Answers(task[p]))
      /\ (p \in Responsible(e)') <=> (e = E /\ Answers(task'[p]))
  BY DEF Attempts, Responsible, Answers, Active, Idle
<1>6. /\ Cardinality(Attempts(e)) \in Nat /\ Cardinality(Attempts(e)') \in Nat
      /\ (p \in Attempts(e)) /\ (p \in Attempts(e)') => Cardinality(Attempts(e)') = Cardinality(Attempts(e))
      /\ (p \notin Attempts(e)) /\ (p \notin Attempts(e)') => Cardinality(Attempts(e)') = Cardinality(Attempts(e))
      /\ (p \in Attempts(e)) /\ (p \notin Attempts(e)') => Cardinality(Attempts(e)') = Cardinality(Attempts(e)) - 1
      /\ (p \notin Attempts(e)) /\ (p \in Attempts(e)') => Cardinality(Attempts(e)') = Cardinality(Attempts(e)) + 1
  BY AttemptsChange
<1>7. Bounded(e)'
  <2>1. CASE e = E
    <3>1. Copies(e)' = Copies(e) + d /\ processed'[e] = processed[e] + k
      BY <1>1, <1>3, <1>4, <2>1
    <3>2. Cardinality(Attempts(e)') = Cardinality(Attempts(e))
            + (IF task'[p].phase \in Active THEN 1 ELSE 0) - (IF task[p].phase \in Active THEN 1 ELSE 0)
      BY <1>5, <1>6, <2>1
    <3> QED
      BY <1>1, <1>2, <1>3, <1>6, <3>1, <3>2 DEF EventOK, Bounded
  <2>2. CASE e # E
    <3>1. Copies(e)' = Copies(e) /\ processed'[e] = processed[e] /\ Cardinality(Attempts(e)') = Cardinality(Attempts(e))
      BY <1>3, <1>5, <1>6, <2>2
    <3> QED
      BY <1>1, <1>2, <1>3, <1>6, <3>1 DEF EventOK, Bounded
  <2> QED
    BY <2>1, <2>2
<1>8. \A n \in MessagesOf(e) : HeldCopies(n) \in Nat /\ HeldCopies(n)' >= HeldCopies(n)
  BY <1>1, <1>4 DEF MessagesOf, HeldCopies
<1>9. CASE about[e] = None
  <2>1. Unknown(e) /\ e # E
    BY <1>2, <1>9 DEF EventOK, Unknown
  <2>2. \A n \in MessagesOf(e) : HeldCopies(n)' = HeldCopies(n)
    BY <2>1 DEF MessagesOf
  <2>3. \A q \in Procs : task'[q].event # e
    BY <2>1 DEF Unknown, Idle
  <2>4. Unknown(e)'
    BY <2>1, <2>2, <2>3 DEF Unknown, HeldCopies, MessagesOf
  <2> QED
    BY <1>7, <1>9, <2>4 DEF EventOK
<1>10. CASE about[e] # None
  <2>1. Kept(e)
    BY <1>2, <1>10 DEF EventOK
  <2>2. Kept(e)'
    <3>1. CASE outcome[e] # {}
      BY <3>1 DEF Kept
    <3>2. CASE \E n \in MessagesOf(e) : ready[n] + orphans[n] > 0
      <4>1. PICK n \in MessagesOf(e) : HeldCopies(n) > 0
        BY <3>2 DEF HeldCopies
      <4>2. HeldCopies(n)' > 0 /\ n \in MessagesOf(e)'
        BY <1>8, <4>1 DEF MessagesOf
      <4> QED
        BY <4>2 DEF Kept, HeldCopies
    <3>3. CASE \E q \in Procs \ {p} : q \in Responsible(e)
      BY <3>3 DEF Kept, Responsible, Attempts
    <3>4. CASE p \in Responsible(e)
      <4>1. e = E /\ Answers(task[p])
        BY <1>5, <3>4
      <4>2. CASE d = 1
        <5>1. HeldCopies(m)' > 0 /\ m \in MessagesOf(e)'
          BY <1>4, <4>1, <4>2 DEF MessagesOf
        <5> QED
          BY <5>1 DEF Kept, HeldCopies
      <4>3. CASE outcome'[E] # {} \/ Answers(task'[p])
        BY <1>5, <4>1, <4>3 DEF Kept
      <4> QED
        BY <4>1, <4>2, <4>3
    <3> QED
      BY <2>1, <3>1, <3>2, <3>3, <3>4 DEF Kept
  <2> QED
    BY <1>7, <1>10, <2>2 DEF EventOK
<1> QED
  BY <1>9, <1>10

Tasks == [phase: Phases, event: Events \cup {None}, retries: 0 .. MaxRetries, reserved: BOOLEAN]

\* The task after a step: t is it.
Becomes(p, t) ==
  /\ task' = [task EXCEPT ![p] = t]
  /\ t = Idle \/ (t.event = task[p].event /\ t.phase # "idle")
  /\ t.phase = "retry" => t.retries < MaxRetries

\* A step of a process that changes its task, and at most one message, keeps the invariant.
LEMMA TaskStep ==
  ASSUME IInv, NEW p \in Procs, task[p].phase # "idle", UNCHANGED <<rows, about>>,
         NEW t \in Tasks, Becomes(p, t),
         NEW m \in Messages, NEW d \in {0, 1}, NEW k \in {0, 1}, NEW i \in {0, 1},
         Messaged(p, m, d), Counted(p, k), Interrupted(i), Ended, NotGivenUp(p, d), InBudget(p, d, k, i)
  PROVE  IInv'
<1>1. task' \in [Procs -> Tasks] /\ task'[p] = t /\ \A q \in Procs \ {p} : task'[q] = task[q]
  BY DEF IInv, TypeOK, Tasks, Becomes
<1>2. TypeOK'
  BY <1>1 DEF IInv, TypeOK, Tasks, Messaged, Counted, Interrupted, Ended
<1>3. ASSUME NEW q \in Procs PROVE TaskOK(q)'
  <2>1. CASE q = p
    BY <1>1, <2>1 DEF IInv, TaskOK, Idle, Becomes
  <2>2. CASE q # p
    BY <1>1, <2>2 DEF IInv, TaskOK
  <2> QED
    BY <2>1, <2>2
<1>4. task'[p] = Idle \/ task'[p].event = task[p].event
  BY <1>1 DEF Becomes
<1>5. UNCHANGED about
  OBVIOUS
<1>6. \A e \in Events : EventOK(e)'
  BY <1>1, <1>4, <1>5, ProcessStep
<1> QED
  BY <1>2, <1>3, <1>6 DEF IInv

\* The message of a task, and what is known of the task.
LEMMA OfTask ==
  ASSUME IInv, NEW p \in Procs, task[p].phase # "idle"
  PROVE  /\ task[p] \in Tasks /\ task[p].event \in Events /\ Held(p) \in Messages
         /\ Held(p).event = task[p].event /\ Held(p).retries = task[p].retries
         /\ ready \in [Messages -> Nat] /\ orphans \in [Messages -> Nat]
         /\ processed \in [Events -> Nat] /\ outcome \in [Events -> SUBSET Outcomes]
         /\ interruptions \in 0 .. MaxInterruptions
         /\ \A n \in Messages : HeldCopies(n) \in Nat
         /\ Idle \in Tasks /\ Idle.phase \notin Active /\ ~Answers(Idle)
<1>1. task[p] \in Tasks /\ task[p].event \in Events
  BY DEF IInv, TypeOK, TaskOK, Tasks
<1>2. /\ Held(p) \in Messages /\ Held(p).event = task[p].event /\ Held(p).retries = task[p].retries
      /\ Idle \in Tasks /\ Idle.phase \notin Active /\ ~Answers(Idle)
  BY <1>1 DEF Tasks, Held, Messages, Idle, Phases, Active, Answers
<1>3. /\ ready \in [Messages -> Nat] /\ orphans \in [Messages -> Nat]
      /\ processed \in [Events -> Nat] /\ outcome \in [Events -> SUBSET Outcomes]
      /\ interruptions \in 0 .. MaxInterruptions
  BY DEF IInv, TypeOK
<1>4. \A n \in Messages : HeldCopies(n) \in Nat
  BY <1>3 DEF HeldCopies
<1> QED
  BY <1>1, <1>2, <1>3, <1>4

\* The task that a step makes of a task.
LEMMA BecomesTask ==
  ASSUME IInv, NEW p \in Procs, NEW t \in Tasks, Becomes(p, t)
  PROVE  task'[p] = t
  BY DEF IInv, TypeOK, Becomes

\* A step that leaves the messages alone.
LEMMA SilentStep ==
  ASSUME IInv, NEW p \in Procs, task[p].phase # "idle", UNCHANGED <<rows, about, ready, orphans>>,
         NEW t \in Tasks, Becomes(p, t), NEW k \in {0, 1}, NEW i \in {0, 1},
         Counted(p, k), Interrupted(i), Ended, NotGivenUp(p, 0), InBudget(p, 0, k, i)
  PROVE  IInv'
<1> PICK m \in Messages : m.event = task[p].event
  BY OfTask
<1>1. Messaged(p, m, 0)
  BY OfTask DEF HeldCopies, Messaged
<1>3. 0 \in {0, 1} /\ UNCHANGED <<rows, about>>
  OBVIOUS
<1> QED
  BY <1>1, <1>3, TaskStep

\* Goto moves the task of a process and nothing else.
LEMMA GotoTask ==
  ASSUME IInv, NEW p \in Procs, task[p].phase # "idle", NEW place \in Phases \ {"idle"}, Goto(p, place)
  PROVE  \E t \in Tasks : /\ task' = [task EXCEPT ![p] = t]
                          /\ t.event = task[p].event /\ t.retries = task[p].retries
                          /\ t.reserved = task[p].reserved /\ t.phase = place
<1>1. task[p] \in Tasks /\ task \in [Procs -> Tasks]
  BY OfTask DEF IInv, TypeOK, Tasks
<1> DEFINE t == [task[p] EXCEPT !.phase = place]
<1>2. /\ t \in Tasks /\ t.event = task[p].event /\ t.retries = task[p].retries
      /\ t.reserved = task[p].reserved /\ t.phase = place
  BY <1>1 DEF Tasks
<1>3. task' = [task EXCEPT ![p] = t]
  BY DEF Goto
<1> QED
  BY <1>2, <1>3

\* An ending is added to those of the event.
LEMMA EndsOutcome ==
  ASSUME IInv, NEW p \in Procs, task[p].phase # "idle", NEW result \in Outcomes, Ends(p, result)
  PROVE  /\ outcome' \in [Events -> SUBSET Outcomes]
         /\ \A e \in Events : outcome[e] \subseteq outcome'[e]
         /\ outcome'[task[p].event] # {}
<1>1. task[p].event \in Events /\ outcome \in [Events -> SUBSET Outcomes]
  BY OfTask
<1>2. outcome' = [outcome EXCEPT ![task[p].event] = outcome[task[p].event] \cup {result}]
  BY DEF Ends
<1> QED
  BY <1>1, <1>2

\* The two ends of a step that neither processes nor is an interruption: the execution goes
\* on, or it has an outcome.
LEMMA QuietStep ==
  ASSUME IInv, NEW p \in Procs, task[p].phase # "idle",
         UNCHANGED <<rows, about, ready, orphans, processed, interruptions>>,
         NEW t \in Tasks, Becomes(p, t), t.phase \in Active => task[p].phase \in Active,
         \/ UNCHANGED outcome /\ (Answers(t) \/ ~Answers(task[p]))
         \/ \E result \in Outcomes : Ends(p, result)
  PROVE  IInv'
<1>1. Counted(p, 0) /\ Interrupted(0)
  BY OfTask DEF Counted, Interrupted
<1>2. Ended /\ NotGivenUp(p, 0)
  BY OfTask, EndsOutcome, BecomesTask DEF Ended, NotGivenUp
<1>3. InBudget(p, 0, 0, 0)
  BY BecomesTask DEF InBudget
<1>4. 0 \in {0, 1} /\ UNCHANGED <<rows, about, ready, orphans>>
  OBVIOUS
<1> QED
  BY <1>1, <1>2, <1>3, <1>4, SilentStep

\* Raises goes to a retry that is left, or fails for good.
LEMMA RaisesTask ==
  ASSUME IInv, NEW p \in Procs, task[p].phase # "idle", Raises(p)
  PROVE  \E t \in Tasks : /\ Becomes(p, t)
                          /\ \/ UNCHANGED outcome /\ (Answers(t) \/ ~Answers(task[p]))
                             \/ (\E result \in Outcomes : Ends(p, result)) /\ t.phase \notin Active
<1>1. CASE MayRetry(task[p].retries) /\ Goto(p, "retry") /\ UNCHANGED outcome
  BY <1>1, GotoTask DEF MayRetry, Phases, Active, Answers, Becomes
<1>2. CASE ~MayRetry(task[p].retries) /\ Ends(p, "failed") /\ Goto(p, "ack")
  BY <1>2, GotoTask DEF Phases, Active, Outcomes, Becomes
<1> QED
  BY <1>1, <1>2 DEF Raises

-----------------------------------------------------------------------------
(* The steps, one by one.                                                  *)

\* ParseId, FindItem, a failing query, Ack, the hard time limit and a retry that cannot be
\* published: no copy is made and nothing is processed.
LEMMA QuietSteps ==
  ASSUME IInv, NEW p \in Procs,
         ParseId(p) \/ FindItem(p) \/ QueryFails(p) \/ RetryNotPublished(p) \/ Ack(p) \/ HardTimeLimit(p)
  PROVE  IInv'
<1>1. CASE ParseId(p)
  <2>1. task[p].phase = "parse" /\ UNCHANGED <<rows, about, ready, orphans, processed, interruptions>>
    BY <1>1 DEF ParseId
  <2>2. PICK t \in Tasks : /\ Becomes(p, t)
                           /\ \/ (Answers(t) \/ ~Answers(task[p])) /\ UNCHANGED outcome
                              \/ t.phase \notin Active /\ \E result \in Outcomes : Ends(p, result)
    <3>1. CASE Raises(p)
      BY <2>1, <3>1, RaisesTask
    <3>2. CASE Ends(p, "invalid") /\ Goto(p, "return")
      BY <2>1, <3>2, GotoTask DEF Becomes, Phases, Active, Outcomes
    <3>3. CASE Goto(p, "query") /\ UNCHANGED outcome
      BY <2>1, <3>3, GotoTask DEF Becomes, Phases, Active, Answers
    <3> QED
      BY <1>1, <3>1, <3>2, <3>3 DEF ParseId
  <2> QED
    BY <2>1, <2>2, QuietStep DEF Active
<1>2. CASE FindItem(p)
  <2>1. task[p].phase = "query" /\ UNCHANGED <<rows, about, ready, orphans, processed, interruptions>>
    BY <1>2 DEF FindItem
  <2>2. PICK t \in Tasks : /\ Becomes(p, t)
                           /\ \/ (Answers(t) \/ ~Answers(task[p])) /\ UNCHANGED outcome
                              \/ t.phase \notin Active /\ \E result \in Outcomes : Ends(p, result)
    <3>1. CASE Goto(p, "process") /\ UNCHANGED outcome
      BY <2>1, <3>1, GotoTask DEF Becomes, Phases, Active, Answers
    <3>2. CASE Ends(p, "missing") /\ Goto(p, "return")
      BY <2>1, <3>2, GotoTask DEF Becomes, Phases, Active, Outcomes
    <3> QED
      BY <1>2, <3>1, <3>2 DEF FindItem
  <2> QED
    BY <2>1, <2>2, QuietStep DEF Active
<1>3. CASE QueryFails(p)
  <2>1. /\ task[p].phase = "query" /\ Raises(p)
        /\ UNCHANGED <<rows, about, ready, orphans, processed, interruptions>>
    BY <1>3 DEF QueryFails
  <2>2. PICK t \in Tasks : /\ Becomes(p, t)
                           /\ \/ UNCHANGED outcome /\ (Answers(t) \/ ~Answers(task[p]))
                              \/ (\E result \in Outcomes : Ends(p, result)) /\ t.phase \notin Active
    BY <2>1, RaisesTask
  <2> QED
    BY <2>1, <2>2, QuietStep DEF Active
<1>4. CASE RetryNotPublished(p)
  <2>1. /\ task[p].phase = "retry" /\ Ends(p, "rejected") /\ Goto(p, "ack")
        /\ UNCHANGED <<rows, about, ready, orphans, processed, interruptions>>
    BY <1>4 DEF RetryNotPublished
  <2>2. PICK t \in Tasks : Becomes(p, t) /\ t.phase \notin Active
    BY <2>1, GotoTask DEF Becomes, Phases, Active
  <2> QED
    BY <2>1, <2>2, QuietStep DEF Active, Outcomes
<1>5. CASE Ack(p)
  <2>1. /\ task[p].phase \in {"return", "ack"} /\ task' = [task EXCEPT ![p] = Idle]
        /\ UNCHANGED <<rows, about, ready, orphans, processed, outcome, interruptions>>
    BY <1>5 DEF Ack
  <2>2. Becomes(p, Idle) /\ Idle \in Tasks /\ Idle.phase \notin Active /\ ~Answers(task[p])
    BY <2>1, OfTask DEF Becomes, Idle, Active, Answers
  <2> QED
    BY <2>1, <2>2, QuietStep
<1>6. CASE HardTimeLimit(p)
  <2>1. /\ task[p].phase # "idle" /\ Ends(p, "timeout") /\ task' = [task EXCEPT ![p] = Idle]
        /\ UNCHANGED <<rows, about, ready, orphans, processed, interruptions>>
    BY <1>6 DEF HardTimeLimit
  <2>2. Becomes(p, Idle) /\ Idle \in Tasks /\ Idle.phase \notin Active
    BY <2>1, OfTask DEF Becomes, Idle
  <2> QED
    BY <2>1, <2>2, QuietStep DEF Outcomes
<1> QED
  BY <1>1, <1>2, <1>3, <1>4, <1>5, <1>6

\* A processing ends the execution that did it.
LEMMA ProcessingStep ==
  ASSUME IInv, NEW p \in Procs, Process(p)
  PROVE  IInv'
<1>1. /\ task[p].phase = "process" /\ Ends(p, "processed") /\ Goto(p, "return")
      /\ UNCHANGED <<rows, about, ready, orphans, interruptions>>
  BY DEF Process
<1>2. PICK t \in Tasks : Becomes(p, t) /\ t.phase \notin Active
  BY <1>1, GotoTask DEF Becomes, Phases, Active
<1>3. Counted(p, 1)
  <2>1. processed' = [processed EXCEPT ![task[p].event] = processed[task[p].event] + 1]
    BY DEF Process
  <2> QED
    BY <1>1, <2>1, OfTask DEF Counted
<1>4. Interrupted(0) /\ Ended /\ NotGivenUp(p, 0)
  BY <1>1, OfTask, EndsOutcome DEF Interrupted, Ended, NotGivenUp, Outcomes
<1>5. InBudget(p, 0, 1, 0)
  BY <1>1, <1>2, BecomesTask DEF InBudget, Active
<1>6. 1 \in {0, 1} /\ 0 \in {0, 1} /\ task[p].phase # "idle" /\ UNCHANGED <<rows, about, ready, orphans>>
  BY <1>1
<1> QED
  BY <1>2, <1>3, <1>4, <1>5, <1>6, SilentStep

\* A soft time limit may bring an execution back that has its result: an interruption.
LEMMA SoftTimeLimitStep ==
  ASSUME IInv, NEW p \in Procs, SoftTimeLimit(p)
  PROVE  IInv'
<1>1. /\ task[p].phase # "idle" /\ Raises(p) /\ interruptions < MaxInterruptions /\ interruptions' = interruptions + 1
      /\ UNCHANGED <<rows, about, ready, orphans, processed>>
  BY DEF SoftTimeLimit
<1>2. PICK t \in Tasks : /\ Becomes(p, t)
                         /\ \/ UNCHANGED outcome /\ (Answers(t) \/ ~Answers(task[p]))
                            \/ (\E result \in Outcomes : Ends(p, result)) /\ t.phase \notin Active
  BY <1>1, RaisesTask
<1>3. Counted(p, 0) /\ Interrupted(1)
  BY <1>1, OfTask DEF Counted, Interrupted
<1>4. Ended /\ NotGivenUp(p, 0)
  BY <1>1, <1>2, OfTask, EndsOutcome, BecomesTask DEF Ended, NotGivenUp
<1>5. InBudget(p, 0, 0, 1)
  BY <1>2, BecomesTask DEF InBudget
<1>6. 1 \in {0, 1} /\ 0 \in {0, 1} /\ UNCHANGED <<rows, about, ready, orphans>>
  BY <1>1
<1> QED
  BY <1>1, <1>2, <1>3, <1>4, <1>5, <1>6, SilentStep

\* Putting a message into the queue makes one copy more of it.
LEMMA PutMessage ==
  ASSUME IInv, NEW p \in Procs, task[p].phase # "idle", NEW m \in Messages, m.event = task[p].event,
         \/ ready' = Put(ready, m) /\ UNCHANGED orphans
         \/ orphans' = Put(orphans, m) /\ UNCHANGED ready
  PROVE  Messaged(p, m, 1)
<1>1. ready \in [Messages -> Nat] /\ orphans \in [Messages -> Nat]
  BY OfTask
<1>2. ready' \in [Messages -> Nat] /\ orphans' \in [Messages -> Nat]
  BY <1>1 DEF Put
<1>3. \A n \in Messages \ {m} : ready'[n] = ready[n] /\ orphans'[n] = orphans[n]
  BY <1>1 DEF Put
<1>4. ready'[m] + orphans'[m] = ready[m] + orphans[m] + 1
  BY <1>1 DEF Put
<1> QED
  BY <1>2, <1>3, <1>4 DEF Messaged, HeldCopies

\* A retry turns its execution into a message.
LEMMA RetryStep ==
  ASSUME IInv, NEW p \in Procs, Retry(p)
  PROVE  IInv'
<1>1. /\ task[p].phase = "retry" /\ Goto(p, "ack") /\ ready' = Put(ready, [Held(p) EXCEPT !.retries = @ + 1])
      /\ UNCHANGED <<rows, about, orphans, processed, outcome, interruptions>>
  BY DEF Retry, AfterRetry
<1>2. task[p].retries < MaxRetries /\ task[p].event \in Events /\ task[p].retries \in 0 .. MaxRetries
  BY <1>1, OfTask DEF IInv, TaskOK, Tasks
<1>3. [Held(p) EXCEPT !.retries = @ + 1] = [event |-> task[p].event, retries |-> task[p].retries + 1]
  BY DEF Held
<1>4. PICK m \in Messages : m.event = task[p].event /\ ready' = Put(ready, m)
  BY <1>1, <1>2, <1>3 DEF Messages
<1>5. Messaged(p, m, 1)
  BY <1>1, <1>4, PutMessage
<1>6. PICK t \in Tasks : Becomes(p, t) /\ t.phase \notin Active
  BY <1>1, GotoTask DEF Becomes, Phases, Active
<1>7. Counted(p, 0) /\ Interrupted(0) /\ Ended /\ NotGivenUp(p, 1)
  BY <1>1, OfTask DEF Counted, Interrupted, Ended, NotGivenUp
<1>8. InBudget(p, 1, 0, 0)
  BY <1>1, <1>6, BecomesTask DEF InBudget, Active
<1>9. 1 \in {0, 1} /\ 0 \in {0, 1} /\ task[p].phase # "idle" /\ UNCHANGED <<rows, about>>
  BY <1>1
<1> QED
  BY <1>4, <1>5, <1>6, <1>7, <1>8, <1>9, TaskStep

\* A lost process or node leaves a copy of the message it has reserved, in the queue or
\* unacknowledged; without a connection there was another copy before.
LEMMA LostStep ==
  ASSUME IInv, NEW p \in Procs, ProcessLost(p) \/ NodeLost(p)
  PROVE  IInv'
<1>1. /\ task[p].phase # "idle" /\ task' = [task EXCEPT ![p] = Idle]
      /\ interruptions < MaxInterruptions /\ interruptions' = interruptions + 1
      /\ UNCHANGED <<rows, about, processed, outcome>>
  BY DEF ProcessLost, NodeLost
<1>4. Becomes(p, Idle) /\ Idle \in Tasks /\ Idle.phase \notin Active
  BY <1>1, OfTask DEF Becomes, Idle
<1>5. Counted(p, 0) /\ Interrupted(1) /\ Ended
  BY <1>1, OfTask DEF Counted, Interrupted, Ended
<1>6. InBudget(p, 1, 0, 1) /\ InBudget(p, 0, 0, 1)
  BY <1>4, BecomesTask DEF InBudget
<1>7. 1 \in {0, 1} /\ 0 \in {0, 1} /\ UNCHANGED <<rows, about>>
  BY <1>1
<1>8. CASE task[p].reserved
  <2>1. PICK m \in Messages : /\ m.event = task[p].event
                              /\ \/ ready' = Put(ready, m) /\ UNCHANGED orphans
                                 \/ orphans' = Put(orphans, m) /\ UNCHANGED ready
    BY <1>1, <1>8, OfTask DEF ProcessLost, NodeLost, Rejected
  <2>2. Messaged(p, m, 1)
    BY <1>1, <2>1, PutMessage
  <2>3. NotGivenUp(p, 1)
    BY DEF NotGivenUp
  <2> QED
    BY <1>1, <1>4, <1>5, <1>6, <1>7, <2>2, <2>3, TaskStep
<1>9. CASE ~task[p].reserved
  <2>1. UNCHANGED <<ready, orphans>>
    BY <1>9 DEF ProcessLost, NodeLost, Rejected
  <2>2. NotGivenUp(p, 0)
    BY <1>9 DEF NotGivenUp, Answers
  <2> QED
    BY <1>1, <1>4, <1>5, <1>6, <1>7, <2>1, <2>2, SilentStep
<1> QED
  BY <1>8, <1>9

\* A broken connection makes a copy of a message whose execution goes on.
LEMMA ConnectionLostStep ==
  ASSUME IInv, NEW p \in Procs, ConnectionLost(p)
  PROVE  IInv'
<1> DEFINE t == [task[p] EXCEPT !.reserved = FALSE]
<1>1. /\ task[p].phase # "idle" /\ task' = [task EXCEPT ![p] = t]
      /\ interruptions < MaxInterruptions /\ interruptions' = interruptions + 1
      /\ orphans' = Put(orphans, Held(p))
      /\ UNCHANGED <<rows, about, ready, processed, outcome>>
  BY DEF ConnectionLost
<1>2. Held(p) \in Messages /\ Messaged(p, Held(p), 1)
  BY <1>1, OfTask, PutMessage
<1>3. t \in Tasks /\ t.phase = task[p].phase /\ t.event = task[p].event /\ t.retries = task[p].retries
  BY <1>1, OfTask DEF Tasks
<1> HIDE DEF t
<1>4. Becomes(p, t)
  BY <1>1, <1>3 DEF Becomes, IInv, TaskOK
<1>5. Counted(p, 0) /\ Interrupted(1) /\ Ended /\ NotGivenUp(p, 1)
  BY <1>1, OfTask DEF Counted, Interrupted, Ended, NotGivenUp
<1>6. InBudget(p, 1, 0, 1)
  BY <1>3, <1>4, BecomesTask DEF InBudget
<1>7. 1 \in {0, 1} /\ 0 \in {0, 1} /\ UNCHANGED <<rows, about>>
  BY <1>1
<1> QED
  BY <1>1, <1>2, <1>3, <1>4, <1>5, <1>6, <1>7, TaskStep

\* Steps that leave executions and the number of copies alone.
LEMMA StillStep ==
  ASSUME IInv, rows' \subseteq Items, ready' \in [Messages -> Nat], orphans' \in [Messages -> Nat],
         \A n \in Messages : HeldCopies(n)' = HeldCopies(n),
         UNCHANGED <<about, task, processed, outcome, interruptions>>
  PROVE  IInv'
<1>1. TypeOK'
  BY DEF IInv, TypeOK
<1>2. \A p \in Procs : TaskOK(p)'
  BY DEF IInv, TaskOK
<1>3. ASSUME NEW e \in Events PROVE EventOK(e)'
  <2>1. EventOK(e) /\ ready \in [Messages -> Nat] /\ orphans \in [Messages -> Nat]
    BY DEF IInv, TypeOK
  <2>2. Copies(e)' = Copies(e)
    BY <2>1, CopiesStay
  <2>3. Attempts(e)' = Attempts(e) /\ Responsible(e)' = Responsible(e)
    BY DEF Attempts, Responsible
  <2>4. Bounded(e)'
    BY <2>1, <2>2, <2>3 DEF EventOK, Bounded
  <2>5. \A n \in MessagesOf(e) : ready'[n] + orphans'[n] = ready[n] + orphans[n]
    BY DEF HeldCopies, MessagesOf
  <2>6. about[e] = None => Unknown(e)'
    BY <2>1, <2>5 DEF EventOK, Unknown, MessagesOf
  <2>7. about[e] # None => Kept(e)'
    BY <2>1, <2>3, <2>5 DEF EventOK, Kept, MessagesOf
  <2> QED
    BY <2>4, <2>6, <2>7 DEF EventOK
<1> QED
  BY <1>1, <1>2, <1>3 DEF IInv

\* The visibility timeout moves a copy; items come and go without one.
LEMMA EnvironmentStep ==
  ASSUME IInv, Restore \/ ItemsChange \/ UNCHANGED vars
  PROVE  IInv'
<1>1. ready \in [Messages -> Nat] /\ orphans \in [Messages -> Nat] /\ rows \subseteq Items
  BY DEF IInv, TypeOK
<1>2. CASE Restore
  <2>1. PICK m \in Messages : orphans[m] > 0 /\ orphans' = Take(orphans, m) /\ ready' = Put(ready, m)
    BY <1>2 DEF Restore, Expired
  <2>2. ready' \in [Messages -> Nat] /\ orphans' \in [Messages -> Nat]
    BY <1>1, <2>1 DEF Put, Take
  <2>3. \A n \in Messages : HeldCopies(n)' = HeldCopies(n)
    BY <1>1, <2>1 DEF Put, Take, HeldCopies
  <2>4. rows' \subseteq Items /\ UNCHANGED <<about, task, processed, outcome, interruptions>>
    BY <1>1, <1>2 DEF Restore
  <2> QED
    BY <2>2, <2>3, <2>4, StillStep
<1>3. CASE ItemsChange \/ UNCHANGED vars
  <2>1. rows' \subseteq Items /\ UNCHANGED <<about, task, processed, outcome, interruptions, ready, orphans>>
    BY <1>1, <1>3 DEF ItemsChange, vars
  <2>2. \A n \in Messages : HeldCopies(n)' = HeldCopies(n)
    BY <2>1 DEF HeldCopies
  <2> QED
    BY <1>1, <2>1, <2>2, StillStep
<1> QED
  BY <1>2, <1>3

\* The first copy of an event is the only one.
LEMMA PublishStep ==
  ASSUME IInv, NEW e0 \in Events, Publish(e0)
  PROVE  IInv'
<1> DEFINE m == [event |-> e0, retries |-> 0]
<1>1. /\ about[e0] = None /\ UNCHANGED <<rows, orphans, task, processed, outcome, interruptions>>
      /\ m \in Messages /\ ready' = Put(ready, m) /\ m.event = e0
  BY DEF Publish, Messages
<1>2. ready \in [Messages -> Nat] /\ orphans \in [Messages -> Nat]
  BY DEF IInv, TypeOK
<1> HIDE DEF m
<1>3. /\ ready' \in [Messages -> Nat] /\ orphans' \in [Messages -> Nat]
      /\ \A n \in Messages \ {m} : HeldCopies(n)' = HeldCopies(n)
      /\ HeldCopies(m)' = HeldCopies(m) + 1 /\ HeldCopies(m) \in Nat
  BY <1>1, <1>2 DEF Put, HeldCopies
<1>4. /\ about' \in [Events -> Items \cup {Malformed, Mistyped, None}]
      /\ about'[e0] # None /\ \A e \in Events \ {e0} : about'[e] = about[e]
  BY DEF Publish, IInv, TypeOK
<1>5. TypeOK'
  BY <1>1, <1>3, <1>4 DEF IInv, TypeOK
<1>6. \A p \in Procs : TaskOK(p)'
  BY <1>1 DEF IInv, TaskOK
<1>7. ASSUME NEW e \in Events PROVE EventOK(e)'
  <2>1. EventOK(e) /\ processed[e] \in Nat /\ interruptions \in Nat
    BY DEF IInv, TypeOK
  <2>2. /\ Copies(e) \in Nat /\ Copies(e)' \in Nat
        /\ m.event = e => Copies(e)' + HeldCopies(m) = Copies(e) + HeldCopies(m)'
        /\ m.event # e => Copies(e)' = Copies(e)
    BY <1>1, <1>2, <1>3, CopiesChange
  <2>3. Attempts(e)' = Attempts(e) /\ Responsible(e)' = Responsible(e)
    BY <1>1 DEF Attempts, Responsible
  <2>4. CASE e = e0
    <3>1. Unknown(e)
      BY <1>1, <2>1, <2>4 DEF EventOK
    <3>2. Copies(e) = 0
      BY <3>1, MessagesFinite, SumOfZeros DEF Copies, Unknown, MessagesOf
    <3>3. Attempts(e) = {} /\ Cardinality({}) = 0
      BY <3>1, FS_EmptySet DEF Unknown, Attempts
    <3>4. Copies(e)' = 1 /\ processed'[e] = 0
      BY <1>1, <1>3, <2>2, <2>4, <3>1, <3>2 DEF Unknown
    <3>5. Bounded(e)'
      BY <1>1, <2>1, <2>3, <3>3, <3>4 DEF Bounded
    <3>6. m \in MessagesOf(e)' /\ ready'[m] + orphans'[m] > 0
      BY <1>1, <1>3, <2>4 DEF MessagesOf, HeldCopies
    <3> QED
      BY <1>4, <2>4, <3>5, <3>6 DEF EventOK, Kept
  <2>5. CASE e # e0
    <3>1. Bounded(e)'
      BY <1>1, <2>1, <2>2, <2>3, <2>5 DEF EventOK, Bounded
    <3>2. \A n \in MessagesOf(e) : ready'[n] + orphans'[n] = ready[n] + orphans[n]
      BY <1>1, <1>3, <2>5 DEF HeldCopies, MessagesOf
    <3>3. about[e] = None => Unknown(e)'
      BY <1>1, <2>1, <3>2 DEF EventOK, Unknown, MessagesOf
    <3>4. about[e] # None => Kept(e)'
      BY <1>1, <2>1, <2>3, <3>2 DEF EventOK, Kept, MessagesOf
    <3> QED
      BY <1>4, <2>5, <3>1, <3>3, <3>4 DEF EventOK
  <2> QED
    BY <2>4, <2>5
<1> QED
  BY <1>5, <1>6, <1>7 DEF IInv

\* A delivery turns a copy into an execution.
LEMMA DeliverStep ==
  ASSUME IInv, NEW p \in Procs, Deliver(p)
  PROVE  IInv'
<1>1. PICK m \in Messages : ready[m] > 0 /\ ready' = Take(ready, m) /\ task' = [task EXCEPT ![p] = Running(m, "parse")]
  BY DEF Deliver
<1>2. task[p] = Idle /\ UNCHANGED <<rows, about, orphans, processed, outcome, interruptions>>
  BY DEF Deliver
<1>3. ready \in [Messages -> Nat] /\ orphans \in [Messages -> Nat] /\ task \in [Procs -> Tasks]
  BY DEF IInv, TypeOK, Tasks
<1>4. m.event \in Events /\ m.retries \in 0 .. MaxRetries
  BY DEF Messages
<1>5. /\ ready' \in [Messages -> Nat] /\ orphans' \in [Messages -> Nat]
      /\ \A n \in Messages \ {m} : HeldCopies(n)' = HeldCopies(n)
      /\ HeldCopies(m)' = HeldCopies(m) - 1 /\ HeldCopies(m) \in Nat
  BY <1>1, <1>2, <1>3 DEF Take, HeldCopies
<1>6. Running(m, "parse") \in Tasks /\ Running(m, "parse").event = m.event /\ Running(m, "parse").phase = "parse"
      /\ Running(m, "parse").reserved
  BY <1>4 DEF Running, Tasks, Phases
<1>7. task' \in [Procs -> Tasks] /\ task'[p] = Running(m, "parse") /\ \A q \in Procs \ {p} : task'[q] = task[q]
  BY <1>1, <1>3, <1>6
<1>8. TypeOK'
  BY <1>2, <1>5, <1>7 DEF IInv, TypeOK, Tasks
<1>9. ASSUME NEW q \in Procs PROVE TaskOK(q)'
  BY <1>4, <1>6, <1>7 DEF IInv, TaskOK, Idle
<1>10. ASSUME NEW e \in Events PROVE EventOK(e)'
  <2>1. EventOK(e) /\ processed[e] \in Nat /\ interruptions \in Nat
    BY DEF IInv, TypeOK
  <2>2. /\ Copies(e) \in Nat /\ Copies(e)' \in Nat
        /\ m.event = e => Copies(e)' + HeldCopies(m) = Copies(e) + HeldCopies(m)'
        /\ m.event # e => Copies(e)' = Copies(e)
    BY <1>3, <1>5, CopiesChange
  <2>3. (p \notin Attempts(e)) /\ ((p \in Attempts(e)') <=> e = m.event)
    BY <1>2, <1>6, <1>7 DEF Attempts, Idle
  <2>4. /\ Cardinality(Attempts(e)) \in Nat /\ Cardinality(Attempts(e)') \in Nat
        /\ (p \notin Attempts(e)) /\ (p \notin Attempts(e)') => Cardinality(Attempts(e)') = Cardinality(Attempts(e))
        /\ (p \notin Attempts(e)) /\ (p \in Attempts(e)') => Cardinality(Attempts(e)') = Cardinality(Attempts(e)) + 1
    BY <1>7, AttemptsChange
  <2>5. CASE e = m.event
    <3>1. m \in MessagesOf(e) /\ ready[m] + orphans[m] > 0
      BY <1>1, <1>3, <2>5 DEF MessagesOf
    <3>2. about[e] # None
      BY <2>1, <3>1 DEF EventOK, Unknown
    <3>3. Copies(e)' = Copies(e) - 1 /\ Cardinality(Attempts(e)') = Cardinality(Attempts(e)) + 1
      BY <1>5, <2>2, <2>3, <2>4, <2>5
    <3>4. Bounded(e)'
      BY <1>2, <2>1, <2>2, <2>4, <3>3 DEF EventOK, Bounded
    <3>5. Kept(e)'
      BY <1>6, <1>7, <2>3, <2>5 DEF Kept, Responsible
    <3> QED
      BY <1>2, <3>2, <3>4, <3>5 DEF EventOK
  <2>6. CASE e # m.event
    <3>1. Copies(e)' = Copies(e) /\ Cardinality(Attempts(e)') = Cardinality(Attempts(e))
      BY <2>2, <2>3, <2>4, <2>6
    <3>2. Bounded(e)'
      BY <1>2, <2>1, <3>1 DEF EventOK, Bounded
    <3>3. \A n \in MessagesOf(e) : ready'[n] + orphans'[n] = ready[n] + orphans[n]
      BY <1>5, <2>6 DEF HeldCopies, MessagesOf
    <3>4. about[e] = None => Unknown(e)'
      BY <1>2, <1>6, <1>7, <2>1, <2>6, <3>3 DEF EventOK, Unknown, MessagesOf
    <3>5. \A q \in Responsible(e) : (q \in Responsible(e)')
      BY <1>7, <2>3 DEF Attempts, Responsible
    <3>6. about[e] # None => Kept(e)'
      BY <1>2, <2>1, <3>3, <3>5 DEF EventOK, Kept, MessagesOf
    <3> QED
      BY <1>2, <3>2, <3>4, <3>6 DEF EventOK
  <2> QED
    BY <2>5, <2>6
<1> QED
  BY <1>8, <1>9, <1>10 DEF IInv

\* Nothing is published at first.
LEMMA InitInvariant == Init => IInv
<1> SUFFICES ASSUME Init PROVE IInv
  OBVIOUS
<1>1. ready \in [Messages -> Nat] /\ orphans \in [Messages -> Nat] /\ Idle \in Tasks /\ Idle.phase = "idle"
  BY DEF Init, Idle, Tasks, Phases
<1>2. TypeOK
  BY <1>1 DEF Init, TypeOK, Tasks
<1>3. \A p \in Procs : TaskOK(p)
  BY <1>1 DEF Init, TaskOK
<1>4. ASSUME NEW e \in Events PROVE EventOK(e)
  <2>1. \A n \in MessagesOf(e) : [x \in Messages |-> ready[x] + orphans[x]][n] = 0
    BY DEF Init, MessagesOf
  <2>2. Copies(e) = 0
    BY <2>1, MessagesFinite, SumOfZeros DEF Copies
  <2>3. Attempts(e) = {} /\ Cardinality({}) = 0
    BY FS_EmptySet DEF Init, Attempts, Idle
  <2>4. Unknown(e)
    BY DEF Init, Unknown, Idle, MessagesOf
  <2> QED
    BY <2>2, <2>3, <2>4 DEF Init, EventOK, Bounded
<1> QED
  BY <1>2, <1>3, <1>4 DEF IInv

-----------------------------------------------------------------------------
(* The theorems.                                                           *)

\* The inductive invariant holds in every state, for every number of processes, events and
\* retries.
THEOREM Invariance == Spec => []IInv
<1>1. IInv /\ [Next]_vars => IInv'
  BY PublishStep, DeliverStep, QuietSteps, ProcessingStep, SoftTimeLimitStep, RetryStep, LostStep, ConnectionLostStep,
     EnvironmentStep
  DEF Next, Work
<1> QED
  BY InitInvariant, <1>1, PTL DEF Spec

\* Every variable of ItemEvents keeps its type; no message has more than max_retries.
THEOREM TypeCorrect == Spec => []TypeOK
<1>1. IInv => TypeOK
  BY DEF IInv
<1> QED
  BY Invariance, <1>1, PTL

\* base.py:198: late acknowledgement, rejection and the visibility timeout lose no event,
\* whatever dies.
THEOREM EventsAreNotLost == Spec => []NoEventLost
<1>1. IInv => NoEventLost
  <2> SUFFICES ASSUME IInv, NEW e \in Events, about[e] # None, outcome[e] = {}
               PROVE  \/ \E m \in Messages : m.event = e /\ ready[m] + orphans[m] > 0
                      \/ \E p \in Procs : task[p].event = e
    BY DEF NoEventLost
  <2> QED
    BY DEF IInv, EventOK, Kept, MessagesOf, Responsible, Attempts
<1> QED
  BY Invariance, <1>1, PTL

\* tasks.py:11, base.py:198: n interruptions, broker connections lost before the late
\* acknowledgement among them, cost an event at most n processings beyond the first, for
\* every number of workers, retries and events.
THEOREM DuplicatesAreInterruptions == Spec => []DuplicatesNeedInterruptions
<1>1. IInv => DuplicatesNeedInterruptions
  BY DEF IInv, EventOK, Bounded, DuplicatesNeedInterruptions
<1> QED
  BY Invariance, <1>1, PTL
=============================================================================
