----------------------------- MODULE ItemEvents -----------------------------
(***************************************************************************)
(* Delivery and execution of the Celery task process_item_event.           *)
(*                                                                         *)
(* The task is declared with acks_late and autoretry_for=(Exception,), and *)
(* the settings add task_reject_on_worker_lost, so a message stays with    *)
(* the broker until its task has run: a pool process that dies gives it    *)
(* back, a node that dies leaves it unacknowledged until the broker's      *)
(* visibility timeout, and a retry publishes a NEW message before the old  *)
(* one is acknowledged.  A connection to the broker may break at any time: *)
(* the task goes on, its late acknowledgement comes too late and the broker*)
(* delivers the message again.  The broker (Redis) and Celery's worker are *)
(* external: they are modelled from the settings and options the code uses.*)
(***************************************************************************)
EXTENDS Integers, FiniteSets, Functions

CONSTANTS Procs,       \* pool processes of all Celery workers
          Events,      \* task invocations: one per process_item_event.delay(...)
          Items,       \* item primary keys
          Malformed,   \* a string that is not a UUID
          Mistyped,    \* an argument that is not a string
          None,
          MaxRetries,  \* max_retries of the task (5 in the code)
          MaxInterruptions  \* bound: interruptions

ASSUME EventsAssumption ==
  None \notin Events \cup Items \cup {Malformed, Mistyped} /\ {Malformed, Mistyped} \cap Items = {} /\ Malformed # Mistyped
ASSUME ProcsAssumption == IsFiniteSet(Procs)
ASSUME BoundsAssumption == MaxRetries \in Nat /\ MaxInterruptions \in Nat

VARIABLES rows,       \* table example_item: the rows that exist
          about,      \* about[e]: the argument of event e, None before it is published
          ready,      \* ready[m]: copies of message m in the queue
          orphans,    \* orphans[m]: copies whose node or connection is gone, not acknowledged
          task,       \* what each pool process is executing
          processed,  \* processed[e]: how many times item_task_processed was logged for e
          outcome,    \* outcome[e]: how executions of e have ended
          interruptions  \* lost processes, nodes and broker connections and soft time limits
                         \* so far, each counted for every execution it hits

vars == <<rows, about, ready, orphans, task, processed, outcome, interruptions>>

\* A message carries the task's request: its id and the number of retries so far.
Messages == [event: Events, retries: 0 .. MaxRetries]
\* reserved: the broker still expects this execution to acknowledge the message.
Idle == [phase |-> "idle", event |-> None, retries |-> 0, reserved |-> FALSE]
Running(m, phase) == [phase |-> phase, event |-> m.event, retries |-> m.retries, reserved |-> TRUE]
Held(p) == [event |-> task[p].event, retries |-> task[p].retries]

Put(queue, m) == [queue EXCEPT ![m] = @ + 1]
Take(queue, m) == [queue EXCEPT ![m] = @ - 1]

Goto(p, phase) == task' = [task EXCEPT ![p].phase = phase]
Ends(p, result) == outcome' = [outcome EXCEPT ![task[p].event] = @ \cup {result}]

\* process_item_event.delay(item_id): nothing ties the call to the item's commit.
Publish(e) ==
  /\ about[e] = None
  /\ \E arg \in Items \cup {Malformed, Mistyped} : about' = [about EXCEPT ![e] = arg]
  /\ ready' = Put(ready, [event |-> e, retries |-> 0])
  /\ UNCHANGED <<rows, orphans, task, processed, outcome, interruptions>>

\* The other components insert and delete items at any time.
ItemsChange ==
  /\ \E i \in Items : rows' = IF i \in rows THEN rows \ {i} ELSE rows \cup {i}
  /\ UNCHANGED <<about, ready, orphans, task, processed, outcome, interruptions>>

\* Late acknowledgement: the message is only reserved.
Deliver(p) ==
  /\ task[p] = Idle
  /\ \E m \in Messages : /\ ready[m] > 0
                         /\ ready' = Take(ready, m)
                         /\ task' = [task EXCEPT ![p] = Running(m, "parse")]
  /\ UNCHANGED <<rows, about, orphans, processed, outcome, interruptions>>

\* autoretry_for=(Exception,): another attempt, or failure for good.
MayRetry(retries) == retries < MaxRetries

Raises(p) ==
  \/ MayRetry(task[p].retries) /\ Goto(p, "retry") /\ UNCHANGED outcome
  \/ ~MayRetry(task[p].retries) /\ Ends(p, "failed") /\ Goto(p, "ack")

\* Only a ValueError is caught: uuid.UUID raises others for what is not a string.
ParseId(p) ==
  /\ task[p].phase = "parse"
  /\ \/ about[task[p].event] = Malformed /\ Ends(p, "invalid") /\ Goto(p, "return")
     \/ about[task[p].event] = Mistyped /\ Raises(p)
     \/ about[task[p].event] \in Items /\ Goto(p, "query") /\ UNCHANGED outcome
  /\ UNCHANGED <<rows, about, ready, orphans, processed, interruptions>>

FindItem(p) ==
  /\ task[p].phase = "query"
  /\ \/ about[task[p].event] \in rows /\ Goto(p, "process") /\ UNCHANGED outcome
     \/ about[task[p].event] \notin rows /\ Ends(p, "missing") /\ Goto(p, "return")
  /\ UNCHANGED <<rows, about, ready, orphans, processed, interruptions>>

Process(p) ==
  /\ task[p].phase = "process"
  /\ processed' = [processed EXCEPT ![task[p].event] = @ + 1]
  /\ Ends(p, "processed")
  /\ Goto(p, "return")
  /\ UNCHANGED <<rows, about, ready, orphans, interruptions>>

QueryFails(p) ==
  /\ task[p].phase = "query"
  /\ Raises(p)
  /\ UNCHANGED <<rows, about, ready, orphans, processed, interruptions>>

\* SoftTimeLimitExceeded is an Exception, raised wherever the task is, even after
\* it has logged its result.
SoftTimeLimit(p) ==
  /\ task[p].phase \in {"parse", "query", "process", "return"}
  /\ interruptions < MaxInterruptions
  /\ Raises(p)
  /\ interruptions' = interruptions + 1
  /\ UNCHANGED <<rows, about, ready, orphans, processed>>

FallThrough == "query"                                   \* mutant: retry() not raised
AfterRetry == "ack"

\* Task.retry: a new message first, then the Retry exception ends this execution.
Retry(p) ==
  /\ task[p].phase = "retry"
  /\ ready' = Put(ready, [Held(p) EXCEPT !.retries = @ + 1])
  /\ Goto(p, AfterRetry)
  /\ UNCHANGED <<rows, about, orphans, processed, outcome, interruptions>>

\* The broker cannot be reached: Celery raises Reject(requeue=False) instead.
RetryNotPublished(p) ==
  /\ task[p].phase = "retry"
  /\ Ends(p, "rejected")
  /\ Goto(p, "ack")
  /\ UNCHANGED <<rows, about, ready, orphans, processed, interruptions>>

\* Without its connection the acknowledgement has no effect.
Ack(p) ==
  /\ task[p].phase \in {"return", "ack"}
  /\ task' = [task EXCEPT ![p] = Idle]
  /\ UNCHANGED <<rows, about, ready, orphans, processed, outcome, interruptions>>

\* The hard time limit kills the process; the message is acknowledged as a failure.
HardTimeLimit(p) ==
  /\ task[p].phase \in {"parse", "query", "process", "return", "retry"}
  /\ Ends(p, "timeout")
  /\ task' = [task EXCEPT ![p] = Idle]
  /\ UNCHANGED <<rows, about, ready, orphans, processed, interruptions>>

Acknowledged(p) == ready                                 \* mutant: no reject_on_worker_lost
Rejected(p) == IF task[p].reserved THEN Put(ready, Held(p)) ELSE ready

\* The pool process dies: task_reject_on_worker_lost puts the message back.
ProcessLost(p) ==
  /\ task[p].phase # "idle"
  /\ interruptions < MaxInterruptions
  /\ ready' = Rejected(p)
  /\ task' = [task EXCEPT ![p] = Idle]
  /\ interruptions' = interruptions + 1
  /\ UNCHANGED <<rows, about, orphans, processed, outcome>>

\* The whole worker dies: nobody acknowledges or rejects the message.
NodeLost(p) ==
  /\ task[p].phase # "idle"
  /\ interruptions < MaxInterruptions
  /\ orphans' = IF task[p].reserved THEN Put(orphans, Held(p)) ELSE orphans
  /\ task' = [task EXCEPT ![p] = Idle]
  /\ interruptions' = interruptions + 1
  /\ UNCHANGED <<rows, about, ready, processed, outcome>>

\* The worker's connection to the broker breaks: the execution goes on, but the
\* broker no longer takes its acknowledgement and will deliver the message again.
ConnectionLost(p) ==
  /\ task[p].phase # "idle" /\ task[p].reserved
  /\ interruptions < MaxInterruptions
  /\ orphans' = Put(orphans, Held(p))
  /\ task' = [task EXCEPT ![p].reserved = FALSE]
  /\ interruptions' = interruptions + 1
  /\ UNCHANGED <<rows, about, ready, processed, outcome>>

RestoresAnything(m) == TRUE                              \* mutant: acknowledged messages too
NeverExpired(m) == FALSE                                 \* mutant: no visibility timeout
Expired(m) == orphans[m] > 0

\* The visibility timeout of the Redis transport gives back what nobody will acknowledge.
\* It is longer than the task's hard time limit: a reserved message is not concerned.
Restore ==
  /\ \E m \in Messages : /\ Expired(m)
                         /\ orphans' = Take(orphans, m)
                         /\ ready' = Put(ready, m)
  /\ UNCHANGED <<rows, about, task, processed, outcome, interruptions>>

Init ==
  /\ rows \in SUBSET Items
  /\ about = [e \in Events |-> None]
  /\ ready = [m \in Messages |-> 0]
  /\ orphans = [m \in Messages |-> 0]
  /\ task = [p \in Procs |-> Idle]
  /\ processed = [e \in Events |-> 0]
  /\ outcome = [e \in Events |-> {}]
  /\ interruptions = 0

Work(p) ==
  \/ Deliver(p) \/ ParseId(p) \/ FindItem(p) \/ Process(p) \/ QueryFails(p)
  \/ Retry(p) \/ RetryNotPublished(p) \/ Ack(p)

Next ==
  \/ \E e \in Events : Publish(e)
  \/ ItemsChange
  \/ \E p \in Procs : Work(p) \/ SoftTimeLimit(p) \/ HardTimeLimit(p) \/ ProcessLost(p) \/ NodeLost(p)
                       \/ ConnectionLost(p)
  \/ Restore

Spec == Init /\ [][Next]_vars

\* Workers keep working and the broker's timeout expires; nothing has to be published
\* and nothing has to be lost. An idle process takes a message when there is one.
FairSpec == Spec /\ WF_vars(Restore) /\ \A p \in Procs : WF_vars(Work(p))

-----------------------------------------------------------------------------
(* Properties.                                                             *)

Phases == {"idle", "parse", "query", "process", "return", "retry", "ack"}
Outcomes == {"processed", "missing", "invalid", "failed", "timeout", "rejected"}

\* Every variable holds a value of its kind; retries stay within max_retries.
TypeOK ==
  /\ rows \subseteq Items
  /\ about \in [Events -> Items \cup {Malformed, Mistyped, None}]
  /\ ready \in [Messages -> Nat] /\ orphans \in [Messages -> Nat]
  /\ task \in [Procs -> [phase: Phases, event: Events \cup {None}, retries: 0 .. MaxRetries,
                     reserved: BOOLEAN]]
  /\ processed \in [Events -> Nat]
  /\ outcome \in [Events -> SUBSET Outcomes]
  /\ interruptions \in 0 .. MaxInterruptions

\* A published event that has not ended in any way is still held by the queue, by a
\* process or by the broker's unacknowledged set: no crash makes it vanish.
NoEventLost ==
  \A e \in Events : about[e] # None /\ outcome[e] = {} =>
    \/ \E m \in Messages : m.event = e /\ ready[m] + orphans[m] > 0
    \/ \E p \in Procs : task[p].event = e

\* The copies of an event's messages, and the executions that may still process it
\* or publish one.
MessagesOf(e) == {m \in Messages : m.event = e}
Copies(e) == SumFunctionOnSet([m \in Messages |-> ready[m] + orphans[m]], MessagesOf(e))
Attempts(e) ==
  {p \in Procs : task[p].event = e /\ task[p].phase \in {"parse", "query", "process", "retry"}}

\* Every processing beyond the first, and every message or execution that could still
\* lead to one, is the price of one interruption: a process, a node or a broker
\* connection lost during an execution, even after it has its result, or a soft time
\* limit. Retries and failing queries, however they interleave with the redeliveries,
\* never add one of their own (tasks.py:11-19, base.py:198-199).
DuplicatesNeedInterruptions ==
  \A e \in Events : processed[e] + Copies(e) + Cardinality(Attempts(e)) <= 1 + interruptions

\* Every published event ends: processed, missing, invalid, out of retries, timed out
\* or given up because its retry could not be published.
EveryEventEnds == \A e \in Events : about[e] # None ~> outcome[e] # {}
=============================================================================
