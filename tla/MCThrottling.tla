--------------------------- MODULE MCThrottling -----------------------------
(* A small service for TLC: two threads in one process, or one in each of two. *)
EXTENDS Throttling

CONSTANTS p1, p2

MCDeployments == {[t \in Threads |-> p1], CHOOSE f \in [Threads -> Processes] : Range(f) = Processes}
MCRate == [anon |-> 1, user |-> 2]
=============================================================================
