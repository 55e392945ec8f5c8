----------------------------- MODULE MCMetrics ------------------------------
(* A small service for TLC: two threads in one process, or one in each of two. *)
EXTENDS Metrics

CONSTANTS p1, p2

MCDeployments == {[t \in Threads |-> p1], CHOOSE f \in [Threads -> Processes] : Range(f) = Processes}
MCNetworkOf == [cluster |-> {"inside"}]
\* Prometheus in the cluster, and a caller behind the ingress whose address is unknown.
MCClients == {[forwarded |-> <<>>, remote |-> "inside", token |-> None],
              [forwarded |-> <<"unknown", "inside">>, remote |-> "inside", token |-> None]}
=============================================================================
