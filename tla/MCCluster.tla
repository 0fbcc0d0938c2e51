------------------------------ MODULE MCCluster ------------------------------
(* Two nodes; a receives two samples and may have two senders under way. *)
EXTENDS Cluster

CONSTANTS a, b, s1, s2

MCClient == {[from |-> a, to |-> b, slot |-> 1], [from |-> a, to |-> b, slot |-> 2],
             [from |-> b, to |-> a, slot |-> 1]}

MCHome == [s \in Sample |-> a]
=============================================================================
