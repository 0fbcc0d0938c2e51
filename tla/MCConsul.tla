------------------------------ MODULE MCConsul ------------------------------
(* Two nodes, a lock in Consul. *)
EXTENDS Consul

CONSTANTS n1, n2

\* An operator pauses, disables and resumes the consensus on the first node.
MCCommand == {n1} \X {"Pause", "Disable", "Resume"} \X {"Unchanged"}
=============================================================================
