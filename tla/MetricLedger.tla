---------------------------- MODULE MetricLedger ----------------------------
(***************************************************************************)
(* What a node promises about the samples it gets, whatever its threads    *)
(* do: a sample comes in once and leaves once, through one of three exits. *)
(* It may be sent to the backend or discarded as a follower's only after   *)
(* it was shared with the other nodes, and it is shared at most once; the  *)
(* samples of other nodes are never shared.                                *)
(*                                                                         *)
(* Sharing can stop for good, with the last snapshot under way.            *)
(***************************************************************************)
CONSTANTS
    Sample,     \* metric readings that reach this node
    Peer        \* the samples that come from other nodes

VARIABLES
    stage,      \* where every sample is
    shared,     \* the samples put into a snapshot for the other nodes
    sharing     \* snapshots are still taken

vars == <<stage, shared, sharing>>

Exit == {"sent", "discarded", "lost"}

Stage == {"outside", "held"} \cup Exit

Init ==
    /\ stage = [s \in Sample |-> "outside"]
    /\ shared = {}
    /\ sharing = TRUE

\* All samples of S, which are at one of `from`, go to `to`.
Move(S, from, to) ==
    /\ \A s \in S : stage[s] \in from
    /\ stage' = [s \in Sample |-> IF s \in S THEN to ELSE stage[s]]

Accept(S) == Move(S, {"outside"}, "held") /\ UNCHANGED <<shared, sharing>>

\* Samples of a dead worker, of a broken line or of a clashing type.
Lose(S) == Move(S, {"outside", "held"}, "lost") /\ UNCHANGED <<shared, sharing>>

\* A snapshot of S is taken; what clashes with the samples kept is lost here.
Share(S, clashing) ==
    /\ sharing
    /\ S \cap (shared \cup Peer) = {} /\ clashing \subseteq S
    /\ \A s \in S : stage[s] = "held"
    /\ Move(clashing, {"held"}, "lost")
    /\ shared' = shared \cup S
    /\ UNCHANGED sharing

\* A rotation leaves the node.
Settle(S, exit) ==
    /\ sharing => S \subseteq shared \cup Peer
    /\ Move(S, {"held"}, exit)
    /\ UNCHANGED <<shared, sharing>>

\* The last snapshot fails and what it held is not shared after all.
StopSharing ==
    /\ sharing' = FALSE
    /\ shared' \in SUBSET shared
    /\ UNCHANGED stage

Next ==
    \/ \E S \in SUBSET Sample : Accept(S) \/ Lose(S) \/ Settle(S, "sent") \/ Settle(S, "discarded")
    \/ \E S \in SUBSET Sample : \E clashing \in SUBSET S : Share(S, clashing)
    \/ StopSharing

Spec == Init /\ [][Next]_vars
=============================================================================
