----------------------------- MODULE Consensus -----------------------------
(***************************************************************************)
(* The states of a consensus (main.rs: ConsensusState) and the commands    *)
(* operators send to a node (management.rs: ConsensusAction, LeaderAction). *)
(***************************************************************************)

ConsensusState == {"Enabled", "Paused", "Disabled"}

ConsensusAction == {"Enable", "Disable", "Pause", "Resume"}

LeaderAction == {"Unchanged", "Enable", "Disable"}

\* The consensus state after a command.
NewState(action) ==
    IF action = "Disable" THEN "Disabled" ELSE IF action = "Pause" THEN "Paused" ELSE "Enabled"

\* The leader state after a command.
NewLeader(action, isLeader) == IF action = "Unchanged" THEN isLeader ELSE action = "Enable"
=============================================================================
