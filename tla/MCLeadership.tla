---------------------------- MODULE MCLeadership ----------------------------
(* Small instances of Leadership. *)
EXTENDS Leadership

\* Every command there is.
MCAllCommands == ConsensusAction \X LeaderAction

\* An operator who pauses the consensus and makes the node a follower.
MCPause == {<<"Pause", "Disable">>}
=============================================================================
