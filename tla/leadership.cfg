CONSTANTS
    StartAsLeader = {TRUE, FALSE}
    Command <- MCAllCommands
    MayFailResolve = TRUE
SPECIFICATION FairSpec
INVARIANTS TypeOK FollowsRaftUntouched ForcedStays PrintedIsApplied
PROPERTIES QueryEnds
CHECK_DEADLOCK FALSE
