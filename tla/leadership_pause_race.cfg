CONSTANTS
    StartAsLeader = {FALSE}
    Command <- MCPause
    MayFailResolve = FALSE
SPECIFICATION Spec
PROPERTIES PausedMeansNoInfluence
