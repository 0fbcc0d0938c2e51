CONSTANTS
    n1 = n1
    n2 = n2
    Node = {n1, n2}
    StartAs = "Enabled"
    StartAsLeader = {n2}
    Command <- MCCommand
    TTL = 4
    RenewTime = 1
    ErrorPause = 1
    StatusPause = 1
    MaxRtt = 1
    MaxErrors = 1
SPECIFICATION FairSpec
INVARIANTS TypeOK SingleLeader LockKept
PROPERTIES Elected
