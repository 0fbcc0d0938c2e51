CONSTANTS
    s1 = s1  s2 = s2  s3 = s3
    r1 = r1  r2 = r2
    a1 = a1
    NoBuffer = NoBuffer
    W = 1
    Round = {r1}
    Addr = {a1}
    Sample = {s1, s2}
    Peer = {s2}
    Split = {}
    NameOf <- MCTwoNames
    TypeOf <- MCOneType
    MaxTimes = 1
    MaxUnparsed = 1
    Modes = {"separate"}
    Data <- MCData
    List <- MCList
    Route <- MCRoute
    MaxDead = 0
SPECIFICATION Spec
INVARIANTS NoUncountedLoss
