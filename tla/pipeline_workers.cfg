CONSTANTS
    s1 = s1  s2 = s2  s3 = s3
    r1 = r1  r2 = r2
    a1 = a1
    NoBuffer = NoBuffer
    W = 2
    Round = {r1}
    Addr = {a1}
    Sample = {s1, s2}
    Peer = {s2}
    Split = {}
    NameOf <- MCNameOf
    TypeOf <- MCClash
    MaxTimes = 1
    MaxUnparsed = 1
    Modes = {"common"}
    Data <- MCData
    List <- MCList
    Route <- MCRoute
    MaxDead = 1
SPECIFICATION FairSpec
INVARIANTS TypeOK IndInv OneTypePerName NoUncountedLoss
PROPERTIES Settles ImplementsLedger
