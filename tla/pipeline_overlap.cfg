CONSTANTS
    s1 = s1  s2 = s2  s3 = s3
    r1 = r1  r2 = r2
    a1 = a1
    NoBuffer = NoBuffer
    W = 1
    Round = {r1, r2}
    Addr = {a1}
    Sample = {s1, s2, s3}
    Peer = {s2}
    Split = {}
    NameOf <- MCNameOf
    TypeOf <- MCTypeOf
    MaxTimes = 1
    MaxUnparsed = 1
    Modes = {"single", "common", "separate"}
    Data <- MCData
    List <- MCList
    Route <- MCRoute
    MaxDead = 0
SPECIFICATION Spec
INVARIANTS CountedOnce ReplicatedOnce ReplicatedBeforeRotated
SYMMETRY MCSymmetry
