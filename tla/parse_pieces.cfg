CONSTANTS
    s1 = s1  s2 = s2  s3 = s3
    r1 = r1
    a1 = a1  a2 = a2
    NoBuffer = NoBuffer
    W = 1
    Round = {r1}
    Addr = {a1, a2}
    Sample = {s1, s2, s3}
    Peer = {}
    Split = {s1, s2}
    NameOf <- MCNameOf
    TypeOf <- MCTypeOf
    MaxTimes = 2
    MaxUnparsed = 1
    Data <- MCData
    Route <- MCRoute
SPECIFICATION Spec
INVARIANTS PiecewiseIsWhole ForgottenBySilence FirstTypeStays
