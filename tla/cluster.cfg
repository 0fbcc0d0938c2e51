CONSTANTS
    a = a  b = b
    s1 = s1  s2 = s2
    Node = {a, b}
    Sample = {s1, s2}
    Client <- MCClient
    Home <- MCHome
    Delay = 500
    Mul = 2
    DelayMax = 5000
    Retries = 1
    StatsInterval = {1000}
    MaxReported = 1
    MaxCrashes = 1
SPECIFICATION FairSpec
INVARIANTS TypeOK AtMostOnce CopiesAccounted GiveUpsReported
PROPERTIES EveryNodeSettles LeaderSends
