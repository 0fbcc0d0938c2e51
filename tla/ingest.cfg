SPECIFICATION Spec
CONSTANTS
    l1 = l1
    l2 = l2
    l3 = l3
    d1 = d1
    d2 = d2
    d3 = d3
    d0 = d0
    Listener = {l1, l2, l3}
    ThreadOf <- MCThreads
    Datagram = {d1, d2, d3, d0}
    AddrOf <- MCAddrOf
    SizeOf <- MCSizeOf
    HashOf <- MCHashOf
    W = 2
    Config <- MCConfigs
    MmPackets = 2
    BufSize = 1
    FlushLength = 3
    MayFail = TRUE
INVARIANTS TypeOK ReadOnce CounterIsHeld LossBounded InArrivalOrder FlushedAfterTick
CHECK_DEADLOCK FALSE
