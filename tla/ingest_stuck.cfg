SPECIFICATION FairSpec
CONSTANTS
    l1 = l1
    l2 = l2
    l3 = l3
    d1 = d1
    d2 = d2
    d3 = d3
    d0 = d0
    Listener = {l1, l2}
    ThreadOf <- MCOneThread
    Datagram = {d1, d2, d3}
    AddrOf <- MCAddrOf
    SizeOf <- MCSizeOf
    HashOf <- MCHashOf
    W = 1
    Config <- MCTwo
    MmPackets = 1
    BufSize = 1
    FlushLength = 2
    MayFail = FALSE
PROPERTIES NotStuck
