SPECIFICATION Spec
CONSTANTS
    p1 = p1
    p2 = p2
    p3 = p3
    c1 = c1
    c2 = c2
    Rates = {1, 2}
    MaxTime = 3
    MaxQueue = 2
    Packets = {p1, p2, p3}
    PSize <- Sizes
    PDir <- Directions
    TraceCapacity = 2
    Conns = {c1, c2}
    Link <- OneTarget
    Reads <- TwoAndOne
    ChunkSize = 2
    Sides = {0}
    PerTarget = FALSE
    Settings = {1, 2}
    MaxAsks = 4
INVARIANTS UdpTypeOK Conservation CapacityKept BoundedDelay RingKeepsItsRows CancelLeavesNothing SharedCapacity RateWasApplied NoOrphanWorker
PROPERTIES UdpIsOrderedLink TcpIsOrderedLink
CHECK_DEADLOCK FALSE
