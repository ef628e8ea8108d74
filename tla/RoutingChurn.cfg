CONSTANTS
    a = a
    b = b
    c = c
    d = d
    e = e
    f = f
    Nodes = {a, b, c}
    Order <- LanAndBluetooth
    Links <- Triangle
    Up <- AllButOne
    Traffic <- TriangleTraffic
    DEFAULT_TTL = 10
    DISCOVERY_TTL = 5
    MaxMessages = 1
    MaxProbes = 1
    MaxBreaks = 1
    MaxRestarts = 1

SPECIFICATION Spec
INVARIANTS
    TypeOK
    NeighborsAreDirect
    OnlyReplaysRejectedInOneLife
    DeliveredOnce
CHECK_DEADLOCK FALSE
