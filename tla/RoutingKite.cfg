CONSTANTS
    a = a
    b = b
    c = c
    d = d
    e = e
    f = f
    Nodes = {a, b, c, d, e, f}
    Order <- Lan
    Links <- Kite
    Up <- All
    Traffic <- KiteTraffic
    DEFAULT_TTL = 10
    DISCOVERY_TTL = 3
    MaxMessages = 2
    MaxProbes = 0
    MaxBreaks = 0
    MaxRestarts = 0

SPECIFICATION FairSpec
INVARIANTS
    RepliesReturn
PROPERTIES
    QueueDrains
    Delivery
CHECK_DEADLOCK FALSE
