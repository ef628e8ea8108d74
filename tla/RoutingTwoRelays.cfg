CONSTANTS
    a = a
    b = b
    c = c
    d = d
    e = e
    f = f
    Nodes = {a, b, c, d}
    Order <- Lan
    Links <- Line
    Up <- All
    Traffic <- LineTraffic
    DEFAULT_TTL = 10
    DISCOVERY_TTL = 5
    MaxMessages = 1
    MaxProbes = 0
    MaxBreaks = 0
    MaxRestarts = 0

SPECIFICATION Spec
INVARIANTS
    NothingLost
CHECK_DEADLOCK FALSE
