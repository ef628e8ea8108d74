CONSTANTS
    a = a
    b = b
    s1 = s1
    s2 = s2
    None = None
    Peers = {a, b}
    Sockets = {s1, s2}
    Listeners = {a, b}
    Connectors = {}
    MaxFrames = 1
    MaxFailures = 1

SPECIFICATION FairSpec
PROPERTIES
    AutoConnectAlone
    HalfOpenDropped
CHECK_DEADLOCK FALSE
