CONSTANTS
    a = a
    b = b
    s1 = s1
    s2 = s2
    None = None
    Nodes = {a, b}
    Sockets = {s1, s2}
    Dialer <- Dialers
    Acceptor <- Acceptors
    Threads <- Pools
    Lengths = {1, 3}
    MaxFrames <- FewFrames
    MaxFailures = 1

SPECIFICATION FairSpec
INVARIANTS
    TypeOK
    OneJobForEach
    FramesReadInOrder
PROPERTIES
    FramesGetWritten
CHECK_DEADLOCK FALSE
