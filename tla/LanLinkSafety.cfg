CONSTANTS
    a = a
    b = b
    s1 = s1
    s2 = s2
    None = None
    Peers = {a, b}
    Sockets = {s1, s2}
    Listeners = {a, b}
    Connectors = {a}
    MaxFrames = 2
    MaxFailures = 2

SPECIFICATION Spec
SYMMETRY AnySocket
INVARIANTS
    TypeOK
    OpenIsRegistered
    CoreIsTold
    ReadInOrder
