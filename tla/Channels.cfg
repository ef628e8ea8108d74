CONSTANTS
    a = a
    b = b
    c = c
    Peers = {a, b, c}
    Friendships <- Circles
    MaxTexts = 2
    MaxJoins = 1
    MaxLeaves = 1
    MaxBreaks = 1

SPECIFICATION Spec
INVARIANTS
    TypeOK
    WritersInOrder
    EveryCopyCounts
    EntryTells
    RosterSpreads
CHECK_DEADLOCK FALSE
