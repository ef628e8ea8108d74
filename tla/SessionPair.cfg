CONSTANTS
    hub = hub
    alice = alice
    bob = bob
    Peers = {alice, bob}
    Links <- PairLinks
    MaxCommands <- PairCommands
    MaxTexts = 2
    MaxBreaks = 1

SPECIFICATION Spec
SYMMETRY Interchangeable
INVARIANTS
    TypeOK
    ReleasedToFriends
    QueuedOnlyForUnreachable
    FriendshipBacked
    NothingLost
    QueuedIsHeldInReach
    BlockIsHeard
PROPERTIES
    ImplementsMailbox
CHECK_DEADLOCK FALSE
