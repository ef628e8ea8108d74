CONSTANTS
    hub = hub
    alice = alice
    bob = bob
    Peers = {alice, bob}
    Links <- PairLinks
    MaxCommands <- NoAccept
    MaxTexts = 1
    MaxBreaks = 0

SPECIFICATION Spec
PROPERTIES
    BlockedStaysBlocked
CHECK_DEADLOCK FALSE
