CONSTANTS
    hub = hub
    alice = alice
    bob = bob
    Peers = {hub, alice, bob}
    Links <- StarLinks
    MaxCommands <- AcceptOnly
    MaxTexts = 1
    MaxBreaks = 0

SPECIFICATION FairSpec
INVARIANTS
    HubIntroduces
PROPERTIES
    AutoDelivery
CHECK_DEADLOCK FALSE
