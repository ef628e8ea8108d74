CONSTANTS
    f1 = f1
    f2 = f2
    Files = {f1, f2}
    Chunks = 2
    MaxBreaks = 1
    MaxRestarts = 1
    MaxDeclines = 1

SPECIFICATION FairSpec
INVARIANTS
    TypeOK
    DataOnlyAfterConsent
    HistoriesAgree
    TransferInHand
PROPERTIES
    AcceptedArrives
CHECK_DEADLOCK FALSE
