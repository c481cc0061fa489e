SPECIFICATION FairSpec
CONSTANTS
    MaxData = 2
    MaxClientData = 1
    MaxLoss = 1
    MaxDrops = 1
INVARIANTS
    TypeOK
    NoGaps
    KnownIsReal
    AgreeWhenQuiet
PROPERTIES
    EventuallyAgree
    LastDataDelivered
CHECK_DEADLOCK FALSE
