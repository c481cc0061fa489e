SPECIFICATION Spec
CONSTANTS
    MaxData = 2
    MaxClientData = 0
    MaxLoss = 1
    MaxDrops = 0
INVARIANTS
    MissedIsReplayed
CHECK_DEADLOCK FALSE
