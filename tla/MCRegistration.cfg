SPECIFICATION FairSpec
CONSTANTS
    Clients = {c, d}
    Ids = {x, y}
    Temp = Temp
    None = None
    MaxDrops = 1
    MaxRotations = 1
INVARIANTS
    TypeOK
    CredentialsWork
PROPERTIES
    EventuallyServed
CHECK_DEADLOCK FALSE
