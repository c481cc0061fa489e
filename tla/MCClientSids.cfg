SPECIFICATION Spec
CONSTANTS
    Server = Server
    Others = {b}
    MaxSid = 3
    MaxRecent = 1
INVARIANTS
    TypeOK
PROPERTIES
    KnownCounts
    DeletedIsForgotten
CHECK_DEADLOCK FALSE
