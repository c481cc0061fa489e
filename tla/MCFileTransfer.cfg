SPECIFICATION Spec
CONSTANTS
    one = one
    two = two
    s = s
    t = t
    Accounts = {one, two}
    Server = Server
    All = All
    Transfers = {s, t}
    None = None
    Chunks = 2
    Window = 2
    MaxTurns = 1
    Jobs <- Meetings
INVARIANTS
    TypeOK
    FailsForAReason
PROPERTIES
    ReceivedIsExact
CHECK_DEADLOCK FALSE
