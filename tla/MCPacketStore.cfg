SPECIFICATION Spec
CONSTANTS
    Servers = {a, b}
    Temp = temp
    Bodies = {x}
    MaxSid = 2
SYMMETRY Symmetry
INVARIANTS
    TypeOK
    UniqueSids
    WireMatchesHistory
    ReplayExact
PROPERTIES
    SendNeverOverwrites
    ImplementsLedger
CHECK_DEADLOCK FALSE
