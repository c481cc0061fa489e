SPECIFICATION Spec
CONSTANTS
    Accounts = {a, b}
    Plugins = Plugins
    All = All
    Nobody = Nobody
    Bodies = {1, 2}
    Unstable = {2}
    Window = 1
    MaxTurns = 2
SYMMETRY Exchangeable
INVARIANTS
    TypeOK
    OnlyAddressees
    SlotsHoldOwnPacket
    NothingVanishes
CHECK_DEADLOCK FALSE
