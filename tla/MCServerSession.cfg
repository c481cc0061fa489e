SPECIFICATION FairSpec
CONSTANTS
    a = a
    b = b
    c1 = c1
    c2 = c2
    c3 = c3
    Temp = temp
    Servers <- MCServers
    Conns <- MCConns
    Owner <- MCOwner
INVARIANTS
    TypeOK
    NoGhost
    PluginsForgetTheGone
PROPERTIES
    ImplementsLease
    AlwaysCleanedUp
    SweepEnds
CHECK_DEADLOCK FALSE
