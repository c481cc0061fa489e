SPECIFICATION Spec
CONSTANTS
    a = a
    b = b
    c1 = c1
    c2 = c2
    c3 = c3
    Temp = temp
    Servers <- MCServers
    Conns <- MCRivals
    Owner <- MCRivalsOwner
PROPERTIES
    DelConnectMeansDisconnected
CHECK_DEADLOCK FALSE
