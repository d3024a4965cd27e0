CONSTANTS
    b1 = b1
    b2 = b2
    n1 = n1
    n2 = n2
    n3 = n3
    Backends <- MCBackends
    Nodes <- MCNodes
    Mode <- MCMode
    Roster0 <- MCRoster0
    Spare <- MCSpare
    Settings = {1, 2}
    MaxWindow = 2
    MaxReloads = 2
    NoBackend = NoBackend
SPECIFICATION Spec
PROPERTY ReloadKeepsOtherCircuits
