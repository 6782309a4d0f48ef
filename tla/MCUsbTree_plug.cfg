\* Two hubs and a device, plugged in and out in any order.
SPECIFICATION FairSpec
CONSTANTS
    h = h
    g = g
    a = a
    b = b
    Devices = {h, g, a}
    Hubs = {h, g}
    Odd = {}
    Board = Board
    Nobody = Nobody
    NumPorts = 2
    NumDevices = 3
    MaxPlugs = 4
    MaxUnplugs = 1
    MaxFaults = 1
INVARIANTS
    TypeOK
    TableIsTree
    OneAnswers
PROPERTIES
    EveryoneServed
    PhantomsGo
CHECK_DEADLOCK FALSE
