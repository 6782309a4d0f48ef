\* A hub with three devices: a disconnect while another port is being reset.
SPECIFICATION Spec
CONSTANTS
    h = h
    g = g
    a = a
    b = b
    Devices = {h, g, a, b}
    Hubs = {h}
    Odd = {}
    Board = Board
    Nobody = Nobody
    NumPorts = 3
    NumDevices = 4
    MaxPlugs = 4
    MaxUnplugs = 1
    MaxFaults = 0
INVARIANT NoAddressShared
CHECK_DEADLOCK FALSE
