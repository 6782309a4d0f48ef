\* Two devices, the first is unplugged before the reset of its port is noticed.
SPECIFICATION Spec
CONSTANTS
    h = h
    g = g
    a = a
    b = b
    Devices = {h, a, b}
    Hubs = {h}
    Odd = {}
    Board = Board
    Nobody = Nobody
    NumPorts = 2
    NumDevices = 3
    MaxPlugs = 3
    MaxUnplugs = 1
    MaxFaults = 0
INVARIANT RefusedOnlyDuringReset
CHECK_DEADLOCK FALSE
