\* The Amiga is reset in the middle of a command.
SPECIFICATION SpecWithReset
CONSTANTS
    CountMod = 3
    FifoSectors = 2
    Clusters = {2, 3, 4}
    EOC = 9
    Fat <- MCFat
    ClusterSize = 2
    DataStart = 0
    Heads <- MCHeads
    Sectors <- MCSectors
    FileSize = 5
    FileStart = 4
    IndexStep = 4
    FatLinks = 2
    PartStart = 6
    PartSize = 2
    CardSize = 8
    InitCard <- MCInitCard
    NewData = {0}
    BlockSizes = {2}
    MaxCount = 3
    MaxDirty = 2
PROPERTIES
    InterruptsForRequest
