\* The card itself, no image: three sectors and one past the end.
SPECIFICATION FairSpec
CONSTANTS
    d0 = d0
    d1 = d1
    d2 = d2
    d3 = d3
    x = x
    CardSize = 3
    Data = {d0, d1, d2, x}
    InitCard <- SmallCard
    NewData = {x}
    Blank = x
    CardSdhc = TRUE
    AllowSdhc = TRUE
    Images = {}
    MaxFaults = 0
    Clusters <- MCClusters
    EOC <- MCEOC
    Fat <- MCFat
    ClusterSize = 2
    DataStart = 0
INVARIANTS
    TypeOK
    ReadYourWrites
PROPERTIES
    SectorStable
    ImplementsBlockDevice
