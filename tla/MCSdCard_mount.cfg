\* A file is mounted while the buffer holds a sector read ahead from the card.
SPECIFICATION Spec
CONSTANTS
    d0 = d0
    d1 = d1
    d2 = d2
    d3 = d3
    x = x
    CardSize = 4
    Data = {d0, d1, d2, d3, x}
    InitCard <- ImageCard
    NewData = {x}
    Blank = x
    CardSdhc = TRUE
    AllowSdhc = TRUE
    Images = {3}
    MaxFaults = 0
    Clusters <- MCClusters
    EOC <- MCEOC
    Fat <- MCFat
    ClusterSize = 2
    DataStart = 0
INVARIANT
    ServedFromImage
