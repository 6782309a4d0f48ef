\* A write that ends within a header.
SPECIFICATION Spec
CONSTANTS
    Clusters = {2, 3, 4, 5, 6, 7}
    EOC = 9
    Fat <- MCFat
    ClusterSize = 2
    DataStart = 0
    Drives = {0, 1}
    Heads = {0, 1, 2}
    FifoHalf = 2
    FifoSize = 4
    Images = {"a", "b"}
    Start <- MCStart
    Writable = {"a"}
    Tracks = 2
    SECTOR_COUNT = 3
    InitCard <- MCInitCard
    Lengths = {5}
    Streams <- MCCut
    MaxJobs = 4
    MaxSwaps = 1
    RereadFirst = TRUE
    QuietInsert = TRUE
    SlowSelect = TRUE
PROPERTY TransferEnds
