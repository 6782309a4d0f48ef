\* Two writers, files of up to two clusters, one power failure, failing
\* sector write or file that is never ended.
SPECIFICATION Spec
CONSTANTS
    a = a
    b = b
    u = u
    m = m
    PerSector = 3
    FatSize = 2
    FatNumber = 2
    LastCluster = 5
    ClusterSize = 2
    EOC = 99
    Media = 98
    Names = {a, b}
    Clients = {u, m}
    InitFat <- MCFat
    InitDir <- MCDir
    MaxSector = 3
    MaxTroubles = 1
INVARIANTS
    TypeOK
    FilesApart
    CopiesAgree
    ClustersAccounted
PROPERTIES
    OthersUntouched
\* the model stops at a stray write
CHECK_DEADLOCK FALSE
