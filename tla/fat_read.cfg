CONSTANTS
    partitionLBA = 100
    reservedSectors = 32
    numberOfFATs = 2
    sectorsPerFAT = 4
    ClusterSizes = {1, 2}
    DirCapacity = 3
    MaxCount = 6
    RootClusters = {2, 5}
    DataClusters = {3, 4, 7, 8}
    MaxChain = 3
    Sizes = {0, 1, 512, 513, 1025, 1536}
    Names = {"KERNEL.BIN", "OTHER.TXT"}
    Wanted = "KERNEL.BIN"
SPECIFICATION Spec
INVARIANTS FileReadWhole ReadsInsideBuffer NotFoundIsTrue
PROPERTY LookupEnds
CHECK_DEADLOCK FALSE
