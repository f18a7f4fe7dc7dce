CONSTANTS
    MULTIBOOT_SEARCH = 6
    MaxSearch = 12
    ImageSizes = {4, 6, 9}
    HeaderPlaces = {{}, {1}, {2, 3}, {3}, {4}}
    FlagSets <- SomeFlags
    ProgramHeaders <- LinkedKernels
    Addresses <- Ram
    FileAt = 4
    LoaderRam <- Loader
    TableWords <- HeaderTable
    Cursors <- Cursor
    PartitionTables <- Tables
    Word = 256
    maxSize = 3
    Scenarios <- SomeScenarios
SPECIFICATION BootSpec
INVARIANTS LoadedAsElfSays FirstHeaderWins LoadPanicEarned EntriesWhole NoPlainRegionLost
PROPERTY BootEnds
CHECK_DEADLOCK FALSE
