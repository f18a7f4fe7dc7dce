CONSTANTS
    HeapStart = 1040
    MaxSize = 52
    Sizes <- AnySizes
    Pointers <- ArenaPointers
    Word = 4096
SPECIFICATION ClientSpec
INVARIANTS ListTilesArena LiveBuffersSeparate EmptyStackEmptyHeap NullMeansNoMemory
PROPERTIES OthersKept OverlapOnlyByShortRest ImplementsPromise
CHECK_DEADLOCK FALSE
