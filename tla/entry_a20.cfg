CONSTANTS
    Disks <- SomeDisks
    Uppers = {0, 7}
    Bytes = {0, 9, 255}
    MaxKeys = 2
SPECIFICATION EntrySpec
INVARIANTS Stage1InMemory ProtectedMeansEnabled TestedBytesRestored KeyboardBack OutputPortKept
PROPERTY EntryEnds
CHECK_DEADLOCK FALSE
