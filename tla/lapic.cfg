CONSTANTS
    Firmware <- SomeFirmware
    Word = 1048576
    Lines = {0, 7}
    Faults = {2, 13}
    MaxEvents = 1
    Signatures = {198313}
    WordsAt = {0, 1043968}
SPECIFICATION KernelSpec
INVARIANT LocalApicEnabled
CHECK_DEADLOCK FALSE
