CONSTANTS
    Firmware <- SomeFirmware
    Word = 1048576
    Lines = {0, 7}
    Faults = {2, 13}
    MaxEvents = 4
    Signatures = {198313}
    WordsAt = {0}
SPECIFICATION KernelSpec
INVARIANTS FirstDescriptorDecides IoApicIsFirstListed OnlySpuriousLine FrameIsOfInterrupt LinesDoNotNest PanicNamesVector
PROPERTIES ResetsOnlyBeforeIdt ReturnsAsInterrupted KernelEnds
CHECK_DEADLOCK FALSE
