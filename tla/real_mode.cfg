CONSTANTS
    MAX_SECTORS = 3
    MaxRequest = 8
    FirstLBAs = {0, 5}
    BytePlaces = {1, 4, 99}
    OddSectors = {1, 9}
    InitialBytes = {0}
SPECIFICATION BiosSpec
INVARIANT PeDisabled
CHECK_DEADLOCK FALSE
