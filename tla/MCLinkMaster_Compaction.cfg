SPECIFICATION FairSpec
CONSTANTS
    Keys = {k1}
    MaxRev = 4
    MaxFaults = 1
PROPERTY WholeDataAfterCompaction
CHECK_DEADLOCK FALSE
