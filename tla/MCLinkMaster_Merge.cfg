SPECIFICATION FairSpec
CONSTANTS
    Keys = {k1}
    MaxRev = 4
    MaxFaults = 1
INVARIANT MergeIsEmpty
CHECK_DEADLOCK FALSE
