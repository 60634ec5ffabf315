SPECIFICATION FairSpec
CONSTANTS
    Keys = {k1}
    MaxRev = 4
    MaxFaults = 1
PROPERTY WatchRecovers
CHECK_DEADLOCK FALSE
