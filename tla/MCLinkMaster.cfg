SPECIFICATION FairSpec
CONSTANTS
    Keys = {k1, k2}
    MaxRev = 3
    MaxFaults = 1
CONSTRAINT NothingLost
INVARIANTS TypeOK ReplicaAgrees
PROPERTIES NoStaleOverwrite Converges
CHECK_DEADLOCK FALSE
