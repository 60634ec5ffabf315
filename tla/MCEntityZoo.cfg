SPECIFICATION FairSpec
CONSTANTS
    Values <- MCValues
    Legal <- MCLegal
    NoGroup = "none"
    NoChassis = "none"
    MaxIlk = 2
    MaxChanges = 4
    MaxResyncs = 1
INVARIANTS TypeOK UniqueInZoo IlkDistinct GatewayTouched
PROPERTIES RefusedForCause Converges
CHECK_DEADLOCK FALSE
