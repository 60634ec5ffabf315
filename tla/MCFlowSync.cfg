SPECIFICATION FairSpec
CONSTANTS
    Lsps = {l1, l2}
    Addrs = {a1, a2}
    Ofports = {o1, o2}
    OnDemand = TRUE
    MaxOps = 4
    MaxTouches = 2
CONSTRAINT NothingLost
INVARIANTS TypeOK FlowsOwed
PROPERTIES FlowsConverge
CHECK_DEADLOCK FALSE
