SPECIFICATION Spec
CONSTANTS
    Chassis = {"e1", "e2"}
    Vips <- MCVips
    Hosts = 3
    InnerIp = 1
    MaxOps = 3
    MaxStops = 1
INVARIANTS TypeOK NoBlackHole NeverRefused RoadsOfOneRun NothingLeft
CHECK_DEADLOCK FALSE
