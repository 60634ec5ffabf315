SPECIFICATION Spec
CONSTANTS
    Lsps = {l1}
    Addrs = {a1}
    Ofports = {o1}
    OnDemand = FALSE
    MaxOps = 3
    MaxTouches = 1
PROPERTIES NewEntitiesGenerateFlows
CHECK_DEADLOCK FALSE
