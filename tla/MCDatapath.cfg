SPECIFICATION FairSpec
CONSTANTS
    None = None
    Chassis = {"n1", "n2", "e1", "e2"}
    Gateway = {"e1", "e2"}
    OnDemand = {"n1", "n2"}
    Redirecting = {"n1", "n2", "e1", "e2"}
    RouterOn <- MCRouterOn
    Switch <- MCSwitch
    Vm <- MCVm
    Patch <- MCPatch
    Home <- MCHome
    Link <- MCLink
    Route <- MCRoute
    Xlate <- MCXlate
    AddrWidth = 12
    PortIdWidth = 8
    Movable = {"b"}
    Breakable = {{"n1", "e1"}, {"e1", "n2"}}
    Deletable = {"e1"}
    MaxChanges = 1
    Unset = Unset
    NoMac = NoMac
    AnyMac = AnyMac
    Traffic <- MCTraffic
    Weight <- MCWeight
    MaxPending = 0
INVARIANTS TypeOK RulesAgree VisitsEnd RedirectedAtMostOnce
PROPERTIES CalmDelivery ImplementsNetwork KeepsTenantsApart
CHECK_DEADLOCK FALSE
