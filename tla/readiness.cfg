SPECIFICATION ReadinessFairSpec
CONSTANTS
    Nodes <- MCNodes
    ListOrder <- MCListOrder
    MaxGen = 1
    MaxSlots = 1
    Requests = {r1}
    NoRequest = NoRequest
    RRPeriod = 2
    OnCalls = {on1}
    OffCalls = {}
    Sweeps = {sw1}
    MaxRounds = 1
    ApiClientFails = FALSE
    StartConfigured = FALSE
    AllOn = on1
    MaxPolls = 2
INVARIANTS ReadinessTypeOK
PROPERTIES StartEnds ReadyForTraffic SettledWhenReady
CHECK_DEADLOCK FALSE
