SPECIFICATION FairSpec
CONSTANTS
    Nodes <- MCNodes
    ListOrder <- MCListOrder
    MaxGen = 1
    MaxSlots = 1
    Requests = {r1, r2}
    NoRequest = NoRequest
    RRPeriod = 2
    OnCalls = {on1}
    OffCalls = {}
    Sweeps = {sw1}
    MaxRounds = 1
    ApiClientFails = FALSE
    StartConfigured = TRUE
PROPERTIES RequestsFinish 
CHECK_DEADLOCK FALSE
