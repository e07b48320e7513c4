SPECIFICATION Spec
CONSTANTS
    Nodes <- MCNodes
    ListOrder <- MCListOrder
    MaxGen = 2
    MaxSlots = 2
    Requests = {r1, r2, r3}
    NoRequest = NoRequest
    RRPeriod = 2
    OnCalls = {}
    OffCalls = {}
    Sweeps = {}
    MaxRounds = 1
    ApiClientFails = FALSE
    StartConfigured = TRUE
INVARIANTS InflightExact RoutingInv
PROPERTIES NoNeedlessQueueing ImplementsPool
SYMMETRY Symmetry
CHECK_DEADLOCK FALSE
