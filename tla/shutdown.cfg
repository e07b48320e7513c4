SPECIFICATION Spec
CONSTANTS
    Nodes <- MCNodes
    ListOrder <- MCListOrder
    MaxGen = 1
    MaxSlots = 1
    Requests = {r1, r2}
    NoRequest = NoRequest
    RRPeriod = 2
    OnCalls = {on1}
    OffCalls = {off1}
    Sweeps = {sw1}
    MaxRounds = 1
    ApiClientFails = TRUE
    StartConfigured = TRUE
INVARIANTS TypeOK SoleShutdownIsDrained WorkingMeansBusy
PROPERTIES KeeperStaysUp
SYMMETRY Symmetry
CHECK_DEADLOCK FALSE
