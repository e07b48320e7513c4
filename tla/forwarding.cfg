SPECIFICATION Spec
CONSTANTS
    NODE_POWER_ACTIVE_W = 5
    NODE_POWER_IDLE_W = 1
    CARBON_REF_MAX = 60
    COST_REF_MAX = 30
    LATENCY_REF_MAX = 10
    W_GCO2 = 40
    W_COST = 30
    W_LATENCY = 30
    NClusters = 2
    Requests = {r1, r2}
    Series <- MCSeries
    Market <- MCMarket
    BaseLoad <- MCBaseLoad
    Polls <- MCPolls
    MaxHour = 2
    MaxTests = 2
    Latencies = {6}
SYMMETRY RequestSymmetry
INVARIANTS TypeOK LogsTellTheAnswer  SuccessHasMarketData
PROPERTIES ChoiceIsUndominated
CHECK_DEADLOCK FALSE
