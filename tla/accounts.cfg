SPECIFICATION Spec
CONSTANTS
    Nodes <- MCNodes
    ACTIVE_W = 5
    IDLE_W = 1
    OFF_W = 0
    BASE_LOAD_W = 2
    Requests = {r1, r2}
    MaxTime = 4
    HourLength = 2
    CarbonOf <- MCCarbonOf
    Renewables = {0, 50}
    MaxSwitches = 1
SYMMETRY RequestSymmetry
INVARIANTS TypeOK   
CHECK_DEADLOCK FALSE
