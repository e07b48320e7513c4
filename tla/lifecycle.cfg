SPECIFICATION Spec
CONSTANTS
    MaxTests = 3
    Stops = {u1}
    PushMayFail = TRUE
    ClusterMayFail = TRUE
    StartMayTimeOut = TRUE
    StopMayFail = TRUE
INVARIANTS TypeOK FlagsTellTheRunner SchedulerServes
PROPERTIES ImplementsSlot
CHECK_DEADLOCK FALSE
