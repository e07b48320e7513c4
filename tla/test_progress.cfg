SPECIFICATION FairSpec
CONSTANTS
    MaxTests = 3
    Stops = {u1}
    PushMayFail = FALSE
    ClusterMayFail = TRUE
    StartMayTimeOut = FALSE
    StopMayFail = FALSE
INVARIANTS AtMostOneScheduler
PROPERTIES StopsTakeEffect SchedulerEndsWithTests
CHECK_DEADLOCK FALSE
