--------------------------- MODULE TestRun_proofs ----------------------------
(***************************************************************************)
(* Proofs about TestRun for every number of tests and of stop requests,    *)
(* whichever requests fail, are lost or time out.                          *)
(***************************************************************************)
EXTENDS TestRun, FiniteSetTheorems, TLAPS

(* What a started test can rely on: its start request was answered, and    *)
(* from the answer on a scheduler is at work while it is wanted.           *)
WorkloadIsStarted ==
    \A t \in Tests : runner[t] \in {"workload", "stopping"} => handler[t] = "ok"

ServedOnceStarted ==
    \A t \in Tests :
        /\ active = t /\ enabled[t] /\ handler[t] = "ok"
        /\ \A s \in Tests : loop[s] # "died"
        => Alive # {}

Inv == /\ TypeOK
       /\ FlagsTellTheRunner
       /\ WorkloadIsStarted
       /\ ServedOnceStarted

(* No test has the number that stands for None.                            *)
LEMMA TestNumbers == NoTest \notin Tests /\ Tests \subseteq Nat
  BY TestsAssumption DEF Tests, NoTest

(* Nothing is running when the two processes start.                        *)
LEMMA InitInv == Init => Inv
<1> SUFFICES ASSUME Init PROVE Inv
  OBVIOUS
<1> USE DEF Init, RunnerInit, GlobalInit
<1>1. TypeOK
  BY DEF TypeOK, RunnerTypeOK, GlobalTypeOK
<1>2. FlagsTellTheRunner
  BY DEF FlagsTellTheRunner, RunnerSteps
<1>3. WorkloadIsStarted /\ ServedOnceStarted
  BY DEF WorkloadIsStarted, ServedOnceStarted
<1> QED
  BY <1>1, <1>2, <1>3 DEF Inv

(* Every step stays in the domains.                                        *)
LEMMA TypeStep ==
  ASSUME TypeOK, Next
  PROVE  TypeOK'
<1> USE DEF TypeOK, RunnerTypeOK, GlobalTypeOK, RunnerSteps, HandlerSteps, AliveLoop,
            RunnerTo, HandlerTo, KeepFlags, runnerVars, stopperVars, globalVars
<1>1. ASSUME NEW t \in Tests, RunnerStep(t) PROVE TypeOK'
  <2>1. CASE /\ start_test(t) \/ RefuseStart(t) \/ BeginFails(t)
                \/ WorkloadEnds(t) \/ WorkloadCancelled(t) \/ ResetFlags(t)
             /\ UNCHANGED globalVars
    BY <2>1 DEF start_test, RefuseStart, BeginFails, WorkloadEnds, WorkloadCancelled,
                ResetFlags
  <2>2. CASE PostStart(t)
    BY <2>2 DEF PostStart
  <2>3. CASE StartAnswered(t) \/ StartTimesOut(t)
    BY <2>3 DEF StartAnswered, StartTimesOut
  <2>4. CASE StopAfterWorkload(t)
    BY <2>4 DEF StopAfterWorkload, stop_power_scheduler
  <2> QED
    BY <1>1, <2>1, <2>2, <2>3, <2>4 DEF RunnerStep
<1>2. ASSUME NEW t \in Tests, GlobalStep(t) PROVE TypeOK'
  BY <1>2 DEF GlobalStep, HandlerStep, LoopStep, StoreConfig, PushClusters, PushFails,
              CheckThread, SpawnThread, Wake, FinishCycle, CycleRaises
<1>3. ASSUME NEW u \in Stops, StopperStep(u) PROVE TypeOK'
  BY <1>3 DEF StopperStep, stop_test, StopAsRequested, stop_power_scheduler
<1> QED
  BY <1>1, <1>2, <1>3 DEF Next

(* test_state_lock makes the test of test_running and its assignment one   *)
(* step; only the runner under way ever clears the flags.                  *)
LEMMA FlagsStep ==
  ASSUME TypeOK, FlagsTellTheRunner, Next
  PROVE  FlagsTellTheRunner'
<1> DEFINE Told == /\ test_running => current_config \in Tests /\ runner[current_config] \in RunnerSteps
                   /\ \A t \in Tests : runner[t] \in RunnerSteps => test_running /\ t = current_config
<1>1. Told
  BY DEF FlagsTellTheRunner
<1>2. ASSUME NEW t \in Tests, RunnerStep(t) PROVE Told'
  <2> USE DEF TypeOK, RunnerTypeOK, RunnerSteps, RunnerTo, KeepFlags, stopperVars
  <2>1. CASE start_test(t)
    BY <1>1, <2>1 DEF start_test
  <2>2. CASE RefuseStart(t) \/ BeginFails(t) \/ WorkloadEnds(t) \/ WorkloadCancelled(t)
    BY <1>1, <2>2 DEF RefuseStart, BeginFails, WorkloadEnds, WorkloadCancelled
  <2>3. CASE ResetFlags(t)
    BY <1>1, <2>3 DEF ResetFlags
  <2>4. CASE PostStart(t) \/ StartAnswered(t) \/ StartTimesOut(t) \/ StopAfterWorkload(t)
    BY <1>1, <2>4 DEF PostStart, StartAnswered, StartTimesOut, StopAfterWorkload
  <2> QED
    BY <1>2, <2>1, <2>2, <2>3, <2>4 DEF RunnerStep
<1>3. ASSUME NEW t \in Tests, GlobalStep(t) PROVE Told'
  BY <1>1, <1>3 DEF GlobalStep, runnerVars
<1>4. ASSUME NEW u \in Stops, StopperStep(u) PROVE Told'
  BY <1>1, <1>4 DEF StopperStep, stop_test, StopAsRequested, runnerVars
<1>5. Told'
  BY <1>2, <1>3, <1>4 DEF Next
<1> QED
  BY <1>5 DEF FlagsTellTheRunner

(* A workload begins only on the answer to a start that went through.      *)
LEMMA WorkloadStep ==
  ASSUME TypeOK, WorkloadIsStarted, Next
  PROVE  WorkloadIsStarted'
<1> USE DEF TypeOK, RunnerTypeOK, GlobalTypeOK, WorkloadIsStarted, RunnerTo, HandlerTo,
            KeepFlags, HandlerSteps, runnerVars, stopperVars, globalVars
<1>1. ASSUME NEW t \in Tests, RunnerStep(t) PROVE WorkloadIsStarted'
  BY <1>1 DEF RunnerStep, start_test, RefuseStart, BeginFails, WorkloadEnds,
              WorkloadCancelled, ResetFlags, PostStart, StartAnswered, StartTimesOut,
              StopAfterWorkload, stop_power_scheduler
<1>2. ASSUME NEW t \in Tests, GlobalStep(t) PROVE WorkloadIsStarted'
  BY <1>2 DEF GlobalStep, HandlerStep, LoopStep, StoreConfig, PushClusters, PushFails,
              CheckThread, SpawnThread, Wake, FinishCycle, CycleRaises
<1>3. ASSUME NEW u \in Stops, StopperStep(u) PROVE WorkloadIsStarted'
  BY <1>3 DEF StopperStep, stop_test, StopAsRequested, stop_power_scheduler
<1> QED
  BY <1>1, <1>2, <1>3 DEF Next

(* A scheduler thread ends only when the active configuration does not     *)
(* want it, and a handler is done only when there is a thread or it was    *)
(* told to do without.                                                     *)
LEMMA ServedStep ==
  ASSUME TypeOK, ServedOnceStarted, Next
  PROVE  ServedOnceStarted'
<1> USE DEF TypeOK, RunnerTypeOK, GlobalTypeOK, ServedOnceStarted, HandlerTo, HandlerSteps,
            Alive, AliveLoop, globalVars
<1>1. ASSUME NEW t \in Tests, RunnerStep(t) PROVE ServedOnceStarted'
  <2>1. CASE UNCHANGED globalVars
    BY <2>1
  <2>2. CASE PostStart(t)
    BY <2>2 DEF PostStart
  <2>3. CASE StopAfterWorkload(t) /\ stop_power_scheduler
    BY <2>3, TestNumbers DEF stop_power_scheduler
  <2> QED
    BY <1>1, <2>1, <2>2, <2>3 DEF RunnerStep, StartAnswered, StartTimesOut,
                                  StopAfterWorkload
<1>2. ASSUME NEW t \in Tests, GlobalStep(t) PROVE ServedOnceStarted'
  <2>1. CASE StoreConfig(t) \/ PushClusters(t) \/ PushFails(t)
    BY <2>1 DEF StoreConfig, PushClusters, PushFails
  <2>2. CASE CheckThread(t)
    BY <2>2 DEF CheckThread, IsRunning
  <2>3. CASE SpawnThread(t)
    BY <2>3 DEF SpawnThread
  <2>4. CASE Wake(t)
    BY <2>4 DEF Wake, Wanted
  <2>5. CASE FinishCycle(t) \/ CycleRaises(t)
    BY <2>5 DEF FinishCycle, CycleRaises
  <2> QED
    BY <1>2, <2>1, <2>2, <2>3, <2>4, <2>5 DEF GlobalStep, HandlerStep, LoopStep
<1>3. ASSUME NEW u \in Stops, StopperStep(u) PROVE ServedOnceStarted'
  <2>1. CASE UNCHANGED globalVars
    BY <2>1
  <2>2. CASE StopAsRequested(u) /\ stop_power_scheduler
    BY <2>2, TestNumbers DEF stop_power_scheduler
  <2> QED
    BY <1>3, <2>1, <2>2 DEF StopperStep, StopAsRequested
<1> QED
  BY <1>1, <1>2, <1>3 DEF Next

(* The four conjuncts together are inductive.                              *)
LEMMA NextInv == Inv /\ [Next]_vars => Inv'
<1> SUFFICES ASSUME Inv, [Next]_vars PROVE Inv'
  OBVIOUS
<1>1. CASE Next
  BY <1>1, TypeStep, FlagsStep, WorkloadStep, ServedStep DEF Inv
<1>2. CASE UNCHANGED vars
  BY <1>2 DEF vars, runnerVars, stopperVars, globalVars, Inv, TypeOK, RunnerTypeOK,
              GlobalTypeOK, FlagsTellTheRunner, WorkloadIsStarted, ServedOnceStarted,
              Alive
<1> QED
  BY <1>1, <1>2

(* The inductive invariant of a test's life, from start to reset.          *)
THEOREM InvHolds == Spec => []Inv
BY InitInv, NextInv, PTL DEF Spec

(* Every variable of a test run stays within its domain.                   *)
THEOREM TestRunTypes == Spec => []TypeOK
<1>1. Inv => TypeOK
  BY DEF Inv
<1> QED
  BY <1>1, InvHolds, PTL

(* "Only run one test at a time": the strato API never has two runners     *)
(* under way, and its flags never point at another test than the one       *)
(* running, whatever is started, stopped, refused or timed out.            *)
THEOREM OneRunnerAtATime == Spec => []FlagsTellTheRunner
<1>1. Inv => FlagsTellTheRunner
  BY DEF Inv
<1> QED
  BY <1>1, InvHolds, PTL

(* A test in its workload is served by a scheduler thread for as long as   *)
(* its configuration is the active one and asks for it.                    *)
THEOREM WorkloadIsServed == Spec => []SchedulerServes
<1>1. Inv => SchedulerServes
  BY DEF Inv, WorkloadIsStarted, ServedOnceStarted, SchedulerServes
<1> QED
  BY <1>1, InvHolds, PTL

-----------------------------------------------------------------------------
(* One scheduler thread, as long as start requests are waited for.         *)

(* A start request is being handled only while its test waits for it.      *)
HandledIsAwaited ==
    \A t \in Tests : handler[t] \in HandlerSteps => runner[t] = "starting"

(* There is no thread but the one the global API knows of, and none at all *)
(* while a handler is about to begin one.                                  *)
OnlyKnownThread ==
    /\ Alive \subseteq {thread}
    /\ \A t \in Tests : handler[t] = "spawning" => Alive = {}

ThreadInv == HandledIsAwaited /\ OnlyKnownThread

LEMMA AwaitedStep ==
  ASSUME TypeOK, HandledIsAwaited, StartMayTimeOut = FALSE, Next
  PROVE  HandledIsAwaited'
<1> USE DEF TypeOK, RunnerTypeOK, GlobalTypeOK, HandledIsAwaited, RunnerTo, HandlerTo,
            HandlerSteps, runnerVars, stopperVars, globalVars
<1>1. ASSUME NEW t \in Tests, RunnerStep(t) PROVE HandledIsAwaited'
  <2>1. CASE PostStart(t)
    BY <2>1 DEF PostStart
  <2>2. CASE StartAnswered(t)
    BY <2>2 DEF StartAnswered
  <2>3. CASE StartTimesOut(t)
    BY <2>3 DEF StartTimesOut
  <2>4. CASE StopAfterWorkload(t)
    BY <2>4 DEF StopAfterWorkload, stop_power_scheduler
  <2>5. CASE /\ start_test(t) \/ RefuseStart(t) \/ BeginFails(t)
                \/ WorkloadEnds(t) \/ WorkloadCancelled(t) \/ ResetFlags(t)
             /\ UNCHANGED globalVars
    BY <2>5 DEF start_test, RefuseStart, BeginFails, WorkloadEnds, WorkloadCancelled,
                ResetFlags
  <2> QED
    BY <1>1, <2>1, <2>2, <2>3, <2>4, <2>5 DEF RunnerStep
<1>2. ASSUME NEW t \in Tests, GlobalStep(t) PROVE HandledIsAwaited'
  BY <1>2 DEF GlobalStep, HandlerStep, LoopStep, StoreConfig, PushClusters, PushFails,
              CheckThread, SpawnThread, Wake, FinishCycle, CycleRaises
<1>3. ASSUME NEW u \in Stops, StopperStep(u) PROVE HandledIsAwaited'
  BY <1>3 DEF StopperStep, stop_test, StopAsRequested, stop_power_scheduler
<1> QED
  BY <1>1, <1>2, <1>3 DEF Next

(* Only one test waits for its start, so the thread that a handler has     *)
(* found missing is still missing when it begins its own.                  *)
LEMMA ThreadStep ==
  ASSUME Inv, ThreadInv, Next
  PROVE  OnlyKnownThread'
<1>1. \A s, t \in Tests : handler[s] \in HandlerSteps /\ handler[t] \in HandlerSteps => s = t
  BY DEF Inv, FlagsTellTheRunner, ThreadInv, HandledIsAwaited, RunnerSteps
<1> USE DEF TypeOK, GlobalTypeOK, OnlyKnownThread, HandlerTo, Alive, AliveLoop, globalVars
<1>2. CASE UNCHANGED <<handler, thread, loop>>
  BY <1>2 DEF ThreadInv
<1>3. ASSUME NEW t \in Tests, RunnerStep(t) PROVE OnlyKnownThread'
  <2>1. CASE PostStart(t)
    BY <2>1 DEF PostStart, ThreadInv, Inv
  <2>2. CASE ~PostStart(t)
    BY <1>2, <1>3, <2>2 DEF RunnerStep, StartAnswered, StartTimesOut, StopAfterWorkload,
                            stop_power_scheduler
  <2> QED
    BY <2>1, <2>2
<1>4. ASSUME NEW t \in Tests, GlobalStep(t) PROVE OnlyKnownThread'
  <2>1. CASE StoreConfig(t) \/ PushClusters(t) \/ PushFails(t)
    BY <2>1 DEF StoreConfig, PushClusters, PushFails, ThreadInv, Inv
  <2>2. CASE CheckThread(t)
    <3>1. handler'[t] = "spawning" => Alive = {}
      <4>1. handler'[t] = "spawning" => ~IsRunning
        BY <2>2 DEF CheckThread, Inv
      <4>2. ~IsRunning => thread \notin Alive
        BY TestNumbers DEF IsRunning
      <4> QED
        BY <4>1, <4>2 DEF ThreadInv
    <3>2. \A s \in Tests \ {t} : handler'[s] = handler[s]
      BY <2>2 DEF CheckThread, Inv
    <3>3. Alive' = Alive /\ thread' = thread
      BY <2>2 DEF CheckThread
    <3>4. ASSUME NEW s \in Tests, handler'[s] = "spawning" PROVE Alive = {}
      BY <3>1, <3>2, <3>4 DEF ThreadInv
    <3> HIDE DEF Alive
    <3> QED
      BY <3>3, <3>4 DEF ThreadInv
  <2>3. CASE SpawnThread(t)
    <3>1. Alive = {} /\ Alive' = {t} /\ thread' = t /\ handler'[t] = "ok"
      BY <2>3 DEF SpawnThread, ThreadInv, Inv
    <3>2. \A s \in Tests \ {t} : handler'[s] = handler[s] /\ handler[s] \notin HandlerSteps
      BY <1>1, <2>3 DEF SpawnThread, Inv, HandlerSteps
    <3> QED
      BY <3>1, <3>2 DEF HandlerSteps
  <2>4. CASE LoopStep(t)
    BY <2>4 DEF LoopStep, Wake, FinishCycle, CycleRaises, ThreadInv, Inv
  <2> QED
    BY <1>4, <2>1, <2>2, <2>3, <2>4 DEF GlobalStep, HandlerStep
<1>5. ASSUME NEW u \in Stops, StopperStep(u) PROVE OnlyKnownThread'
  BY <1>2, <1>5 DEF StopperStep, stop_test, StopAsRequested, stop_power_scheduler
<1> QED
  BY <1>3, <1>4, <1>5 DEF Next

(* "thread_running" (global start_test.py:87): when no start request is    *)
(* given up early there is one scheduler thread at most, for any number of *)
(* tests and whatever else fails.                                          *)
THEOREM OneScheduler ==
  ASSUME StartMayTimeOut = FALSE
  PROVE  Spec => []AtMostOneScheduler
<1>1. Init => ThreadInv
  BY DEF Init, GlobalInit, ThreadInv, HandledIsAwaited, OnlyKnownThread, Alive, AliveLoop,
         HandlerSteps
<1>2. Inv /\ ThreadInv /\ [Next]_vars => ThreadInv'
  <2> SUFFICES ASSUME Inv, ThreadInv, [Next]_vars PROVE ThreadInv'
    OBVIOUS
  <2>1. CASE Next
    BY <2>1, AwaitedStep, ThreadStep DEF Inv, ThreadInv
  <2>2. CASE UNCHANGED vars
    BY <2>2 DEF vars, runnerVars, globalVars, ThreadInv, HandledIsAwaited, OnlyKnownThread,
                Alive
  <2> QED
    BY <2>1, <2>2
<1>3. ThreadInv => AtMostOneScheduler
  <2> SUFFICES ASSUME ThreadInv PROVE Cardinality(Alive) <= 1
    BY DEF AtMostOneScheduler
  <2>1. Alive \subseteq {thread}
    BY DEF ThreadInv, OnlyKnownThread
  <2>2. Cardinality(Alive) <= Cardinality({thread}) /\ Cardinality({thread}) = 1
    BY <2>1, FS_Singleton, FS_Subset
  <2> QED
    BY <2>2
<1> QED
  BY <1>1, <1>2, <1>3, InvHolds, PTL DEF Spec

-----------------------------------------------------------------------------
(* Refinement: the runner threads and their flags are one slot.            *)

(* No stop request is left over from a test that has ended.                *)
NoStopLeft == stop_requested => test_running

OwnerMap == IF UnderWay = {} THEN NoTest ELSE CHOOSE t \in Tests : t \in UnderWay
WaitingMap == {t \in Tests : runner[t] = "new"}

LEMMA ChooseOnly ==
  ASSUME NEW c \in Tests, NEW S, S = {c}
  PROVE  (CHOOSE t \in Tests : t \in S) = c
OBVIOUS

LEMMA NoStopLeftStep ==
  ASSUME NoStopLeft, [Next]_vars
  PROVE  NoStopLeft'
BY DEF NoStopLeft, Next, vars, RunnerStep, start_test, RefuseStart, BeginFails, WorkloadEnds,
       WorkloadCancelled, ResetFlags, PostStart, StartAnswered, StartTimesOut,
       StopAfterWorkload, KeepFlags, GlobalStep, StopperStep, stop_test, StopAsRequested,
       runnerVars

(* The owner, read off the threads, is the test that the flags name.       *)
LEMMA OwnerIsTold ==
  ASSUME Inv, Inv'
  PROVE  /\ test_running => current_config \in Tests
         /\ OwnerMap = IF test_running THEN current_config ELSE NoTest
         /\ OwnerMap' = IF test_running' THEN current_config' ELSE NoTest
<1>1. UnderWay = (IF test_running THEN {current_config} ELSE {}) /\ UnderWay \subseteq Tests
  BY DEF Inv, FlagsTellTheRunner, UnderWay
<1>2. UnderWay' = (IF test_running' THEN {current_config'} ELSE {}) /\ UnderWay' \subseteq Tests
  BY DEF Inv, FlagsTellTheRunner, UnderWay
<1>3. OwnerMap = IF test_running THEN current_config ELSE NoTest
  BY <1>1, ChooseOnly DEF OwnerMap
<1>4. OwnerMap' = IF test_running' THEN current_config' ELSE NoTest
  BY <1>2, ChooseOnly DEF OwnerMap
<1> QED
  BY <1>1, <1>3, <1>4

(* Each step of the two processes takes the slot, refuses it, asks for it, *)
(* gives it back, or is no step of the slot at all.                        *)
LEMMA SlotStep ==
  ASSUME Inv, NoStopLeft, [Next]_vars
  PROVE  [Slot!Next]_(Slot!vars)
<1> DEFINE Same == /\ test_running' = test_running /\ stop_requested' = stop_requested
                   /\ current_config' = current_config /\ WaitingMap' = WaitingMap
<1>1. /\ test_running => current_config \in Tests
      /\ OwnerMap = IF test_running THEN current_config ELSE NoTest
      /\ OwnerMap' = IF test_running' THEN current_config' ELSE NoTest
  BY NextInv, OwnerIsTold
<1>2. CASE Same
  BY <1>1, <1>2 DEF Slot!vars, OwnerMap, WaitingMap
<1>3. ASSUME NEW t \in Tests, RunnerStep(t) PROVE [Slot!Next]_(Slot!vars)
  <2> USE DEF RunnerTo, KeepFlags
  <2>1. runner \in [Tests -> RunnerSteps \cup {"new", "refused", "over"}]
    BY DEF Inv, TypeOK, RunnerTypeOK
  <2>2. CASE start_test(t)
    <3>1. t \in WaitingMap /\ WaitingMap' = WaitingMap \ {t}
      BY <2>1, <2>2 DEF start_test, WaitingMap
    <3>2. OwnerMap = NoTest /\ OwnerMap' = t /\ stop_requested' = stop_requested
      BY <1>1, <2>2 DEF start_test, NoStopLeft, Inv, TypeOK, RunnerTypeOK
    <3>3. Slot!Take(t)
      BY <3>1, <3>2 DEF Slot!Take, OwnerMap, WaitingMap
    <3> QED
      BY <3>3 DEF Slot!Next
  <2>3. CASE RefuseStart(t)
    <3>1. t \in WaitingMap /\ WaitingMap' = WaitingMap \ {t}
      BY <2>1, <2>3 DEF RefuseStart, WaitingMap
    <3>2. OwnerMap' = OwnerMap /\ stop_requested' = stop_requested
      BY <1>1, <2>3 DEF RefuseStart
    <3>3. Slot!Refuse(t)
      BY <3>1, <3>2 DEF Slot!Refuse, OwnerMap, WaitingMap
    <3> QED
      BY <3>3 DEF Slot!Next
  <2>4. CASE ResetFlags(t)
    <3>1. WaitingMap' = WaitingMap
      BY <2>1, <2>4 DEF ResetFlags, WaitingMap
    <3>2. t \in UnderWay
      BY <2>4 DEF ResetFlags, UnderWay, RunnerSteps
    <3>3. test_running
      BY <3>2 DEF Inv, FlagsTellTheRunner, UnderWay
    <3>4. OwnerMap # NoTest /\ OwnerMap' = NoTest /\ stop_requested' = FALSE
      BY <1>1, <2>4, <3>3, TestNumbers DEF ResetFlags
    <3>5. Slot!GiveBack
      BY <3>1, <3>4 DEF Slot!GiveBack, OwnerMap, WaitingMap
    <3> QED
      BY <3>5 DEF Slot!Next
  <2>5. CASE BeginFails(t) \/ WorkloadEnds(t) \/ WorkloadCancelled(t) \/ PostStart(t)
             \/ StartAnswered(t) \/ StartTimesOut(t) \/ StopAfterWorkload(t)
    <3>1. Same
      BY <2>1, <2>5 DEF BeginFails, WorkloadEnds, WorkloadCancelled, PostStart,
                        StartAnswered, StartTimesOut, StopAfterWorkload, WaitingMap
    <3> QED
      BY <1>2, <3>1
  <2> QED
    BY <1>3, <2>2, <2>3, <2>4, <2>5 DEF RunnerStep
<1>4. ASSUME NEW t \in Tests, GlobalStep(t) PROVE [Slot!Next]_(Slot!vars)
  BY <1>2, <1>4 DEF GlobalStep, runnerVars, WaitingMap
<1>5. ASSUME NEW u \in Stops, StopperStep(u) PROVE [Slot!Next]_(Slot!vars)
  <2>1. CASE stop_test(u) /\ test_running
    <3>1. WaitingMap' = WaitingMap
      BY <2>1 DEF stop_test, WaitingMap
    <3>2. OwnerMap # NoTest /\ OwnerMap' = OwnerMap /\ stop_requested' = TRUE
      BY <1>1, <2>1, TestNumbers DEF stop_test
    <3>3. Slot!AskToStop
      BY <3>1, <3>2 DEF Slot!AskToStop, OwnerMap, WaitingMap
    <3> QED
      BY <3>3 DEF Slot!Next
  <2>2. CASE stop_test(u) /\ ~test_running
    BY <1>2, <2>2 DEF stop_test, WaitingMap
  <2>3. CASE StopAsRequested(u)
    BY <1>2, <2>3 DEF StopAsRequested, runnerVars, WaitingMap
  <2> QED
    BY <1>5, <2>1, <2>2, <2>3 DEF StopperStep
<1>6. CASE UNCHANGED vars
  BY <1>2, <1>6 DEF vars, runnerVars, WaitingMap
<1> QED
  BY <1>3, <1>4, <1>5, <1>6 DEF Next

(* The strato API implements the slot: one test has it at a time, each at  *)
(* most once, and a stop request ends with the test it was made to, for    *)
(* any number of tests and of stop requests.                               *)
THEOREM RunnersImplementSlot == Spec => ImplementsSlot
<1>1. Init => Slot!Init /\ NoStopLeft
  <2> SUFFICES ASSUME Init PROVE Slot!Init /\ NoStopLeft
    OBVIOUS
  <2>1. UnderWay = {} /\ WaitingMap = Tests /\ stop_requested = FALSE
    BY DEF Init, RunnerInit, UnderWay, RunnerSteps, WaitingMap
  <2> QED
    BY <2>1 DEF Slot!Init, WaitingMap, NoStopLeft
<1>2. Inv /\ NoStopLeft /\ [Next]_vars => NoStopLeft' /\ [Slot!Next]_(Slot!vars)
  BY NoStopLeftStep, SlotStep
<1> QED
  BY <1>1, <1>2, InvHolds, PTL DEF Spec, ImplementsSlot, Slot!Spec
=============================================================================
