------------------------------- MODULE TestRun -------------------------------
(***************************************************************************)
(* A test from the caller's start_test to the end of its power scheduler:  *)
(* the strato API's runner and the global API, talking over HTTP.          *)
(***************************************************************************)
EXTENDS TestRunner, GlobalTest

CONSTANTS
    StartMayTimeOut,    \* the runner's start_test request may exceed 180 s
    StopMayFail         \* a request for the global stop_test may be lost

ASSUME TestRunAssumption == StartMayTimeOut \in BOOLEAN /\ StopMayFail \in BOOLEAN

vars == <<runnerVars, stopperVars, globalVars>>

Init == RunnerInit /\ GlobalInit

(* POST start_test reaches the global API. *)
PostStart(t) ==
    /\ runner[t] = "begin"
    /\ RunnerTo(t, "starting")
    /\ HandlerTo(t, "arrived")
    /\ KeepFlags
    /\ UNCHANGED <<stopperVars, active, enabled, thread, loop>>

(* Its answer, 200 or 500, or the timeout: the handler goes on alone.      *)
StartAnswered(t) ==
    /\ runner[t] = "starting"
    /\ handler[t] \in {"ok", "failed"}
    /\ RunnerTo(t, IF handler[t] = "ok" THEN "workload" ELSE "reset")
    /\ KeepFlags /\ UNCHANGED <<stopperVars, globalVars>>

StartTimesOut(t) ==
    /\ StartMayTimeOut
    /\ runner[t] = "starting"
    /\ handler[t] \in HandlerSteps
    /\ RunnerTo(t, "reset")
    /\ KeepFlags /\ UNCHANGED <<stopperVars, globalVars>>

(* Mutant of StopAfterWorkload: run_workload has no finally block. *)
StopAfterWorkloadForgotten(t) ==
    /\ runner[t] = "stopping"
    /\ RunnerTo(t, "reset")
    /\ KeepFlags /\ UNCHANGED <<stopperVars, globalVars>>

(* The finally block of run_workload: _stop_global_test *)
StopAfterWorkload(t) ==
    /\ runner[t] = "stopping"
    /\ RunnerTo(t, "reset")
    /\ KeepFlags /\ UNCHANGED stopperVars
    /\ stop_power_scheduler \/ (StopMayFail /\ UNCHANGED globalVars)

(* The rest of the strato API's stop_test: stop_global_power_scheduler *)
StopAsRequested(u) ==
    /\ stopper[u] = "posting"
    /\ stopper' = [stopper EXCEPT ![u] = "over"]
    /\ UNCHANGED <<runnerVars, target>>
    /\ stop_power_scheduler \/ (StopMayFail /\ UNCHANGED globalVars)

RunnerStep(t) ==
    \/ /\ start_test(t) \/ RefuseStart(t) \/ BeginFails(t)
             \/ WorkloadEnds(t) \/ WorkloadCancelled(t) \/ ResetFlags(t)
       /\ UNCHANGED globalVars
    \/ PostStart(t) \/ StartAnswered(t) \/ StartTimesOut(t)
    \/ StopAfterWorkload(t)

StopperStep(u) ==
    \/ stop_test(u) /\ UNCHANGED globalVars
    \/ StopAsRequested(u)

GlobalStep(t) ==
    (HandlerStep(t) \/ LoopStep(t)) /\ UNCHANGED <<runnerVars, stopperVars>>

Next ==
    \/ \E t \in Tests : RunnerStep(t) \/ GlobalStep(t)
    \/ \E u \in Stops : StopperStep(u)

Spec == Init /\ [][Next]_vars

(***************************************************************************)
(* Threads that can run will, and requests are answered or time out.       *)
(* Nobody has to start or stop a test, and a workload may outlast any      *)
(* observation: only a requested stop is bound to end it.                  *)
(***************************************************************************)
Fairness ==
    /\ \A t \in Tests :
          /\ WF_vars(runner[t] \notin {"new", "workload"} /\ RunnerStep(t))
          /\ WF_vars(WorkloadCancelled(t) /\ UNCHANGED globalVars)
          /\ WF_vars(HandlerStep(t) /\ UNCHANGED <<runnerVars, stopperVars>>)
          /\ WF_vars(LoopStep(t) /\ UNCHANGED <<runnerVars, stopperVars>>)
    /\ \A u \in Stops : WF_vars(StopAsRequested(u))

FairSpec == Spec /\ Fairness

-----------------------------------------------------------------------------
(* Invariants *)

(* Every variable stays within its domain.                                 *)
TypeOK == RunnerTypeOK /\ GlobalTypeOK

(* "Only run one test at a time" (strato start_test.py:58), within the     *)
(* strato API: the flags tell exactly whether a runner is under way, which *)
(* one, and there is never a second.                                       *)
FlagsTellTheRunner ==
    LET underWay == {t \in Tests : runner[t] \in RunnerSteps}
    IN  underWay = IF test_running THEN {current_config} ELSE {}

(* A test in its workload whose configuration is the active one and still  *)
(* asks for the power scheduler has a scheduler thread at work, unless one *)
(* was killed by a cluster that did not answer.                            *)
SchedulerServes ==
    \A t \in Tests :
        /\ runner[t] = "workload"
        /\ active = t
        /\ enabled[t]
        /\ \A s \in Tests : loop[s] # "died"
        => Alive # {}

(* "thread_running" (global start_test.py:87): scheduler threads are       *)
(* replaced, never added, as long as no start request is given up early.   *)
AtMostOneScheduler == Cardinality(Alive) <= 1

-----------------------------------------------------------------------------
(* Refinement *)

(* The owner of the slot is read off the runner threads, not off the flags *)
(* that guard them.                                                        *)
UnderWay == {t \in Tests : runner[t] \in RunnerSteps}

Slot == INSTANCE TestSlot WITH
            owner <- IF UnderWay = {} THEN NoTest
                     ELSE CHOOSE t \in Tests : t \in UnderWay,
            stopping <- stop_requested,
            waiting <- {t \in Tests : runner[t] = "new"}

(* "Only run one test at a time" (strato start_test.py:58): the runner     *)
(* threads with their shared flags are a slot that one test has at a time, *)
(* and a stop never outlives the test it was meant for.                    *)
ImplementsSlot == Slot!Spec

-----------------------------------------------------------------------------
(* Liveness *)

(* stop_test of the strato API: a stop that was accepted ends the test.    *)
StopsTakeEffect == stop_requested ~> ~test_running

(* run_workload's finally block, and stop_power_scheduler: when tests have *)
(* stopped being run, the power scheduler ends too, provided that pushes,  *)
(* start and stop requests all went through.                               *)
SchedulerEndsWithTests == <>[](~test_running) => <>[](Alive = {})
=============================================================================
