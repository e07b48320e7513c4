----------------------------- MODULE TestRunner -----------------------------
(***************************************************************************)
(* strato_api/services/start_test.py and the outer part of                 *)
(* workload/run_workload.py: one test at a time is run by a background     *)
(* thread, and stopped through a shared flag that its workload polls.      *)
(*                                                                         *)
(* The requests of a workload are not here: a workload is something that   *)
(* goes on until it is finished or cancelled.                              *)
(***************************************************************************)
EXTENDS TestIds

CONSTANT Stops  \* calls of stop_test

VARIABLES
    test_running,
    stop_requested,
    current_config,     \* the test whose configuration it is, or NoTest
    runner,             \* runner[t]: where the test-runner thread of t is
    stopper,            \* stopper[u]: where call u of stop_test is
    target              \* target[u]: the test that was running when u came

runnerVars == <<test_running, stop_requested, current_config, runner>>
stopperVars == <<stopper, target>>

RunnerSteps == {"begin", "starting", "workload", "stopping", "reset"}

RunnerTypeOK ==
    /\ test_running \in BOOLEAN
    /\ stop_requested \in BOOLEAN
    /\ current_config \in Tests \cup {NoTest}
    /\ runner \in [Tests -> RunnerSteps \cup {"new", "refused", "over"}]
    /\ stopper \in [Stops -> {"new", "posting", "over"}]
    /\ target \in [Stops -> Tests \cup {NoTest}]

RunnerInit ==
    /\ test_running = FALSE
    /\ stop_requested = FALSE
    /\ current_config = NoTest
    /\ runner = [t \in Tests |-> "new"]
    /\ stopper = [u \in Stops |-> "new"]
    /\ target = [u \in Stops |-> NoTest]

RunnerTo(t, place) == runner' = [runner EXCEPT ![t] = place]
KeepFlags == UNCHANGED <<test_running, stop_requested, current_config>>

-----------------------------------------------------------------------------
(* Mutant of start_test: the test_running flag is not looked at. *)
start_testUnguarded(t) ==
    /\ runner[t] = "new"
    /\ test_running' = TRUE
    /\ stop_requested' = FALSE
    /\ current_config' = t
    /\ RunnerTo(t, "begin")
    /\ UNCHANGED stopperVars

(* start_test: under test_state_lock, and only when no test is running. *)
start_test(t) ==
    /\ runner[t] = "new"
    /\ ~test_running
    /\ test_running' = TRUE
    /\ stop_requested' = FALSE
    /\ current_config' = t
    /\ RunnerTo(t, "begin")
    /\ UNCHANGED stopperVars

(* The configuration is invalid, or a test is running. *)
RefuseStart(t) ==
    /\ runner[t] = "new"
    /\ RunnerTo(t, "refused")
    /\ KeepFlags /\ UNCHANGED stopperVars

(* run_test fails before its start_test has reached the global API. *)
BeginFails(t) ==
    /\ runner[t] = "begin"
    /\ RunnerTo(t, "reset")
    /\ KeepFlags /\ UNCHANGED stopperVars

(* The workload runs out ... *)
WorkloadEnds(t) ==
    /\ runner[t] = "workload"
    /\ RunnerTo(t, "stopping")
    /\ KeepFlags /\ UNCHANGED stopperVars

(* ... or finds the stop flag in its polling loop and cancels its tasks. *)
WorkloadCancelled(t) ==
    /\ runner[t] = "workload"
    /\ stop_requested
    /\ RunnerTo(t, "stopping")
    /\ KeepFlags /\ UNCHANGED stopperVars

(* Mutant of ResetFlags: the reset is not in a finally block, and a test   *)
(* that is told to stop never comes to it.                                 *)
ResetFlagsUnlessStopped(t) ==
    /\ runner[t] = "reset"
    /\ test_running' = stop_requested
    /\ stop_requested' = stop_requested
    /\ current_config' = IF stop_requested THEN t ELSE NoTest
    /\ RunnerTo(t, "over")
    /\ UNCHANGED stopperVars

(* Mutant of ResetFlags: the stop request is left for the next test. *)
ResetFlagsButStop(t) ==
    /\ runner[t] = "reset"
    /\ test_running' = FALSE
    /\ current_config' = NoTest
    /\ RunnerTo(t, "over")
    /\ UNCHANGED <<stop_requested, stopperVars>>

(* The finally block of run_test. *)
ResetFlags(t) ==
    /\ runner[t] = "reset"
    /\ test_running' = FALSE
    /\ stop_requested' = FALSE
    /\ current_config' = NoTest
    /\ RunnerTo(t, "over")
    /\ UNCHANGED stopperVars

(* stop_test up to the end of its locked block *)
stop_test(u) ==
    /\ stopper[u] = "new"
    /\ IF test_running
         THEN /\ stop_requested' = TRUE
              /\ stopper' = [stopper EXCEPT ![u] = "posting"]
              /\ target' = [target EXCEPT ![u] = current_config]
         ELSE /\ stopper' = [stopper EXCEPT ![u] = "over"]
              /\ UNCHANGED <<stop_requested, target>>
    /\ UNCHANGED <<test_running, current_config, runner>>
=============================================================================
