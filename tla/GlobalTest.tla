----------------------------- MODULE GlobalTest -----------------------------
(***************************************************************************)
(* global_api: services/start_test.py with the configuration store and the *)
(* outer loop of services/power_scheduler.py.                              *)
(*                                                                         *)
(* Every start_test request brings a Config object of its own, whose       *)
(* power_scheduler.start flag is later cleared in place to stop the        *)
(* scheduler.  What a cycle of the scheduler decides is not here.          *)
(***************************************************************************)
EXTENDS TestIds

CONSTANTS
    PushMayFail,    \* set_config of a cluster may raise
    ClusterMayFail  \* a cycle of the scheduler may raise

ASSUME GlobalTestAssumption ==
    PushMayFail \in BOOLEAN /\ ClusterMayFail \in BOOLEAN

VARIABLES
    active,     \* config_store: the active configuration
    enabled,    \* enabled[t]: config.power_scheduler.start of object t
    handler,    \* handler[t]: where the start_test request of t is
    thread,     \* _power_scheduler_thread, named after the test it began with
    loop        \* loop[t]: where the scheduler thread begun by test t is

globalVars == <<active, enabled, handler, thread, loop>>

HandlerSteps == {"arrived", "pushing", "checking", "spawning"}
AliveLoop == {"sleeping", "acting"}
Alive == {t \in Tests : loop[t] \in AliveLoop}

GlobalTypeOK ==
    /\ active \in Tests \cup {NoTest}
    /\ enabled \in [Tests -> BOOLEAN]
    /\ handler \in [Tests -> HandlerSteps \cup {"none", "ok", "failed"}]
    /\ thread \in Tests \cup {NoTest}
    /\ loop \in [Tests -> AliveLoop \cup {"none", "ended", "died"}]

(* A configuration asks for the power scheduler or does not. *)
GlobalInit ==
    /\ active = NoTest
    /\ enabled \in [Tests -> BOOLEAN]
    /\ handler = [t \in Tests |-> "none"]
    /\ thread = NoTest
    /\ loop = [t \in Tests |-> "none"]

HandlerTo(t, place) == handler' = [handler EXCEPT ![t] = place]

-----------------------------------------------------------------------------
(* start_test *)

StoreConfig(t) ==
    /\ handler[t] = "arrived"
    /\ active' = t
    /\ HandlerTo(t, "pushing")
    /\ UNCHANGED <<enabled, thread, loop>>

(* All clusters configured and waited for: minutes, when nodes must boot.  *)
(* Nodes that do not become ready in time are no failure.                  *)
PushClusters(t) ==
    /\ handler[t] = "pushing"
    /\ HandlerTo(t, IF enabled[t] THEN "checking" ELSE "ok")
    /\ UNCHANGED <<active, enabled, thread, loop>>

PushFails(t) ==
    /\ PushMayFail
    /\ handler[t] = "pushing"
    /\ HandlerTo(t, "failed")
    /\ UNCHANGED <<active, enabled, thread, loop>>

(* thread_running *)
IsRunning == thread # NoTest /\ thread \in Alive

(* Mutant of CheckThread: a thread object counts even when it has ended. *)
CheckThreadExists(t) ==
    /\ handler[t] = "checking"
    /\ HandlerTo(t, IF thread # NoTest THEN "ok" ELSE "spawning")
    /\ UNCHANGED <<active, enabled, thread, loop>>

(* Mutant of CheckThread: there is no check. *)
CheckThreadNever(t) ==
    /\ handler[t] = "checking"
    /\ HandlerTo(t, "spawning")
    /\ UNCHANGED <<active, enabled, thread, loop>>

CheckThread(t) ==
    /\ handler[t] = "checking"
    /\ HandlerTo(t, IF IsRunning THEN "ok" ELSE "spawning")
    /\ UNCHANGED <<active, enabled, thread, loop>>

SpawnThread(t) ==
    /\ handler[t] = "spawning"
    /\ thread' = t
    /\ loop' = [loop EXCEPT ![t] = "sleeping"]
    /\ HandlerTo(t, "ok")
    /\ UNCHANGED <<active, enabled>>

(* Mutant of stop_power_scheduler: no test for an active configuration. *)
stop_power_schedulerOfNone ==
    /\ enabled' = [t \in Tests \cup {active} |->
                      IF t = active THEN FALSE ELSE enabled[t]]
    /\ UNCHANGED <<active, handler, thread, loop>>

(* stop_test: clears the flag of whichever configuration is active. *)
stop_power_scheduler ==
    /\ enabled' = [t \in Tests |-> IF t = active THEN FALSE ELSE enabled[t]]
    /\ UNCHANGED <<active, handler, thread, loop>>

-----------------------------------------------------------------------------
(* power_scheduler_loop *)

(* The active configuration, if there is one, wants a power scheduler. *)
Wanted == \E t \in Tests : active = t /\ enabled[t]

(* After its sleep the loop re-reads the store: it goes on for whatever    *)
(* configuration is active then.  The thread is taken to have ended with   *)
(* the decision: a start_test pushes configurations to clusters between    *)
(* its StoreConfig and its CheckThread.                                    *)
Wake(t) ==
    /\ loop[t] = "sleeping"
    /\ loop' = [loop EXCEPT ![t] = IF Wanted THEN "acting" ELSE "ended"]
    /\ UNCHANGED <<active, enabled, handler, thread>>

FinishCycle(t) ==
    /\ loop[t] = "acting"
    /\ loop' = [loop EXCEPT ![t] = "sleeping"]
    /\ UNCHANGED <<active, enabled, handler, thread>>

(* Nothing catches what get_cluster_information or turn_nodes_on raise. *)
CycleRaises(t) ==
    /\ ClusterMayFail
    /\ loop[t] = "acting"
    /\ loop' = [loop EXCEPT ![t] = "died"]
    /\ UNCHANGED <<active, enabled, handler, thread>>

HandlerStep(t) ==
    \/ StoreConfig(t) \/ PushClusters(t) \/ PushFails(t)
    \/ CheckThread(t) \/ SpawnThread(t)

LoopStep(t) == Wake(t) \/ FinishCycle(t) \/ CycleRaises(t)
=============================================================================
