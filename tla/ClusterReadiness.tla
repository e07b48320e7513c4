-------------------------- MODULE ClusterReadiness --------------------------
(***************************************************************************)
(* global_api/services/ensure_nodes_ready.py with the part of start_test   *)
(* that precedes it: a test pushes its configuration to a cluster, has all *)
(* nodes powered on, and waits, but not for ever, for nodes that can serve *)
(* and for the in-flight requests to be gone.                              *)
(*                                                                         *)
(* The check talks to ClusterApi over HTTP: each of its polls sees the     *)
(* cluster as it is at that moment, and requests, idle sweeps and its own  *)
(* power-on call, which it may give up waiting for, go on meanwhile.  One  *)
(* test is started.                                                        *)
(***************************************************************************)
EXTENDS ClusterApi

CONSTANTS
    AllOn,      \* the power-on call of the check
    MaxPolls    \* bound: polls that fit in timeout_s

ASSUME ReadinessAssumption == AllOn \in OnCalls /\ MaxPolls \in Nat \ {0}

VARIABLES
    check,      \* where the start of the test is with this cluster
    total,      \* number of nodes it expects to see ready
    all_ready,  \* the first wait ended because all of them were
    polls       \* polls of the current wait that are over

readyVars == <<check, total, all_ready, polls>>
allVars == <<vars, readyVars>>

(* How the check can end: seen ready and settled; given up by a deadline,  *)
(* which only warns; left out for a k3d cluster or one that did not answer;*)
(* or the push itself failed, which fails the start of the test.           *)
Verdicts == {"ready", "unready", "skipped", "failed"}
CheckSteps == {"pushing", "pushed", "informed", "turning", "polling", "settling"}

ReadinessTypeOK ==
    /\ TypeOK
    /\ check \in {"away"} \cup CheckSteps \cup Verdicts
    /\ total \in 0 .. Cardinality(Nodes)
    /\ all_ready \in BOOLEAN
    /\ polls \in 0 .. MaxPolls - 1

ReadinessInit ==
    /\ Init
    /\ check = "away"
    /\ total = 0
    /\ all_ready = FALSE
    /\ polls = 0

CheckTo(place) == check' = place

-----------------------------------------------------------------------------
(* The push *)

PushConfig ==
    /\ check = "away"
    /\ SetConfig
    /\ CheckTo("pushing")
    /\ UNCHANGED <<total, all_ready, polls>>

(* set_config answers when its build is over, with an error if it raised. *)
BuildStep ==
    /\ \/ /\ ListNode \/ BeginProbing \/ Probe
          /\ UNCHANGED check
       \/ BuildFails /\ CheckTo(IF check = "pushing" THEN "failed" ELSE check)
       \/ FinishBuild /\ CheckTo(IF check = "pushing" THEN "pushed" ELSE check)
    /\ UNCHANGED <<total, all_ready, polls>>

(* The answer takes longer than 120 s: the build goes on alone. *)
PushTimesOut ==
    /\ check = "pushing"
    /\ CheckTo("failed")
    /\ UNCHANGED <<vars, total, all_ready, polls>>

-----------------------------------------------------------------------------
(* ensure_nodes_ready *)

(* A k3d cluster, or no answer to the first question. *)
SkipCheck ==
    /\ check = "pushed"
    /\ CheckTo("skipped")
    /\ UNCHANGED <<vars, total, all_ready, polls>>

CountNodes ==
    /\ check = "pushed"
    /\ total' = listed[gen]
    /\ CheckTo("informed")
    /\ UNCHANGED <<vars, all_ready, polls>>

(* POST turn_on_nodes with number_of_nodes = total *)
TurnAllOn ==
    /\ check = "informed"
    /\ StartOn(AllOn)
    /\ sel'[AllOn] = select_nodes_to_turn_on(total, WorkerNodesOf(gen))
    /\ CheckTo("turning")
    /\ UNCHANGED <<routingVars, storeVars, grace, total, all_ready, polls>>

(* The POST is lost, or answered with whatever result, or given up after   *)
(* 300 s with the call still going on: the check proceeds all the same.    *)
TurnOnOver ==
    /\ check \in {"informed", "turning"}
    /\ CheckTo("polling")
    /\ UNCHANGED <<vars, total, all_ready, polls>>

IsUsable(w) == status[w] \in Running /\ max_slots[w] > 0

(* Mutant of SeeAllReady: one ready node is enough. *)
SeeOneReady ==
    /\ check = "polling"
    /\ \E w \in WorkerNodesOf(gen) : IsUsable(w)
    /\ all_ready' = TRUE
    /\ polls' = 0
    /\ CheckTo("settling")
    /\ UNCHANGED <<vars, total>>

SeeAllReady ==
    /\ check = "polling"
    /\ Cardinality({w \in WorkerNodesOf(gen) : IsUsable(w)}) = total
    /\ all_ready' = TRUE
    /\ polls' = 0
    /\ CheckTo("settling")
    /\ UNCHANGED <<vars, total>>

(* Mutant of PollAgainOr: one poll after the deadline. *)
PollOnceMoreOr(place) ==
    \/ polls + 1 <= MaxPolls /\ polls' = polls + 1 /\ UNCHANGED check
    \/ polls' = 0 /\ CheckTo(place)

(* Another poll, unless the deadline has passed. *)
PollAgainOr(place) ==
    \/ polls + 1 < MaxPolls /\ polls' = polls + 1 /\ UNCHANGED check
    \/ polls' = 0 /\ CheckTo(place)

(* Mutant of SeeNotReady: it is waited for as long as it takes. *)
SeeNotReadyForever ==
    /\ check = "polling"
    /\ UNCHANGED <<allVars>>

(* Too few nodes are ready, or the poll fails; the deadline of this wait   *)
(* only leads on to the next.                                              *)
SeeNotReady ==
    /\ check = "polling"
    /\ PollAgainOr("settling")
    /\ UNCHANGED <<vars, total, all_ready>>

InflightSeen == {w \in WorkerNodesOf(gen) : inflight[w] > 0}

(* Mutant of SeeNoneInflight: queued requests only. *)
SeeNoneQueued ==
    /\ check = "settling"
    /\ \A w \in WorkerNodesOf(gen) : queued_requests(w) = 0
    /\ CheckTo(IF all_ready THEN "ready" ELSE "unready")
    /\ UNCHANGED <<vars, total, all_ready, polls>>

(* in_flight == 0 *)
SeeNoneInflight ==
    /\ check = "settling"
    /\ InflightSeen = {}
    /\ CheckTo(IF all_ready THEN "ready" ELSE "unready")
    /\ UNCHANGED <<vars, total, all_ready, polls>>

(* Requests are in flight, or the poll fails; the deadline only warns. *)
SeeInflight ==
    /\ check = "settling"
    /\ PollAgainOr("unready")
    /\ UNCHANGED <<vars, total, all_ready>>

StartStep ==
    \/ PushTimesOut \/ SkipCheck \/ CountNodes
    \/ TurnAllOn \/ TurnOnOver
    \/ SeeAllReady \/ SeeNotReady
    \/ SeeNoneInflight \/ SeeInflight

-----------------------------------------------------------------------------

ReadinessNext ==
    \/ \E r \in Requests : RequestStep(r) /\ UNCHANGED readyVars
    \/ \E p \in Calls : /\ p = AllOn => step[p] # "idle"
                        /\ PowerStep(p)
                        /\ UNCHANGED readyVars
    \/ (PushConfig \/ BuildStep) /\ UNCHANGED <<routingVars, powerVars, grace>>
    \/ StartStep

ReadinessSpec == ReadinessInit /\ [][ReadinessNext]_allVars

(***************************************************************************)
(* The fairness of the cluster's own threads, and that of the threads that *)
(* answer set_config and start_test.                                       *)
(***************************************************************************)
ReadinessFairSpec ==
    /\ ReadinessSpec
    /\ \A r \in Requests :
          WF_allVars(pc[r] # "new" /\ RequestStep(r) /\ UNCHANGED readyVars)
    /\ \A p \in Calls :
          WF_allVars(step[p] # "idle" /\ PowerStep(p) /\ UNCHANGED readyVars)
    /\ WF_allVars(BuildStep /\ UNCHANGED <<routingVars, powerVars, grace>>)
    /\ WF_allVars(StartStep)

-----------------------------------------------------------------------------
(* Properties *)

(* "wait until the cluster is ready for traffic" (line 10): once the check *)
(* has found the cluster ready, no request is turned away for want of a    *)
(* worker, however late the check's own power-on call ends and whatever an *)
(* idle sweep does: the node the sweep spares was among the ready ones.    *)
ReadyForTraffic ==
    [][\A r \in Requests :
          /\ check = "ready"
          /\ pc[r] \notin {"new", "rejected"}
          /\ cfg[r] = gen
          => pc'[r] # "rejected"
      ]_allVars

(* "check that the pods have no inflight requests" (line 86): when the     *)
(* check ends with a cluster it has found ready, no request holds a worker *)
(* of the configuration just pushed.                                       *)
SettledWhenReady ==
    [][ /\ check # "ready"
        /\ check' = "ready"
        => \A w \in WorkerNodesOf(gen) : Holders(w) = {}
      ]_allVars

(* A start_test that has begun to push is answered, whether or not the     *)
(* nodes come up and the requests drain.                                   *)
StartEnds == check = "pushing" ~> check \in Verdicts
=============================================================================
