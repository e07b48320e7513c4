----------------------------- MODULE NodePower ------------------------------
(***************************************************************************)
(* cluster_api/services/power_scheduler.py: powering workers on by a GPIO  *)
(* pulse and off over SSH, and the idle sweep.                             *)
(*                                                                         *)
(* Each call of an endpoint is a thread that reads the configuration once, *)
(* takes no lock, and sleeps or does I/O between its steps: every such     *)
(* place is a step boundary.  Waiting times themselves are not modelled;   *)
(* the one that correctness leans on (the ten seconds before the second    *)
(* in-flight check) is stated where the modules are composed.              *)
(*                                                                         *)
(* Outside this module: GPIO, SSH, the Kubernetes API and the llama        *)
(* server, which may answer or fail in every way the code distinguishes.   *)
(***************************************************************************)
EXTENDS ClusterState

CONSTANTS
    OnCalls,        \* calls of change_node_status(k, "on")
    OffCalls,       \* calls of change_node_status(k, "off")
    Sweeps,         \* calls of turn_off_idle_nodes
    MaxRounds,      \* bound: readiness rounds that fit in timeout_s
    ApiClientFails  \* get_api_client may raise in wait_for_nodes_to_be_ready

ASSUME CallsAssumption ==
    /\ OnCalls \cap OffCalls = {}
    /\ Sweeps \cap (OnCalls \cup OffCalls) = {}
ASSUME PowerBoundsAssumption ==
    MaxRounds \in Nat \ {0} /\ ApiClientFails \in BOOLEAN

Calls == OnCalls \cup OffCalls \cup Sweeps

VARIABLES
    step,       \* where each call is
    sel,        \* sel[p]: nodes_to_change of a power-on call
    open,       \* open[p]: objects the current loop has still to handle
    ready,      \* ready[p]: ready_nodes of the current readiness round
    rounds      \* rounds[p]: readiness rounds that failed so far

powerVars == <<step, sel, open, ready, rounds>>

(* Where a power-off or sweep has announced a shutdown it has not finished. *)
ShutdownSteps == {"draining", "ssh", "settling"}
Steps == {"idle", "pulsing", "polling", "asking", "promoting", "expiring",
          "considering", "marking", "done"} \cup ShutdownSteps

PowerTypeOK ==
    /\ step \in [Calls -> Steps]
    /\ sel \in [Calls -> SUBSET Workers]
    /\ open \in [Calls -> SUBSET Workers]
    /\ ready \in [Calls -> SUBSET Workers]
    /\ rounds \in [Calls -> 0 .. MaxRounds]

PowerInit ==
    /\ step = [p \in Calls |-> "idle"]
    /\ sel = [p \in Calls |-> {}]
    /\ open = [p \in Calls |-> {}]
    /\ ready = [p \in Calls |-> {}]
    /\ rounds = [p \in Calls |-> 0]

-----------------------------------------------------------------------------

MoveTo(p, label) == step' = [step EXCEPT ![p] = label]

(* Position of an object in the worker_nodes list it belongs to. *)
Position(w) == CHOOSE i \in 1 .. Cardinality(Nodes) : ListOrder[i] = w[2]
FirstListed(S) == CHOOSE w \in S : \A v \in S : Position(w) <= Position(v)

(* The first k objects of the list whose status is s. *)
FirstWithStatus(k, s, S) ==
    LET M == {w \in S : status[w] = s}
    IN  {w \in M : Cardinality({v \in M : Position(v) < Position(w)}) < k}

select_nodes_to_turn_on(k, S) == FirstWithStatus(k, OFF, S)
select_nodes_to_turn_off(k, S) == FirstWithStatus(k, IDLE, S)

-----------------------------------------------------------------------------
(* change_node_status(k, "on") *)

(* Without a configuration the call answers 500 having changed nothing. *)
StartOn(p) ==
    /\ p \in OnCalls
    /\ step[p] = "idle"
    /\ IF gen = 0
         THEN MoveTo(p, "done") /\ UNCHANGED <<sel, open>>
         ELSE /\ \E k \in 0 .. Cardinality(Nodes) :
                   sel' = [sel EXCEPT
                       ![p] = select_nodes_to_turn_on(k, WorkerNodesOf(gen))]
              /\ open' = [open EXCEPT ![p] = sel'[p]]
              /\ MoveTo(p, "pulsing")
    /\ UNCHANGED <<stateVars, ready, rounds>>

(* turn_on_node: one thread per node; the pulse takes half a second and    *)
(* the status is assigned after it, whatever it has become meanwhile.      *)
turn_on_node(p, w) ==
    /\ step[p] = "pulsing"
    /\ w \in open[p]
    /\ status' = [status EXCEPT ![w] = TURNING_ON]
    /\ open' = [open EXCEPT ![p] = @ \ {w}]
    /\ UNCHANGED <<gen, listed, inflight, max_slots, step, sel, ready, rounds>>

(* The exception handler of turn_on_node: nothing but a warning. *)
PulseFails(p, w) ==
    /\ step[p] = "pulsing"
    /\ w \in open[p]
    /\ open' = [open EXCEPT ![p] = @ \ {w}]
    /\ UNCHANGED <<stateVars, step, sel, ready, rounds>>

(* All pulse threads joined: wait_for_nodes_to_be_ready begins. *)
BeginWait(p) ==
    /\ step[p] = "pulsing"
    /\ open[p] = {}
    /\ \/ MoveTo(p, "polling") /\ open' = [open EXCEPT ![p] = sel[p]]
       \/ ApiClientFails /\ MoveTo(p, "done") /\ UNCHANGED open
    /\ UNCHANGED <<stateVars, sel, ready, rounds>>

(* One node of a readiness round.  Whether its pod is reported ready is up *)
(* to Kubernetes, and slots already known are not asked for again.         *)
PollNotReady(p) ==
    /\ step[p] = "polling"
    /\ open[p] # {}
    /\ open' = [open EXCEPT ![p] = @ \ {FirstListed(open[p])}]
    /\ UNCHANGED <<stateVars, step, sel, ready, rounds>>

PollReady(p) ==
    /\ step[p] = "polling"
    /\ open[p] # {}
    /\ max_slots[FirstListed(open[p])] > 0
    /\ open' = [open EXCEPT ![p] = @ \ {FirstListed(open[p])}]
    /\ ready' = [ready EXCEPT ![p] = @ \cup {FirstListed(open[p])}]
    /\ UNCHANGED <<stateVars, step, sel, rounds>>

(* refresh_worker_capacity, called when no slots are known: /props is      *)
(* asked with a timeout of thirty seconds ...                              *)
AskProps(p) ==
    /\ step[p] = "polling"
    /\ open[p] # {}
    /\ max_slots[FirstListed(open[p])] = 0
    /\ MoveTo(p, "asking")
    /\ UNCHANGED <<stateVars, sel, open, ready, rounds>>

(* ... and its answer assigned, whatever the worker has become meanwhile;  *)
(* an answer without slots leaves the status alone ...                     *)
refresh_worker_capacity(p) ==
    /\ step[p] = "asking"
    /\ open[p] # {}
    /\ LET w == FirstListed(open[p])
       IN  /\ \E s \in 0 .. MaxSlots :
                 /\ max_slots' = [max_slots EXCEPT ![w] = s]
                 /\ status' = [status EXCEPT ![w] = IF s > 0 THEN IDLE ELSE @]
                 /\ ready' = [ready EXCEPT ![p] = IF s > 0 THEN @ \cup {w} ELSE @]
           /\ open' = [open EXCEPT ![p] = @ \ {w}]
    /\ MoveTo(p, "polling")
    /\ UNCHANGED <<gen, listed, inflight, sel, rounds>>

(* ... unless the request fails.                                           *)
RefreshFails(p) ==
    /\ step[p] = "asking"
    /\ open[p] # {}
    /\ open' = [open EXCEPT ![p] = @ \ {FirstListed(open[p])}]
    /\ MoveTo(p, "polling")
    /\ UNCHANGED <<stateVars, sel, ready, rounds>>

(* The second loop of a round, over ready_nodes: the status of each is     *)
(* logged to the database before the next one is looked at.                *)
BeginPromoting(p) ==
    /\ step[p] = "polling"
    /\ open[p] = {}
    /\ open' = [open EXCEPT ![p] = ready[p]]
    /\ MoveTo(p, "promoting")
    /\ UNCHANGED <<stateVars, sel, ready, rounds>>

Promote(p) ==
    /\ step[p] = "promoting"
    /\ open[p] # {}
    /\ LET w == FirstListed(open[p])
       IN  /\ status' = [status EXCEPT ![w] = IF @ \in Running THEN @ ELSE IDLE]
           /\ open' = [open EXCEPT ![p] = @ \ {w}]
    /\ UNCHANGED <<gen, listed, inflight, max_slots, step, sel, ready, rounds>>

(* Mutant of EndRound: the deadline is never looked at. *)
EndRoundNoDeadline(p) ==
    /\ step[p] = "promoting"
    /\ open[p] = {}
    /\ ready' = [ready EXCEPT ![p] = {}]
    /\ \/ ready[p] = sel[p] /\ MoveTo(p, "done") /\ UNCHANGED <<open, rounds>>
       \/ /\ ready[p] # sel[p]
          /\ rounds' = [rounds EXCEPT ![p] = @ + 1]
          /\ open' = [open EXCEPT ![p] = sel[p]]
          /\ MoveTo(p, "polling")
    /\ UNCHANGED <<stateVars, sel>>

(* The end of a round: the call returns, polls again, or finds that the    *)
(* deadline has passed.                                                    *)
EndRound(p) ==
    /\ step[p] = "promoting"
    /\ open[p] = {}
    /\ ready' = [ready EXCEPT ![p] = {}]
    /\ \/ ready[p] = sel[p] /\ MoveTo(p, "done") /\ UNCHANGED <<open, rounds>>
       \/ /\ ready[p] # sel[p]
          /\ open' = [open EXCEPT ![p] = sel[p]]
          /\ \/ /\ rounds[p] + 1 < MaxRounds
                /\ rounds' = [rounds EXCEPT ![p] = @ + 1]
                /\ MoveTo(p, "polling")
             \/ MoveTo(p, "expiring") /\ UNCHANGED rounds
    /\ UNCHANGED <<stateVars, sel>>

(* The deadline passed: each node still not running is given up as off.    *)
Expire(p) ==
    /\ step[p] = "expiring"
    /\ open[p] # {}
    /\ LET w == FirstListed(open[p])
       IN  /\ IF status[w] \in Running
                THEN UNCHANGED <<status, max_slots>>
                ELSE /\ status' = [status EXCEPT ![w] = OFF]
                     /\ max_slots' = [max_slots EXCEPT ![w] = 0]
           /\ open' = [open EXCEPT ![p] = @ \ {w}]
           /\ MoveTo(p, IF open[p] = {w} THEN "done" ELSE "expiring")
    /\ UNCHANGED <<gen, listed, inflight, sel, ready, rounds>>

-----------------------------------------------------------------------------
(* change_node_status(k, "off"), turn_off_idle_nodes and turn_off_node *)

(* The object the loop over nodes is at: calls of "off" follow the list,   *)
(* sweeps the names.                                                       *)
Current(p) ==
    IF p \in Sweeps THEN FirstByName(open[p]) ELSE FirstListed(open[p])

LoopStep(p) == IF p \in Sweeps THEN "considering" ELSE "marking"

(* On to the next node of the loop, or out of it. *)
NextNode(p) ==
    /\ open' = [open EXCEPT ![p] = @ \ {Current(p)}]
    /\ MoveTo(p, IF open[p] = {Current(p)} THEN "done" ELSE LoopStep(p))

Begin(p, S) ==
    /\ open' = [open EXCEPT ![p] = S]
    /\ MoveTo(p, IF S = {} THEN "done" ELSE LoopStep(p))

StartOff(p) ==
    /\ p \in OffCalls
    /\ step[p] = "idle"
    /\ IF gen = 0
         THEN Begin(p, {})
         ELSE \E k \in 0 .. Cardinality(Nodes) :
                 Begin(p, select_nodes_to_turn_off(k, WorkerNodesOf(gen)))
    /\ UNCHANGED <<stateVars, sel, ready, rounds>>

(* Mutant of Swept: the keeper is the first node of the list as built. *)
SweptKeepsFirstListed(g) == WorkerNodesOf(g) \ {FirstListed(WorkerNodesOf(g))}

(* turn_off_idle_nodes: the first node by name is the keeper; stay_one is  *)
(* never read.  No configuration and an empty list (nodes[0]) are errors   *)
(* that end the call.                                                      *)
Swept(g) == WorkerNodesOf(g) \ {FirstByName(WorkerNodesOf(g))}

StartSweep(p) ==
    /\ p \in Sweeps
    /\ step[p] = "idle"
    /\ Begin(p, IF gen = 0 THEN {}
                ELSE IF listed[gen] = 0 THEN {} ELSE Swept(gen))
    /\ UNCHANGED <<stateVars, sel, ready, rounds>>

(* Only idle nodes without requests are looked at further: get_idle_time   *)
(* then reads the log database, and the node is turned off or spared.      *)
SkipNode(p) ==
    /\ step[p] = "considering"
    /\ NextNode(p)
    /\ UNCHANGED <<stateVars, sel, ready, rounds>>

Consider(p) ==
    /\ step[p] = "considering"
    /\ status[Current(p)] = IDLE
    /\ inflight[Current(p)] = 0
    /\ MoveTo(p, "marking")
    /\ UNCHANGED <<stateVars, sel, open, ready, rounds>>

(* turn_off_node up to its ten-second sleep *)
MarkOff(p) ==
    /\ step[p] = "marking"
    /\ status' = [status EXCEPT ![Current(p)] = TURNING_OFF]
    /\ MoveTo(p, "draining")
    /\ UNCHANGED <<gen, listed, inflight, max_slots, sel, open, ready, rounds>>

(* Mutant of AbortTurnOff: the announced shutdown is not taken back. *)
AbortTurnOffSilently(p) ==
    /\ step[p] = "draining"
    /\ inflight[Current(p)] > 0
    /\ NextNode(p)
    /\ UNCHANGED <<stateVars, sel, ready, rounds>>

(* Mutant of Recheck: there is no second look. *)
RecheckBlind(p) ==
    /\ step[p] = "draining"
    /\ MoveTo(p, "ssh")
    /\ UNCHANGED <<stateVars, sel, open, ready, rounds>>

(* The second look at inflight_requests: busy aborts, free goes on. *)
AbortTurnOff(p) ==
    /\ step[p] = "draining"
    /\ inflight[Current(p)] > 0
    /\ status' = [status EXCEPT ![Current(p)] = IDLE]
    /\ NextNode(p)
    /\ UNCHANGED <<gen, listed, inflight, max_slots, sel, ready, rounds>>

Recheck(p) ==
    /\ step[p] = "draining"
    /\ inflight[Current(p)] = 0
    /\ MoveTo(p, "ssh")
    /\ UNCHANGED <<stateVars, sel, open, ready, rounds>>

(* The shutdown command is sent and twenty seconds are waited ... *)
SshShutdown(p) ==
    /\ step[p] = "ssh"
    /\ MoveTo(p, "settling")
    /\ UNCHANGED <<stateVars, sel, open, ready, rounds>>

(* ... or something raises, before or after the command took effect. *)
SshFails(p) ==
    /\ step[p] = "ssh"
    /\ status' = [status EXCEPT ![Current(p)] = IDLE]
    /\ NextNode(p)
    /\ UNCHANGED <<gen, listed, inflight, max_slots, sel, ready, rounds>>

Settle(p) ==
    /\ step[p] = "settling"
    /\ status' = [status EXCEPT ![Current(p)] = OFF]
    /\ NextNode(p)
    /\ UNCHANGED <<gen, listed, inflight, max_slots, sel, ready, rounds>>

-----------------------------------------------------------------------------

wait_for_nodes_to_be_ready(p) ==
    \/ BeginWait(p)
    \/ PollNotReady(p) \/ PollReady(p)
    \/ AskProps(p) \/ refresh_worker_capacity(p) \/ RefreshFails(p)
    \/ BeginPromoting(p) \/ Promote(p) \/ EndRound(p) \/ Expire(p)

turn_on(p) ==
    \/ StartOn(p)
    \/ \E w \in Workers : turn_on_node(p, w) \/ PulseFails(p, w)
    \/ wait_for_nodes_to_be_ready(p)
=============================================================================
