---------------------------- MODULE ClusterState ----------------------------
(***************************************************************************)
(* The state every endpoint of the cluster API shares: the configuration   *)
(* held by config_store and the WorkerNode objects hanging off it.         *)
(*                                                                         *)
(* POST /set_config replaces the whole configuration, so a machine is      *)
(* represented by a NEW WorkerNode object in every configuration, while    *)
(* calls already running keep the object they read.  An object is the      *)
(* pair <<g, n>>: machine n as listed by the g-th configuration.  Nothing  *)
(* here takes a lock: which operations lock is the business of the modules *)
(* that extend this one.                                                   *)
(***************************************************************************)
EXTENDS Integers, Sequences, FiniteSets

CONSTANTS
    Nodes,      \* the worker machines, numbered in the order of their names
    ListOrder,  \* the order in which the Kubernetes API lists them
    MaxGen,     \* bound: how many configurations are ever stored
    MaxSlots    \* bound: the largest total_slots a llama server reports

ASSUME NodesAssumption == Nodes \subseteq Nat /\ IsFiniteSet(Nodes)
ASSUME ListOrderAssumption ==   \* every machine is listed once
    /\ ListOrder \in [1 .. Cardinality(Nodes) -> Nodes]
    /\ \A i, j \in 1 .. Cardinality(Nodes) :
           ListOrder[i] = ListOrder[j] => i = j
    /\ \A n \in Nodes : \E i \in 1 .. Cardinality(Nodes) : ListOrder[i] = n
ASSUME BoundsAssumption == MaxGen \in Nat /\ MaxSlots \in Nat

VARIABLES
    gen,        \* number of the configuration in config_store, 0 for None
    listed,     \* listed[g]: length of worker_nodes of configuration g
    status,     \* status[w]: WorkerNode.status
    inflight,   \* inflight[w]: WorkerNode.inflight_requests
    max_slots   \* max_slots[w]: WorkerNode.max_slots

stateVars == <<gen, listed, status, inflight, max_slots>>

Gens == 1 .. MaxGen
Workers == Gens \X Nodes
NoWorker == <<0, 0>>

-----------------------------------------------------------------------------
(* models/enum.py *)
OFF == "off"
TURNING_ON == "turning_on"
TURNING_OFF == "turning_off"
WORKING == "working"
IDLE == "idle"

Statuses == {OFF, TURNING_ON, TURNING_OFF, WORKING, IDLE}
Running == {IDLE, WORKING}

-----------------------------------------------------------------------------
(* The derived counters of WorkerNode. *)
MinOf(a, b) == IF a <= b THEN a ELSE b
MaxOf(a, b) == IF a <= b THEN b ELSE a

active_requests(w) == MinOf(inflight[w], max_slots[w])
queued_requests(w) == MaxOf(0, inflight[w] - max_slots[w])
free_slots(w) == MaxOf(0, max_slots[w] - active_requests(w))

(* config.worker_nodes of configuration g: its first listed[g] objects. *)
WorkerNodesOf(g) == {<<g, ListOrder[i]>> : i \in 1 .. listed[g]}

(* sorted(workers, key=lambda worker: worker.name)[0] *)
FirstByName(S) == CHOOSE w \in S : \A v \in S : w[2] <= v[2]

-----------------------------------------------------------------------------
StateTypeOK ==
    /\ gen \in 0 .. MaxGen
    /\ listed \in [Gens -> 0 .. Cardinality(Nodes)]
    /\ status \in [Workers -> Statuses]
    /\ inflight \in [Workers -> Nat]
    /\ max_slots \in [Workers -> 0 .. MaxSlots]

(* A WorkerNode nobody has built yet holds the defaults of its model. *)
FreshWorkers ==
    /\ inflight = [w \in Workers |-> 0]
    /\ max_slots = [w \in Workers |-> 0]

(* The process starts with config_store.config = None. *)
StateInit ==
    /\ gen = 0
    /\ listed = [g \in Gens |-> 0]
    /\ status = [w \in Workers |-> OFF]
    /\ FreshWorkers

(* A cluster whose first configuration has been stored and probed: every   *)
(* node is either idle with at least one slot, or off with none.           *)
ConfiguredInit ==
    /\ gen = 1
    /\ listed = [g \in Gens |-> IF g = 1 THEN Cardinality(Nodes) ELSE 0]
    /\ inflight = [w \in Workers |-> 0]
    /\ max_slots \in [Workers -> 0 .. MaxSlots]
    /\ \A w \in Workers : w[1] # 1 => max_slots[w] = 0
    /\ status = [w \in Workers |-> IF max_slots[w] > 0 THEN IDLE ELSE OFF]
=============================================================================
