----------------------------- MODULE ClusterApi -----------------------------
(***************************************************************************)
(* One cluster API process: requests being routed, power calls and         *)
(* configuration pushes, all running as threads over the same WorkerNode   *)
(* objects.                                                                *)
(***************************************************************************)
EXTENDS LlmRouting, NodePower, ClusterConfigStore

CONSTANT StartConfigured    \* begin after a first, finished set_config

ASSUME StartConfiguredAssumption == StartConfigured \in BOOLEAN /\ MaxGen >= 1

VARIABLE grace
    \* grace[p]: the request that was inside the selection block when call p
    \* announced its shutdown, NoRequest if none was

vars == <<stateVars, routingVars, powerVars, storeVars, grace>>

(***************************************************************************)
(* The code waits ten seconds between announcing a shutdown and looking at *)
(* inflight_requests again, and a selection block takes milliseconds.      *)
(* Timing assumption: the block that was open at the announcement has been *)
(* left by the time of the second look.                                    *)
(***************************************************************************)
InSelection == IF lock # NoRequest THEN
                   IF pc[lock] \in SelectionPcs THEN lock ELSE NoRequest
               ELSE NoRequest

GraceIsOver(p) == grace[p] # NoRequest => pc[grace[p]] \notin SelectionPcs

Init ==
    /\ IF StartConfigured THEN ConfiguredInit ELSE StateInit
    /\ RoutingInit
    /\ PowerInit
    /\ StoreInit
    /\ grace = [p \in Calls |-> NoRequest]

(* turn_off_node, with its waiting time *)
turn_off_node(p) ==
    \/ MarkOff(p) /\ grace' = [grace EXCEPT ![p] = InSelection]
    \/ /\ GraceIsOver(p)
       /\ AbortTurnOff(p) \/ Recheck(p)
       /\ grace' = [grace EXCEPT ![p] = NoRequest]
    \/ SshShutdown(p) /\ UNCHANGED grace
    \/ SshFails(p) /\ UNCHANGED grace
    \/ Settle(p) /\ UNCHANGED grace

turn_off_idle_nodes(p) == StartSweep(p) \/ SkipNode(p) \/ Consider(p)

change_node_status(p) == turn_on(p) \/ StartOff(p)

PowerStep(p) ==
    /\ \/ turn_off_node(p)
       \/ change_node_status(p) /\ UNCHANGED grace
       \/ turn_off_idle_nodes(p) /\ UNCHANGED grace
    /\ UNCHANGED <<routingVars, storeVars>>

RequestStep(r) == handle_llm(r) /\ UNCHANGED <<powerVars, storeVars, grace>>

StoreStep == set_config /\ UNCHANGED <<routingVars, powerVars, grace>>

Next ==
    \/ \E r \in Requests : RequestStep(r)
    \/ \E p \in Calls : PowerStep(p)
    \/ StoreStep

Spec == Init /\ [][Next]_vars

(***************************************************************************)
(* A thread that can run will: nothing in the process suspends one for     *)
(* ever.  Requests and power calls need not arrive, so their first steps   *)
(* are left out; calls to the outside return because each carries a        *)
(* timeout.  worker_lock is not fair, and need not be: every request takes *)
(* it twice at most.                                                       *)
(***************************************************************************)
Fairness ==
    /\ \A r \in Requests : WF_vars(pc[r] # "new" /\ RequestStep(r))
    /\ \A p \in Calls : WF_vars(step[p] # "idle" /\ PowerStep(p))

FairSpec == Spec /\ Fairness

-----------------------------------------------------------------------------
(* Invariants *)

(* Every variable stays within its domain.                                 *)
TypeOK ==
    /\ StateTypeOK
    /\ RoutingTypeOK
    /\ PowerTypeOK
    /\ StoreTypeOK
    /\ grace \in [Calls -> Requests \cup {NoRequest}]

(* "Slots are never leaked" (llm.py:135): whatever power and configuration *)
(* calls run in between, the in-flight counter of every object is exactly  *)
(* the number of requests that claimed it and have not released it.        *)
InflightExact ==
    \A w \in Workers : inflight[w] = Cardinality(Holders(w))

(* How the counters stay exact.  worker_lock is held in the two blocks and *)
(* nowhere else; a counter read inside a block is still the counter when   *)
(* it is written back; and a request that has a worker has a real one.     *)
LockInv ==
    \A r \in Requests : pc[r] \in SelectionPcs \cup ReleasePcs <=> lock = r

SeenInv ==
    \A r \in Requests : pc[r] \in {"claim", "drop"} => seen[r] = inflight[chosen[r]]

PlaceInv ==
    \A r \in Requests :
        /\ pc[r] \notin {"new", "rejected"} => cfg[r] \in Gens
        /\ pc[r] = "syncwrite" => at[r] \in 1 .. Cardinality(Nodes)
        /\ pc[r] \in {"claim", "free", "freewrite"} \cup HoldingPcs
               => chosen[r] \in Workers

(* The inductive invariant behind InflightExact.                           *)
RoutingInv == LockInv /\ SeenInv /\ PlaceInv /\ InflightExact

(* sync_worker_status: when no request is inside a locked block, a worker  *)
(* shown as working has a request in flight, so that the idle sweep, which *)
(* skips working nodes, cannot be kept off a drained one for ever.         *)
WorkingMeansBusy ==
    lock = NoRequest =>
        \A w \in Workers : status[w] = WORKING => inflight[w] > 0

(* The call p is shutting the object w down. *)
ShuttingDown(p, w) == step[p] \in ShutdownSteps /\ Current(p) = w

(* "Never power off a node while requests are still inflight"              *)
(* (power_scheduler.py:488), as far as the code delivers it: it holds when *)
(* one call alone is shutting the node down and nobody has overwritten the *)
(* TURNING_OFF that keeps new requests away.                               *)
SoleShutdownIsDrained ==
    \A p \in Calls :
        /\ step[p] \in {"ssh", "settling"}
        /\ status[Current(p)] = TURNING_OFF
        /\ \A q \in Calls \ {p} : ~ShuttingDown(q, Current(p))
        => inflight[Current(p)] = 0

-----------------------------------------------------------------------------
(* Action properties *)

(* choose_worker_node: a request is queued behind others only when no      *)
(* eligible worker of its configuration has a slot to spare, provided that *)
(* their capacities are known (workers are listed, and may be shown as     *)
(* idle, before set_config has asked for their slots).                     *)
NoNeedlessQueueing ==
    [][\A r \in Requests :
          LET eligible == Eligible(WorkerNodesOf(cfg[r]))
          IN  /\ pc[r] # "claim"
              /\ pc'[r] = "claim"
              /\ \A w \in eligible : max_slots[w] > 0
              => \/ free_slots(chosen'[r]) > 0
                 \/ \A w \in eligible : free_slots(w) = 0
      ]_vars

(* "Ensure the same working node (sorted by name) is never turned off"     *)
(* (power_scheduler.py:471): no step of an idle sweep takes the first node *)
(* down, whatever order the list is in and whatever power-ons, power-offs  *)
(* and requests do meanwhile.                                              *)
KeeperStaysUp ==
    [][\A p \in Sweeps, g \in 1 .. gen :
          LET keeper == FirstByName(WorkerNodesOf(g))
          IN  /\ listed[g] > 0
              /\ status[keeper] \in Running
              /\ status'[keeper] \notin Running
              => ~PowerStep(p)
      ]_vars

-----------------------------------------------------------------------------
(* Refinement *)

(* A request is inside from its claim to the moment its slot is counted    *)
(* free; what precedes and follows within the locked blocks is no step of  *)
(* the abstract pool.                                                      *)
Phase(r) ==
    IF pc[r] \in HoldingPcs THEN "inside"
    ELSE IF pc[r] \in {"free", "freewrite", "done", "rejected"} THEN "past"
    ELSE "outside"

Pool == INSTANCE WorkerPool WITH
            phase <- [r \in Requests |-> Phase(r)],
            use <- [r \in Requests |->
                       IF pc[r] \in HoldingPcs THEN chosen[r] ELSE NoWorker],
            count <- inflight

(* "always decremented in the finally block so slots are never leaked"     *)
(* (llm.py:136): with its two locked blocks, its split updates and all     *)
(* power and configuration calls around them, handle_llm is a pool from    *)
(* which each request takes one slot, once, and gives back that slot.      *)
ImplementsPool == Pool!Spec

-----------------------------------------------------------------------------
(* What a comment says, and the code does not do.                          *)

(* "Never power off a node while requests are still inflight."             *)
(* (power_scheduler.py:488), at the moment the shutdown is being sent and  *)
(* waited for.                                                             *)
NeverPowerOffBusy ==
    \A p \in Calls :
        step[p] \in {"ssh", "settling"} => inflight[Current(p)] = 0

-----------------------------------------------------------------------------
(* Liveness *)

(* Every request that arrives is answered, with a result or an error: the  *)
(* lock is always given back and no request waits for another for ever.    *)
RequestsFinish ==
    \A r \in Requests : pc[r] # "new" ~> pc[r] \in {"done", "rejected"}

(* A power transition always ends: a node announced as turning on or off   *)
(* is eventually shown as running or off again (TURNING_* nodes are        *)
(* selected by no request, power-on, power-off or sweep).                  *)
TransitionsEnd ==
    \A w \in Workers :
        status[w] \in {TURNING_ON, TURNING_OFF}
            ~> status[w] \in {OFF, IDLE, WORKING}
=============================================================================
