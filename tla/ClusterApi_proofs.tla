-------------------------- MODULE ClusterApi_proofs --------------------------
(***************************************************************************)
(* Proofs about ClusterApi for every set of nodes, requests and calls.     *)
(* TypeOK needs the places requests are in (PlaceInv) and PlaceInv needs   *)
(* the types, so both are shown together; the exact counters then follow   *)
(* from the discipline of worker_lock.  Shutdowns need an invariant of     *)
(* their own, DrainInv, which says whose requests may still reach a node   *)
(* that is turning off.                                                    *)
(***************************************************************************)
EXTENDS ClusterApi, FiniteSetTheorems, NaturalsInduction, WellFoundedInduction, TLAPS

(* The constants' assumptions, and what they say of N = Cardinality(Nodes).*)
LEMMA NodeCount == Cardinality(Nodes) \in Nat
  BY NodesAssumption, FS_CardinalityType

(* The objects of a configuration are worker objects.                      *)
LEMMA ListedAreWorkers ==
  ASSUME StateTypeOK, NEW g \in Gens
  PROVE  WorkerNodesOf(g) \subseteq Workers
<1>1. listed[g] \in 0 .. Cardinality(Nodes)
  BY DEF StateTypeOK
<1>2. \A i \in 1 .. listed[g] : ListOrder[i] \in Nodes
  BY <1>1, NodeCount, ListOrderAssumption
<1> QED
  BY <1>2 DEF WorkerNodesOf, Workers

(* What the CHOOSE definitions for the order of a loop return.             *)
LEMMA SmallestNat ==
  ASSUME NEW S, S \subseteq Nat, S # {}
  PROVE  \E m \in S : \A k \in S : m <= k
<1>1. PICK m \in S : \A k \in S : <<k, m>> \notin OpToRel(<, Nat)
  BY WFMin, NatLessThanWellFounded, Zenon
<1>2. \A k \in S : ~(k < m)
  BY <1>1, Zenon DEF OpToRel
<1> QED
  BY <1>2

(* FirstListed picks a member of any non-empty set of workers.             *)
LEMMA FirstListedIsMember ==
  ASSUME NEW S, S \subseteq Workers, S # {}
  PROVE  FirstListed(S) \in S
<1>1. \A w \in S : Position(w) \in Nat
  BY NodeCount, ListOrderAssumption DEF Position, Workers
<1>2. {Position(w) : w \in S} \subseteq Nat /\ {Position(w) : w \in S} # {}
  BY <1>1
<1>3. \E m \in {Position(w) : w \in S} : \A k \in {Position(w) : w \in S} : m <= k
  BY <1>2, SmallestNat, Zenon
<1>4. \E w \in S : \A v \in S : Position(w) <= Position(v)
  BY <1>3
<1> QED
  BY <1>4, Zenon DEF FirstListed

TypeAndPlace == TypeOK /\ PlaceInv

(* A machine that is listed is a machine.                                  *)
LEMMA ListedObject ==
  ASSUME NEW g \in Gens, NEW i \in 1 .. Cardinality(Nodes)
  PROVE  <<g, ListOrder[i]>> \in Workers
BY NodeCount, ListOrderAssumption DEF Workers

(* A process that starts is in its domains.                                *)
LEMMA InitTypes == Init => TypeAndPlace
<1> SUFFICES ASSUME Init PROVE TypeAndPlace
  OBVIOUS
<1> USE NodeCount
<1>1. StateTypeOK
  BY BoundsAssumption, StartConfiguredAssumption
  DEF Init, StateInit, ConfiguredInit, FreshWorkers, StateTypeOK, Statuses, OFF, IDLE, Gens
<1>2. RoutingTypeOK
  BY BoundsAssumption, RRPeriodAssumption DEF Init, RoutingInit, RoutingTypeOK, Pcs
<1>3. PowerTypeOK
  BY PowerBoundsAssumption DEF Init, PowerInit, PowerTypeOK, Steps
<1>4. StoreTypeOK
  BY DEF Init, StoreInit, StoreTypeOK
<1>5. PlaceInv
  BY DEF Init, RoutingInit, PlaceInv, HoldingPcs
<1> QED
  BY <1>1, <1>2, <1>3, <1>4, <1>5 DEF TypeAndPlace, TypeOK, Init

-----------------------------------------------------------------------------
(* Requests touch the shared status and counters, and their own places.    *)

(* What sync_worker_status assigns is a node status.                       *)
LEMMA SyncedStatusIsStatus == \A w : SyncedStatus(w) \in Statuses
  BY DEF SyncedStatus, Statuses

(* A step of handle_llm stays in the domains and in PlaceInv.              *)
LEMMA RequestTypes ==
  ASSUME TypeAndPlace, NEW r \in Requests, RequestStep(r)
  PROVE  TypeAndPlace'
<1> USE NodeCount
<1> USE DEF TypeAndPlace, TypeOK, StateTypeOK, RoutingTypeOK, PlaceInv, HoldingPcs,
            Pcs, SelectionPcs, ReleasePcs, Goto, stateVars
<1>1. PowerTypeOK' /\ StoreTypeOK' /\ (grace \in [Calls -> Requests \cup {NoRequest}])'
  BY DEF RequestStep, PowerTypeOK, StoreTypeOK, powerVars, storeVars
<1>2. CASE ReadConfig(r)
  BY <1>1, <1>2 DEF ReadConfig, Gens
<1>3. CASE EnterSelection(r)
  BY <1>1, <1>3 DEF EnterSelection
<1>4. CASE SyncCheck(r)
  <2>1. at[r] \in 1 .. Cardinality(Nodes)
    BY <1>4 DEF SyncCheck
  <2>2. CASE status[SyncTarget(r)] \in Running
    BY <1>1, <1>4, <2>1, <2>2 DEF SyncCheck
  <2>3. CASE status[SyncTarget(r)] \notin Running
    BY <1>1, <1>4, <2>1, <2>3 DEF SyncCheck
  <2> QED
    BY <2>2, <2>3
<1>5. CASE SyncWrite(r)
  <2>1. status' \in [Workers -> Statuses]
    BY <1>5, SyncedStatusIsStatus DEF SyncWrite
  <2>2. at[r] \in 1 .. Cardinality(Nodes)
    BY <1>5 DEF SyncWrite
  <2> QED
    BY <1>1, <1>5, <2>1, <2>2 DEF SyncWrite
<1>6. CASE Choose(r)
  <2>1. PICK w \in WorkerNodesOf(cfg[r]) :
            /\ chosen' = [chosen EXCEPT ![r] = w]
            /\ seen' = [seen EXCEPT ![r] = inflight[w]]
    BY <1>6 DEF Choose
  <2>2. w \in Workers
    BY <1>6, <2>1, ListedAreWorkers DEF Choose
  <2>3. rr_index' \in 0 .. RRPeriod - 1
    BY <1>6, RRPeriodAssumption DEF Choose
  <2> QED
    BY <1>1, <1>6, <2>1, <2>2, <2>3 DEF Choose
<1>7. CASE NoAvailableWorker(r)
  BY <1>1, <1>7 DEF NoAvailableWorker
<1>8. CASE Claim(r)
  BY <1>1, <1>8 DEF Claim
<1>9. CASE SyncOwnCheck(r)
  BY <1>1, <1>9 DEF SyncOwnCheck
<1>10. CASE SyncOwnWrite(r)
  BY <1>1, <1>10, SyncedStatusIsStatus DEF SyncOwnWrite
<1>11. CASE CallReturns(r)
  BY <1>1, <1>11 DEF CallReturns
<1>12. CASE EnterRelease(r)
  BY <1>1, <1>12 DEF EnterRelease
<1>13. CASE Drop(r)
  BY <1>1, <1>13 DEF Drop, MaxOf
<1> QED
  BY <1>2, <1>3, <1>4, <1>5, <1>6, <1>7, <1>8, <1>9, <1>10, <1>11, <1>12, <1>13
  DEF RequestStep, handle_llm

(* Building a configuration touches the newest one only.                   *)
LEMMA StoreTypes ==
  ASSUME TypeAndPlace, StoreStep
  PROVE  TypeAndPlace'
<1> USE NodeCount
<1> USE DEF TypeAndPlace, TypeOK, StateTypeOK, StoreTypeOK, stateVars
<1>1. /\ RoutingTypeOK' /\ PowerTypeOK' /\ PlaceInv'
      /\ (grace \in [Calls -> Requests \cup {NoRequest}])'
  BY DEF StoreStep, RoutingTypeOK, PowerTypeOK, PlaceInv, routingVars, powerVars
<1>2. CASE SetConfig
  BY <1>1, <1>2, BoundsAssumption DEF SetConfig, Gens
<1>3. CASE ListNode
  <2>1. listed' \in [Gens -> 0 .. Cardinality(Nodes)]
    <3>1. \A g \in Gens : listed'[g] = IF g = gen THEN listed[gen] + 1 ELSE listed[g]
      BY <1>3 DEF ListNode
    <3>2. \A g \in Gens : listed'[g] \in 0 .. Cardinality(Nodes)
      BY <1>3, <3>1 DEF ListNode
    <3>3. listed' = [g \in Gens |-> listed'[g]]
      BY <1>3 DEF ListNode
    <3> QED
      BY <3>2, <3>3
  <2>2. status' \in [Workers -> Statuses]
    BY <1>3 DEF ListNode, Statuses
  <2> QED
    BY <1>1, <1>3, <2>1, <2>2 DEF ListNode
<1>4. CASE BuildFails
  BY <1>1, <1>4 DEF BuildFails
<1>5. CASE BeginProbing
  BY <1>1, <1>5 DEF BeginProbing
<1>6. CASE Probe
  <2>1. PICK s \in 0 .. MaxSlots :
            LET w == <<gen, ListOrder[probed + 1]>>
            IN  /\ max_slots' = [max_slots EXCEPT ![w] = s]
                /\ status' = [status EXCEPT ![w] = IF s > 0 THEN IDLE ELSE OFF]
    BY <1>6 DEF Probe
  <2>2. max_slots' \in [Workers -> 0 .. MaxSlots]
    BY <2>1
  <2>3. status' \in [Workers -> Statuses]
    BY <2>1 DEF Statuses
  <2> QED
    BY <1>1, <1>6, <2>2, <2>3 DEF Probe
<1>7. CASE FinishBuild
  BY <1>1, <1>7 DEF FinishBuild
<1> QED
  BY <1>2, <1>3, <1>4, <1>5, <1>6, <1>7 DEF StoreStep, set_config

-----------------------------------------------------------------------------
(* Power calls assign statuses and capacities of objects whatever they are *)
(* and keep their own book-keeping within its domain.                      *)

(* So does a step of a power call or of a sweep.                           *)
LEMMA PowerTypes ==
  ASSUME TypeAndPlace, NEW p \in Calls, PowerStep(p)
  PROVE  TypeAndPlace'
<1> USE NodeCount
<1>1. RoutingTypeOK' /\ StoreTypeOK' /\ PlaceInv'
  BY DEF PowerStep, TypeAndPlace, TypeOK, RoutingTypeOK, StoreTypeOK, PlaceInv,
         routingVars, storeVars
<1>2. (grace \in [Calls -> Requests \cup {NoRequest}])'
  <2>1. InSelection \in Requests \cup {NoRequest}
    BY DEF InSelection, TypeAndPlace, TypeOK, RoutingTypeOK
  <2> QED
    BY <2>1 DEF PowerStep, turn_off_node, TypeAndPlace, TypeOK
<1>3. StateTypeOK' /\ PowerTypeOK'
  <2> USE DEF TypeAndPlace, TypeOK, StateTypeOK, PowerTypeOK, Steps,
              ShutdownSteps, MoveTo, stateVars
  <2>1. CASE StartOn(p)
    <3>1. \A k : select_nodes_to_turn_on(k, WorkerNodesOf(gen)) \subseteq WorkerNodesOf(gen)
      BY DEF select_nodes_to_turn_on, FirstWithStatus
    <3>2. gen # 0 => WorkerNodesOf(gen) \subseteq Workers
      BY ListedAreWorkers, BoundsAssumption DEF Gens
    <3> QED
      BY <2>1, <3>1, <3>2 DEF StartOn
  <2>2. ASSUME NEW w \in Workers, turn_on_node(p, w) \/ PulseFails(p, w)
        PROVE  StateTypeOK' /\ PowerTypeOK'
    BY <2>2 DEF turn_on_node, PulseFails, Statuses
  <2>3. CASE BeginWait(p)
    BY <2>3 DEF BeginWait
  <2>4. ASSUME \/ PollNotReady(p) \/ PollReady(p)
               \/ AskProps(p) \/ refresh_worker_capacity(p) \/ RefreshFails(p)
               \/ Promote(p) \/ Expire(p)
        PROVE  StateTypeOK' /\ PowerTypeOK'
    <3>1. FirstListed(open[p]) \in Workers
      BY <2>4, FirstListedIsMember DEF PollNotReady, PollReady, AskProps,
         refresh_worker_capacity, RefreshFails, Promote, Expire
    <3>2. CASE PollNotReady(p)
      BY <3>2 DEF PollNotReady
    <3>3. CASE PollReady(p)
      BY <3>1, <3>3 DEF PollReady
    <3>4. CASE refresh_worker_capacity(p)
      BY <3>1, <3>4 DEF refresh_worker_capacity, Statuses
    <3>5. CASE AskProps(p) \/ RefreshFails(p)
      BY <3>1, <3>5 DEF AskProps, RefreshFails
    <3>6. CASE Promote(p)
      BY <3>1, <3>6 DEF Promote, Statuses
    <3>7. CASE Expire(p)
      BY <3>1, <3>7, BoundsAssumption DEF Expire, Statuses
    <3> QED
      BY <2>4, <3>2, <3>3, <3>4, <3>5, <3>6, <3>7
  <2>5. CASE BeginPromoting(p)
    BY <2>5 DEF BeginPromoting
  <2>6. CASE EndRound(p)
    BY <2>6, PowerBoundsAssumption DEF EndRound
  <2>7. CASE StartOff(p) \/ StartSweep(p)
    <3>1. \A S \in SUBSET Workers : Begin(p, S) =>
              step' \in [Calls -> Steps] /\ open' \in [Calls -> SUBSET Workers]
      BY DEF Begin, LoopStep
    <3>2. {} \in SUBSET Workers
      OBVIOUS
    <3>3. gen # 0 => WorkerNodesOf(gen) \subseteq Workers /\ Swept(gen) \subseteq Workers
      BY ListedAreWorkers, BoundsAssumption DEF Gens, Swept
    <3>4. \A k : select_nodes_to_turn_off(k, WorkerNodesOf(gen)) \subseteq WorkerNodesOf(gen)
      BY DEF select_nodes_to_turn_off, FirstWithStatus
    <3>5. \E S \in SUBSET Workers : Begin(p, S)
      <4>1. CASE gen = 0
        BY <2>7, <3>2, <4>1 DEF StartOff, StartSweep
      <4>2. CASE gen # 0 /\ StartOff(p)
        BY <3>3, <3>4, <4>2 DEF StartOff
      <4>3. CASE gen # 0 /\ StartSweep(p)
        BY <3>2, <3>3, <4>3 DEF StartSweep
      <4> QED
        BY <2>7, <4>1, <4>2, <4>3
    <3> QED
      BY <2>7, <3>1, <3>5 DEF StartOff, StartSweep
  <2>8. CASE SkipNode(p) \/ Consider(p) \/ Recheck(p) \/ SshShutdown(p)
    BY <2>8 DEF SkipNode, Consider, Recheck, SshShutdown, NextNode, LoopStep
  <2>9. CASE MarkOff(p) \/ AbortTurnOff(p) \/ SshFails(p) \/ Settle(p)
    BY <2>9 DEF MarkOff, AbortTurnOff, SshFails, Settle, NextNode, LoopStep, Statuses
  <2> QED
    BY <2>1, <2>2, <2>3, <2>4, <2>5, <2>6, <2>7, <2>8, <2>9
    DEF PowerStep, turn_off_node, change_node_status, turn_on,
        wait_for_nodes_to_be_ready, turn_off_idle_nodes
<1> QED
  BY <1>1, <1>2, <1>3 DEF TypeAndPlace, TypeOK

(* So does every step of the process.                                      *)
LEMMA NextTypes == TypeAndPlace /\ [Next]_vars => TypeAndPlace'
<1> SUFFICES ASSUME TypeAndPlace, [Next]_vars PROVE TypeAndPlace'
  OBVIOUS
<1>1. CASE Next
  BY <1>1, RequestTypes, PowerTypes, StoreTypes DEF Next
<1>2. CASE UNCHANGED vars
  BY <1>2 DEF vars, stateVars, routingVars, powerVars, storeVars, TypeAndPlace,
              TypeOK, StateTypeOK, RoutingTypeOK, PowerTypeOK, StoreTypeOK, PlaceInv
<1> QED
  BY <1>1, <1>2

(* Every variable of the cluster API stays within its domain, for every    *)
(* number of nodes, requests and power calls.                              *)
THEOREM TypeCorrect == Spec => []TypeOK
<1>1. Spec => []TypeAndPlace
  BY InitTypes, NextTypes, PTL DEF Spec
<1>2. TypeAndPlace => TypeOK
  BY DEF TypeAndPlace
<1> QED
  BY <1>1, <1>2, PTL

-----------------------------------------------------------------------------
(* The counters.  A claim or a release reads and writes the counter inside *)
(* one locked block, so the value written is the value read plus or minus  *)
(* one; the set of holders gains or loses exactly the request that writes. *)

(* Holders are requests, of which there are finitely many.                 *)
LEMMA HoldersFinite ==
  \A w : IsFiniteSet(Holders(w)) /\ Cardinality(Holders(w)) \in Nat
<1>1. \A w : Holders(w) \subseteq Requests
  BY DEF Holders
<1> QED
  BY <1>1, RequestsAssumption, FS_Subset, FS_CardinalityType

(* Nothing is locked, seen or claimed when the process starts.             *)
LEMMA InitRouting == Init => RoutingInv
<1> SUFFICES ASSUME Init PROVE RoutingInv
  OBVIOUS
<1>1. LockInv /\ SeenInv
  BY RequestsAssumption DEF Init, RoutingInit, LockInv, SeenInv, SelectionPcs, ReleasePcs
<1>2. \A w : Holders(w) = {}
  BY DEF Init, RoutingInit, Holders, HoldingPcs
<1>3. \A w \in Workers : inflight[w] = 0
  BY DEF Init, StateInit, ConfiguredInit, FreshWorkers
<1>4. InflightExact
  BY <1>2, <1>3, FS_EmptySet DEF InflightExact
<1> QED
  BY <1>1, <1>4, InitTypes DEF RoutingInv, TypeAndPlace

(* worker_lock excludes: what r does inside its block, no other request    *)
(* undoes.                                                                 *)
LEMMA LockStep ==
  ASSUME TypeAndPlace, LockInv, NEW r \in Requests, RequestStep(r)
  PROVE  LockInv'
<1> USE RequestsAssumption DEF TypeAndPlace, TypeOK, RoutingTypeOK, LockInv,
        SelectionPcs, ReleasePcs, Pcs, Goto
<1>1. CASE ReadConfig(r) \/ SyncCheck(r) \/ SyncWrite(r) \/ Choose(r) \/ Claim(r)
           \/ CallReturns(r) \/ Drop(r)
  BY <1>1 DEF ReadConfig, SyncCheck, SyncWrite, Choose, Claim, CallReturns, Drop
<1>2. CASE EnterSelection(r) \/ EnterRelease(r)
  BY <1>2 DEF EnterSelection, EnterRelease
<1>3. CASE NoAvailableWorker(r) \/ SyncOwnCheck(r) \/ SyncOwnWrite(r)
  BY <1>3 DEF NoAvailableWorker, SyncOwnCheck, SyncOwnWrite
<1> QED
  BY <1>1, <1>2, <1>3 DEF RequestStep, handle_llm

(* A step that neither claims nor releases leaves the counters and the     *)
(* holders of every object alone.                                          *)
LEMMA HoldersUntouched ==
  ASSUME TypeAndPlace, LockInv, NEW r \in Requests, RequestStep(r),
         ~Claim(r), ~Drop(r)
  PROVE  /\ inflight' = inflight
         /\ \A w \in Workers : Holders(w)' = Holders(w)
<1> USE DEF TypeAndPlace, TypeOK, RoutingTypeOK, PlaceInv, Holders, HoldingPcs,
            Pcs, Goto, stateVars
<1>1. CASE ReadConfig(r) \/ EnterSelection(r) \/ SyncCheck(r) \/ SyncWrite(r)
  BY <1>1 DEF ReadConfig, EnterSelection, SyncCheck, SyncWrite
<1>2. CASE Choose(r)
  BY <1>2 DEF Choose
<1>3. CASE NoAvailableWorker(r) \/ CallReturns(r) \/ EnterRelease(r)
  BY <1>3 DEF NoAvailableWorker, CallReturns, EnterRelease
<1>4. CASE SyncOwnCheck(r) \/ SyncOwnWrite(r)
  BY <1>4 DEF SyncOwnCheck, SyncOwnWrite
<1> QED
  BY <1>1, <1>2, <1>3, <1>4 DEF RequestStep, handle_llm

(* A counter read inside a locked block is unchanged when it is written.   *)
LEMMA SeenStep ==
  ASSUME TypeAndPlace, LockInv, SeenInv, NEW r \in Requests, RequestStep(r)
  PROVE  SeenInv'
<1> USE DEF TypeAndPlace, TypeOK, RoutingTypeOK, StateTypeOK, PlaceInv, LockInv, SeenInv,
            SelectionPcs, ReleasePcs, HoldingPcs, Pcs, Goto, stateVars
<1>1. CASE Claim(r)
  BY <1>1 DEF Claim
<1>2. CASE Drop(r)
  BY <1>2 DEF Drop
<1>3. CASE ReadConfig(r) \/ EnterSelection(r) \/ SyncCheck(r) \/ SyncWrite(r)
  BY <1>3 DEF ReadConfig, EnterSelection, SyncCheck, SyncWrite
<1>4. CASE Choose(r)
  BY <1>4 DEF Choose
<1>5. CASE EnterRelease(r)
  BY <1>5 DEF EnterRelease
<1>6. CASE NoAvailableWorker(r) \/ SyncOwnCheck(r) \/ SyncOwnWrite(r) \/ CallReturns(r)
  BY <1>6 DEF NoAvailableWorker, SyncOwnCheck, SyncOwnWrite, CallReturns
<1> QED
  BY <1>1, <1>2, <1>3, <1>4, <1>5, <1>6 DEF RequestStep, handle_llm

(* The counter and the number of holders change together.                  *)
LEMMA CountStep ==
  ASSUME TypeAndPlace, LockInv, SeenInv, InflightExact,
         NEW r \in Requests, RequestStep(r)
  PROVE  InflightExact'
<1>0. PICK w0 : w0 = chosen[r]      \* the object before the step
  OBVIOUS
<1>1. CASE Claim(r)
  <2>1. w0 \in Workers /\ r \notin Holders(w0) /\ seen[r] = inflight[w0]
    BY <1>0, <1>1 DEF Claim, TypeAndPlace, PlaceInv, Holders, HoldingPcs, SeenInv
  <2>2. Holders(w0)' = Holders(w0) \cup {r}
    BY <1>0, <1>1 DEF Claim, Goto, Holders, HoldingPcs, TypeAndPlace, TypeOK, RoutingTypeOK
  <2>3. Cardinality(Holders(w0)') = Cardinality(Holders(w0)) + 1
    BY <2>1, <2>2, HoldersFinite, FS_AddElement
  <2>4. inflight'[w0] = inflight[w0] + 1
    BY <1>0, <1>1, <2>1 DEF Claim, TypeAndPlace, TypeOK, StateTypeOK
  <2>5. \A w \in Workers : w # w0 => inflight'[w] = inflight[w]
    BY <1>0, <1>1 DEF Claim, TypeAndPlace, TypeOK, StateTypeOK
  <2>6. \A w \in Workers : w # w0 => Holders(w)' = Holders(w)
    <3>1. \A q \in Requests : q # r => pc'[q] = pc[q] /\ chosen'[q] = chosen[q]
      BY <1>0, <1>1 DEF Claim, Goto, TypeAndPlace, TypeOK, RoutingTypeOK
    <3>2. chosen'[r] = w0
      BY <1>0, <1>1 DEF Claim
    <3> QED
      BY <1>0, <3>1, <3>2 DEF Holders
  <2> QED
    BY <2>1, <2>3, <2>4, <2>5, <2>6 DEF InflightExact
<1>2. CASE Drop(r)
  <2>1. w0 \in Workers /\ r \in Holders(w0) /\ seen[r] = inflight[w0]
    BY <1>0, <1>2 DEF Drop, TypeAndPlace, PlaceInv, Holders, HoldingPcs, SeenInv
  <2>2. Holders(w0)' = Holders(w0) \ {r}
    BY <1>0, <1>2 DEF Drop, Goto, Holders, HoldingPcs, TypeAndPlace, TypeOK, RoutingTypeOK
  <2>3. Cardinality(Holders(w0)') = Cardinality(Holders(w0)) - 1
    BY <2>1, <2>2, HoldersFinite, FS_RemoveElement
  <2>4. inflight[w0] = Cardinality(Holders(w0)) /\ Cardinality(Holders(w0)') \in Nat
    BY <2>1, <2>2, HoldersFinite, FS_RemoveElement, FS_CardinalityType DEF InflightExact
  <2>5. inflight'[w0] = MaxOf(0, inflight[w0] - 1)
    BY <1>0, <1>2, <2>1 DEF Drop, TypeAndPlace, TypeOK, StateTypeOK
  <2>6. inflight'[w0] = inflight[w0] - 1
    BY <2>3, <2>4, <2>5, HoldersFinite DEF MaxOf
  <2>7. \A w \in Workers : w # w0 => inflight'[w] = inflight[w]
    BY <1>0, <1>2 DEF Drop, TypeAndPlace, TypeOK, StateTypeOK
  <2>8. \A w \in Workers : w # w0 => Holders(w)' = Holders(w)
    <3>1. \A q \in Requests : q # r => pc'[q] = pc[q] /\ chosen'[q] = chosen[q]
      BY <1>0, <1>2 DEF Drop, Goto, TypeAndPlace, TypeOK, RoutingTypeOK
    <3>2. chosen'[r] = w0
      BY <1>0, <1>2 DEF Drop
    <3> QED
      BY <1>0, <3>1, <3>2 DEF Holders
  <2> QED
    BY <2>3, <2>4, <2>6, <2>7, <2>8 DEF InflightExact
<1>3. CASE ~Claim(r) /\ ~Drop(r)
  BY <1>3, HoldersUntouched DEF InflightExact
<1> QED
  BY <1>1, <1>2, <1>3

(* Power and configuration calls never touch the counters or the lock.     *)
LEMMA OthersRouting ==
  ASSUME RoutingInv, UNCHANGED <<routingVars, inflight>>
  PROVE  RoutingInv'
BY DEF RoutingInv, LockInv, SeenInv, PlaceInv, InflightExact, Holders, routingVars

(* Power calls leave the lock, the requests and the counters alone.        *)
LEMMA PowerKeepsCounters ==
  ASSUME NEW p \in Calls, PowerStep(p)
  PROVE  UNCHANGED <<routingVars, inflight>>
<1>1. UNCHANGED routingVars
  BY DEF PowerStep
<1>2. turn_off_node(p) => UNCHANGED inflight
  BY DEF turn_off_node, MarkOff, AbortTurnOff, Recheck, SshShutdown, SshFails, Settle,
         stateVars
<1>3. turn_off_idle_nodes(p) => UNCHANGED inflight
  BY DEF turn_off_idle_nodes, StartSweep, SkipNode, Consider, stateVars
<1>4. change_node_status(p) => UNCHANGED inflight
  BY DEF change_node_status, StartOff, turn_on, StartOn, turn_on_node, PulseFails,
         wait_for_nodes_to_be_ready, BeginWait, PollNotReady, PollReady, AskProps,
         refresh_worker_capacity, RefreshFails, BeginPromoting, Promote, EndRound,
         Expire, stateVars
<1> QED
  BY <1>1, <1>2, <1>3, <1>4 DEF PowerStep

(* So does a configuration push: new objects come with counter 0.          *)
LEMMA StoreKeepsCounters ==
  ASSUME StoreStep
  PROVE  UNCHANGED <<routingVars, inflight>>
BY DEF StoreStep, set_config, SetConfig, ListNode, BuildFails, BeginProbing, Probe,
       FinishBuild, stateVars

(* RoutingInv is inductive, given the domains.                             *)
LEMMA NextRouting == TypeAndPlace /\ RoutingInv /\ [Next]_vars => RoutingInv'
<1> SUFFICES ASSUME TypeAndPlace, RoutingInv, [Next]_vars PROVE RoutingInv'
  OBVIOUS
<1>1. ASSUME NEW r \in Requests, RequestStep(r) PROVE RoutingInv'
  BY <1>1, RequestTypes, LockStep, SeenStep, CountStep DEF RoutingInv, TypeAndPlace
<1>2. ASSUME NEW p \in Calls, PowerStep(p) PROVE RoutingInv'
  BY <1>2, PowerKeepsCounters, OthersRouting
<1>3. CASE StoreStep
  BY <1>3, StoreKeepsCounters, OthersRouting
<1>4. CASE UNCHANGED vars
  BY <1>4, OthersRouting DEF vars, stateVars
<1> QED
  BY <1>1, <1>2, <1>3, <1>4 DEF Next

(* The lock protects the counters (llm.py:12): the inductive invariant.    *)
THEOREM RoutingCorrect == Spec => [](TypeAndPlace /\ RoutingInv)
BY InitTypes, NextTypes, InitRouting, NextRouting, PTL DEF Spec

(* "Slots are never leaked": whatever power calls and configuration pushes *)
(* run beside them, the counter of every worker object is the number of    *)
(* requests holding a slot of it.                                          *)
THEOREM SlotsAreNeverLeaked == Spec => []InflightExact
<1>1. TypeAndPlace /\ RoutingInv => InflightExact
  BY DEF RoutingInv
<1> QED
  BY <1>1, RoutingCorrect, PTL

-----------------------------------------------------------------------------
(* A worker shown as working is busy, except while the request that has    *)
(* just given its slot back is still inside the block that will say so.    *)

FreeingPcs == {"free", "freewrite"}
Freeing(w) == lock # NoRequest /\ pc[lock] \in FreeingPcs /\ chosen[lock] = w

WorkingInv == \A w \in Workers : status[w] = WORKING => inflight[w] > 0 \/ Freeing(w)

(* No worker is shown as working when the process starts.                  *)
LEMMA InitWorking == Init => WorkingInv
BY DEF Init, StateInit, ConfiguredInit, WorkingInv, OFF, IDLE, WORKING

(* Whoever shows a worker as working has just seen a request in flight.    *)
LEMMA SyncedIsBusy ==
  ASSUME TypeAndPlace, NEW w \in Workers, SyncedStatus(w) = WORKING
  PROVE  inflight[w] > 0
BY DEF SyncedStatus, IDLE, WORKING, TypeAndPlace, TypeOK, StateTypeOK

(* A request shows a worker as working only while it is busy, and the last *)
(* one to leave a worker takes that back before it unlocks.                *)
LEMMA WorkingStep ==
  ASSUME TypeAndPlace, RoutingInv, WorkingInv, NEW r \in Requests, RequestStep(r)
  PROVE  WorkingInv'
<1> USE DEF TypeAndPlace, TypeOK, StateTypeOK, RoutingTypeOK, WorkingInv, Freeing,
            FreeingPcs, RoutingInv, LockInv, SelectionPcs, ReleasePcs, Goto, stateVars
<1>1. CASE ReadConfig(r) \/ EnterSelection(r) \/ EnterRelease(r) \/ CallReturns(r)
  BY <1>1, RequestsAssumption DEF ReadConfig, EnterSelection, EnterRelease, CallReturns
<1>2. CASE SyncCheck(r) \/ NoAvailableWorker(r) \/ Choose(r)
  BY <1>2 DEF SyncCheck, NoAvailableWorker, Choose
<1>3. CASE SyncWrite(r)
  <2>1. lock' = r /\ pc'[r] = "sync" /\ inflight' = inflight /\ lock = r /\ pc[r] = "syncwrite"
    BY <1>3 DEF SyncWrite
  <2>2. \A w \in Workers : status'[w] = status[w] \/ (w = SyncTarget(r) /\ status'[w] = SyncedStatus(w))
    BY <1>3 DEF SyncWrite
  <2> QED
    BY <2>1, <2>2, SyncedIsBusy
<1>4. CASE Claim(r)
  <2>1. \A w \in Workers : inflight'[w] = inflight[w] \/ inflight'[w] > 0
    BY <1>4 DEF Claim
  <2> QED
    BY <1>4, <2>1 DEF Claim
<1>5. CASE Drop(r)
  <2>1. lock' = r /\ pc'[r] = "free" /\ chosen'[r] = chosen[r] /\ status' = status
        /\ lock = r /\ pc[r] = "drop"
    BY <1>5 DEF Drop
  <2>2. \A w \in Workers : w # chosen[r] => inflight'[w] = inflight[w]
    BY <1>5 DEF Drop
  <2> QED
    BY <2>1, <2>2, RequestsAssumption
<1>6. CASE SyncOwnCheck(r)
  <2>1. lock = r /\ inflight' = inflight /\ status' = status /\ chosen' = chosen
        /\ SyncTarget(r) = chosen[r]
    BY <1>6 DEF SyncOwnCheck, SyncTarget
  <2>2. CASE status[SyncTarget(r)] \in Running
    BY <1>6, <2>1, <2>2 DEF SyncOwnCheck
  <2>3. CASE status[SyncTarget(r)] \notin Running
    BY <1>6, <2>1, <2>3 DEF SyncOwnCheck, Running
  <2> QED
    BY <2>2, <2>3
<1>7. CASE SyncOwnWrite(r)
  <2>1. lock = r /\ inflight' = inflight /\ SyncTarget(r) = chosen[r]
    BY <1>7 DEF SyncOwnWrite, SyncTarget
  <2>2. chosen[r] \in Workers
    BY <1>7 DEF SyncOwnWrite, PlaceInv, HoldingPcs
  <2>3. status' = [status EXCEPT ![chosen[r]] = SyncedStatus(chosen[r])]
    BY <1>7, <2>1 DEF SyncOwnWrite
  <2> QED
    BY <2>1, <2>2, <2>3, SyncedIsBusy
<1> QED
  BY <1>1, <1>2, <1>3, <1>4, <1>5, <1>6, <1>7 DEF RequestStep, handle_llm

(* Power calls and set_config show no worker as working.                   *)
LEMMA PowerShowsNoWork ==
  ASSUME TypeAndPlace, NEW p \in Calls, PowerStep(p)
  PROVE  \A w \in Workers : status'[w] = WORKING => status[w] = WORKING
<1> USE DEF TypeAndPlace, TypeOK, StateTypeOK, OFF, IDLE, TURNING_ON, TURNING_OFF, WORKING
<1>1. turn_off_node(p) => \A w \in Workers : status'[w] = WORKING => status[w] = WORKING
  BY DEF turn_off_node, MarkOff, AbortTurnOff, Recheck, SshShutdown, SshFails, Settle,
         stateVars
<1>2. turn_off_idle_nodes(p) => UNCHANGED status
  BY DEF turn_off_idle_nodes, StartSweep, SkipNode, Consider, stateVars
<1>3. StartOn(p) \/ StartOff(p) \/ (\E w \in Workers : PulseFails(p, w)) => UNCHANGED status
  BY DEF StartOn, StartOff, PulseFails, stateVars
<1>4. ASSUME NEW v \in Workers, turn_on_node(p, v)
      PROVE  \A w \in Workers : status'[w] = WORKING => status[w] = WORKING
  BY <1>4 DEF turn_on_node
<1>5. wait_for_nodes_to_be_ready(p)
        => \A w \in Workers : status'[w] = WORKING => status[w] = WORKING
  BY DEF wait_for_nodes_to_be_ready, BeginWait, PollNotReady, PollReady, AskProps,
         refresh_worker_capacity, RefreshFails, BeginPromoting, Promote, EndRound,
         Expire, stateVars
<1> QED
  BY <1>1, <1>2, <1>3, <1>4, <1>5 DEF PowerStep, change_node_status, turn_on

(* set_config sets idle and off only.                                      *)
LEMMA StoreShowsNoWork ==
  ASSUME TypeAndPlace, StoreStep
  PROVE  \A w \in Workers : status'[w] = WORKING => status[w] = WORKING
BY DEF TypeAndPlace, TypeOK, StateTypeOK, OFF, IDLE, WORKING, StoreStep, set_config,
       SetConfig, ListNode, BuildFails, BeginProbing, Probe, FinishBuild, stateVars

(* WorkingInv is inductive, given RoutingInv.                              *)
LEMMA NextWorking ==
  TypeAndPlace /\ RoutingInv /\ WorkingInv /\ [Next]_vars => WorkingInv'
<1> SUFFICES ASSUME TypeAndPlace, RoutingInv, WorkingInv, [Next]_vars PROVE WorkingInv'
  OBVIOUS
<1>1. ASSUME NEW r \in Requests, RequestStep(r) PROVE WorkingInv'
  BY <1>1, WorkingStep
<1>2. ASSUME NEW p \in Calls, PowerStep(p) PROVE WorkingInv'
  BY <1>2, PowerKeepsCounters, PowerShowsNoWork DEF WorkingInv, Freeing, routingVars
<1>3. CASE StoreStep
  BY <1>3, StoreKeepsCounters, StoreShowsNoWork DEF WorkingInv, Freeing, routingVars
<1>4. CASE UNCHANGED vars
  BY <1>4 DEF vars, stateVars, routingVars, WorkingInv, Freeing
<1> QED
  BY <1>1, <1>2, <1>3, <1>4 DEF Next

(* When nobody is inside a locked block, every worker shown as working has *)
(* a request in flight: a drained worker cannot stay WORKING and so out of *)
(* the idle sweep's reach.                                                 *)
THEOREM WorkingWorkersAreBusy == Spec => []WorkingMeansBusy
<1>1. Spec => []WorkingInv
  BY InitWorking, NextWorking, RoutingCorrect, PTL DEF Spec
<1>2. WorkingInv => WorkingMeansBusy
  BY DEF WorkingInv, WorkingMeansBusy, Freeing
<1> QED
  BY <1>1, <1>2, PTL

-----------------------------------------------------------------------------
(* Refinement: handle_llm, with everything that runs beside it, is a pool. *)

(* What the pool sees of the state.                                        *)
PhaseMap == [r \in Requests |-> Phase(r)]
UseMap == [r \in Requests |-> IF pc[r] \in HoldingPcs THEN chosen[r] ELSE NoWorker]

(* A request at another place of the same phase, with the same worker, has *)
(* not moved as the pool sees it; one at a place of another phase has.     *)
LEMMA MapsMove ==
  ASSUME NEW r \in Requests,
         \A q \in Requests \ {r} : pc'[q] = pc[q] /\ chosen'[q] = chosen[q]
  PROVE  /\ PhaseMap' = [PhaseMap EXCEPT ![r] = Phase(r)']
         /\ UseMap' = [UseMap EXCEPT ![r] =
                          IF pc'[r] \in HoldingPcs THEN chosen'[r] ELSE NoWorker]
BY DEF PhaseMap, UseMap, Phase

LEMMA ClaimEnters ==
  ASSUME TypeAndPlace, RoutingInv, NEW r \in Requests, Claim(r)
  PROVE  \E w \in Workers : Pool!Enter(r, w)
<1> USE DEF TypeAndPlace, TypeOK, RoutingTypeOK, StateTypeOK, Pcs
<1>1. chosen[r] \in Workers /\ seen[r] = inflight[chosen[r]]
  BY DEF RoutingInv, PlaceInv, SeenInv, Claim
<1>2. pc[r] = "claim" /\ pc'[r] = "mark" /\ chosen' = chosen
  BY DEF Claim, Goto
<1>3. \A q \in Requests \ {r} : pc'[q] = pc[q] /\ chosen'[q] = chosen[q]
  BY DEF Claim, Goto
<1>4. Phase(r) = "outside" /\ Phase(r)' = "inside" /\ pc'[r] \in HoldingPcs
  BY <1>2 DEF Phase, HoldingPcs
<1>5. PhaseMap[r] = "outside" /\ PhaseMap' = [PhaseMap EXCEPT ![r] = "inside"]
      /\ UseMap' = [UseMap EXCEPT ![r] = chosen[r]]
  BY <1>2, <1>3, <1>4, MapsMove DEF PhaseMap
<1>6. inflight' = [inflight EXCEPT ![chosen[r]] = inflight[chosen[r]] + 1]
  BY <1>1 DEF Claim
<1> HIDE DEF TypeAndPlace, TypeOK, RoutingTypeOK, StateTypeOK, Pcs
<1>7. ASSUME NEW w \in Workers, w = chosen[r]
      PROVE  Pool!Enter(r, w)
  BY <1>5, <1>6, <1>7 DEF Pool!Enter, PhaseMap, UseMap
<1> QED
  BY <1>1, <1>7

LEMMA DropLeaves ==
  ASSUME TypeAndPlace, RoutingInv, NEW r \in Requests, Drop(r)
  PROVE  Pool!Leave(r)
<1> USE DEF TypeAndPlace, TypeOK, RoutingTypeOK, StateTypeOK, Pcs
<1>1. pc[r] = "drop" /\ pc'[r] = "free" /\ chosen' = chosen
  BY DEF Drop, Goto
<1>2. chosen[r] \in Workers /\ seen[r] = inflight[chosen[r]] /\ r \in Holders(chosen[r])
  BY <1>1 DEF RoutingInv, PlaceInv, SeenInv, Holders, HoldingPcs
<1>3. Cardinality(Holders(chosen[r])) # 0
  BY <1>2, HoldersFinite, FS_EmptySet
<1>4. inflight[chosen[r]] \in Nat /\ inflight[chosen[r]] # 0
  BY <1>2, <1>3, HoldersFinite DEF RoutingInv, InflightExact
<1>5. MaxOf(0, seen[r] - 1) = inflight[chosen[r]] - 1
  BY <1>2, <1>4 DEF MaxOf
<1>6. \A q \in Requests \ {r} : pc'[q] = pc[q] /\ chosen'[q] = chosen[q]
  BY DEF Drop, Goto
<1>7. Phase(r) = "inside" /\ Phase(r)' = "past" /\ pc[r] \in HoldingPcs
      /\ pc'[r] \notin HoldingPcs
  BY <1>1 DEF Phase, HoldingPcs
<1>8. PhaseMap[r] = "inside" /\ PhaseMap' = [PhaseMap EXCEPT ![r] = "past"]
      /\ UseMap[r] = chosen[r] /\ UseMap' = [UseMap EXCEPT ![r] = NoWorker]
  BY <1>6, <1>7, MapsMove DEF PhaseMap, UseMap
<1>9. inflight' = [inflight EXCEPT ![chosen[r]] = inflight[chosen[r]] - 1]
  BY <1>5 DEF Drop
<1> QED
  BY <1>8, <1>9 DEF Pool!Leave, PhaseMap, UseMap

(* The other steps of a request turn it away or do not show.               *)
LEMMA OtherRequestSteps ==
  ASSUME TypeAndPlace, RoutingInv, NEW r \in Requests, RequestStep(r), ~Claim(r), ~Drop(r)
  PROVE  Pool!TurnAway(r) \/ UNCHANGED Pool!vars
<1> USE DEF TypeAndPlace, TypeOK, RoutingTypeOK, Pcs, Goto
<1>1. inflight' = inflight
  BY HoldersUntouched DEF RoutingInv
<1>2. \A q \in Requests \ {r} : pc'[q] = pc[q] /\ chosen'[q] = chosen[q]
  BY DEF RequestStep, handle_llm, ReadConfig, EnterSelection, SyncCheck, SyncWrite, Choose,
         NoAvailableWorker, SyncOwnCheck, SyncOwnWrite, CallReturns, EnterRelease
<1>3. \/ Phase(r) = "outside" /\ Phase(r)' = "past"
      \/ Phase(r)' = Phase(r)
  BY DEF RequestStep, handle_llm, ReadConfig, EnterSelection, SyncCheck, SyncWrite, Choose,
         NoAvailableWorker, SyncOwnCheck, SyncOwnWrite, CallReturns, EnterRelease,
         Phase, HoldingPcs
<1>4. pc'[r] \in HoldingPcs <=> pc[r] \in HoldingPcs
  BY DEF RequestStep, handle_llm, ReadConfig, EnterSelection, SyncCheck, SyncWrite, Choose,
         NoAvailableWorker, SyncOwnCheck, SyncOwnWrite, CallReturns, EnterRelease, HoldingPcs
<1>5. pc[r] \in HoldingPcs => chosen'[r] = chosen[r]
  BY DEF RequestStep, handle_llm, ReadConfig, EnterSelection, SyncCheck, SyncWrite, Choose,
         NoAvailableWorker, SyncOwnCheck, SyncOwnWrite, CallReturns, EnterRelease, HoldingPcs
<1>6. UseMap' = UseMap
  BY <1>2, <1>4, <1>5 DEF UseMap
<1>7. CASE Phase(r)' = Phase(r)
  <2>1. PhaseMap' = PhaseMap
    BY <1>2, <1>7 DEF PhaseMap, Phase
  <2> QED
    BY <1>1, <1>6, <2>1 DEF Pool!vars, PhaseMap, UseMap
<1>8. CASE Phase(r) = "outside" /\ Phase(r)' = "past"
  <2>1. PhaseMap[r] = "outside" /\ PhaseMap' = [PhaseMap EXCEPT ![r] = "past"]
    BY <1>2, <1>8, MapsMove DEF PhaseMap
  <2> QED
    BY <1>1, <1>6, <2>1 DEF Pool!TurnAway, PhaseMap, UseMap
<1> QED
  BY <1>3, <1>7, <1>8

(* handle_llm implements the pool, whatever power calls, idle sweeps and   *)
(* configuration pushes run beside it: a request takes one slot, once, and *)
(* gives back that slot, once.                                             *)
THEOREM RoutingImplementsPool == Spec => ImplementsPool
<1>1. Init => Pool!Init
  <2> SUFFICES ASSUME Init PROVE Pool!Init
    OBVIOUS
  <2>1. inflight = [w \in Workers |-> 0]
    BY DEF Init, StateInit, ConfiguredInit, FreshWorkers
  <2> QED
    BY <2>1 DEF Init, RoutingInit, Pool!Init, Phase, HoldingPcs
<1>2. TypeAndPlace /\ RoutingInv /\ [Next]_vars => [Pool!Next]_(Pool!vars)
  <2> SUFFICES ASSUME TypeAndPlace, RoutingInv, [Next]_vars
               PROVE  [Pool!Next]_(Pool!vars)
    OBVIOUS
  <2>1. ASSUME NEW r \in Requests, RequestStep(r) PROVE [Pool!Next]_(Pool!vars)
    BY <2>1, ClaimEnters, DropLeaves, OtherRequestSteps DEF Pool!Next
  <2>2. CASE UNCHANGED <<routingVars, inflight>>
    BY <2>2 DEF Pool!vars, routingVars, Phase
  <2>3. CASE \E p \in Calls : PowerStep(p)
    BY <2>2, <2>3, PowerKeepsCounters
  <2>4. CASE StoreStep
    BY <2>2, <2>4, StoreKeepsCounters
  <2>5. CASE UNCHANGED vars
    BY <2>2, <2>5 DEF vars, stateVars
  <2> QED
    BY <2>1, <2>3, <2>4, <2>5 DEF Next
<1> QED
  BY <1>1, <1>2, RoutingCorrect, PTL DEF Spec, ImplementsPool, Pool!Spec
-----------------------------------------------------------------------------
(* The keeper of an idle sweep.                                            *)

(* The first worker by name is one, and no other has a smaller name.       *)
LEMMA FirstByNameIsFirst ==
  ASSUME NEW S, S \subseteq Workers, S # {}
  PROVE  FirstByName(S) \in S /\ \A v \in S : FirstByName(S)[2] <= v[2]
<1>1. {w[2] : w \in S} \subseteq Nat /\ {w[2] : w \in S} # {}
  BY NodesAssumption DEF Workers
<1>2. \E m \in {w[2] : w \in S} : \A k \in {w[2] : w \in S} : m <= k
  BY <1>1, SmallestNat, Zenon
<1>3. \E w \in S : \A v \in S : w[2] <= v[2]
  BY <1>2
<1> QED
  BY <1>3, Zenon DEF FirstByName

(* A worker is its configuration and its name.                             *)
LEMMA WorkerIsPair == \A v \in Workers : v = <<v[1], v[2]>> /\ v[2] \in Nat
<1> TAKE v \in Workers
<1>1. PICK g \in Gens, n \in Nodes : v = <<g, n>>
  BY DEF Workers
<1> QED
  BY <1>1, NodesAssumption

(* A worker with an earlier name stands in the list of its configuration.  *)
Spared(w) == w[1] <= gen /\ \E v \in WorkerNodesOf(w[1]) : v[2] < w[2]

SweepSteps == {"idle", "considering", "marking", "done"} \cup ShutdownSteps

(* A sweep is in its own loop, over workers of which none is the keeper,   *)
(* and looks at one of them as long as it is not over.                     *)
SweepInv ==
    \A p \in Sweeps :
        /\ step[p] \in SweepSteps
        /\ step[p] \notin {"idle", "done"} => open[p] # {}
        /\ \A w \in open[p] : Spared(w)

LEMMA InitSweeps == Init => SweepInv
  BY DEF Init, PowerInit, SweepInv, SweepSteps, Calls

(* Lists only grow: who has been spared for another stays so.              *)
LEMMA SparedStays ==
  ASSUME TypeAndPlace, StoreStep, NEW w \in Workers, Spared(w)
  PROVE  Spared(w)'
<1>1. w[1] \in Gens /\ w[1] \in Nat /\ w[1] <= gen /\ gen \in Nat
  BY BoundsAssumption DEF Spared, Gens, Workers, TypeAndPlace, TypeOK, StateTypeOK
<1>2. \A g \in Gens : listed[g] \in Nat
  BY NodeCount DEF TypeAndPlace, TypeOK, StateTypeOK
<1>3. CASE SetConfig
  <2>1. gen' = gen + 1 /\ listed'[w[1]] = listed[w[1]]
    BY <1>1, <1>3 DEF SetConfig, TypeAndPlace, TypeOK, StateTypeOK
  <2>2. WorkerNodesOf(w[1])' = WorkerNodesOf(w[1])
    BY <2>1 DEF WorkerNodesOf
  <2> QED
    BY <1>1, <2>1, <2>2 DEF Spared
<1>4. CASE ListNode
  <2>1. gen' = gen /\ (listed'[w[1]] = listed[w[1]] \/ listed'[w[1]] = listed[w[1]] + 1)
    BY <1>1, <1>4 DEF ListNode, TypeAndPlace, TypeOK, StateTypeOK
  <2>2. WorkerNodesOf(w[1]) \subseteq WorkerNodesOf(w[1])'
    BY <1>1, <1>2, <2>1 DEF WorkerNodesOf
  <2> QED
    BY <2>1, <2>2 DEF Spared
<1>5. CASE UNCHANGED <<gen, listed>>
  BY <1>5 DEF Spared, WorkerNodesOf
<1> QED
  BY <1>3, <1>4, <1>5 DEF StoreStep, set_config, BuildFails, BeginProbing, Probe, FinishBuild,
                          stateVars

LEMMA SweepStep ==
  ASSUME TypeAndPlace, SweepInv, NEW p \in Calls, PowerStep(p)
  PROVE  SweepInv'
<1> USE DEF TypeAndPlace, TypeOK, PowerTypeOK, MoveTo, stateVars
<1>1. gen' = gen /\ listed' = listed
  BY DEF PowerStep, turn_off_node, change_node_status, turn_off_idle_nodes, turn_on, StartOn,
         turn_on_node, PulseFails, wait_for_nodes_to_be_ready, BeginWait, PollNotReady,
         PollReady, AskProps, refresh_worker_capacity, RefreshFails, BeginPromoting, Promote,
         EndRound, Expire, StartOff, StartSweep, SkipNode, Consider, MarkOff, AbortTurnOff,
         Recheck, SshShutdown, SshFails, Settle
<1>2. \A w : Spared(w) => Spared(w)'
  BY <1>1 DEF Spared, WorkerNodesOf
<1>3. \A q \in Sweeps \ {p} : step'[q] = step[q] /\ open'[q] = open[q]
  BY DEF Calls, PowerStep, turn_off_node, change_node_status, turn_off_idle_nodes, turn_on,
         StartOn, turn_on_node, PulseFails, wait_for_nodes_to_be_ready, BeginWait,
         PollNotReady, PollReady, AskProps, refresh_worker_capacity, RefreshFails,
         BeginPromoting, Promote, EndRound, Expire, StartOff, StartSweep, SkipNode, Consider,
         MarkOff, AbortTurnOff, Recheck, SshShutdown, SshFails, Settle, NextNode, Begin
<1>4. ASSUME p \in Sweeps
      PROVE  /\ step'[p] \in SweepSteps
             /\ step'[p] \notin {"idle", "done"} => open'[p] # {}
             /\ \A w \in open'[p] : Spared(w)
  <2> USE <1>4 DEF SweepSteps, ShutdownSteps, LoopStep
  <2>0. step[p] \in SweepSteps /\ p \notin OnCalls \cup OffCalls
    BY CallsAssumption DEF SweepInv
  <2>1. CASE StartSweep(p)
    <3>1. ASSUME gen # 0, listed[gen] # 0, NEW w \in Swept(gen) PROVE Spared(w)
      <4>1. gen \in Gens
        BY <3>1 DEF StateTypeOK, Gens
      <4>2. WorkerNodesOf(gen) \subseteq Workers /\ w \in WorkerNodesOf(gen)
        BY <4>1, ListedAreWorkers DEF Swept
      <4>3. FirstByName(WorkerNodesOf(gen)) \in WorkerNodesOf(gen)
            /\ FirstByName(WorkerNodesOf(gen))[2] <= w[2]
        BY <4>2, FirstByNameIsFirst
      <4> DEFINE k == FirstByName(WorkerNodesOf(gen))
      <4>4. k # w /\ k \in Workers /\ w \in Workers /\ k[1] = gen /\ w[1] = gen
        BY <4>2, <4>3 DEF Swept, WorkerNodesOf
      <4> HIDE DEF k
      <4>5. k = <<k[1], k[2]>> /\ w = <<w[1], w[2]>> /\ k[2] \in Nat /\ w[2] \in Nat
        BY <4>4, WorkerIsPair
      <4>6. k[2] # w[2]
        BY <4>4, <4>5
      <4> QED
        BY <4>1, <4>3, <4>4, <4>5, <4>6, BoundsAssumption DEF k, Spared, Gens, StateTypeOK
    <3> QED
      BY <2>1, <3>1 DEF StartSweep, Begin
  <2>2. CASE SkipNode(p) \/ AbortTurnOff(p) \/ SshFails(p) \/ Settle(p)
    <3>1. NextNode(p) /\ open[p] # {}
      BY <2>2 DEF SkipNode, AbortTurnOff, SshFails, Settle, SweepInv
    <3>2. open'[p] = open[p] \ {Current(p)}
          /\ step'[p] = IF open[p] = {Current(p)} THEN "done" ELSE "considering"
      BY <3>1 DEF NextNode
    <3> HIDE DEF Current
    <3> QED
      BY <3>1, <3>2 DEF SweepInv
  <2>3. CASE Consider(p) \/ MarkOff(p) \/ Recheck(p) \/ SshShutdown(p)
    BY <2>3 DEF Consider, MarkOff, Recheck, SshShutdown, SweepInv
  <2>4. ~change_node_status(p)
    BY <2>0 DEF change_node_status, turn_on, StartOn, turn_on_node, PulseFails, StartOff,
                wait_for_nodes_to_be_ready, BeginWait, PollNotReady, PollReady, AskProps,
                refresh_worker_capacity, RefreshFails, BeginPromoting, Promote, EndRound,
                Expire
  <2> QED
    BY <2>1, <2>2, <2>3, <2>4 DEF PowerStep, turn_off_node, turn_off_idle_nodes
<1> QED
  BY <1>2, <1>3, <1>4 DEF SweepInv

LEMMA NextSweeps == TypeAndPlace /\ SweepInv /\ [Next]_vars => SweepInv'
<1> SUFFICES ASSUME TypeAndPlace, SweepInv, [Next]_vars PROVE SweepInv'
  OBVIOUS
<1>1. ASSUME NEW p \in Calls, PowerStep(p) PROVE SweepInv'
  BY <1>1, SweepStep
<1>2. CASE StoreStep
  <2>1. \A p \in Sweeps : open[p] \subseteq Workers
    BY DEF TypeAndPlace, TypeOK, PowerTypeOK, Calls
  <2> QED
    BY <1>2, <2>1, SparedStays DEF SweepInv, StoreStep, powerVars
<1>3. CASE UNCHANGED <<gen, listed, step, open>>
  BY <1>3 DEF SweepInv, Spared, WorkerNodesOf
<1>4. ASSUME NEW r \in Requests, RequestStep(r) PROVE SweepInv'
  BY <1>3, <1>4 DEF RequestStep, handle_llm, ReadConfig, EnterSelection, SyncCheck, SyncWrite,
     Choose, NoAvailableWorker, Claim, SyncOwnCheck, SyncOwnWrite, CallReturns, EnterRelease,
     Drop, stateVars, powerVars
<1>5. CASE UNCHANGED vars
  BY <1>3, <1>5 DEF vars, stateVars, powerVars
<1> QED
  BY <1>1, <1>2, <1>4, <1>5 DEF Next

(* A sweep assigns statuses of the workers it has still to handle only.    *)
LEMMA SweepTouchesOpen ==
  ASSUME TypeAndPlace, SweepInv, NEW p \in Sweeps, PowerStep(p)
  PROVE  /\ \A w \in Workers \ open[p] : status'[w] = status[w]
         /\ UNCHANGED <<gen, listed, max_slots>>
<1>1. ~change_node_status(p)
  BY CallsAssumption
  DEF SweepInv, SweepSteps, ShutdownSteps, change_node_status, turn_on, StartOn,
      turn_on_node, PulseFails, StartOff, wait_for_nodes_to_be_ready, BeginWait,
      PollNotReady, PollReady, AskProps, refresh_worker_capacity, RefreshFails,
      BeginPromoting, Promote, EndRound, Expire
<1>2. UNCHANGED <<gen, listed, max_slots>>
  BY <1>1 DEF PowerStep, turn_off_node, turn_off_idle_nodes, StartSweep, SkipNode, Consider,
              MarkOff, AbortTurnOff, Recheck, SshShutdown, SshFails, Settle, stateVars
<1>3. \/ UNCHANGED status
      \/ /\ step[p] \notin {"idle", "done"}
         /\ \E s : status' = [status EXCEPT ![Current(p)] = s]
  BY <1>1 DEF PowerStep, turn_off_node, turn_off_idle_nodes, StartSweep, SkipNode, Consider,
              MarkOff, AbortTurnOff, Recheck, SshShutdown, SshFails, Settle, stateVars
<1>4. CASE /\ step[p] \notin {"idle", "done"}
           /\ \E s : status' = [status EXCEPT ![Current(p)] = s]
  <2>1. open[p] # {} /\ open[p] \subseteq Workers
    BY <1>4 DEF SweepInv, TypeAndPlace, TypeOK, PowerTypeOK, Calls
  <2>2. Current(p) \in open[p]
    BY <2>1, FirstByNameIsFirst DEF Current
  <2> QED
    BY <1>2, <1>4, <2>2 DEF TypeAndPlace, TypeOK, StateTypeOK
<1> QED
  BY <1>2, <1>3, <1>4

(* The keeper of a sweep is not among them.                                *)
LEMMA KeeperIsSpared ==
  ASSUME TypeAndPlace, SweepInv, NEW p \in Sweeps, PowerStep(p),
         NEW g \in 1 .. gen, listed[g] > 0
  PROVE  status'[FirstByName(WorkerNodesOf(g))] = status[FirstByName(WorkerNodesOf(g))]
<1> DEFINE keeper == FirstByName(WorkerNodesOf(g))
<1>1. g \in Gens /\ WorkerNodesOf(g) \subseteq Workers
  <2>1. gen \in 0 .. MaxGen
    BY DEF TypeAndPlace, TypeOK, StateTypeOK
  <2>2. g \in Gens
    BY <2>1, BoundsAssumption DEF Gens
  <2> QED
    BY <2>2, ListedAreWorkers DEF TypeAndPlace, TypeOK
<1>2. WorkerNodesOf(g) # {}
  <2>1. 1 \in 1 .. listed[g]
    BY <1>1, NodeCount DEF TypeAndPlace, TypeOK, StateTypeOK
  <2> QED
    BY <2>1 DEF WorkerNodesOf
<1>3. keeper \in WorkerNodesOf(g) /\ \A v \in WorkerNodesOf(g) : keeper[2] <= v[2]
  BY <1>1, <1>2, FirstByNameIsFirst
<1>4. keeper[1] = g /\ keeper \in Workers
  BY <1>1, <1>3 DEF WorkerNodesOf
<1> HIDE DEF keeper
<1>5. keeper \notin open[p]
  <2> SUFFICES ASSUME keeper \in open[p] PROVE FALSE
    OBVIOUS
  <2>1. PICK v \in WorkerNodesOf(g) : v[2] < keeper[2]
    BY <1>4 DEF SweepInv, Spared
  <2>2. v[2] \in Nat /\ keeper[2] \in Nat
    BY <1>1, <1>4, NodesAssumption DEF Workers
  <2> QED
    BY <1>3, <2>1, <2>2
<1>6. status'[keeper] = status[keeper]
  BY <1>4, <1>5, SweepTouchesOpen
<1> QED
  BY <1>6 DEF keeper

(* "Ensure the same working node (sorted by name) is never turned off"     *)
(* (power_scheduler.py:471), for any number of nodes, sweeps and other     *)
(* calls: no step of a sweep takes the first node by name down.            *)
THEOREM SweepsSpareTheKeeper == Spec => KeeperStaysUp
<1>1. TypeAndPlace /\ SweepInv /\ [Next]_vars =>
        [\A p \in Sweeps, g \in 1 .. gen :
            LET keeper == FirstByName(WorkerNodesOf(g))
            IN  /\ listed[g] > 0
                /\ status[keeper] \in Running
                /\ status'[keeper] \notin Running
                => ~PowerStep(p)]_vars
  BY KeeperIsSpared
<1>2. Spec => []TypeAndPlace
  BY InitTypes, NextTypes, PTL DEF Spec
<1>3. Spec => []SweepInv
  BY InitSweeps, NextSweeps, <1>2, PTL DEF Spec
<1> QED
  BY <1>1, <1>2, <1>3, PTL DEF Spec, KeeperStaysUp

-----------------------------------------------------------------------------
(* A shutdown that nobody disturbs finds its node drained.                 *)

(* A loop over nodes ends with its last one.                               *)
LoopSteps == {"considering", "marking"} \cup ShutdownSteps
LoopInv == \A p \in Calls : step[p] \in LoopSteps => open[p] # {}

(* Requests that have chosen the object w and not claimed it yet.          *)
Claimants(w) == {r \in Requests : pc[r] = "claim" /\ chosen[r] = w}

(* Call p has announced the shutdown of w last: who may still claim w is   *)
(* the request that was inside the selection block then, and once p has    *)
(* looked again nobody is left.                                            *)
Draining(p, w) ==
    /\ ShuttingDown(p, w)
    /\ IF step[p] = "draining" THEN Claimants(w) \subseteq {grace[p]}
                               ELSE Claimants(w) = {} /\ inflight[w] = 0

(* A node shown as turning off has such a call.                            *)
DrainInv == \A w \in Workers : status[w] = TURNING_OFF => \E p \in Calls : Draining(p, w)

(* The node a loop is at is one of those it has still to handle.           *)
LEMMA CurrentIsOpen ==
  ASSUME TypeAndPlace, NEW p \in Calls, open[p] # {}
  PROVE  Current(p) \in open[p] /\ Current(p) \in Workers
<1>1. open[p] \subseteq Workers
  BY DEF TypeAndPlace, TypeOK, PowerTypeOK
<1> QED
  BY <1>1, FirstByNameIsFirst, FirstListedIsMember DEF Current

LEMMA InitDrain == Init => LoopInv /\ DrainInv
<1> SUFFICES ASSUME Init PROVE LoopInv /\ DrainInv
  OBVIOUS
<1>1. LoopInv
  BY DEF Init, PowerInit, LoopInv, LoopSteps, ShutdownSteps
<1>2. \A w \in Workers : status[w] # TURNING_OFF
  BY DEF Init, StateInit, ConfiguredInit, OFF, IDLE, TURNING_OFF
<1> QED
  BY <1>1, <1>2 DEF DrainInv

(* A step of a power call is a step of that call alone.                    *)
LEMMA OthersStay ==
  ASSUME TypeAndPlace, NEW p \in Calls, PowerStep(p)
  PROVE  /\ \A q \in Calls \ {p} : step'[q] = step[q] /\ open'[q] = open[q]
                                   /\ grace'[q] = grace[q]
         /\ UNCHANGED <<gen, listed, routingVars, inflight>>
<1>1. UNCHANGED <<routingVars, inflight>>
  BY PowerKeepsCounters
<1>2. UNCHANGED <<gen, listed>>
  BY DEF PowerStep, turn_off_node, change_node_status, turn_off_idle_nodes, turn_on, StartOn,
         turn_on_node, PulseFails, wait_for_nodes_to_be_ready, BeginWait, PollNotReady,
         PollReady, AskProps, refresh_worker_capacity, RefreshFails, BeginPromoting, Promote,
         EndRound, Expire, StartOff, StartSweep, SkipNode, Consider, MarkOff, AbortTurnOff,
         Recheck, SshShutdown, SshFails, Settle, stateVars
<1>3. \A q \in Calls \ {p} : grace'[q] = grace[q]
  BY DEF PowerStep, turn_off_node, TypeAndPlace, TypeOK
<1>4. \A q \in Calls \ {p} : step'[q] = step[q] /\ open'[q] = open[q]
  BY DEF PowerStep, turn_off_node, change_node_status, turn_off_idle_nodes, turn_on,
         StartOn, turn_on_node, PulseFails, wait_for_nodes_to_be_ready, BeginWait,
         PollNotReady, PollReady, AskProps, refresh_worker_capacity, RefreshFails,
         BeginPromoting, Promote, EndRound, Expire, StartOff, StartSweep, SkipNode, Consider,
         MarkOff, AbortTurnOff, Recheck, SshShutdown, SshFails, Settle, NextNode, Begin,
         MoveTo, TypeAndPlace, TypeOK, PowerTypeOK
<1> QED
  BY <1>1, <1>2, <1>3, <1>4

LEMMA LoopStepInv ==
  ASSUME TypeAndPlace, LoopInv, NEW p \in Calls, PowerStep(p)
  PROVE  LoopInv'
<1> USE DEF TypeAndPlace, TypeOK, PowerTypeOK, MoveTo, stateVars
<1>1. step'[p] \in LoopSteps => open'[p] # {}
  <2> USE DEF LoopSteps, ShutdownSteps, LoopInv
  <2>1. CASE StartOff(p) \/ StartSweep(p)
    <3>1. PICK S : Begin(p, S)
      BY <2>1 DEF StartOff, StartSweep
    <3> QED
      BY <3>1 DEF Begin, LoopStep
  <2>2. CASE SkipNode(p) \/ AbortTurnOff(p) \/ SshFails(p) \/ Settle(p)
    <3>1. NextNode(p) /\ open[p] # {}
      BY <2>2 DEF SkipNode, AbortTurnOff, SshFails, Settle
    <3>2. open'[p] = open[p] \ {Current(p)}
          /\ step'[p] = IF open[p] = {Current(p)} THEN "done" ELSE LoopStep(p)
      BY <3>1 DEF NextNode
    <3> HIDE DEF Current, LoopStep
    <3> QED
      BY <3>1, <3>2
  <2>3. CASE Consider(p) \/ MarkOff(p) \/ Recheck(p) \/ SshShutdown(p)
    BY <2>3 DEF Consider, MarkOff, Recheck, SshShutdown
  <2>4. CASE turn_on(p)
    BY <2>4 DEF turn_on, StartOn, turn_on_node, PulseFails, wait_for_nodes_to_be_ready,
                BeginWait, PollNotReady, PollReady, AskProps, refresh_worker_capacity,
                RefreshFails, BeginPromoting, Promote, EndRound, Expire
  <2> QED
    BY <2>1, <2>2, <2>3, <2>4 DEF PowerStep, turn_off_node, turn_off_idle_nodes,
                                  change_node_status
<1> QED
  BY <1>1, OthersStay DEF LoopInv

(* What is turning off after a step of a power call was so before, or has  *)
(* just been announced by that call.                                       *)
LEMMA WhoTurnsOff ==
  ASSUME TypeAndPlace, NEW p \in Calls, PowerStep(p), NEW w \in Workers,
         status'[w] = TURNING_OFF
  PROVE  \/ status[w] = TURNING_OFF
         \/ MarkOff(p) /\ Current(p) = w
<1> USE DEF TypeAndPlace, TypeOK, StateTypeOK, OFF, IDLE, TURNING_ON, TURNING_OFF, WORKING
<1>1. CASE MarkOff(p)
  BY <1>1 DEF MarkOff
<1>2. CASE turn_off_node(p) /\ ~MarkOff(p)
  BY <1>2 DEF turn_off_node, AbortTurnOff, Recheck, SshShutdown, SshFails, Settle, stateVars
<1>3. CASE turn_off_idle_nodes(p)
  BY <1>3 DEF turn_off_idle_nodes, StartSweep, SkipNode, Consider, stateVars
<1>4. CASE StartOn(p) \/ StartOff(p) \/ \E v \in Workers : PulseFails(p, v)
  BY <1>4 DEF StartOn, StartOff, PulseFails, stateVars
<1>5. ASSUME NEW v \in Workers, turn_on_node(p, v) PROVE status[w] = TURNING_OFF
  BY <1>5 DEF turn_on_node
<1>6. CASE wait_for_nodes_to_be_ready(p)
  BY <1>6 DEF wait_for_nodes_to_be_ready, BeginWait, PollNotReady, PollReady, AskProps,
         refresh_worker_capacity, RefreshFails, BeginPromoting, Promote, EndRound,
         Expire, stateVars
<1> QED
  BY <1>1, <1>2, <1>3, <1>4, <1>5, <1>6 DEF PowerStep, change_node_status, turn_on

(* The announcement finds at most the request that holds the lock between  *)
(* choice and claim, and the second look waits for it.                     *)
LEMMA DrainPower ==
  ASSUME TypeAndPlace, RoutingInv, LoopInv, DrainInv, NEW p \in Calls, PowerStep(p)
  PROVE  DrainInv'
<1> SUFFICES ASSUME NEW w \in Workers, status'[w] = TURNING_OFF
             PROVE  \E q \in Calls : Draining(q, w)'
  BY DEF DrainInv
<1>1. Claimants(w)' = Claimants(w) /\ inflight'[w] = inflight[w]
  BY OthersStay DEF Claimants, routingVars
<1>2. CASE MarkOff(p) /\ Current(p) = w
  <2>1. step'[p] = "draining" /\ Current(p)' = w /\ grace'[p] = InSelection
    <3>1. step[p] = "marking" /\ open' = open
      BY <1>2 DEF MarkOff
    <3>2. step'[p] = "draining"
      BY <1>2 DEF MarkOff, MoveTo, TypeAndPlace, TypeOK, PowerTypeOK
    <3>3. Current(p)' = Current(p)
      BY <3>1 DEF Current, FirstByName, FirstListed, Position
    <3>4. grace'[p] = InSelection
      <4>1. turn_off_node(p)
        BY <1>2, <3>1 DEF PowerStep, turn_off_node, change_node_status, turn_off_idle_nodes,
           StartSweep, SkipNode, Consider, turn_on, StartOn, turn_on_node, PulseFails,
           StartOff, wait_for_nodes_to_be_ready, BeginWait, PollNotReady, PollReady, AskProps,
           refresh_worker_capacity, RefreshFails, BeginPromoting, Promote, EndRound, Expire
      <4> QED
        BY <3>1, <4>1 DEF turn_off_node, AbortTurnOff, Recheck, SshShutdown, SshFails, Settle,
                          TypeAndPlace, TypeOK
    <3> QED
      BY <1>2, <3>2, <3>3, <3>4
  <2>2. ASSUME NEW r \in Claimants(w) PROVE r = InSelection
    <3>1. r \in Requests /\ pc[r] = "claim"
      BY DEF Claimants
    <3>2. lock = r /\ pc[r] \in SelectionPcs
      BY <3>1 DEF RoutingInv, LockInv, SelectionPcs
    <3> QED
      BY <3>1, <3>2, RequestsAssumption DEF InSelection
  <2>3. Draining(p, w)'
    BY <1>1, <2>1, <2>2 DEF Draining, ShuttingDown, ShutdownSteps
  <2> QED
    BY <2>3
<1>3. CASE status[w] = TURNING_OFF
  <2>1. PICK q \in Calls : Draining(q, w)
    BY <1>3 DEF DrainInv
  <2>2. CASE q # p
    <3>1. step'[q] = step[q] /\ open'[q] = open[q] /\ grace'[q] = grace[q]
      BY <2>2, OthersStay
    <3>2. Current(q)' = Current(q)
      BY <3>1 DEF Current, FirstByName, FirstListed, Position
    <3> QED
      BY <1>1, <2>1, <3>1, <3>2 DEF Draining, ShuttingDown
  <2>3. CASE q = p
    <3>1. step[p] \in ShutdownSteps /\ Current(p) = w
      BY <2>1, <2>3 DEF Draining, ShuttingDown
    <3>2. turn_off_node(p) /\ ~MarkOff(p)
      BY <3>1 DEF ShutdownSteps, PowerStep, turn_off_node, change_node_status,
         turn_off_idle_nodes, StartSweep, SkipNode, Consider, turn_on, StartOn, turn_on_node,
         PulseFails, StartOff, wait_for_nodes_to_be_ready, BeginWait, PollNotReady, PollReady,
         AskProps, refresh_worker_capacity, RefreshFails, BeginPromoting, Promote, EndRound,
         Expire, MarkOff
    <3>3. ~AbortTurnOff(p) /\ ~SshFails(p) /\ ~Settle(p)
      <4>1. status \in [Workers -> Statuses]
        BY DEF TypeAndPlace, TypeOK, StateTypeOK
      <4> QED
        BY <3>1, <4>1 DEF AbortTurnOff, SshFails, Settle, OFF, IDLE, TURNING_OFF
    <3>4. CASE Recheck(p)
      <4>1. step[p] = "draining" /\ inflight[w] = 0 /\ step'[p] = "ssh" /\ open' = open
        BY <3>1, <3>4 DEF Recheck, MoveTo, TypeAndPlace, TypeOK, PowerTypeOK
      <4>2. GraceIsOver(p)
        BY <3>2, <4>1 DEF turn_off_node, SshShutdown, SshFails, Settle
      <4>3. Claimants(w) = {}
        <5> SUFFICES ASSUME NEW r \in Claimants(w) PROVE FALSE
          OBVIOUS
        <5>1. r \in Requests /\ pc[r] = "claim" /\ r = grace[p]
          BY <2>1, <2>3, <4>1 DEF Draining, Claimants
        <5> QED
          BY <4>2, <5>1, RequestsAssumption DEF GraceIsOver, SelectionPcs
      <4>4. Current(p)' = w
        BY <3>1, <4>1 DEF Current, FirstByName, FirstListed, Position
      <4>5. Draining(p, w)'
        BY <1>1, <4>1, <4>3, <4>4 DEF Draining, ShuttingDown, ShutdownSteps
      <4> QED
        BY <4>5
    <3>5. CASE SshShutdown(p)
      <4>1. step[p] = "ssh" /\ step'[p] = "settling" /\ open' = open
        BY <3>5 DEF SshShutdown, MoveTo, TypeAndPlace, TypeOK, PowerTypeOK
      <4>2. Claimants(w) = {} /\ inflight[w] = 0
        BY <2>1, <2>3, <4>1 DEF Draining
      <4>3. Current(p)' = w
        BY <3>1, <4>1 DEF Current, FirstByName, FirstListed, Position
      <4>4. Draining(p, w)'
        BY <1>1, <4>1, <4>2, <4>3 DEF Draining, ShuttingDown, ShutdownSteps
      <4> QED
        BY <4>4
    <3> QED
      BY <3>2, <3>3, <3>4, <3>5 DEF turn_off_node
  <2> QED
    BY <2>2, <2>3
<1> QED
  BY <1>2, <1>3, WhoTurnsOff

(* No request turns a node off, and none chooses one that is turning off.  *)
LEMMA RequestsAndShutdown ==
  ASSUME TypeAndPlace, RoutingInv, NEW r \in Requests, RequestStep(r), NEW w \in Workers,
         status'[w] = TURNING_OFF
  PROVE  /\ status[w] = TURNING_OFF
         /\ Claimants(w)' \subseteq Claimants(w)
         /\ Claimants(w) = {} /\ inflight[w] = 0 => inflight'[w] = 0
<1>1. status[w] = TURNING_OFF
  <2>1. status' = status \/ status' = [status EXCEPT ![SyncTarget(r)] = SyncedStatus(SyncTarget(r))]
    BY DEF RequestStep, handle_llm, ReadConfig, EnterSelection, SyncCheck, SyncWrite, Choose,
       NoAvailableWorker, Claim, SyncOwnCheck, SyncOwnWrite, CallReturns, EnterRelease, Drop,
       stateVars
  <2>2. \A v : SyncedStatus(v) # TURNING_OFF
    BY DEF SyncedStatus, IDLE, WORKING, TURNING_OFF
  <2> HIDE DEF SyncTarget, SyncedStatus
  <2> QED
    BY <2>1, <2>2 DEF TypeAndPlace, TypeOK, StateTypeOK
<1>2. Claimants(w)' \subseteq Claimants(w)
  <2>0. \A q \in Requests \ {r} : pc'[q] = pc[q] /\ chosen'[q] = chosen[q]
    BY DEF RequestStep, handle_llm, ReadConfig, EnterSelection, SyncCheck, SyncWrite, Choose,
           NoAvailableWorker, Claim, SyncOwnCheck, SyncOwnWrite, CallReturns, EnterRelease,
           Drop, Goto, TypeAndPlace, TypeOK, RoutingTypeOK
  <2>1. CASE Choose(r)
    <3>1. PICK v \in WorkerNodesOf(cfg[r]) : Selects(v, WorkerNodesOf(cfg[r]))
                                            /\ chosen' = [chosen EXCEPT ![r] = v]
      BY <2>1 DEF Choose
    <3>2. status[v] \in Running
      BY <3>1 DEF Selects, Eligible
    <3>3. chosen'[r] = v
      BY <3>1 DEF TypeAndPlace, TypeOK, RoutingTypeOK
    <3>4. v # w
      BY <1>1, <3>2 DEF Running, IDLE, WORKING, TURNING_OFF
    <3> QED
      BY <2>0, <3>3, <3>4 DEF Claimants
  <2>2. CASE ~Choose(r)
    <3>1. pc'[r] # "claim"
      BY <2>2 DEF RequestStep, handle_llm, ReadConfig, EnterSelection, SyncCheck, SyncWrite,
         NoAvailableWorker, Claim, SyncOwnCheck, SyncOwnWrite, CallReturns, EnterRelease,
         Drop, Goto, TypeAndPlace, TypeOK, RoutingTypeOK
    <3> QED
      BY <2>0, <3>1 DEF Claimants
  <2> QED
    BY <2>1, <2>2
<1>3. ASSUME Claimants(w) = {}, inflight[w] = 0 PROVE inflight'[w] = 0
  <2>1. CASE Claim(r)
    <3>1. chosen[r] # w
      BY <1>3, <2>1 DEF Claim, Claimants
    <3> QED
      BY <1>3, <2>1, <3>1 DEF Claim, TypeAndPlace, TypeOK, StateTypeOK
  <2>2. CASE Drop(r)
    <3>1. chosen[r] = w => seen[r] = 0
      BY <1>3, <2>2 DEF Drop, RoutingInv, SeenInv
    <3>2. inflight' = [inflight EXCEPT ![chosen[r]] = MaxOf(0, seen[r] - 1)]
      BY <2>2 DEF Drop
    <3> QED
      BY <1>3, <3>1, <3>2 DEF MaxOf, TypeAndPlace, TypeOK, StateTypeOK
  <2>3. CASE ~Claim(r) /\ ~Drop(r)
    BY <1>3, <2>3, HoldersUntouched DEF RoutingInv
  <2> QED
    BY <2>1, <2>2, <2>3
<1> QED
  BY <1>1, <1>2, <1>3

LEMMA NextDrain ==
  TypeAndPlace /\ RoutingInv /\ LoopInv /\ DrainInv /\ [Next]_vars => LoopInv' /\ DrainInv'
<1> SUFFICES ASSUME TypeAndPlace, RoutingInv, LoopInv, DrainInv, [Next]_vars
             PROVE  LoopInv' /\ DrainInv'
  OBVIOUS
<1>1. ASSUME NEW p \in Calls, PowerStep(p) PROVE LoopInv' /\ DrainInv'
  BY <1>1, LoopStepInv, DrainPower
<1>2. ASSUME UNCHANGED <<powerVars, grace>>,
             \A w \in Workers : status'[w] = TURNING_OFF =>
                 /\ status[w] = TURNING_OFF
                 /\ Claimants(w)' \subseteq Claimants(w)
                 /\ Claimants(w) = {} /\ inflight[w] = 0 => inflight'[w] = 0
      PROVE  LoopInv' /\ DrainInv'
  <2>1. LoopInv'
    BY <1>2 DEF LoopInv, powerVars
  <2>2. ASSUME NEW w \in Workers, NEW p \in Calls, status'[w] = TURNING_OFF, Draining(p, w)
        PROVE  Draining(p, w)'
    <3>1. step' = step /\ open' = open /\ grace' = grace
      BY <1>2 DEF powerVars
    <3>2. ShuttingDown(p, w)'
      BY <2>2, <3>1 DEF Draining, ShuttingDown, Current, FirstByName, FirstListed, Position
    <3>3. CASE step[p] = "draining"
      BY <1>2, <2>2, <3>1, <3>2, <3>3 DEF Draining
    <3>4. CASE step[p] # "draining"
      BY <1>2, <2>2, <3>1, <3>2, <3>4 DEF Draining
    <3> QED
      BY <3>3, <3>4
  <2> QED
    BY <1>2, <2>1, <2>2 DEF DrainInv
<1>3. ASSUME NEW r \in Requests, RequestStep(r) PROVE LoopInv' /\ DrainInv'
  BY <1>2, <1>3, RequestsAndShutdown DEF RequestStep
<1>4. CASE StoreStep
  <2>1. \A w \in Workers : Claimants(w)' = Claimants(w)
    BY <1>4 DEF StoreStep, routingVars, Claimants
  <2>2. \A w \in Workers : status'[w] = TURNING_OFF => status[w] = TURNING_OFF
    BY <1>4 DEF TypeAndPlace, TypeOK, StateTypeOK, OFF, IDLE, TURNING_OFF, StoreStep,
       set_config, SetConfig, ListNode, BuildFails, BeginProbing, Probe, FinishBuild, stateVars
  <2> QED
    BY <1>2, <1>4, <2>1, <2>2, StoreKeepsCounters DEF StoreStep
<1>5. CASE UNCHANGED vars
  BY <1>2, <1>5 DEF vars, stateVars, routingVars, Claimants
<1> QED
  BY <1>1, <1>3, <1>4, <1>5 DEF Next

(* "Never power off a node while requests are still inflight"              *)
(* (power_scheduler.py:488), where one call alone shuts the node down and  *)
(* nobody has overwritten its TURNING_OFF: for any number of requests,     *)
(* calls and sweeps, whatever they do to other nodes.                      *)
THEOREM SoleShutdownDrains == Spec => []SoleShutdownIsDrained
<1>1. Spec => [](TypeAndPlace /\ RoutingInv /\ LoopInv /\ DrainInv)
  BY RoutingCorrect, InitDrain, NextDrain, PTL DEF Spec
<1>2. TypeAndPlace /\ LoopInv /\ DrainInv => SoleShutdownIsDrained
  <2> SUFFICES ASSUME TypeAndPlace, LoopInv, DrainInv, NEW p \in Calls,
                      step[p] \in {"ssh", "settling"}, status[Current(p)] = TURNING_OFF,
                      \A q \in Calls \ {p} : ~ShuttingDown(q, Current(p))
               PROVE  inflight[Current(p)] = 0
    BY DEF SoleShutdownIsDrained
  <2>1. Current(p) \in Workers
    BY CurrentIsOpen DEF LoopInv, LoopSteps, ShutdownSteps
  <2>2. PICK q \in Calls : Draining(q, Current(p))
    BY <2>1 DEF DrainInv
  <2>3. q = p
    BY <2>2 DEF Draining
  <2> QED
    BY <2>2, <2>3 DEF Draining
<1> QED
  BY <1>1, <1>2, PTL

-----------------------------------------------------------------------------
(* The choice of a worker *)

(* Whoever is selected is eligible, and idle when anybody is; otherwise    *)
(* nobody eligible has more slots to spare.                                *)
LEMMA SelectedIsBest ==
  ASSUME NEW S, NEW w, Selects(w, S)
  PROVE  /\ w \in Eligible(S)
         /\ \/ inflight[w] = 0
            \/ \A v \in Eligible(S) : free_slots(v) <= free_slots(w)
BY DEF Selects, IdleWorkers, BestWorkers

LEMMA FreeSlots ==
  ASSUME TypeAndPlace, NEW w \in Workers
  PROVE  /\ free_slots(w) \in Nat
         /\ inflight[w] = 0 /\ max_slots[w] > 0 => free_slots(w) > 0
<1>1. max_slots[w] \in Nat /\ inflight[w] \in Nat
  BY BoundsAssumption DEF TypeAndPlace, TypeOK, StateTypeOK
<1> QED
  BY <1>1 DEF free_slots, active_requests, MaxOf, MinOf

(* choose_worker_node queues a request only when no eligible worker has a  *)
(* slot to spare: for any number of workers, slots and requests.           *)
THEOREM QueueingIsNeeded == Spec => NoNeedlessQueueing
<1> DEFINE Needed ==
      \A r \in Requests :
          LET eligible == Eligible(WorkerNodesOf(cfg[r]))
          IN  /\ pc[r] # "claim"
              /\ pc'[r] = "claim"
              /\ \A w \in eligible : max_slots[w] > 0
              => \/ free_slots(chosen'[r]) > 0
                 \/ \A w \in eligible : free_slots(w) = 0
<1>1. ASSUME TypeAndPlace, Next PROVE Needed
  <2> SUFFICES ASSUME NEW r \in Requests, pc[r] # "claim", pc'[r] = "claim",
                      \A w \in Eligible(WorkerNodesOf(cfg[r])) : max_slots[w] > 0
               PROVE  \/ free_slots(chosen'[r]) > 0
                      \/ \A w \in Eligible(WorkerNodesOf(cfg[r])) : free_slots(w) = 0
    OBVIOUS
  <2>1. PICK q \in Requests : RequestStep(q)
    BY <1>1 DEF Next, PowerStep, StoreStep, routingVars
  <2>2. Choose(r) /\ cfg[r] \in Gens
    <3>1. Choose(r)
      BY <1>1, <2>1 DEF RequestStep, handle_llm, ReadConfig, EnterSelection, SyncCheck,
         SyncWrite, Choose, NoAvailableWorker, Claim, SyncOwnCheck, SyncOwnWrite, CallReturns,
         EnterRelease, Drop, Goto, TypeAndPlace, TypeOK, RoutingTypeOK
    <3> QED
      BY <1>1, <3>1 DEF Choose, TypeAndPlace, PlaceInv
  <2>3. PICK v \in WorkerNodesOf(cfg[r]) : Selects(v, WorkerNodesOf(cfg[r]))
                                           /\ chosen' = [chosen EXCEPT ![r] = v]
    BY <2>2 DEF Choose
  <2>4. chosen'[r] = v
    BY <1>1, <2>3 DEF TypeAndPlace, TypeOK, RoutingTypeOK
  <2>5. WorkerNodesOf(cfg[r]) \subseteq Workers
    BY <1>1, <2>2, ListedAreWorkers DEF TypeAndPlace, TypeOK
  <2>6. v \in Eligible(WorkerNodesOf(cfg[r])) /\ v \in Workers
    BY <2>3, <2>5, SelectedIsBest
  <2>7. CASE inflight[v] = 0
    <3>1. free_slots(v) > 0
      BY <1>1, <2>6, <2>7, FreeSlots
    <3> QED
      BY <2>4, <3>1
  <2>8. CASE \A w \in Eligible(WorkerNodesOf(cfg[r])) : free_slots(w) <= free_slots(v)
    <3>1. \A w \in Eligible(WorkerNodesOf(cfg[r])) : free_slots(w) \in Nat
      BY <1>1, <2>5, FreeSlots DEF Eligible
    <3>2. free_slots(v) \in Nat
      BY <2>6, <3>1
    <3> QED
      BY <2>4, <2>8, <3>1, <3>2
  <2> QED
    BY <2>3, <2>7, <2>8, SelectedIsBest
<1>2. TypeAndPlace /\ [Next]_vars => [Needed]_vars
  BY <1>1
<1>3. Spec => []TypeAndPlace
  BY RoutingCorrect, PTL
<1> QED
  BY <1>2, <1>3, PTL DEF Spec, NoNeedlessQueueing
=============================================================================
