----------------------- MODULE ClusterReadiness_proofs -----------------------
(***************************************************************************)
(* Proofs about ClusterReadiness.  The readiness check only uses what the  *)
(* cluster API offers, so that everything proved of ClusterApi holds while *)
(* it runs; from there, what it has found out about the cluster is true,   *)
(* and, when no other power call interferes, stays true.                   *)
(***************************************************************************)
EXTENDS ClusterReadiness, ClusterApi_proofs

-----------------------------------------------------------------------------
(* The check implements the cluster API. *)

(* Powering all nodes on is one of the power-on calls there can be.        *)
LEMMA TurnAllOnIsACall == TurnAllOn => PowerStep(AllOn) /\ AllOn \in Calls
<1>1. AllOn \in Calls
  BY ReadinessAssumption DEF Calls
<1>2. TurnAllOn => PowerStep(AllOn)
  BY DEF TurnAllOn, PowerStep, change_node_status, turn_on
<1> QED
  BY <1>1, <1>2

(* The other steps of start_test only look.                                *)
LEMMA StartStepLooks == StartStep => TurnAllOn \/ UNCHANGED vars
BY DEF StartStep, PushTimesOut, SkipCheck, CountNodes, TurnOnOver, SeeAllReady, SeeNotReady,
       SeeNoneInflight, SeeInflight

LEMMA PushIsAStoreStep ==
  (PushConfig \/ BuildStep) /\ UNCHANGED <<routingVars, powerVars, grace>> => StoreStep
BY DEF PushConfig, BuildStep, StoreStep, set_config

LEMMA ReadinessStep == [ReadinessNext]_allVars => [Next]_vars
<1>1. CASE UNCHANGED allVars
  BY <1>1 DEF allVars
<1>2. CASE \E r \in Requests : RequestStep(r) /\ UNCHANGED readyVars
  BY <1>2 DEF Next
<1>3. CASE \E p \in Calls : PowerStep(p)
  BY <1>3 DEF Next
<1>4. CASE (PushConfig \/ BuildStep) /\ UNCHANGED <<routingVars, powerVars, grace>>
  BY <1>4, PushIsAStoreStep DEF Next
<1>5. CASE StartStep
  BY <1>5, StartStepLooks, TurnAllOnIsACall DEF Next
<1> QED
  BY <1>1, <1>2, <1>3, <1>4, <1>5 DEF ReadinessNext

(* A cluster that is being made ready for a test is a cluster API process  *)
(* with requests, power calls and pushes like any other: whatever holds of *)
(* the one holds of the other.                                             *)
THEOREM ReadinessImplementsApi == ReadinessSpec => Spec
BY ReadinessStep, PTL DEF ReadinessSpec, ReadinessInit, Spec

(* A call that turns nodes on is in no loop that turns nodes off.          *)
OnInv == \A p \in OnCalls : step[p] \notin LoopSteps

LEMMA NextOn ==
  ASSUME TypeAndPlace, OnInv, [Next]_vars
  PROVE  OnInv'
<1>1. ASSUME NEW p \in Calls, PowerStep(p) PROVE OnInv'
  <2>1. \A q \in OnCalls : q \in Calls /\ q \notin Sweeps \cup OffCalls
    BY CallsAssumption DEF Calls
  <2>2. ASSUME p \in OnCalls PROVE step'[p] \notin LoopSteps
    <3>1. step[p] \notin LoopSteps /\ p \notin Sweeps \cup OffCalls
      BY <2>1, <2>2 DEF OnInv
    <3>2. turn_on(p)
      BY <1>1, <3>1 DEF PowerStep, turn_off_node, turn_off_idle_nodes, change_node_status,
         StartOff, StartSweep, SkipNode, Consider, MarkOff, AbortTurnOff, Recheck, SshShutdown,
         SshFails, Settle, LoopSteps, ShutdownSteps
    <3> QED
      BY <3>1, <3>2 DEF TypeAndPlace, TypeOK, PowerTypeOK, LoopSteps, ShutdownSteps, MoveTo,
         turn_on, StartOn, turn_on_node, PulseFails, wait_for_nodes_to_be_ready, BeginWait,
         PollNotReady, PollReady, AskProps, refresh_worker_capacity, RefreshFails,
         BeginPromoting, Promote, EndRound, Expire
  <2> QED
    BY <1>1, <2>1, <2>2, OthersStay DEF OnInv
<1>2. CASE UNCHANGED step
  BY <1>2 DEF OnInv
<1>3. ASSUME NEW r \in Requests, RequestStep(r) PROVE OnInv'
  BY <1>2, <1>3 DEF RequestStep, powerVars
<1> QED
  BY <1>1, <1>2, <1>3 DEF Next, StoreStep, vars, powerVars

LEMMA ApiInvariants == Spec => [](TypeAndPlace /\ RoutingInv /\ SweepInv /\ OnInv)
<1>1. Spec => []SweepInv
  BY InitSweeps, NextSweeps, RoutingCorrect, PTL DEF Spec
<1>2. Init => OnInv
  BY DEF Init, PowerInit, OnInv, LoopSteps, ShutdownSteps, Calls
<1>3. TypeAndPlace /\ OnInv /\ [Next]_vars => OnInv'
  BY NextOn
<1>4. Spec => []OnInv
  BY <1>2, <1>3, RoutingCorrect, PTL DEF Spec
<1> QED
  BY <1>1, <1>4, RoutingCorrect, PTL

-----------------------------------------------------------------------------
(* Types *)

(* What the check counts with; once it has pushed there is a configuration.*)
CheckInv ==
    /\ check \in {"away"} \cup CheckSteps \cup Verdicts
    /\ total \in 0 .. Cardinality(Nodes)
    /\ all_ready \in BOOLEAN
    /\ polls \in 0 .. MaxPolls - 1
    /\ check # "away" => gen \in Gens

(* The number of the configuration only grows.                             *)
LEMMA GenGrows ==
  ASSUME TypeAndPlace, TypeAndPlace', [Next]_vars
  PROVE  gen' \in 0 .. MaxGen /\ gen' >= gen
<1>1. gen \in Nat /\ gen' \in 0 .. MaxGen
  BY BoundsAssumption DEF TypeAndPlace, TypeOK, StateTypeOK
<1>2. CASE StoreStep
  BY <1>1, <1>2 DEF StoreStep, set_config, SetConfig, ListNode, BuildFails, BeginProbing, Probe,
                    FinishBuild, stateVars
<1>3. ASSUME NEW p \in Calls, PowerStep(p) PROVE gen' = gen
  BY <1>3, OthersStay
<1>4. ASSUME NEW r \in Requests, RequestStep(r) PROVE gen' = gen
  BY <1>4 DEF RequestStep, handle_llm, ReadConfig, EnterSelection, SyncCheck, SyncWrite, Choose,
     NoAvailableWorker, Claim, SyncOwnCheck, SyncOwnWrite, CallReturns, EnterRelease, Drop,
     stateVars
<1>5. UNCHANGED vars => gen' = gen
  BY DEF vars, stateVars
<1> QED
  BY <1>1, <1>2, <1>3, <1>4, <1>5 DEF Next

LEMMA CheckTypes ==
  ASSUME TypeAndPlace, TypeAndPlace', CheckInv, [ReadinessNext]_allVars
  PROVE  CheckInv'
<1>1. gen \in Gens => gen' \in Gens
  BY ReadinessStep, GenGrows DEF Gens
<1>2. MaxPolls \in Nat \ {0}
  BY ReadinessAssumption
<1>3. CASE UNCHANGED readyVars
  BY <1>1, <1>3 DEF CheckInv, readyVars
<1>4. CASE PushConfig
  <2>1. gen' \in Gens
    BY <1>4, BoundsAssumption DEF PushConfig, SetConfig, Gens, TypeAndPlace, TypeOK, StateTypeOK
  <2>2. check' = "pushing" /\ UNCHANGED <<total, all_ready, polls>>
    BY <1>4 DEF PushConfig, CheckTo
  <2> QED
    BY <2>1, <2>2 DEF CheckInv, CheckSteps, Verdicts
<1>5. CASE BuildStep
  <2>1. /\ check' = check \/ (check = "pushing" /\ check' \in {"pushed", "failed"})
        /\ UNCHANGED <<total, all_ready, polls>>
    BY <1>5 DEF BuildStep, CheckTo
  <2> QED
    BY <1>1, <2>1 DEF CheckInv, CheckSteps, Verdicts
<1>6. CASE StartStep
  <2>1. check # "away" /\ check' \in CheckSteps \cup Verdicts
    BY <1>6 DEF StartStep, PushTimesOut, SkipCheck, CountNodes, TurnAllOn, TurnOnOver,
       SeeAllReady, SeeNotReady, SeeNoneInflight, SeeInflight, PollAgainOr, CheckTo, CheckSteps,
       Verdicts
  <2>2. total' = total \/ total' = listed[gen]
    BY <1>6 DEF StartStep, PushTimesOut, SkipCheck, CountNodes, TurnAllOn, TurnOnOver,
       SeeAllReady, SeeNotReady, SeeNoneInflight, SeeInflight
  <2>3. listed[gen] \in 0 .. Cardinality(Nodes)
    BY <2>1 DEF CheckInv, TypeAndPlace, TypeOK, StateTypeOK
  <2>4. all_ready' = all_ready \/ all_ready' = TRUE
    BY <1>6, Zenon DEF StartStep, PushTimesOut, SkipCheck, CountNodes, TurnAllOn, TurnOnOver,
       SeeAllReady, SeeNotReady, SeeNoneInflight, SeeInflight
  <2>5. all_ready' \in BOOLEAN
    BY <2>4 DEF CheckInv
  <2>6. polls' \in 0 .. MaxPolls - 1
    <3>1. polls' = polls \/ polls' = 0 \/ (polls + 1 < MaxPolls /\ polls' = polls + 1)
      BY <1>6 DEF StartStep, PushTimesOut, SkipCheck, CountNodes, TurnAllOn, TurnOnOver,
         SeeAllReady, SeeNotReady, SeeNoneInflight, SeeInflight, PollAgainOr
    <3>2. polls \in 0 .. MaxPolls - 1
      BY DEF CheckInv
    <3> QED
      BY <1>2, <3>1, <3>2
  <2> QED
    BY <1>1, <2>1, <2>2, <2>3, <2>5, <2>6 DEF CheckInv
<1> QED
  BY <1>3, <1>4, <1>5, <1>6 DEF ReadinessNext, allVars

LEMMA CheckInvariant ==
  ReadinessSpec => [](TypeAndPlace /\ RoutingInv /\ SweepInv /\ OnInv /\ CheckInv)
<1>1. ReadinessInit => CheckInv
  <2> SUFFICES ASSUME ReadinessInit PROVE CheckInv
    OBVIOUS
  <2>1. check = "away" /\ total = 0 /\ all_ready = FALSE /\ polls = 0
    BY DEF ReadinessInit
  <2>2. 0 \in 0 .. Cardinality(Nodes) /\ 0 \in 0 .. MaxPolls - 1
    BY NodeCount, ReadinessAssumption
  <2> QED
    BY <2>1, <2>2 DEF CheckInv
<1>2. TypeAndPlace /\ TypeAndPlace' /\ CheckInv /\ [ReadinessNext]_allVars => CheckInv'
  BY CheckTypes
<1>3. ReadinessSpec => [](TypeAndPlace /\ RoutingInv /\ SweepInv /\ OnInv)
  BY ReadinessImplementsApi, ApiInvariants, PTL
<1> QED
  BY <1>1, <1>2, <1>3, PTL DEF ReadinessSpec

(* Type correctness of the check and of the cluster it checks.             *)
THEOREM ReadinessTypes == ReadinessSpec => []ReadinessTypeOK
<1>1. TypeAndPlace /\ CheckInv => ReadinessTypeOK
  BY DEF TypeAndPlace, CheckInv, ReadinessTypeOK
<1> QED
  BY <1>1, CheckInvariant, PTL

-----------------------------------------------------------------------------
(* "check that the pods have no inflight requests" (line 86): the counters *)
(* the last poll has seen at zero are exact, so that no request holds a    *)
(* worker of the configuration when the check finds the cluster ready.     *)
THEOREM ReadyIsSettled == ReadinessSpec => SettledWhenReady
<1> DEFINE Settled == check # "ready" /\ check' = "ready"
                      => \A w \in WorkerNodesOf(gen) : Holders(w) = {}
<1>1. ASSUME TypeAndPlace, RoutingInv, CheckInv, [ReadinessNext]_allVars PROVE [Settled]_allVars
  <2> SUFFICES ASSUME check # "ready", check' = "ready", NEW w \in WorkerNodesOf(gen)
               PROVE  Holders(w) = {}
    BY <1>1
  <2>1. StartStep
    BY <1>1 DEF ReadinessNext, PushConfig, BuildStep, CheckTo, allVars, readyVars
  <2>2. SeeNoneInflight
    BY <2>1 DEF StartStep, PushTimesOut, SkipCheck, CountNodes, TurnAllOn, TurnOnOver,
       SeeAllReady, SeeNotReady, SeeInflight, PollAgainOr, CheckTo
  <2>3. gen \in Gens
    BY <1>1, <2>2 DEF SeeNoneInflight, CheckInv
  <2>4. w \in Workers /\ inflight[w] \in Nat
    BY <1>1, <2>3, ListedAreWorkers DEF TypeAndPlace, TypeOK, StateTypeOK
  <2>5. inflight[w] = 0
    BY <2>2, <2>4 DEF SeeNoneInflight, InflightSeen
  <2>6. Cardinality(Holders(w)) = 0
    BY <1>1, <2>4, <2>5 DEF RoutingInv, InflightExact
  <2> QED
    BY <2>6, HoldersFinite, FS_EmptySet
<1>2. TypeAndPlace /\ RoutingInv /\ CheckInv /\ [ReadinessNext]_allVars => [Settled]_allVars
  BY <1>1
<1> QED
  BY <1>2, CheckInvariant, PTL DEF ReadinessSpec, SettledWhenReady

-----------------------------------------------------------------------------
(* The cluster stays ready. *)

(* No power call but idle sweeps and the check's own, and a cluster with   *)
(* nodes: with other calls of change_node_status, or without a node to     *)
(* serve, a cluster that was found ready may turn requests away.           *)
OnlyTheCheck == OnCalls = {AllOn} /\ OffCalls = {} /\ Nodes # {}

(* Until the push is answered nobody asks for nodes to be powered on, and  *)
(* the slots of workers that are not built or probed yet are unknown;      *)
(* after it the configuration is complete.                                 *)
Early == check \in {"away", "pushing", "failed"}

PushInv ==
    /\ check = "away" => build = "none" /\ \A w \in Workers : w[1] > gen => max_slots[w] = 0
    /\ check # "away" => gen \in Gens
    /\ Early => step[AllOn] = "idle"
    /\ ~Early => build = "none" /\ listed[gen] = Cardinality(Nodes)
    /\ build = "listing" => \A w \in Workers : w[1] = gen => max_slots[w] = 0
    /\ build = "probing" => listed[gen] = Cardinality(Nodes)
    /\ check \in {"informed", "turning", "polling"} => total = Cardinality(Nodes)

(* The first machine by name is what every sweep spares.  It is off only   *)
(* while its slots are unknown, so that it cannot be taken for ready and   *)
(* then be pulsed by the power-on call of the check; once it has been seen *)
(* ready it is running and is not going to be pulsed.                      *)
IsFirst(w) == \A n \in Nodes : w[2] <= n
ToBePulsed(w) == step[AllOn] = "pulsing" /\ w \in open[AllOn]

KeeperInv ==
    /\ check = "ready" => all_ready
    /\ all_ready => check \in {"settling", "ready", "unready"}
    /\ \A w \in Workers : IsFirst(w) =>
           /\ status[w] = OFF \/ ToBePulsed(w) => max_slots[w] = 0
           /\ all_ready /\ w[1] = gen => status[w] \in Running /\ ~ToBePulsed(w)

LEMMA InitKeeper == ReadinessInit => PushInv /\ KeeperInv
<1> SUFFICES ASSUME ReadinessInit PROVE PushInv /\ KeeperInv
  OBVIOUS
<1>1. /\ check = "away" /\ all_ready = FALSE /\ build = "none" /\ Init
      /\ AllOn \in Calls /\ step[AllOn] = "idle" /\ TypeAndPlace
  BY InitTypes, ReadinessAssumption DEF ReadinessInit, Init, StoreInit, PowerInit, Calls
<1>2. /\ \A w \in Workers : w[1] > gen => max_slots[w] = 0
      /\ \A w \in Workers : status[w] = OFF => max_slots[w] = 0
  <2>1. CASE StateInit
    BY <2>1 DEF StateInit, FreshWorkers
  <2>2. CASE ConfiguredInit
    <3>1. gen = 1 /\ \A w \in Workers : w[1] # 1 => max_slots[w] = 0
      BY <2>2 DEF ConfiguredInit
    <3>2. \A w \in Workers : status[w] = OFF => max_slots[w] = 0
      <4>1. \A w \in Workers : max_slots[w] \in Nat
        BY <1>1, BoundsAssumption DEF TypeAndPlace, TypeOK, StateTypeOK
      <4> QED
        BY <2>2, <4>1 DEF ConfiguredInit, OFF, IDLE
    <3> QED
      BY <3>1, <3>2
  <2> QED
    BY <1>1, <2>1, <2>2 DEF Init
<1>3. PushInv
  BY <1>1, <1>2 DEF PushInv, Early
<1>4. KeeperInv
  BY <1>1, <1>2 DEF KeeperInv, ToBePulsed
<1> QED
  BY <1>3, <1>4

(* A request changes no configuration and no capacity, and shows a worker  *)
(* as idle or working if it changes its status.                            *)
LEMMA RequestFacts ==
  ASSUME TypeAndPlace, NEW r \in Requests, RequestStep(r)
  PROVE  /\ UNCHANGED <<gen, listed, max_slots, powerVars, storeVars>>
         /\ \A w \in Workers : status'[w] = status[w] \/ status'[w] \in Running
<1>1. UNCHANGED <<gen, listed, max_slots, powerVars, storeVars>>
  BY DEF RequestStep, handle_llm, ReadConfig, EnterSelection, SyncCheck, SyncWrite, Choose,
     NoAvailableWorker, Claim, SyncOwnCheck, SyncOwnWrite, CallReturns, EnterRelease, Drop,
     stateVars
<1>2. \/ status' = status
      \/ status' = [status EXCEPT ![SyncTarget(r)] = SyncedStatus(SyncTarget(r))]
  BY DEF RequestStep, handle_llm, ReadConfig, EnterSelection, SyncCheck, SyncWrite, Choose,
     NoAvailableWorker, Claim, SyncOwnCheck, SyncOwnWrite, CallReturns, EnterRelease, Drop,
     stateVars
<1>3. \A v : SyncedStatus(v) \in Running
  BY DEF SyncedStatus, Running
<1> HIDE DEF SyncTarget, SyncedStatus
<1> QED
  BY <1>1, <1>2, <1>3 DEF TypeAndPlace, TypeOK, StateTypeOK

(* A sweep leaves the first machine of every configuration alone.          *)
LEMMA SweepFacts ==
  ASSUME TypeAndPlace, SweepInv, NEW p \in Sweeps, PowerStep(p)
  PROVE  /\ UNCHANGED <<gen, listed, max_slots, storeVars>>
         /\ step'[AllOn] = step[AllOn] /\ open'[AllOn] = open[AllOn]
         /\ \A w \in Workers : IsFirst(w) => status'[w] = status[w]
<1>1. p \in Calls /\ AllOn \in Calls \ {p}
  BY CallsAssumption, ReadinessAssumption DEF Calls
<1>2. UNCHANGED storeVars
  BY DEF PowerStep
<1>3. ASSUME NEW w \in Workers, IsFirst(w) PROVE w \notin open[p]
  <2> SUFFICES ASSUME w \in open[p] PROVE FALSE
    OBVIOUS
  <2>1. gen \in Nat /\ w[1] \in Gens /\ w[1] <= gen
    BY BoundsAssumption DEF SweepInv, Spared, Workers, TypeAndPlace, TypeOK, StateTypeOK
  <2>2. PICK v \in WorkerNodesOf(w[1]) : v[2] < w[2]
    BY DEF SweepInv, Spared
  <2>3. v \in Workers
    BY <2>1, <2>2, ListedAreWorkers DEF TypeAndPlace, TypeOK
  <2>4. v[2] \in Nodes /\ v[2] \in Nat /\ w[2] \in Nat
    BY <2>3, NodesAssumption DEF Workers
  <2> QED
    BY <1>3, <2>2, <2>4 DEF IsFirst
<1> QED
  BY <1>1, <1>2, <1>3, OthersStay, SweepTouchesOpen

(* The push and its build, seen from outside.                              *)
LEMMA PushStep ==
  ASSUME OnlyTheCheck, TypeAndPlace, TypeAndPlace', SweepInv, CheckInv, PushInv,
         [ReadinessNext]_allVars
  PROVE  PushInv'
<1> USE DEF PushInv, Early
<1>0. /\ gen \in Nat /\ AllOn \in Calls /\ Calls = {AllOn} \cup Sweeps
      /\ listed \in [Gens -> 0 .. Cardinality(Nodes)]
      /\ max_slots \in [Workers -> 0 .. MaxSlots]
      /\ step \in [Calls -> Steps]
  BY BoundsAssumption DEF TypeAndPlace, TypeOK, StateTypeOK, PowerTypeOK, OnlyTheCheck, Calls
<1>1. CASE UNCHANGED allVars
  BY <1>1 DEF allVars, vars, stateVars, powerVars, storeVars, readyVars
<1>2. ASSUME NEW r \in Requests, RequestStep(r), UNCHANGED readyVars PROVE PushInv'
  BY <1>2, RequestFacts DEF powerVars, storeVars, readyVars
<1>3. ASSUME NEW p \in Sweeps, PowerStep(p), UNCHANGED readyVars PROVE PushInv'
  BY <1>3, SweepFacts DEF storeVars, readyVars
<1>4. CASE PowerStep(AllOn) /\ step[AllOn] # "idle" /\ UNCHANGED readyVars
  <2>1. UNCHANGED <<gen, listed, storeVars>>
    BY <1>0, <1>4, OthersStay DEF PowerStep
  <2> QED
    BY <1>4, <2>1 DEF storeVars, readyVars
<1>5. CASE PushConfig /\ UNCHANGED <<routingVars, powerVars, grace>>
  <2>1. /\ check = "away" /\ check' = "pushing" /\ gen' = gen + 1 /\ max_slots' = max_slots
        /\ build' = "listing" /\ step' = step
    BY <1>5 DEF PushConfig, SetConfig, CheckTo, powerVars
  <2>2. gen' \in Gens
    BY <1>0, <1>5, <2>1, BoundsAssumption DEF PushConfig, SetConfig, Gens
  <2>3. \A w \in Workers : w[1] = gen' => max_slots'[w] = 0
    BY <1>0, <2>1
  <2> QED
    BY <2>1, <2>2, <2>3
<1>6. CASE BuildStep /\ UNCHANGED <<routingVars, powerVars, grace>>
  <2>1. /\ Early /\ check # "away" /\ gen \in Gens /\ gen' = gen /\ step' = step
        /\ build \in {"listing", "probing"}
    BY <1>6 DEF BuildStep, ListNode, BuildFails, BeginProbing, Probe, FinishBuild, stateVars,
                powerVars
  <2>2. check' # "away" /\ (check' = check \/ check' = "failed" \/ check' = "pushed")
    BY <1>6, <2>1 DEF BuildStep, CheckTo
  <2>3. CASE ListNode
    <3>1. /\ build = "listing" /\ UNCHANGED <<gen, max_slots, build, total, check>>
      BY <1>6, <2>3 DEF BuildStep, ListNode, BuildFails, FinishBuild
    <3> QED
      BY <2>1, <3>1
  <2>4. CASE BuildFails
    BY <1>6, <2>1, <2>4 DEF BuildStep, BuildFails, CheckTo, ListNode, BeginProbing, Probe,
       FinishBuild, stateVars
  <2>5. CASE BeginProbing
    BY <1>6, <2>1, <2>5 DEF BuildStep, BuildFails, CheckTo, ListNode, BeginProbing, Probe,
       FinishBuild, stateVars
  <2>6. CASE Probe
    BY <1>6, <2>1, <2>6 DEF BuildStep, BuildFails, CheckTo, ListNode, BeginProbing, Probe,
       FinishBuild, stateVars
  <2>7. CASE FinishBuild
    BY <1>6, <2>1, <2>7 DEF BuildStep, BuildFails, CheckTo, ListNode, BeginProbing, Probe,
       FinishBuild, stateVars
  <2> QED
    BY <1>6, <2>3, <2>4, <2>5, <2>6, <2>7 DEF BuildStep
<1>7. CASE TurnAllOn
  <2>1. /\ check = "informed" /\ check' = "turning" /\ total' = total
        /\ UNCHANGED <<gen, listed, max_slots, storeVars>>
    BY <1>7 DEF TurnAllOn, StartOn, CheckTo, stateVars
  <2> QED
    BY <2>1 DEF storeVars
<1>8. CASE StartStep /\ UNCHANGED vars
  <2>1. UNCHANGED <<gen, listed, max_slots, step, build>>
    BY <1>8 DEF vars, stateVars, powerVars, storeVars
  <2>2. /\ check # "away" /\ check' # "away" /\ check' # "pushing"
        /\ \/ check = "pushing" /\ check' = "failed"
           \/ ~Early /\ check' # "failed"
    BY <1>8 DEF StartStep, PushTimesOut, SkipCheck, CountNodes, TurnAllOn, TurnOnOver,
       SeeAllReady, SeeNotReady, SeeNoneInflight, SeeInflight, PollAgainOr, CheckTo
  <2>3. check' \in {"informed", "turning", "polling"} => total' = Cardinality(Nodes)
    BY <1>8, <2>2 DEF StartStep, PushTimesOut, SkipCheck, CountNodes, TurnAllOn, TurnOnOver,
       SeeAllReady, SeeNotReady, SeeNoneInflight, SeeInflight, PollAgainOr, CheckTo
  <2> QED
    BY <2>1, <2>2, <2>3
<1> QED
  BY <1>0, <1>1, <1>2, <1>3, <1>4, <1>5, <1>6, <1>7, <1>8, StartStepLooks DEF ReadinessNext

(* What a step has to leave alone for the keepers to stay as they are.     *)
LEMMA KeeperStays ==
  ASSUME KeeperInv, gen' = gen, UNCHANGED <<check, all_ready>>,
         \A w \in Workers : IsFirst(w) =>
             /\ status'[w] = OFF \/ ToBePulsed(w)' => max_slots'[w] = 0
             /\ all_ready /\ w[1] = gen => status'[w] \in Running /\ ~ToBePulsed(w)'
  PROVE  KeeperInv'
BY DEF KeeperInv, IsFirst

(* The check's own power-on call: it pulses whom it has found off, brings  *)
(* nodes up, and gives up none that is running.                            *)
LEMMA OwnCallSparesKeeper ==
  ASSUME TypeAndPlace, SweepInv, OnInv, KeeperInv, PowerStep(AllOn), step[AllOn] # "idle",
         UNCHANGED readyVars
  PROVE  KeeperInv'
<1>0. AllOn \in OnCalls /\ AllOn \in Calls /\ AllOn \notin Sweeps \cup OffCalls
  BY ReadinessAssumption, CallsAssumption DEF Calls
<1> USE DEF TypeAndPlace, TypeOK, StateTypeOK, PowerTypeOK
<1>1. gen' = gen /\ UNCHANGED <<check, all_ready>>
  BY <1>0, OthersStay DEF readyVars
<1>2. ASSUME NEW w \in Workers, IsFirst(w),
             /\ status'[w] = status[w] \/ status'[w] \in Running
             /\ max_slots'[w] = max_slots[w]
             /\ ToBePulsed(w)' => ToBePulsed(w)
      PROVE  /\ status'[w] = OFF \/ ToBePulsed(w)' => max_slots'[w] = 0
             /\ all_ready /\ w[1] = gen => status'[w] \in Running /\ ~ToBePulsed(w)'
  BY <1>2 DEF KeeperInv, Running, OFF, IDLE, WORKING
<1>3. CASE UNCHANGED <<status, max_slots>> /\ \A w \in Workers : ToBePulsed(w)' => ToBePulsed(w)
  BY <1>1, <1>2, <1>3, KeeperStays
<1>4. ASSUME NEW v \in Workers, turn_on_node(AllOn, v) PROVE KeeperInv'
  <2>1. /\ step[AllOn] = "pulsing" /\ step' = step /\ max_slots' = max_slots
        /\ v \in open[AllOn] /\ open'[AllOn] = open[AllOn] \ {v}
        /\ status' = [status EXCEPT ![v] = TURNING_ON]
    BY <1>0, <1>4 DEF turn_on_node
  <2>2. ASSUME NEW w \in Workers, IsFirst(w)
        PROVE  /\ status'[w] = OFF \/ ToBePulsed(w)' => max_slots'[w] = 0
               /\ all_ready /\ w[1] = gen => status'[w] \in Running /\ ~ToBePulsed(w)'
    <3>1. CASE w = v
      <4>1. max_slots[w] = 0 /\ ~(all_ready /\ w[1] = gen)
        BY <2>1, <2>2, <3>1 DEF KeeperInv, ToBePulsed
      <4> QED
        BY <2>1, <4>1
    <3>2. CASE w # v
      <4>1. status'[w] = status[w] /\ max_slots'[w] = max_slots[w]
            /\ (ToBePulsed(w)' => ToBePulsed(w))
        BY <2>1, <3>2 DEF ToBePulsed
      <4> QED
        BY <1>2, <2>2, <4>1
    <3> QED
      BY <3>1, <3>2
  <2> QED
    BY <1>1, <2>2, KeeperStays
<1>5. ASSUME NEW v \in Workers, PulseFails(AllOn, v) PROVE KeeperInv'
  BY <1>0, <1>3, <1>5 DEF PulseFails, ToBePulsed, stateVars
<1>6. CASE BeginWait(AllOn) \/ AskProps(AllOn) \/ PollNotReady(AllOn) \/ PollReady(AllOn)
           \/ RefreshFails(AllOn) \/ BeginPromoting(AllOn) \/ EndRound(AllOn)
  <2>1. UNCHANGED <<status, max_slots>> /\ ~(step'[AllOn] = "pulsing")
    BY <1>0, <1>6 DEF BeginWait, AskProps, PollNotReady, PollReady, RefreshFails,
       BeginPromoting, EndRound, MoveTo, stateVars
  <2> QED
    BY <1>3, <2>1 DEF ToBePulsed
<1>7. CASE refresh_worker_capacity(AllOn)
  <2> DEFINE v == FirstListed(open[AllOn])
  <2>1. v \in Workers /\ step'[AllOn] # "pulsing"
    BY <1>0, <1>7, FirstListedIsMember DEF refresh_worker_capacity, MoveTo
  <2>2. PICK s \in 0 .. MaxSlots :
            /\ max_slots' = [max_slots EXCEPT ![v] = s]
            /\ status' = [status EXCEPT ![v] = IF s > 0 THEN IDLE ELSE @]
    BY <1>7 DEF refresh_worker_capacity
  <2> HIDE DEF v
  <2>3. ASSUME NEW w \in Workers, IsFirst(w)
        PROVE  /\ status'[w] = OFF \/ ToBePulsed(w)' => max_slots'[w] = 0
               /\ all_ready /\ w[1] = gen => status'[w] \in Running /\ ~ToBePulsed(w)'
    <3>1. s \in Nat /\ ~ToBePulsed(w)'
      BY <2>1, BoundsAssumption DEF ToBePulsed
    <3>2. CASE w = v /\ s > 0
      BY <2>2, <3>1, <3>2 DEF Running, OFF, IDLE
    <3>3. CASE w = v /\ s = 0
      BY <2>2, <2>3, <3>1, <3>3 DEF KeeperInv
    <3>4. CASE w # v
      BY <1>2, <2>2, <2>3, <3>1, <3>4
    <3> QED
      BY <3>1, <3>2, <3>3, <3>4
  <2> QED
    BY <1>1, <2>3, KeeperStays
<1>8. CASE Promote(AllOn)
  <2>1. /\ FirstListed(open[AllOn]) \in Workers /\ step'[AllOn] # "pulsing"
        /\ max_slots' = max_slots
    BY <1>0, <1>8, FirstListedIsMember DEF Promote
  <2>2. \A w \in Workers : status'[w] = status[w] \/ status'[w] \in Running
    BY <1>8, <2>1 DEF Promote, Running
  <2> QED
    BY <1>1, <1>2, <2>1, <2>2, KeeperStays DEF ToBePulsed
<1>9. CASE Expire(AllOn)
  <2> DEFINE v == FirstListed(open[AllOn])
  <2>1. v \in Workers /\ step'[AllOn] # "pulsing"
    BY <1>0, <1>9, FirstListedIsMember DEF Expire, MoveTo
  <2>2. IF status[v] \in Running
          THEN UNCHANGED <<status, max_slots>>
          ELSE /\ status' = [status EXCEPT ![v] = OFF]
               /\ max_slots' = [max_slots EXCEPT ![v] = 0]
    BY <1>9 DEF Expire
  <2> HIDE DEF v
  <2>3. ASSUME NEW w \in Workers, IsFirst(w)
        PROVE  /\ status'[w] = OFF \/ ToBePulsed(w)' => max_slots'[w] = 0
               /\ all_ready /\ w[1] = gen => status'[w] \in Running /\ ~ToBePulsed(w)'
    <3>1. ~ToBePulsed(w)'
      BY <2>1 DEF ToBePulsed
    <3>2. CASE w = v /\ status[v] \notin Running
      <4>1. max_slots'[w] = 0
        BY <2>1, <2>2, <3>2
      <4>2. ~(all_ready /\ w[1] = gen)
        BY <2>3, <3>2 DEF KeeperInv
      <4> QED
        BY <3>1, <4>1, <4>2
    <3>3. CASE w # v \/ status[v] \in Running
      <4>1. status'[w] = status[w] /\ max_slots'[w] = max_slots[w]
        BY <2>2, <3>3
      <4> QED
        BY <1>2, <2>3, <3>1, <4>1
    <3> QED
      BY <3>2, <3>3
  <2> QED
    BY <1>1, <2>3, KeeperStays
<1>10. turn_on(AllOn)
  <2>1. step[AllOn] \notin LoopSteps
    BY <1>0 DEF OnInv
  <2> QED
    BY <1>0, <2>1 DEF PowerStep, turn_off_node, turn_off_idle_nodes, change_node_status,
       StartOff, StartSweep, SkipNode, Consider, MarkOff, AbortTurnOff, Recheck, SshShutdown,
       SshFails, Settle, LoopSteps, ShutdownSteps
<1> QED
  BY <1>4, <1>5, <1>6, <1>7, <1>8, <1>9, <1>10 DEF turn_on, StartOn, wait_for_nodes_to_be_ready

(* When as many workers are usable as there are machines, all are.         *)
LEMMA AllAreUsable ==
  ASSUME TypeAndPlace, NEW g \in Gens, listed[g] = Cardinality(Nodes),
         Cardinality({w \in WorkerNodesOf(g) : IsUsable(w)}) = Cardinality(Nodes)
  PROVE  \A w \in WorkerNodesOf(g) : IsUsable(w)
<1> DEFINE N == Cardinality(Nodes)
           places == 1 .. N
           objects == [i \in places |-> <<g, ListOrder[i]>>]
           usable == {w \in WorkerNodesOf(g) : IsUsable(w)}
<1>1. IsFiniteSet(places) /\ Cardinality(places) = N
  <2>1. N \in Nat
    BY NodeCount
  <2>2. PICK a \in Int, b \in Int : a = 1 /\ b = N
    BY <2>1
  <2>3. IsFiniteSet(a .. b) /\ Cardinality(a .. b) = IF a > b THEN 0 ELSE b - a + 1
    BY <2>2, FS_Interval
  <2> HIDE DEF N
  <2> QED
    BY <2>1, <2>2, <2>3
<1>2. objects \in Surjection(places, WorkerNodesOf(g))
  BY DEF Surjection, WorkerNodesOf
<1>3. IsFiniteSet(WorkerNodesOf(g)) /\ Cardinality(WorkerNodesOf(g)) <= N
  <2> HIDE DEF places, objects, N
  <2> QED
    BY <1>1, <1>2, FS_Surjection
<1>4. usable \in SUBSET WorkerNodesOf(g)
  OBVIOUS
<1> HIDE DEF usable
<1>5. /\ Cardinality(usable) <= Cardinality(WorkerNodesOf(g))
      /\ Cardinality(WorkerNodesOf(g)) = Cardinality(usable) => WorkerNodesOf(g) = usable
  BY <1>3, <1>4, FS_Subset
<1>6. Cardinality(WorkerNodesOf(g)) \in Nat /\ Cardinality(usable) = N /\ N \in Nat
  BY <1>3, NodeCount, FS_CardinalityType DEF usable
<1>7. WorkerNodesOf(g) = usable
  BY <1>3, <1>5, <1>6
<1> QED
  BY <1>7 DEF usable

(* Every first machine is listed by a complete configuration.              *)
LEMMA AllAreListed ==
  ASSUME NEW g \in Gens, listed[g] = Cardinality(Nodes), NEW w \in Workers, w[1] = g
  PROVE  w \in WorkerNodesOf(g)
<1>1. w = <<w[1], w[2]>> /\ w[2] \in Nodes
  BY DEF Workers
<1>2. PICK i \in 1 .. Cardinality(Nodes) : ListOrder[i] = w[2]
  BY <1>1, ListOrderAssumption
<1> QED
  BY <1>1, <1>2 DEF WorkerNodesOf

LEMMA KeeperStep ==
  ASSUME OnlyTheCheck, TypeAndPlace, TypeAndPlace', SweepInv, OnInv, CheckInv, PushInv,
         KeeperInv, [ReadinessNext]_allVars
  PROVE  KeeperInv'
<1>0. /\ AllOn \in Calls /\ Calls = {AllOn} \cup Sweeps
      /\ status \in [Workers -> Statuses] /\ max_slots \in [Workers -> 0 .. MaxSlots]
      /\ gen \in Nat
  BY BoundsAssumption DEF TypeAndPlace, TypeOK, StateTypeOK, OnlyTheCheck, Calls
<1>1. CASE UNCHANGED <<gen, status, max_slots, step, open, check, all_ready>>
  BY <1>1 DEF KeeperInv, ToBePulsed, IsFirst
<1>2. ASSUME NEW r \in Requests, RequestStep(r), UNCHANGED readyVars PROVE KeeperInv'
  <2>1. /\ UNCHANGED <<gen, max_slots, step, open, check, all_ready>>
        /\ \A w \in Workers : status'[w] = status[w] \/ status'[w] \in Running
    BY <1>2, RequestFacts DEF powerVars, readyVars
  <2> QED
    BY <2>1 DEF KeeperInv, ToBePulsed, IsFirst, Running, OFF, IDLE, WORKING
<1>3. ASSUME NEW p \in Sweeps, PowerStep(p), UNCHANGED readyVars PROVE KeeperInv'
  <2>1. /\ UNCHANGED <<gen, max_slots, check, all_ready>>
        /\ step'[AllOn] = step[AllOn] /\ open'[AllOn] = open[AllOn]
        /\ \A w \in Workers : IsFirst(w) => status'[w] = status[w]
    BY <1>3, SweepFacts DEF readyVars
  <2> QED
    BY <2>1 DEF KeeperInv, ToBePulsed, IsFirst
<1>4. CASE PowerStep(AllOn) /\ step[AllOn] # "idle" /\ UNCHANGED readyVars
  BY <1>4, OwnCallSparesKeeper
<1>5. ASSUME UNCHANGED <<powerVars, all_ready>>, Early, check' # "ready",
             \A w \in Workers : IsFirst(w) /\ status'[w] = OFF => max_slots'[w] = 0
      PROVE  KeeperInv'
  <2>1. ~all_ready /\ step[AllOn] = "idle" /\ check # "ready"
    BY <1>5 DEF KeeperInv, PushInv, Early
  <2>2. ~all_ready'
    BY <1>5, <2>1
  <2>3. \A w \in Workers : ~ToBePulsed(w)'
    BY <1>5, <2>1 DEF ToBePulsed, powerVars
  <2> QED
    BY <1>5, <2>2, <2>3 DEF KeeperInv, IsFirst
<1>6. CASE PushConfig /\ UNCHANGED <<routingVars, powerVars, grace>>
  <2>1. UNCHANGED <<powerVars, all_ready, status, max_slots>> /\ Early /\ check' # "ready"
    BY <1>6 DEF PushConfig, SetConfig, CheckTo, Early
  <2> QED
    BY <1>5, <2>1 DEF KeeperInv
<1>7. CASE BuildStep /\ UNCHANGED <<routingVars, powerVars, grace>>
  <2>1. UNCHANGED <<powerVars, all_ready>> /\ Early /\ check' # "ready"
    BY <1>7 DEF BuildStep, ListNode, BuildFails, BeginProbing, Probe, FinishBuild, CheckTo,
                PushInv, Early
  <2>2. gen \in Gens
    BY <1>7 DEF BuildStep, ListNode, BuildFails, BeginProbing, Probe, FinishBuild, PushInv
  <2>3. CASE UNCHANGED <<status, max_slots>>
    BY <1>5, <2>1, <2>3 DEF KeeperInv
  <2>4. CASE ListNode
    <3>1. /\ max_slots' = max_slots
          /\ \E s : status' = [status EXCEPT ![<<gen, ListOrder[listed[gen] + 1]>>] = s]
          /\ \A w \in Workers : w[1] = gen => max_slots[w] = 0
      BY <2>4 DEF ListNode, PushInv
    <3>2. \A w \in Workers : w[1] # gen => status'[w] = status[w]
      BY <1>0, <3>1
    <3> QED
      BY <1>5, <2>1, <3>1, <3>2 DEF KeeperInv
  <2>5. CASE Probe
    <3> DEFINE v == <<gen, ListOrder[probed + 1]>>
    <3>1. PICK s \in 0 .. MaxSlots :
              /\ max_slots' = [max_slots EXCEPT ![v] = s]
              /\ status' = [status EXCEPT ![v] = IF s > 0 THEN IDLE ELSE OFF]
      BY <2>5 DEF Probe
    <3> HIDE DEF v
    <3>2. ASSUME NEW w \in Workers, IsFirst(w), status'[w] = OFF PROVE max_slots'[w] = 0
      <4>1. CASE w = v
        BY <1>0, <3>1, <3>2, <4>1, BoundsAssumption DEF OFF, IDLE
      <4>2. CASE w # v
        BY <1>0, <3>1, <3>2, <4>2 DEF KeeperInv
      <4> QED
        BY <4>1, <4>2
    <3> QED
      BY <1>5, <2>1, <3>2
  <2> QED
    BY <1>7, <2>3, <2>4, <2>5 DEF BuildStep, BuildFails, BeginProbing, FinishBuild, stateVars
<1>8. CASE TurnAllOn
  <2>1. /\ UNCHANGED <<gen, status, max_slots, all_ready>> /\ check = "informed"
        /\ check' = "turning" /\ gen \in Gens
    BY <1>8 DEF TurnAllOn, StartOn, CheckTo, stateVars, PushInv
  <2>2. /\ sel'[AllOn] = select_nodes_to_turn_on(total, WorkerNodesOf(gen))
        /\ open' = [open EXCEPT ![AllOn] = sel'[AllOn]]
    BY <1>8, <2>1, BoundsAssumption DEF TurnAllOn, StartOn, Gens
  <2>3. \A w \in open'[AllOn] : status[w] = OFF
    BY <1>0, <2>2 DEF select_nodes_to_turn_on, FirstWithStatus, TypeAndPlace, TypeOK, PowerTypeOK
  <2>4. ~all_ready /\ ~all_ready'
    BY <2>1 DEF KeeperInv
  <2>5. ASSUME NEW w \in Workers, IsFirst(w), status'[w] = OFF \/ ToBePulsed(w)'
        PROVE  max_slots'[w] = 0
    <3>1. status[w] = OFF
      BY <2>1, <2>3, <2>5 DEF ToBePulsed
    <3> QED
      BY <2>1, <2>5, <3>1 DEF KeeperInv
  <2> QED
    BY <2>1, <2>4, <2>5 DEF KeeperInv, IsFirst
<1>9. CASE SeeAllReady
  <2>1. /\ UNCHANGED vars /\ check = "polling" /\ check' = "settling" /\ all_ready'
        /\ gen \in Gens /\ total = Cardinality(Nodes) /\ listed[gen] = Cardinality(Nodes)
        /\ Cardinality({w \in WorkerNodesOf(gen) : IsUsable(w)}) = total
    BY <1>9 DEF SeeAllReady, CheckTo, PushInv, Early
  <2>2. \A w \in WorkerNodesOf(gen) : IsUsable(w)
    BY <2>1, AllAreUsable
  <2>3. \A w \in Workers : w[1] = gen => status[w] \in Running /\ max_slots[w] > 0
    BY <2>1, <2>2, AllAreListed DEF IsUsable
  <2>4. UNCHANGED <<gen, status, max_slots, step, open>>
    BY <2>1 DEF vars, stateVars, powerVars
  <2>5. \A w \in Workers : ToBePulsed(w)' <=> ToBePulsed(w)
    BY <2>4 DEF ToBePulsed
  <2>6. ASSUME NEW w \in Workers, IsFirst(w)
        PROVE  /\ status'[w] = OFF \/ ToBePulsed(w)' => max_slots'[w] = 0
               /\ w[1] = gen' => status'[w] \in Running /\ ~ToBePulsed(w)'
    BY <2>3, <2>4, <2>5, <2>6 DEF KeeperInv
  <2> QED
    BY <2>1, <2>6 DEF KeeperInv, IsFirst
<1>10. CASE StartStep /\ UNCHANGED vars /\ ~SeeAllReady
  <2>1. UNCHANGED <<gen, status, max_slots, step, open, all_ready>>
    BY <1>10, Zenon DEF vars, stateVars, powerVars, StartStep, PushTimesOut, SkipCheck,
       CountNodes, TurnAllOn, TurnOnOver, SeeNotReady, SeeNoneInflight, SeeInflight
  <2>2. all_ready => check = "settling" /\ check' \in {"settling", "ready", "unready"}
    BY <1>10 DEF KeeperInv, StartStep, PushTimesOut, SkipCheck, CountNodes, TurnAllOn,
       TurnOnOver, SeeNotReady, SeeNoneInflight, SeeInflight, PollAgainOr, CheckTo
  <2>3. check' = "ready" => all_ready
    BY <1>10 DEF KeeperInv, StartStep, PushTimesOut, SkipCheck, CountNodes, TurnAllOn,
       TurnOnOver, SeeNotReady, SeeNoneInflight, SeeInflight, PollAgainOr, CheckTo
  <2> QED
    BY <2>1, <2>2, <2>3 DEF KeeperInv, ToBePulsed, IsFirst
<1>11. CASE UNCHANGED allVars
  BY <1>1, <1>11 DEF allVars, vars, stateVars, powerVars, readyVars
<1> QED
  BY <1>0, <1>2, <1>3, <1>4, <1>6, <1>7, <1>8, <1>9, <1>10, <1>11, StartStepLooks
     DEF ReadinessNext

(* "wait until the cluster is ready for traffic" (line 10), for any number *)
(* of nodes, slots, requests and idle sweeps: when no other power call is  *)
(* made, a cluster that has been found ready turns no request away, even   *)
(* while the check's own power-on call, given up, is still under way.      *)
THEOREM ReadyMeansReady == OnlyTheCheck => (ReadinessSpec => ReadyForTraffic)
<1> SUFFICES ASSUME OnlyTheCheck PROVE ReadinessSpec => ReadyForTraffic
  OBVIOUS
<1> DEFINE Served == \A r \in Requests :
                        /\ check = "ready"
                        /\ pc[r] \notin {"new", "rejected"}
                        /\ cfg[r] = gen
                        => pc'[r] # "rejected"
           Invs == TypeAndPlace /\ SweepInv /\ OnInv /\ CheckInv
<1>1. ReadinessSpec => []Invs
  BY CheckInvariant, PTL
<1>2. Invs /\ Invs' /\ PushInv /\ KeeperInv /\ [ReadinessNext]_allVars => PushInv' /\ KeeperInv'
  BY PushStep, KeeperStep
<1>3. PICK n \in Nodes : \A m \in Nodes : n <= m
  <2>1. Nodes \subseteq Nat /\ Nodes # {}
    BY NodesAssumption DEF OnlyTheCheck
  <2> QED
    BY <2>1, SmallestNat
<1>4. ASSUME TypeAndPlace, PushInv, KeeperInv, [ReadinessNext]_allVars PROVE [Served]_allVars
  <2> SUFFICES ASSUME NEW r \in Requests, check = "ready", pc[r] \notin {"new", "rejected"},
                      cfg[r] = gen, pc'[r] = "rejected"
               PROVE  FALSE
    BY <1>4
  <2>1. gen \in Gens /\ listed[gen] = Cardinality(Nodes)
    BY <1>4 DEF PushInv, Early
  <2>2. <<gen, n>> \in Workers /\ <<gen, n>>[1] = gen /\ IsFirst(<<gen, n>>)
    BY <1>3, <2>1 DEF Workers, IsFirst
  <2>3. status[<<gen, n>>] \in Running
    BY <1>4, <2>2 DEF KeeperInv
  <2>4. <<gen, n>> \in Eligible(WorkerNodesOf(cfg[r]))
    BY <2>1, <2>2, <2>3, AllAreListed DEF Eligible
  <2>5. Eligible(WorkerNodesOf(cfg[r])) # {}
    BY <2>4
  <2>6. PICK q \in Requests : RequestStep(q)
    <3>1. pc' # pc
      OBVIOUS
    <3> QED
      BY <1>4, <3>1, ReadinessStep
         DEF Next, PowerStep, StoreStep, routingVars, vars
  <2> QED
    BY <1>4, <2>5, <2>6 DEF RequestStep, handle_llm, ReadConfig, EnterSelection, SyncCheck,
       SyncWrite, Choose, NoAvailableWorker, Claim, SyncOwnCheck, SyncOwnWrite, CallReturns,
       EnterRelease, Drop, Goto, TypeAndPlace, TypeOK, RoutingTypeOK
<1>5. TypeAndPlace /\ PushInv /\ KeeperInv /\ [ReadinessNext]_allVars => [Served]_allVars
  BY <1>4
<1>6. ReadinessSpec => [](Invs /\ PushInv /\ KeeperInv)
  BY <1>1, <1>2, InitKeeper, PTL DEF ReadinessSpec
<1> QED
  BY <1>5, <1>6, PTL DEF ReadinessSpec, ReadyForTraffic
=============================================================================
