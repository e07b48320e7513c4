----------------------------- MODULE LlmRouting -----------------------------
(***************************************************************************)
(* cluster_api/services/llm.py: how a request picks a worker, holds one of *)
(* its slots while the llama server runs, and gives the slot back.         *)
(*                                                                         *)
(* Every request is a thread of the FastAPI pool.  worker_lock is held     *)
(* around the selection and around the release, and NOT around the call to *)
(* the llama server.  Power and configuration calls never take it, so the  *)
(* test and the assignment inside sync_worker_status are separate steps    *)
(* here: one of those calls may run between them.                          *)
(***************************************************************************)
EXTENDS ClusterState

CONSTANTS
    Requests,   \* handle_llm calls
    NoRequest,  \* worker_lock is free
    RRPeriod    \* rr_index is kept modulo a multiple of every list length

ASSUME RequestsAssumption == IsFiniteSet(Requests) /\ NoRequest \notin Requests
ASSUME RRPeriodAssumption ==
    /\ RRPeriod \in Nat \ {0}
    /\ \A k \in 1 .. Cardinality(Nodes) : RRPeriod % k = 0

VARIABLES
    lock,       \* holder of worker_lock
    rr_index,
    pc,         \* where each request is
    cfg,        \* cfg[r]: the configuration handle_llm read (config)
    chosen,     \* chosen[r]: worker_node, NoWorker for None
    at,         \* at[r]: position of the loop over config.worker_nodes
    seen        \* seen[r]: the counter as read by the += or the max(0, ... - 1)

routingVars == <<lock, rr_index, pc, cfg, chosen, at, seen>>

(* Where a request may be.  The three sync/...write pairs are the calls of *)
(* sync_worker_status: in the loop, after the claim and after the release. *)
SelectionPcs == {"sync", "syncwrite", "claim", "mark", "markwrite"}
ReleasePcs == {"drop", "free", "freewrite"}
Pcs == {"new", "enter", "call", "leave", "done", "rejected"}
           \cup SelectionPcs \cup ReleasePcs

(* Requests between their += 1 and their - 1. *)
HoldingPcs == {"mark", "markwrite", "call", "leave", "drop"}
Holders(w) == {r \in Requests : pc[r] \in HoldingPcs /\ chosen[r] = w}

RoutingTypeOK ==
    /\ lock \in Requests \cup {NoRequest}
    /\ rr_index \in 0 .. RRPeriod - 1
    /\ pc \in [Requests -> Pcs]
    /\ cfg \in [Requests -> 0 .. MaxGen]
    /\ chosen \in [Requests -> Workers \cup {NoWorker}]
    /\ at \in [Requests -> 1 .. Cardinality(Nodes) + 1]
    /\ seen \in [Requests -> Nat]

RoutingInit ==
    /\ lock = NoRequest
    /\ rr_index = 0
    /\ pc = [r \in Requests |-> "new"]
    /\ cfg = [r \in Requests |-> 0]
    /\ chosen = [r \in Requests |-> NoWorker]
    /\ at = [r \in Requests |-> 1]
    /\ seen = [r \in Requests |-> 0]

-----------------------------------------------------------------------------
(* choose_worker_node *)

Eligible(S) == {w \in S : status[w] \in Running}
IdleWorkers(S) == {w \in Eligible(S) : inflight[w] = 0}

(* Mutant of BestWorkers: fewest requests instead of most free slots. *)
LeastLoadedWorkers(S) ==
    {w \in Eligible(S) : \A v \in Eligible(S) : inflight[w] <= inflight[v]}

BestWorkers(S) ==
    {w \in Eligible(S) : \A v \in Eligible(S) : free_slots(v) <= free_slots(w)}

(* "Only round robin when all best workers are full or overloaded" *)
UsesRoundRobin(S) ==
    /\ IdleWorkers(S) = {}
    /\ Cardinality(BestWorkers(S)) > 1
    /\ \A w \in BestWorkers(S) : free_slots(w) = 0

(* round_robin: the worker at rr_index % len in the list sorted by name. *)
IsRoundRobinTurn(w, S) ==
    Cardinality({v \in S : v[2] < w[2]}) = rr_index % Cardinality(S)

(* w is the worker choose_worker_node returns for the list S. *)
Selects(w, S) ==
    /\ w \in Eligible(S)
    /\ \/ w \in IdleWorkers(S) /\ \A v \in IdleWorkers(S) : w[2] <= v[2]
       \/ /\ IdleWorkers(S) = {}
          /\ ~UsesRoundRobin(S)
          /\ w \in BestWorkers(S)
          /\ \A v \in BestWorkers(S) : w[2] <= v[2]
       \/ /\ UsesRoundRobin(S)
          /\ w \in BestWorkers(S)
          /\ IsRoundRobinTurn(w, BestWorkers(S))

-----------------------------------------------------------------------------
(* The steps of handle_llm. *)

Goto(r, label) == pc' = [pc EXCEPT ![r] = label]

(* config = config_store.get(); None has no cluster_config: 502. *)
ReadConfig(r) ==
    /\ pc[r] = "new"
    /\ cfg' = [cfg EXCEPT ![r] = gen]
    /\ Goto(r, IF gen = 0 THEN "rejected" ELSE "enter")
    /\ UNCHANGED <<stateVars, lock, rr_index, chosen, at, seen>>

(* with worker_lock, the first time *)
EnterSelection(r) ==
    /\ pc[r] = "enter"
    /\ lock = NoRequest
    /\ lock' = r
    /\ Goto(r, "sync")
    /\ UNCHANGED <<stateVars, rr_index, cfg, chosen, at, seen>>

(* The object sync_worker_status is being called on. *)
SyncTarget(r) ==
    IF pc[r] \in {"sync", "syncwrite"} THEN <<cfg[r], ListOrder[at[r]]>>
                                       ELSE chosen[r]

SyncedStatus(w) == IF inflight[w] = 0 THEN IDLE ELSE WORKING

(* The list is the live one: a running set_config may still be growing it. *)
SyncCheck(r) ==
    /\ pc[r] = "sync"
    /\ at[r] <= listed[cfg[r]]
    /\ IF status[SyncTarget(r)] \in Running
         THEN Goto(r, "syncwrite") /\ UNCHANGED at
         ELSE at' = [at EXCEPT ![r] = @ + 1] /\ UNCHANGED pc
    /\ UNCHANGED <<stateVars, lock, rr_index, cfg, chosen, seen>>

SyncWrite(r) ==
    /\ pc[r] = "syncwrite"
    /\ status' = [status EXCEPT ![SyncTarget(r)] = SyncedStatus(SyncTarget(r))]
    /\ at' = [at EXCEPT ![r] = @ + 1]
    /\ Goto(r, "sync")
    /\ UNCHANGED <<gen, listed, inflight, max_slots, lock, rr_index, cfg,
                   chosen, seen>>

(* The loop is over: choose_worker_node, and the read half of the += 1. *)
Choose(r) ==
    /\ pc[r] = "sync"
    /\ at[r] > listed[cfg[r]]
    /\ \E w \in WorkerNodesOf(cfg[r]) :
          /\ Selects(w, WorkerNodesOf(cfg[r]))
          /\ chosen' = [chosen EXCEPT ![r] = w]
          /\ seen' = [seen EXCEPT ![r] = inflight[w]]
    /\ rr_index' = IF UsesRoundRobin(WorkerNodesOf(cfg[r]))
                     THEN (rr_index + 1) % RRPeriod ELSE rr_index
    /\ at' = [at EXCEPT ![r] = 1]
    /\ Goto(r, "claim")
    /\ UNCHANGED <<stateVars, lock, cfg>>

(* Mutant of NoAvailableWorker: the 503 is raised with the lock kept. *)
NoAvailableWorkerKeepsLock(r) ==
    /\ pc[r] = "sync"
    /\ at[r] > listed[cfg[r]]
    /\ Eligible(WorkerNodesOf(cfg[r])) = {}
    /\ at' = [at EXCEPT ![r] = 1]
    /\ Goto(r, "rejected")
    /\ UNCHANGED <<stateVars, lock, rr_index, cfg, chosen, seen>>

(* No eligible worker: 503, and the exception leaves the with block. *)
NoAvailableWorker(r) ==
    /\ pc[r] = "sync"
    /\ at[r] > listed[cfg[r]]
    /\ Eligible(WorkerNodesOf(cfg[r])) = {}
    /\ lock' = NoRequest
    /\ at' = [at EXCEPT ![r] = 1]
    /\ Goto(r, "rejected")
    /\ UNCHANGED <<stateVars, rr_index, cfg, chosen, seen>>

(* worker_node.inflight_requests += 1 *)
Claim(r) ==
    /\ pc[r] = "claim"
    /\ inflight' = [inflight EXCEPT ![chosen[r]] = seen[r] + 1]
    /\ seen' = [seen EXCEPT ![r] = 0]
    /\ Goto(r, "mark")
    /\ UNCHANGED <<gen, listed, status, max_slots, lock, rr_index, cfg,
                   chosen, at>>

(* Mutant of SyncOwnCheck: no sync_worker_status after the release. *)
SyncOwnCheckOnlyAfterClaim(r) ==
    /\ pc[r] \in {"mark", "free"}
    /\ IF pc[r] = "mark" /\ status[SyncTarget(r)] \in Running
         THEN Goto(r, "markwrite") /\ UNCHANGED lock
         ELSE /\ Goto(r, IF pc[r] = "mark" THEN "call" ELSE "done")
              /\ lock' = NoRequest
    /\ UNCHANGED <<stateVars, rr_index, cfg, chosen, at, seen>>

(* sync_worker_status(worker_node) and the end of the with block, after    *)
(* the claim (mark, on to the call) and after the release (free, done).    *)
SyncOwnCheck(r) ==
    /\ pc[r] \in {"mark", "free"}
    /\ IF status[SyncTarget(r)] \in Running
         THEN /\ Goto(r, IF pc[r] = "mark" THEN "markwrite" ELSE "freewrite")
              /\ UNCHANGED lock
         ELSE /\ Goto(r, IF pc[r] = "mark" THEN "call" ELSE "done")
              /\ lock' = NoRequest
    /\ UNCHANGED <<stateVars, rr_index, cfg, chosen, at, seen>>

SyncOwnWrite(r) ==
    /\ pc[r] \in {"markwrite", "freewrite"}
    /\ status' = [status EXCEPT ![SyncTarget(r)] = SyncedStatus(SyncTarget(r))]
    /\ Goto(r, IF pc[r] = "markwrite" THEN "call" ELSE "done")
    /\ lock' = NoRequest
    /\ UNCHANGED <<gen, listed, inflight, max_slots, rr_index, cfg, chosen,
                   at, seen>>

(* requests.post answers, fails, or runs into its timeout: every way out   *)
(* goes through the finally block.                                         *)
CallReturns(r) ==
    /\ pc[r] = "call"
    /\ Goto(r, "leave")
    /\ UNCHANGED <<stateVars, lock, rr_index, cfg, chosen, at, seen>>

(* Mutant of EnterRelease: the slot is freed without taking the lock. *)
EnterReleaseUnlocked(r) ==
    /\ pc[r] = "leave"
    /\ seen' = [seen EXCEPT ![r] = inflight[chosen[r]]]
    /\ Goto(r, "drop")
    /\ UNCHANGED <<stateVars, lock, rr_index, cfg, chosen, at>>

(* Mutant of EnterRelease: the lock is not waited for. *)
EnterReleaseBarging(r) ==
    /\ pc[r] = "leave"
    /\ lock' = r
    /\ seen' = [seen EXCEPT ![r] = inflight[chosen[r]]]
    /\ Goto(r, "drop")
    /\ UNCHANGED <<stateVars, rr_index, cfg, chosen, at>>

(* with worker_lock, the second time, and the read half of the release *)
EnterRelease(r) ==
    /\ pc[r] = "leave"
    /\ lock = NoRequest
    /\ lock' = r
    /\ seen' = [seen EXCEPT ![r] = inflight[chosen[r]]]
    /\ Goto(r, "drop")
    /\ UNCHANGED <<stateVars, rr_index, cfg, chosen, at>>

(* Mutant of Drop: a worker that is being turned off is left alone. *)
DropIfRunning(r) ==
    /\ pc[r] = "drop"
    /\ inflight' = [inflight EXCEPT ![chosen[r]] =
                       IF status[chosen[r]] \in Running
                         THEN MaxOf(0, seen[r] - 1) ELSE @]
    /\ seen' = [seen EXCEPT ![r] = 0]
    /\ Goto(r, "free")
    /\ UNCHANGED <<gen, listed, status, max_slots, lock, rr_index, cfg,
                   chosen, at>>

(* worker_node.inflight_requests = max(0, worker_node.inflight_requests - 1) *)
Drop(r) ==
    /\ pc[r] = "drop"
    /\ inflight' = [inflight EXCEPT ![chosen[r]] = MaxOf(0, seen[r] - 1)]
    /\ seen' = [seen EXCEPT ![r] = 0]
    /\ Goto(r, "free")
    /\ UNCHANGED <<gen, listed, status, max_slots, lock, rr_index, cfg,
                   chosen, at>>

handle_llm(r) ==
    \/ ReadConfig(r) \/ EnterSelection(r)
    \/ SyncCheck(r) \/ SyncWrite(r)
    \/ Choose(r) \/ NoAvailableWorker(r)
    \/ Claim(r) \/ SyncOwnCheck(r) \/ SyncOwnWrite(r)
    \/ CallReturns(r) \/ EnterRelease(r) \/ Drop(r)
=============================================================================
