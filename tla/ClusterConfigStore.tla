------------------------- MODULE ClusterConfigStore -------------------------
(***************************************************************************)
(* cluster_api/util/cluster_config.py, as POST /set_config drives it: the  *)
(* new configuration is visible from the moment it is stored, and its      *)
(* worker list is then grown and probed in place, without a lock, while    *)
(* every other endpoint may already read it.                               *)
(*                                                                         *)
(* One build at a time: the global API pushes configurations one after the *)
(* other.  The Kubernetes API and the llama servers are outside.           *)
(***************************************************************************)
EXTENDS ClusterState

VARIABLES
    build,      \* what build_worker_nodes is doing
    probed      \* how many workers populate_worker_capacities has done

storeVars == <<build, probed>>

StoreTypeOK ==
    /\ build \in {"none", "listing", "probing"}
    /\ probed \in 0 .. Cardinality(Nodes)

StoreInit ==
    /\ build = "none"
    /\ probed = 0

(* config_store.set and the fresh, empty worker_nodes list *)
SetConfig ==
    /\ build = "none"
    /\ gen < MaxGen
    /\ gen' = gen + 1
    /\ listed' = [listed EXCEPT ![gen + 1] = 0]
    /\ build' = "listing"
    /\ probed' = 0
    /\ UNCHANGED <<status, inflight, max_slots>>

(* One node of the Kubernetes list becomes a WorkerNode; the Ready         *)
(* condition decides between idle and off.                                 *)
ListNode ==
    /\ build = "listing"
    /\ listed[gen] < Cardinality(Nodes)
    /\ listed' = [listed EXCEPT ![gen] = @ + 1]
    /\ \E s \in {IDLE, OFF} :
          status' = [status EXCEPT ![<<gen, ListOrder[listed[gen] + 1]>>] = s]
    /\ UNCHANGED <<gen, inflight, max_slots, build, probed>>

(* The Kubernetes API cannot be reached, the GPIO list has another length, *)
(* or the pods disagree about the host port: set_config raises and what is *)
(* stored stays.                                                           *)
BuildFails ==
    /\ build = "listing"
    /\ listed[gen] \in {0, Cardinality(Nodes)}
    /\ build' = "none"
    /\ UNCHANGED <<stateVars, probed>>

BeginProbing ==
    /\ build = "listing"
    /\ listed[gen] = Cardinality(Nodes)
    /\ build' = "probing"
    /\ UNCHANGED <<stateVars, probed>>

(* populate_worker_capacities, one worker: s is its total_slots, 0 also    *)
(* for a missing field, a missing address and a failed request (which k3d  *)
(* clusters count as one slot).                                            *)
Probe ==
    /\ build = "probing"
    /\ probed < Cardinality(Nodes)
    /\ LET w == <<gen, ListOrder[probed + 1]>>
       IN  \E s \in 0 .. MaxSlots :
              /\ max_slots' = [max_slots EXCEPT ![w] = s]
              /\ status' = [status EXCEPT ![w] = IF s > 0 THEN IDLE ELSE OFF]
    /\ probed' = probed + 1
    /\ UNCHANGED <<gen, listed, inflight, build>>

FinishBuild ==
    /\ build = "probing"
    /\ probed = Cardinality(Nodes)
    /\ build' = "none"
    /\ UNCHANGED <<stateVars, probed>>

set_config ==
    \/ SetConfig \/ ListNode \/ BuildFails
    \/ BeginProbing \/ Probe \/ FinishBuild
=============================================================================
