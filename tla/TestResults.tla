---------------------------- MODULE TestResults ----------------------------
(***************************************************************************)
(* strato_api/services/test_results.py: what the logs of a test say it has *)
(* cost in energy and carbon.  One cluster is added up here; the code does *)
(* the same for each.                                                      *)
(*                                                                         *)
(* Time is counted in ticks, power in watts, energy in watt ticks, a       *)
(* fraction in percent; the rounding of the results is left out.  A log is *)
(* a sequence in the order of its timestamps, as the code sorts it.        *)
(***************************************************************************)
EXTENDS Integers, Sequences, FiniteSetsExt

CONSTANTS
    Nodes,          \* the nodes of the cluster
    ACTIVE_W, IDLE_W, OFF_W,    \* EnergyConfig, scaled
    BASE_LOAD_W     \* get_microgrid_base_load_w of the cluster

ASSUME TestResultsAssumption ==
    /\ Nodes \subseteq Nat /\ IsFiniteSet(Nodes)
    /\ ACTIVE_W \in Nat /\ IDLE_W \in Nat /\ OFF_W \in Nat
    /\ BASE_LOAD_W \in Nat

OFF == "off"
IDLE == "idle"
WORKING == "working"

power_for_status(s) ==
    IF s = WORKING THEN ACTIVE_W ELSE IF s = IDLE THEN IDLE_W ELSE OFF_W

-----------------------------------------------------------------------------
(* compute_cluster_energy_wh, for the entries of one node *)

(* Mutant of Before: an entry at the start is no entry before it. *)
BeforeStart(n, start, logs) ==
    {i \in DOMAIN logs : logs[i].node = n /\ logs[i].timestamp < start}

Before(n, start, logs) ==
    {i \in DOMAIN logs : logs[i].node = n /\ logs[i].timestamp <= start}

Within(n, start, end, logs) ==
    {i \in DOMAIN logs : /\ logs[i].node = n
                         /\ start < logs[i].timestamp
                         /\ logs[i].timestamp < end}

(* The timeline has a point for the start of the window, 0, and one for    *)
(* each entry within it, at its position in the log.  The status of a      *)
(* point lasts from its time to that of the next one, or to the end.       *)
From(i, start, logs) == IF i = 0 THEN start ELSE logs[i].timestamp

Until(i, n, start, end, logs) ==
    LET later == {j \in Within(n, start, end, logs) : i < j}
    IN  IF later = {} THEN end ELSE logs[Min(later)].timestamp

StatusAt(i, n, start, logs) ==
    LET before == Before(n, start, logs)
    IN  IF i # 0 THEN logs[i].status
        ELSE IF before = {} THEN OFF ELSE logs[Max(before)].status

NodeEnergy(n, start, end, logs) ==
    LET within == Within(n, start, end, logs)
    IN  IF Before(n, start, logs) = {} /\ within = {} THEN 0
        ELSE SumFunction(
                 [i \in {0} \cup within |->
                     power_for_status(StatusAt(i, n, start, logs))
                       * (Until(i, n, start, end, logs) - From(i, start, logs))])

compute_cluster_energy_wh(start, end, logs) ==
    SumFunction([n \in Nodes |-> NodeEnergy(n, start, end, logs)])

-----------------------------------------------------------------------------
(* get_test_results: the clock of the test is that of its request log *)

Timestamps(rows) == {rows[i].timestamp : i \in DOMAIN rows}
started_at(requests) == Min(Timestamps(requests))
ended_at(requests) == Max(Timestamps(requests))

(* The interval of the i-th market snapshot: it lasts until the next one,  *)
(* the last one until the end of the test; an empty one is passed over.    *)
IntervalEnd(i, snapshots, requests) ==
    IF i = Len(snapshots) THEN ended_at(requests)
                          ELSE snapshots[i + 1].timestamp

Intervals(snapshots, requests) ==
    {i \in DOMAIN snapshots :
        snapshots[i].timestamp < IntervalEnd(i, snapshots, requests)}

(* Mutant of RequestsIn: the end belongs to every interval. *)
RequestsUpTo(i, snapshots, requests) ==
    {j \in DOMAIN requests :
        /\ requests[j].here
        /\ snapshots[i].timestamp <= requests[j].timestamp
        /\ requests[j].timestamp <= IntervalEnd(i, snapshots, requests)}

(* The requests of this cluster in the interval; those logged last count   *)
(* for the last one.                                                       *)
RequestsIn(i, snapshots, requests) ==
    LET start == snapshots[i].timestamp
        end == IntervalEnd(i, snapshots, requests)
    IN  {j \in DOMAIN requests :
            /\ requests[j].here
            /\ \/ start <= requests[j].timestamp /\ requests[j].timestamp < end
               \/ i = Len(snapshots) /\ requests[j].timestamp = end}

AvgRenewable(requests, S) ==
    IF S = {} THEN 0
    ELSE SumFunction([j \in S |-> requests[j].renewable]) \div Cardinality(S)

IntervalEnergy(i, node_logs, snapshots, requests) ==
    LET start == snapshots[i].timestamp
        end == IntervalEnd(i, snapshots, requests)
    IN  compute_cluster_energy_wh(start, end, node_logs)
          + BASE_LOAD_W * (end - start)

total_gco2_g(node_logs, snapshots, requests) ==
    SumFunction([i \in Intervals(snapshots, requests) |->
        IntervalEnergy(i, node_logs, snapshots, requests)
          * snapshots[i].carbon
          * (100 - AvgRenewable(requests, RequestsIn(i, snapshots, requests)))])

(* What the dashboard shows: the nodes from the first request log to the   *)
(* last, with the base load of the intervals folded in.                    *)
cluster_energy_wh(node_logs, snapshots, requests) ==
    compute_cluster_energy_wh(started_at(requests), ended_at(requests), node_logs)
      + SumFunction([i \in Intervals(snapshots, requests) |->
            BASE_LOAD_W * (IntervalEnd(i, snapshots, requests)
                             - snapshots[i].timestamp)])
=============================================================================
