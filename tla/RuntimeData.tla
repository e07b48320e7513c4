---------------------------- MODULE RuntimeData ----------------------------
(***************************************************************************)
(* global_api/services/cluster_data.py over util/market_data_store.py: how *)
(* a request collects what there is to know about a cluster.               *)
(*                                                                         *)
(* Every request is a thread of its own.  They share the cache of market   *)
(* data and the set of hours whose market values have been saved, both     *)
(* without a lock: a get that misses, fetches and stores, and a test for   *)
(* a logged hour, its insertion and the save, are separate steps.  The     *)
(* three get functions do the same on one dictionary each; Series lists    *)
(* those an instance has.                                                  *)
(***************************************************************************)
EXTENDS Scoring, TestIds

CONSTANTS
    NClusters,  \* config.clusters, by position in the list
    Requests,   \* handle_llm_request calls
    Series,     \* sequence of the caches read: "power", "carbon", "price"
    Market,     \* Market[s][c][h]: what the provider of s publishes
    BaseLoad,   \* get_microgrid_base_load_w of each cluster
    Polls,      \* <<active_nodes, idle_nodes>> a cluster may report
    MaxHour     \* bound: hours of simulated time

Clusters == 1 .. NClusters
Hours == 1 .. MaxHour
SeriesNames == {Series[i] : i \in DOMAIN Series}
Keys == SeriesNames \X Clusters \X Hours
Absent == -1

ASSUME RuntimeDataAssumption ==
    /\ IsFiniteSet(Requests)
    /\ NClusters \in Nat \ {0} /\ MaxHour \in Nat \ {0}
    /\ Series \in Seq({"power", "carbon", "price"}) \ {<<>>}
    /\ Market \in [SeriesNames -> [Clusters -> [Hours -> Nat]]]
    /\ BaseLoad \in [Clusters -> Nat]
    /\ Polls \subseteq Nat \X Nat

VARIABLES
    config,         \* config_store: the test whose configuration is active
    hour,           \* the hour of its simulated clock
    cache,          \* _power, _carbon, _price: first value, Absent if not there
    logged_hours,   \* _logged_market_hours
    saved, lost,    \* MarketSnapshotLog rows written, and failed to be
    pc,             \* where each request is
    mine, my_hour,  \* the configuration it read, its simulated_time_start
    avg,            \* avg_latency_by_cluster
    got,            \* got[r]: values read so far for the cluster at hand
    data,           \* data[r]: the ClusterRuntimeData of those before it
    filing          \* filing[r]: the snapshot it is about to save

dataVars == <<config, hour, cache, logged_hours, saved, lost, pc, mine,
              my_hour, avg, got, data, filing>>

CollectPcs == {"lookup", "fetch", "snapshot", "add", "save", "poll"}
NoSnapshot == <<NoTest, 0, 0>>

Goto(r, place) == pc' = [pc EXCEPT ![r] = place]

(* The cluster and the series request r is at. *)
At(r) == Len(data[r]) + 1
SeriesAt(r) == Series[Len(got[r]) + 1]
Key(r) == <<SeriesAt(r), At(r), my_hour[r]>>

-----------------------------------------------------------------------------
(* MarketDataStore *)

Take(r, value) ==
    /\ got' = [got EXCEPT ![r] = Append(@, value)]
    /\ Goto(r, IF Len(got[r]) + 1 = Len(Series) THEN "snapshot" ELSE "lookup")

Hit(r) ==
    /\ pc[r] = "lookup"
    /\ cache[Key(r)] # Absent
    /\ Take(r, cache[Key(r)])
    /\ UNCHANGED <<config, hour, cache, logged_hours, saved, lost, mine,
                   my_hour, avg, data, filing>>

Miss(r) ==
    /\ pc[r] = "lookup"
    /\ cache[Key(r)] = Absent
    /\ Goto(r, "fetch")
    /\ UNCHANGED <<config, hour, cache, logged_hours, saved, lost, mine,
                   my_hour, avg, got, data, filing>>

(* A provider with nothing for the hour answers an empty list: it is       *)
(* stored like any other answer and reads as 0.0, for the whole hour.      *)
Fetched(r) ==
    /\ pc[r] = "fetch"
    /\ LET value == Market[SeriesAt(r)][At(r)][my_hour[r]]
       IN  /\ cache' = [cache EXCEPT ![Key(r)] = value]
           /\ Take(r, value)
    /\ UNCHANGED <<config, hour, logged_hours, saved, lost, mine, my_hour,
                   avg, data, filing>>

(* Whatever raises while a cluster is looked at fails the request. *)
CollectFails(r) ==
    /\ pc[r] \in {"fetch", "poll"}
    /\ Goto(r, "failing")
    /\ UNCHANGED <<config, hour, cache, logged_hours, saved, lost, mine,
                   my_hour, avg, got, data, filing>>

-----------------------------------------------------------------------------
(* _log_market_snapshot_if_new *)

(* Mutant of Snapshot: one key for all clusters. *)
SnapshotOfHour(r) == <<config, 1, my_hour[r]>>

(* The key: the configuration active NOW, and the hour of the request. *)
Snapshot(r) == <<config, At(r), my_hour[r]>>

SnapshotKnown(r) ==
    /\ pc[r] = "snapshot"
    /\ Snapshot(r) \in logged_hours
    /\ Goto(r, "poll")
    /\ UNCHANGED <<config, hour, cache, logged_hours, saved, lost, mine,
                   my_hour, avg, got, data, filing>>

SnapshotNew(r) ==
    /\ pc[r] = "snapshot"
    /\ Snapshot(r) \notin logged_hours
    /\ filing' = [filing EXCEPT ![r] = Snapshot(r)]
    /\ Goto(r, "add")
    /\ UNCHANGED <<config, hour, cache, logged_hours, saved, lost, mine,
                   my_hour, avg, got, data>>

(* Mutant of AddHour: the hour is saved but not remembered. *)
AddNoHour(r) ==
    /\ pc[r] = "add"
    /\ Goto(r, "save")
    /\ UNCHANGED <<config, hour, cache, logged_hours, saved, lost, mine,
                   my_hour, avg, got, data, filing>>

AddHour(r) ==
    /\ pc[r] = "add"
    /\ logged_hours' = logged_hours \cup {filing[r]}
    /\ Goto(r, "save")
    /\ UNCHANGED <<config, hour, cache, saved, lost, mine, my_hour, avg, got,
                   data, filing>>

SaveSnapshot(r) ==
    /\ pc[r] = "save"
    /\ saved' = saved \cup {<<filing[r], r>>}
    /\ filing' = [filing EXCEPT ![r] = NoSnapshot]
    /\ Goto(r, "poll")
    /\ UNCHANGED <<config, hour, cache, logged_hours, lost, mine, my_hour,
                   avg, got, data>>

(* Mutant of SaveFails: save_model_log swallows the error, as log_request. *)
SaveFailsUnnoticed(r) ==
    /\ pc[r] = "save"
    /\ filing' = [filing EXCEPT ![r] = NoSnapshot]
    /\ Goto(r, "poll")
    /\ UNCHANGED <<config, hour, cache, logged_hours, saved, lost, mine,
                   my_hour, avg, got, data>>

(* The database refuses: the hour stays in the set. *)
SaveFails(r) ==
    /\ pc[r] = "save"
    /\ lost' = lost \cup {<<filing[r], r>>}
    /\ filing' = [filing EXCEPT ![r] = NoSnapshot]
    /\ Goto(r, "failing")
    /\ UNCHANGED <<config, hour, cache, logged_hours, saved, mine, my_hour,
                   avg, got, data>>

-----------------------------------------------------------------------------
(* get_cluster_runtime_data *)

(* 0 for a series this instance leaves out *)
Value(values, s) ==
    IF s \in SeriesNames
      THEN values[CHOOSE i \in DOMAIN Series : Series[i] = s] ELSE 0

RuntimeDataOf(values, c, nodes, latency) ==
    [renewable_output_w |-> Value(values, "power"),
     cluster_load_w |->
         compute_cluster_load(nodes[1], nodes[2]) + BaseLoad[c],
     grid_carbon_intensity |-> Value(values, "carbon"),
     grid_electricity_price |-> Value(values, "price"),
     avg_latency_ms |-> latency,
     all_nodes_powered_off |-> nodes = <<0, 0>>]

(* The nodes of the cluster are counted, and the next cluster is looked at. *)
Poll(r) ==
    /\ pc[r] = "poll"
    /\ \E nodes \in Polls :
          data' = [data EXCEPT ![r] =
                      Append(@, RuntimeDataOf(got[r], At(r), nodes, avg[r][At(r)]))]
    /\ got' = [got EXCEPT ![r] = <<>>]
    /\ Goto(r, IF At(r) = NClusters THEN "choose" ELSE "lookup")
    /\ UNCHANGED <<config, hour, cache, logged_hours, saved, lost, mine,
                   my_hour, avg, filing>>

get_cluster_runtime_data(r) ==
    \/ Hit(r) \/ Miss(r) \/ Fetched(r) \/ CollectFails(r)
    \/ SnapshotKnown(r) \/ SnapshotNew(r) \/ AddHour(r)
    \/ SaveSnapshot(r) \/ SaveFails(r)
    \/ Poll(r)
=============================================================================
