----------------------------- MODULE Forwarding -----------------------------
(***************************************************************************)
(* global_api/services/handle_llm_request.py: a request weighs the         *)
(* clusters, is forwarded to the best one, and is logged; the averages the *)
(* next requests weigh them by are read back from that log.  Meanwhile a   *)
(* start_test may begin the next test, whose first lines replace what the  *)
(* requests under way read: the cache, the tag of their log entries, and   *)
(* the configuration, one after the other.                                 *)
(*                                                                         *)
(* One start_test at a time.  What a cluster does with a request is the    *)
(* business of ClusterApi.                                                 *)
(***************************************************************************)
EXTENDS RuntimeData

CONSTANT Latencies  \* milliseconds a forwarded request may take

ASSUME LatenciesAssumption == Latencies \subseteq Nat

VARIABLES
    log_id,     \* _LOGGER_CONFIG_ID
    starting,   \* how far the current start_test is
    chosen,     \* chosen[r]: the cluster r was forwarded to, 0 if none
    logs        \* the RequestLog rows, in the order of created_at

vars == <<dataVars, log_id, starting, chosen, logs>>

NoCluster == 0      \* "unknown" in a log entry
Answered == {"ok", "failed"}

TypeOK ==
    /\ config \in Tests \cup {NoTest} /\ log_id \in Tests \cup {NoTest}
    /\ hour \in Hours
    /\ cache \in [Keys -> Nat \cup {Absent}]
    /\ logged_hours \subseteq Tests \X Clusters \X Hours
    /\ saved \cup lost \subseteq logged_hours \X Requests
    /\ pc \in [Requests -> {"new", "choose", "post", "failing"}
                              \cup CollectPcs \cup Answered]
    /\ mine \in [Requests -> Tests \cup {NoTest}]
    /\ my_hour \in [Requests -> Hours]
    /\ avg \in [Requests -> [Clusters -> Nat]]
    /\ \A r \in Requests : /\ Len(got[r]) <= Len(Series)
                           /\ Len(data[r]) <= NClusters
    /\ filing \in [Requests -> (Tests \X Clusters \X Hours) \cup {NoSnapshot}]
    /\ starting \in {"no", "reset", "named"}
    /\ chosen \in [Requests -> Clusters \cup {NoCluster}]
    /\ \A i \in DOMAIN logs :
           logs[i] \in [by : Requests, cluster : Clusters \cup {NoCluster},
                        success : BOOLEAN, latency : Nat,
                        test : Tests \cup {NoTest}]

Init ==
    /\ config = NoTest /\ log_id = NoTest
    /\ hour = 1
    /\ cache = [k \in Keys |-> Absent]
    /\ logged_hours = {} /\ saved = {} /\ lost = {}
    /\ pc = [r \in Requests |-> "new"]
    /\ mine = [r \in Requests |-> NoTest]
    /\ my_hour = [r \in Requests |-> 1]
    /\ avg = [r \in Requests |-> [c \in Clusters |-> 0]]
    /\ got = [r \in Requests |-> <<>>]
    /\ data = [r \in Requests |-> <<>>]
    /\ filing = [r \in Requests |-> NoSnapshot]
    /\ starting = "no"
    /\ chosen = [r \in Requests |-> NoCluster]
    /\ logs = <<>>

-----------------------------------------------------------------------------
(* start_test, up to the pushes, and the simulated clock *)

ResetMarketData ==
    /\ starting = "no"
    /\ config < MaxTests
    /\ cache' = [k \in Keys |-> Absent]
    /\ starting' = "reset"
    /\ UNCHANGED <<config, hour, logged_hours, saved, lost, pc, mine, my_hour,
                   avg, got, data, filing, log_id, chosen, logs>>

SetLogId ==
    /\ starting = "reset"
    /\ log_id' = config + 1
    /\ starting' = "named"
    /\ UNCHANGED <<dataVars, chosen, logs>>

StoreConfig ==
    /\ starting = "named"
    /\ config' = config + 1
    /\ hour' = 1
    /\ starting' = "no"
    /\ UNCHANGED <<cache, logged_hours, saved, lost, pc, mine, my_hour, avg,
                   got, data, filing, log_id, chosen, logs>>

HourPasses ==
    /\ config # NoTest
    /\ hour < MaxHour
    /\ hour' = hour + 1
    /\ UNCHANGED <<config, cache, logged_hours, saved, lost, pc, mine, my_hour,
                   avg, got, data, filing, log_id, starting, chosen, logs>>

start_test == ResetMarketData \/ SetLogId \/ StoreConfig

-----------------------------------------------------------------------------
(* handle_llm_request *)

(* The rows of test t from the k-th of the log on that name cluster c:     *)
(* success does not matter.                                                *)
RecentOf(c, t, k) ==
    {i \in k .. Len(logs) : logs[i].cluster = c /\ logs[i].test = t}

AvgLatency(c, t, k) ==
    LET recent == RecentOf(c, t, k)
        total[i \in 0 .. Len(logs)] ==
            IF i = 0 THEN 0
            ELSE total[i - 1] + (IF i \in recent THEN logs[i].latency ELSE 0)
    IN  IF recent = {} THEN 0
        ELSE Rounded(total[Len(logs)], Cardinality(recent))

(* The window begins anywhere in the log; when it cannot be read, it is    *)
(* taken to be empty.                                                      *)
Begin(r) ==
    /\ pc[r] = "new"
    /\ config # NoTest
    /\ mine' = [mine EXCEPT ![r] = config]
    /\ my_hour' = [my_hour EXCEPT ![r] = hour]
    /\ \E k \in 1 .. Len(logs) + 1 :
          avg' = [avg EXCEPT ![r] =
                     [c \in Clusters |-> AvgLatency(c, config, k)]]
    /\ Goto(r, "lookup")
    /\ UNCHANGED <<config, hour, cache, logged_hours, saved, lost, got, data,
                   filing, log_id, starting, chosen, logs>>

(* config is None *)
BeginUnconfigured(r) ==
    /\ pc[r] = "new"
    /\ config = NoTest
    /\ Goto(r, "failing")
    /\ UNCHANGED <<config, hour, cache, logged_hours, saved, lost, mine,
                   my_hour, avg, got, data, filing, log_id, starting, chosen,
                   logs>>

Collect(r) ==
    /\ get_cluster_runtime_data(r)
    /\ UNCHANGED <<log_id, starting, chosen, logs>>

(* None has no name: with every cluster off the request fails here. *)
Choose(r) ==
    /\ pc[r] = "choose"
    /\ chosen' = [chosen EXCEPT ![r] = choose_cluster(data[r])]
    /\ Goto(r, IF chosen'[r] = NoCluster THEN "failing" ELSE "post")
    /\ data' = [data EXCEPT ![r] = <<>>]
    /\ avg' = [avg EXCEPT ![r] = [c \in Clusters |-> 0]]
    /\ UNCHANGED <<config, hour, cache, logged_hours, saved, lost, mine,
                   my_hour, got, filing, log_id, starting, logs>>

(* log_request: what the database refuses is dropped. *)
log_request(r, cluster, success, latency) ==
    \/ logs' = Append(logs, [by |-> r, cluster |-> cluster,
                             success |-> success, latency |-> latency,
                             test |-> log_id])
    \/ UNCHANGED logs

ClusterAnswers(r) ==
    /\ pc[r] = "post"
    /\ \E ms \in Latencies : log_request(r, chosen[r], TRUE, ms)
    /\ Goto(r, "ok")
    /\ UNCHANGED <<config, hour, cache, logged_hours, saved, lost, mine,
                   my_hour, avg, got, data, filing, log_id, starting, chosen>>

ClusterFails(r) ==
    /\ pc[r] = "post"
    /\ \E ms \in Latencies : log_request(r, chosen[r], FALSE, ms)
    /\ Goto(r, "failing")
    /\ UNCHANGED <<config, hour, cache, logged_hours, saved, lost, mine,
                   my_hour, avg, got, data, filing, log_id, starting, chosen>>

(* A 200 whose payload lacks a field of LLMResponse. *)
AnswerIncomplete(r) ==
    /\ pc[r] = "post"
    /\ Goto(r, "failing")
    /\ UNCHANGED <<config, hour, cache, logged_hours, saved, lost, mine,
                   my_hour, avg, got, data, filing, log_id, starting, chosen,
                   logs>>

(* Mutant of NamedCluster: the loop variable is what remains. *)
NamedLastCluster(r) == IF mine[r] = NoTest THEN NoCluster ELSE NClusters

(* The cluster variable of the outer except clause: the chosen cluster, or *)
(* what the loop over config.clusters for the averages has left in it.     *)
NamedCluster(r) ==
    IF chosen[r] # NoCluster THEN chosen[r]
    ELSE IF mine[r] = NoTest THEN NoCluster ELSE NClusters

(* Logged once more, a time only if one had been taken; answered 500. *)
Fail(r) ==
    /\ pc[r] = "failing"
    /\ \E ms \in IF chosen[r] = NoCluster THEN {0} ELSE Latencies \cup {0} :
          log_request(r, NamedCluster(r), FALSE, ms)
    /\ Goto(r, "failed")
    /\ got' = [got EXCEPT ![r] = <<>>]
    /\ data' = [data EXCEPT ![r] = <<>>]
    /\ avg' = [avg EXCEPT ![r] = [c \in Clusters |-> 0]]
    /\ UNCHANGED <<config, hour, cache, logged_hours, saved, lost, mine,
                   my_hour, filing, log_id, starting, chosen>>

handle_llm_request(r) ==
    \/ Begin(r) \/ BeginUnconfigured(r)
    \/ Collect(r) \/ Choose(r)
    \/ ClusterAnswers(r) \/ ClusterFails(r) \/ AnswerIncomplete(r)
    \/ Fail(r)

Next ==
    \/ \E r \in Requests : handle_llm_request(r)
    \/ start_test
    \/ HourPasses

Spec == Init /\ [][Next]_vars

-----------------------------------------------------------------------------
(* Invariants *)

Rows(r) == {logs[i] : i \in {j \in DOMAIN logs : logs[j].by = r}}
CountRows(r) == Cardinality({j \in DOMAIN logs : logs[j].by = r})

(* What the log says of a request is what its caller was told, whichever   *)
(* of the three places wrote it and whichever of their writes the database *)
(* refused: one row at most for an answer, two at most for a failure,      *)
(* never of both kinds, all naming one cluster, and that is the cluster    *)
(* the request was forwarded to, if it was.                                *)
LogsTellTheAnswer ==
    \A r \in Requests :
        /\ \A row \in Rows(r) :
               /\ row.success => pc[r] = "ok" /\ CountRows(r) = 1
               /\ ~row.success => pc[r] \in {"failing", "failed"}
               /\ chosen[r] # NoCluster => row.cluster = chosen[r]
        /\ CountRows(r) <= IF chosen[r] = NoCluster THEN 1 ELSE 2
        /\ Cardinality({row.cluster : row \in Rows(r)}) <= 1

(* "The same hour is logged only once" (cluster_data.py:35) must not turn  *)
(* into never: an hour that counts as logged has been saved, is about to   *)
(* be, or its save has failed, and then the request that attempted it is   *)
(* failed as well, so that the loss is seen.                               *)
SnapshotsAccountedFor ==
    \A key \in logged_hours :
        \E r \in Requests :
            \/ <<key, r>> \in saved
            \/ pc[r] = "save" /\ filing[r] = key
            \/ <<key, r>> \in lost /\ pc[r] \in {"failing", "failed"}

(* The results of a test weigh its requests with the market values of      *)
(* their hour: for each success filed under the test it was chosen in, the *)
(* snapshots of its hour, for every cluster, count as logged under the     *)
(* same test, no matter how start_test and other requests interfere.       *)
SuccessHasMarketData ==
    \A i \in DOMAIN logs :
        LET r == logs[i].by
        IN  logs[i].success /\ logs[i].test = mine[r] =>
                \A c \in Clusters : <<mine[r], c, my_hour[r]>> \in logged_hours

-----------------------------------------------------------------------------
(* Action properties *)

(* What is to be read of cluster c in hour h, when it reports these nodes  *)
(* and requests to it took ms on average.                                  *)
Reading(c, h, nodes, ms) ==
    RuntimeDataOf([i \in DOMAIN Series |-> Market[Series[i]][c][h]],
                  c, nodes, ms)

(* Where the carbon of two clusters differs, it differs by enough to show  *)
(* in the four decimals of a score, unless both are off the scale: what    *)
(* the weights and references must be like for the last part of the next   *)
(* property.                                                               *)
CarbonTells ==
    \A c, e \in Clusters, h \in Hours, m, n \in Polls :
        LET less == compute_carbon_blend(Reading(c, h, m, 0))
            more == compute_carbon_blend(Reading(e, h, n, 0))
        IN  ~LessEq(more, less) /\ LessEq(more, <<CARBON_REF_MAX, 1>>) =>
                W_GCO2 * (normalize_value(less, CARBON_REF_MAX)
                            - normalize_value(more, CARBON_REF_MAX))
                    >= WeightUnit

(* Weights, rounding, references and the running maximum together never    *)
(* send a request to a cluster that is off while one is on, past a cluster *)
(* listed earlier that is as good in every respect, or to one that is      *)
(* worse in carbon and better in nothing; and no request is refused here   *)
(* while a cluster is on.                                                  *)
ChoiceIsUndominated ==
    [][\A r \in Requests :
          LET on == {c \in Clusters : ~data[r][c].all_nodes_powered_off}
              choice == chosen'[r]
          IN  pc[r] = "choose" /\ pc'[r] # "choose" =>
                  \/ on = {} /\ pc'[r] = "failing"
                  \/ /\ choice \in on
                     /\ \A c \in on \ {choice} :
                            /\ c < choice => ~AsGood(data[r][c], data[r][choice])
                            /\ ~Better(data[r][c], data[r][choice])
      ]_vars

-----------------------------------------------------------------------------
(* What a docstring says, and the code does not do.                        *)

(* "Average observed latency for this cluster over the recent window (ms)" *)
(* (scoring.py:115): what enters the average of a cluster was observed on  *)
(* a request that was forwarded to it.                                     *)
LatencyIsOfTheCluster ==
    \A i \in DOMAIN logs :
        logs[i].cluster # NoCluster => chosen[logs[i].by] = logs[i].cluster
=============================================================================
