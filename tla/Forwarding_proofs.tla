------------------------- MODULE Forwarding_proofs --------------------------
(***************************************************************************)
(* Proofs about Forwarding for every number of requests, clusters, tests   *)
(* and hours, and whatever the providers, the clusters and the database    *)
(* answer.  What the score and the choice compute is in Scoring_proofs.    *)
(***************************************************************************)
EXTENDS Forwarding, Scoring_proofs, FiniteSetTheorems

IsSeq(s) == \E S : s \in Seq(S)

Places == {"new", "choose", "post", "failing"} \cup CollectPcs \cup Answered

(* As much of the types as the proofs need.                                *)
Shape ==
    /\ config \in Nat /\ log_id \in Nat
    /\ pc \in [Requests -> Places]
    /\ mine \in [Requests -> Nat]
    /\ DOMAIN my_hour = Requests /\ DOMAIN filing = Requests
    /\ DOMAIN data = Requests /\ DOMAIN chosen = Requests
    /\ \A r \in Requests : IsSeq(data[r])
    /\ IsSeq(logs)

(* An element more makes a sequence one longer and leaves the rest.        *)
LEMMA AppendFacts ==
  ASSUME NEW s, IsSeq(s), NEW e
  PROVE  /\ IsSeq(Append(s, e))
         /\ Len(s) \in Nat
         /\ Len(Append(s, e)) = Len(s) + 1
         /\ DOMAIN s = 1 .. Len(s)
         /\ DOMAIN Append(s, e) = 1 .. Len(s) + 1
         /\ \A i \in 1 .. Len(s) : Append(s, e)[i] = s[i]
         /\ Append(s, e)[Len(s) + 1] = e
<1>1. PICK S : s \in Seq(S)
  BY DEF IsSeq
<1>2. s \in Seq(S \cup {e})
  BY <1>1
<1>3. Append(s, e) \in Seq(S \cup {e})
  BY <1>2
<1> QED
  BY <1>2, <1>3 DEF IsSeq

LEMMA EmptyIsSeq == IsSeq(<<>>)
<1>1. <<>> \in Seq({})
  OBVIOUS
<1> QED
  BY <1>1 DEF IsSeq

LEMMA LogStays ==
  ASSUME IsSeq(logs), NEW r, NEW c, NEW success, NEW ms, log_request(r, c, success, ms)
  PROVE  IsSeq(logs')
<1> DEFINE row == [by |-> r, cluster |-> c, success |-> success, latency |-> ms,
                   test |-> log_id]
<1>1. logs' = Append(logs, row) \/ logs' = logs
  BY DEF log_request
<1> HIDE DEF row
<1>2. IsSeq(Append(logs, row))
  BY AppendFacts
<1> QED
  BY <1>1, <1>2

-----------------------------------------------------------------------------
(* The steps, as far as the proofs look at them.  A step of a request is   *)
(* one of the following; the values it reads do not matter.                *)

LEMMA ShapeInit == Init => Shape
  BY EmptyIsSeq DEF Init, Shape, Places, NoTest

LEMMA ShapeStep ==
  ASSUME Shape, [Next]_vars
  PROVE  Shape'
<1> USE DEF Shape, Places, CollectPcs, Answered, Goto, NoTest
<1>1. ASSUME NEW r \in Requests, handle_llm_request(r) PROVE Shape'
  <2>1. CASE Begin(r) \/ BeginUnconfigured(r)
    BY <2>1 DEF Begin, BeginUnconfigured
  <2>2. CASE Collect(r)
    <3>1. CASE Hit(r) \/ Miss(r) \/ Fetched(r) \/ CollectFails(r)
      BY <2>2, <3>1 DEF Collect, Hit, Miss, Fetched, CollectFails, Take
    <3>2. CASE SnapshotKnown(r) \/ SnapshotNew(r) \/ AddHour(r) \/ SaveSnapshot(r) \/ SaveFails(r)
      BY <2>2, <3>2 DEF Collect, SnapshotKnown, SnapshotNew, AddHour, SaveSnapshot, SaveFails
    <3>3. CASE Poll(r)
      <4>1. PICK e : data' = [data EXCEPT ![r] = Append(data[r], e)]
        BY <3>3 DEF Poll
      <4>2. \A q \in Requests : IsSeq(data'[q])
        BY <4>1, AppendFacts
      <4> QED
        BY <2>2, <3>3, <4>1, <4>2 DEF Collect, Poll
    <3> QED
      BY <2>2, <3>1, <3>2, <3>3 DEF Collect, get_cluster_runtime_data
  <2>3. CASE Choose(r)
    BY <2>3, EmptyIsSeq DEF Choose
  <2>4. CASE ClusterAnswers(r) \/ ClusterFails(r) \/ Fail(r)
    <3>1. IsSeq(logs')
      BY <2>4, LogStays DEF ClusterAnswers, ClusterFails, Fail
    <3>2. CASE ClusterAnswers(r) \/ ClusterFails(r)
      BY <3>1, <3>2 DEF ClusterAnswers, ClusterFails
    <3>3. CASE Fail(r)
      BY <3>1, <3>3, EmptyIsSeq DEF Fail
    <3> QED
      BY <2>4, <3>2, <3>3
  <2>5. CASE AnswerIncomplete(r)
    BY <2>5 DEF AnswerIncomplete
  <2> QED
    BY <1>1, <2>1, <2>2, <2>3, <2>4, <2>5 DEF handle_llm_request
<1>2. CASE start_test \/ HourPasses
  BY <1>2 DEF start_test, ResetMarketData, SetLogId, StoreConfig, HourPasses, dataVars
<1>3. CASE UNCHANGED vars
  BY <1>3 DEF vars, dataVars
<1> QED
  BY <1>1, <1>2, <1>3 DEF Next

-----------------------------------------------------------------------------
(* Market snapshots *)

(* The logged hours only grow, and by what a request is about to save.     *)
LEMMA AccountedStep ==
  ASSUME Shape, SnapshotsAccountedFor, [Next]_vars
  PROVE  SnapshotsAccountedFor'
<1> USE DEF Shape, SnapshotsAccountedFor, Goto
<1>1. ASSUME NEW r \in Requests, handle_llm_request(r)
      PROVE  SnapshotsAccountedFor'
  <2>1. CASE Begin(r) \/ BeginUnconfigured(r) \/ Choose(r)
    BY <2>1 DEF Begin, BeginUnconfigured, Choose
  <2>2. CASE Collect(r)
    <3>1. CASE Hit(r) \/ Miss(r) \/ Fetched(r) \/ CollectFails(r)
      BY <2>2, <3>1 DEF Collect, Hit, Miss, Fetched, CollectFails, Take
    <3>2. CASE SnapshotKnown(r) \/ SnapshotNew(r) \/ Poll(r)
      BY <2>2, <3>2 DEF Collect, SnapshotKnown, SnapshotNew, Poll
    <3>3. CASE AddHour(r)
      BY <3>3 DEF AddHour
    <3>4. CASE SaveSnapshot(r)
      BY <3>4 DEF SaveSnapshot
    <3>5. CASE SaveFails(r)
      BY <3>5 DEF SaveFails
    <3> QED
      BY <2>2, <3>1, <3>2, <3>3, <3>4, <3>5 DEF Collect, get_cluster_runtime_data
  <2>3. CASE ClusterAnswers(r) \/ ClusterFails(r) \/ AnswerIncomplete(r) \/ Fail(r)
    BY <2>3 DEF ClusterAnswers, ClusterFails, AnswerIncomplete, Fail
  <2> QED
    BY <1>1, <2>1, <2>2, <2>3 DEF handle_llm_request
<1>2. CASE start_test \/ HourPasses
  BY <1>2 DEF start_test, ResetMarketData, SetLogId, StoreConfig, HourPasses, dataVars
<1>3. CASE UNCHANGED vars
  BY <1>3 DEF vars, dataVars
<1> QED
  BY <1>1, <1>2, <1>3 DEF Next

(* "The same hour is logged only once" never turns into never: every hour  *)
(* that counts as logged has its market values saved, or is about to, or   *)
(* the request that failed to save them is failed.                         *)
THEOREM NoSnapshotIsLostUnseen == Spec => []SnapshotsAccountedFor
<1>1. Init => SnapshotsAccountedFor
  BY DEF Init, SnapshotsAccountedFor
<1> QED
  BY <1>1, ShapeInit, ShapeStep, AccountedStep, PTL DEF Spec

-----------------------------------------------------------------------------
(* Successes and their market data *)

(* start_test names the logger before it stores the configuration, and     *)
(* tests are numbered in the order in which they are started.              *)
LogIdLeads ==
    /\ starting = "named" => log_id = config + 1
    /\ starting # "named" => log_id = config

(* Cluster c of r's hour is logged, under a test no older than r's own.    *)
Covered(r, c) ==
    \E t \in mine[r] .. config : <<t, c, my_hour[r]>> \in logged_hours

(* How far a request has got with that.                                    *)
Progress(r) ==
    /\ mine[r] <= config
    /\ pc[r] = "new" => data[r] = <<>>
    /\ pc[r] \in CollectPcs =>
           /\ Len(data[r]) < NClusters
           /\ \A c \in 1 .. Len(data[r]) : Covered(r, c)
    /\ pc[r] \in {"add", "save"} =>
           \E t \in mine[r] .. config : filing[r] = <<t, At(r), my_hour[r]>>
    /\ pc[r] \in {"save", "poll"} => Covered(r, At(r))
    /\ pc[r] \in {"choose", "post"} => \A c \in Clusters : Covered(r, c)

LoggedHaveBegun == \A i \in DOMAIN logs : pc[logs[i].by] # "new"

MarketInv ==
    /\ Shape
    /\ LogIdLeads
    /\ \A r \in Requests : Progress(r)
    /\ \A i \in DOMAIN logs : logs[i].by \in Requests
    /\ LoggedHaveBegun
    /\ SuccessHasMarketData

(* A request that does not move keeps its progress while tests go on and   *)
(* hours are logged.                                                       *)
LEMMA ProgressStays ==
  ASSUME Shape, NEW q \in Requests, Progress(q),
         config' \in Nat, config <= config', logged_hours \subseteq logged_hours',
         pc'[q] = pc[q], mine'[q] = mine[q], my_hour'[q] = my_hour[q],
         data'[q] = data[q], filing'[q] = filing[q]
  PROVE  Progress(q)'
<1>1. mine[q] \in Nat /\ config \in Nat
  BY DEF Shape
<1>2. mine[q] .. config \subseteq mine[q] .. config'
  BY <1>1
<1>3. ASSUME NEW c, Covered(q, c) PROVE Covered(q, c)'
  BY <1>2, <1>3 DEF Covered
<1> QED
  BY <1>1, <1>2, <1>3 DEF Progress, At

(* A step of request r that touches no other.                              *)
OnlyOf(r) ==
    /\ config' = config
    /\ logged_hours \subseteq logged_hours'
    /\ \A q \in Requests \ {r} :
           /\ pc'[q] = pc[q] /\ mine'[q] = mine[q] /\ my_hour'[q] = my_hour[q]
           /\ data'[q] = data[q] /\ filing'[q] = filing[q]

LEMMA RequestStepsAreLocal ==
  ASSUME Shape, NEW r \in Requests, handle_llm_request(r)
  PROVE  OnlyOf(r)
<1> USE DEF Shape, OnlyOf, Goto
<1>1. CASE Begin(r) \/ BeginUnconfigured(r) \/ Choose(r)
  BY <1>1 DEF Begin, BeginUnconfigured, Choose
<1>2. CASE Collect(r)
  <2>1. CASE Hit(r) \/ Miss(r) \/ Fetched(r) \/ CollectFails(r)
    BY <1>2, <2>1 DEF Collect, Hit, Miss, Fetched, CollectFails, Take
  <2>2. CASE SnapshotKnown(r) \/ SnapshotNew(r) \/ AddHour(r) \/ SaveSnapshot(r) \/ SaveFails(r)
    BY <1>2, <2>2 DEF Collect, SnapshotKnown, SnapshotNew, AddHour, SaveSnapshot, SaveFails
  <2>3. CASE Poll(r)
    BY <1>2, <2>3 DEF Collect, Poll
  <2> QED
    BY <1>2, <2>1, <2>2, <2>3 DEF Collect, get_cluster_runtime_data
<1>3. CASE ClusterAnswers(r) \/ ClusterFails(r) \/ AnswerIncomplete(r) \/ Fail(r)
  BY <1>3 DEF ClusterAnswers, ClusterFails, AnswerIncomplete, Fail
<1> QED
  BY <1>1, <1>2, <1>3 DEF handle_llm_request

(* What a step of r does for r itself.                                     *)
LEMMA OwnProgress ==
  ASSUME Shape, Shape', NEW r \in Requests, Progress(r), handle_llm_request(r)
  PROVE  Progress(r)'
<1> USE DEF Shape, Goto, CollectPcs
<1>0. /\ mine[r] \in Nat /\ config \in Nat /\ NClusters \in Nat \ {0}
      /\ Len(data[r]) \in Nat /\ Len(<<>>) = 0
  BY RuntimeDataAssumption, AppendFacts
<1>1. CASE Begin(r)
  <2>1. data'[r] = <<>> /\ mine'[r] = config /\ config' = config /\ pc'[r] = "lookup"
    BY <1>1 DEF Begin, Progress
  <2> QED
    BY <1>0, <2>1 DEF Progress
<1>2. CASE BeginUnconfigured(r)
  BY <1>2, <1>0 DEF BeginUnconfigured, Progress
<1>3. CASE Collect(r)
  <2>0. /\ mine'[r] = mine[r] /\ my_hour'[r] = my_hour[r] /\ config' = config
        /\ mine[r] <= config
    BY <1>3 DEF Collect, get_cluster_runtime_data, Hit, Miss, Fetched, CollectFails, Take,
                SnapshotKnown, SnapshotNew, AddHour, SaveSnapshot, SaveFails, Poll, Progress
  <2>1. config \in mine[r] .. config
    BY <1>0, <2>0
  <2>2. CASE Hit(r) \/ Miss(r) \/ Fetched(r) \/ CollectFails(r)
    <3>1. /\ data'[r] = data[r] /\ logged_hours' = logged_hours
          /\ pc[r] \in CollectPcs /\ pc'[r] \in {"lookup", "fetch", "snapshot", "failing"}
      BY <2>2 DEF Hit, Miss, Fetched, CollectFails, Take
    <3> QED
      BY <1>0, <2>0, <3>1 DEF Progress, Covered
  <2>3. CASE SnapshotKnown(r)
    <3>1. /\ data'[r] = data[r] /\ logged_hours' = logged_hours
          /\ pc[r] = "snapshot" /\ pc'[r] = "poll"
          /\ <<config, At(r), my_hour[r]>> \in logged_hours
      BY <2>3 DEF SnapshotKnown, Snapshot
    <3>2. At(r)' = At(r)
      BY <3>1 DEF At
    <3>3. \E t \in mine[r] .. config : <<t, At(r), my_hour[r]>> \in logged_hours
      BY <2>1, <3>1
    <3>4. Covered(r, At(r))'
      BY <2>0, <3>1, <3>2, <3>3 DEF Covered
    <3> QED
      BY <1>0, <2>0, <3>1, <3>4 DEF Progress, Covered
  <2>4. CASE SnapshotNew(r)
    <3>1. /\ data'[r] = data[r] /\ logged_hours' = logged_hours
          /\ pc[r] = "snapshot" /\ pc'[r] = "add"
          /\ filing'[r] = <<config, At(r), my_hour[r]>>
      BY <2>4 DEF SnapshotNew, Snapshot
    <3>2. At(r)' = At(r)
      BY <3>1 DEF At
    <3>3. \E t \in mine[r] .. config : filing'[r] = <<t, At(r), my_hour[r]>>
      BY <2>1, <3>1
    <3> QED
      BY <1>0, <2>0, <3>1, <3>2, <3>3 DEF Progress, Covered
  <2>5. CASE AddHour(r)
    <3>1. /\ data'[r] = data[r] /\ logged_hours' = logged_hours \cup {filing[r]}
          /\ pc[r] = "add" /\ pc'[r] = "save" /\ filing'[r] = filing[r]
      BY <2>5 DEF AddHour
    <3>2. PICK t \in mine[r] .. config : filing[r] = <<t, At(r), my_hour[r]>>
      BY <3>1 DEF Progress
    <3>3. Covered(r, At(r))' /\ At(r)' = At(r)
      BY <2>0, <3>1, <3>2 DEF Covered, At
    <3> QED
      BY <1>0, <2>0, <3>1, <3>2, <3>3 DEF Progress, Covered
  <2>6. CASE SaveSnapshot(r) \/ SaveFails(r)
    <3>1. /\ data'[r] = data[r] /\ logged_hours' = logged_hours
          /\ pc[r] = "save" /\ pc'[r] \in {"poll", "failing"}
      BY <2>6 DEF SaveSnapshot, SaveFails
    <3>2. At(r)' = At(r)
      BY <3>1 DEF At
    <3>3. Covered(r, At(r))
      BY <3>1 DEF Progress
    <3>4. Covered(r, At(r))'
      BY <2>0, <3>1, <3>2, <3>3 DEF Covered
    <3> QED
      BY <1>0, <2>0, <3>1, <3>4 DEF Progress, Covered
  <2>7. CASE Poll(r)
    <3>1. /\ logged_hours' = logged_hours /\ pc[r] = "poll"
          /\ pc'[r] = IF At(r) = NClusters THEN "choose" ELSE "lookup"
      BY <2>7 DEF Poll
    <3>2. PICK e : data'[r] = Append(data[r], e)
      BY <2>7 DEF Poll
    <3>3. Len(data'[r]) = Len(data[r]) + 1 /\ At(r) = Len(data[r]) + 1
      BY <3>2, AppendFacts DEF At
    <3>4. \A c \in 1 .. Len(data[r]) + 1 : Covered(r, c)
      <4> TAKE c \in 1 .. Len(data[r]) + 1
      <4>1. c \in 1 .. Len(data[r]) \/ c = At(r)
        BY <1>0, <3>3
      <4> QED
        BY <3>1, <4>1 DEF Progress
    <3>5. \A c \in 1 .. Len(data[r]) + 1 : Covered(r, c)'
      BY <2>0, <3>1, <3>4 DEF Covered
    <3>6. Len(data[r]) < NClusters
      BY <3>1 DEF Progress
    <3>7. mine'[r] <= config' /\ Len(data[r]) \in Nat
      BY <1>0, <2>0 DEF Progress
    <3>8. CASE At(r) = NClusters
      <4>1. pc'[r] = "choose"
        BY <3>1, <3>8
      <4>2. \A c \in Clusters : Covered(r, c)'
        BY <3>3, <3>5, <3>8 DEF Clusters
      <4> QED
        BY <3>7, <4>1, <4>2 DEF Progress, CollectPcs
    <3>9. CASE At(r) # NClusters
      <4>1. pc'[r] = "lookup"
        BY <3>1, <3>9
      <4>2. Len(data[r]) + 1 < NClusters
        BY <3>3, <3>6, <3>7, <3>9, <1>0
      <4>3. \A c \in 1 .. Len(data'[r]) : Covered(r, c)'
        BY <3>3, <3>5
      <4> QED
        BY <3>3, <3>7, <4>1, <4>2, <4>3 DEF Progress, CollectPcs
    <3> QED
      BY <3>8, <3>9
  <2> QED
    BY <1>3, <2>2, <2>3, <2>4, <2>5, <2>6, <2>7 DEF Collect, get_cluster_runtime_data
<1>4. CASE Choose(r)
  <2>1. /\ mine'[r] = mine[r] /\ my_hour'[r] = my_hour[r] /\ config' = config
        /\ logged_hours' = logged_hours /\ pc[r] = "choose"
        /\ pc'[r] \in {"failing", "post"}
    BY <1>4 DEF Choose
  <2> QED
    BY <1>0, <2>1 DEF Progress, Covered
<1>5. CASE ClusterAnswers(r) \/ ClusterFails(r) \/ AnswerIncomplete(r) \/ Fail(r)
  <2>1. mine'[r] = mine[r] /\ config' = config /\ pc'[r] \in {"ok", "failing", "failed"}
    BY <1>5 DEF ClusterAnswers, ClusterFails, AnswerIncomplete, Fail
  <2> QED
    BY <1>0, <2>1 DEF Progress
<1> QED
  BY <1>1, <1>2, <1>3, <1>4, <1>5 DEF handle_llm_request

LEMMA ProgressStep ==
  ASSUME Shape, Shape', LogIdLeads, \A r \in Requests : Progress(r), [Next]_vars
  PROVE  \A r \in Requests : Progress(r)'
<1> TAKE q \in Requests
<1>0. Progress(q) /\ config \in Nat /\ config' \in Nat
  BY DEF Shape
<1>1. ASSUME NEW r \in Requests, handle_llm_request(r) PROVE Progress(q)'
  <2>1. CASE q = r
    BY <1>0, <1>1, <2>1, OwnProgress
  <2>2. CASE q # r
    BY <1>0, <1>1, <2>2, RequestStepsAreLocal, ProgressStays DEF OnlyOf
  <2> QED
    BY <2>1, <2>2
<1>2. CASE start_test \/ HourPasses \/ UNCHANGED vars
  <2>1. /\ config <= config' /\ logged_hours' = logged_hours /\ pc' = pc
        /\ mine' = mine /\ my_hour' = my_hour /\ data' = data /\ filing' = filing
    BY <1>0, <1>2 DEF start_test, ResetMarketData, SetLogId, StoreConfig, HourPasses,
                      vars, dataVars
  <2> QED
    BY <1>0, <2>1, ProgressStays
<1> QED
  BY <1>1, <1>2 DEF Next

LEMMA LogIdStep ==
  ASSUME Shape, LogIdLeads, [Next]_vars
  PROVE  LogIdLeads'
<1> USE DEF Shape, LogIdLeads
<1>1. ASSUME NEW r \in Requests, handle_llm_request(r) PROVE LogIdLeads'
  <2>1. UNCHANGED <<config, log_id, starting>>
    BY <1>1 DEF handle_llm_request, Begin, BeginUnconfigured, Collect, Choose,
                ClusterAnswers, ClusterFails, AnswerIncomplete, Fail,
                get_cluster_runtime_data, Hit, Miss, Fetched, CollectFails, Take,
                SnapshotKnown, SnapshotNew, AddHour, SaveSnapshot, SaveFails, Poll
  <2> QED
    BY <2>1
<1>2. CASE start_test \/ HourPasses
  BY <1>2 DEF start_test, ResetMarketData, SetLogId, StoreConfig, HourPasses, dataVars
<1>3. CASE UNCHANGED vars
  BY <1>3 DEF vars, dataVars
<1> QED
  BY <1>1, <1>2, <1>3 DEF Next

(* The row a request adds, if it adds one.                                 *)
AddsRow(r, cluster, success, latency) ==
    \/ logs' = logs
    \/ \E row : /\ logs' = Append(logs, row)
                /\ row.by = r /\ row.cluster = cluster /\ row.success = success
                /\ row.test = log_id

LEMMA RowAdded ==
  ASSUME NEW r, NEW c, NEW success, NEW ms, log_request(r, c, success, ms)
  PROVE  AddsRow(r, c, success, ms)
<1> DEFINE row == [by |-> r, cluster |-> c, success |-> success, latency |-> ms,
                   test |-> log_id]
<1>1. logs' = Append(logs, row) \/ logs' = logs
  BY DEF log_request
<1>2. row.by = r /\ row.cluster = c /\ row.success = success /\ row.test = log_id
  OBVIOUS
<1> HIDE DEF row
<1> QED
  BY <1>1, <1>2 DEF AddsRow

(* What every row keeps saying when a row of r is added.                   *)
RowOk(i) ==
    /\ logs[i].by \in Requests
    /\ pc[logs[i].by] # "new"
    /\ logs[i].success /\ logs[i].test = mine[logs[i].by] =>
           \A c \in Clusters :
               <<mine[logs[i].by], c, my_hour[logs[i].by]>> \in logged_hours

LogsOk == \A i \in DOMAIN logs : RowOk(i)

LEMMA LogsOkMeans ==
  LogsOk <=> /\ \A i \in DOMAIN logs : logs[i].by \in Requests
             /\ LoggedHaveBegun
             /\ SuccessHasMarketData
  BY DEF LogsOk, RowOk, LoggedHaveBegun, SuccessHasMarketData

(* No row is added: what is logged stays true, as the tests and hours of   *)
(* requests that have begun do not change.                                 *)
LEMMA QuietStep ==
  ASSUME Shape, LogsOk, logs' = logs, logged_hours \subseteq logged_hours',
         \A q \in Requests : pc[q] # "new" =>
             pc'[q] # "new" /\ mine'[q] = mine[q] /\ my_hour'[q] = my_hour[q]
  PROVE  LogsOk'
  BY DEF LogsOk, RowOk

LEMMA LogsStep ==
  ASSUME Shape, LogIdLeads, \A r \in Requests : Progress(r), LogsOk, [Next]_vars
  PROVE  LogsOk'
<1> USE DEF Shape, Goto
<1>1. ASSUME NEW r \in Requests, handle_llm_request(r) PROVE LogsOk'
  <2>1. CASE Begin(r) \/ BeginUnconfigured(r) \/ Choose(r) \/ AnswerIncomplete(r)
    BY <2>1, QuietStep DEF Begin, BeginUnconfigured, Choose, AnswerIncomplete
  <2>2. CASE Collect(r)
    <3>1. /\ logs' = logs /\ mine' = mine /\ my_hour' = my_hour
          /\ pc'[r] # "new"
      BY <2>2 DEF Collect, get_cluster_runtime_data, Hit, Miss, Fetched, CollectFails, Take,
                  SnapshotKnown, SnapshotNew, AddHour, SaveSnapshot, SaveFails, Poll
    <3> QED
      BY <1>1, <3>1, RequestStepsAreLocal, QuietStep DEF OnlyOf
  <2>3. CASE ClusterAnswers(r) \/ ClusterFails(r) \/ Fail(r)
    <3>1. /\ mine' = mine /\ my_hour' = my_hour /\ logged_hours' = logged_hours
          /\ pc'[r] # "new" /\ \A q \in Requests \ {r} : pc'[q] = pc[q]
      BY <2>3 DEF ClusterAnswers, ClusterFails, Fail
    <3>2. CASE logs' = logs
      BY <3>1, <3>2, QuietStep
    <3>3. CASE \E row : logs' = Append(logs, row) /\ row.by = r /\ row.test = log_id
                        /\ (row.success => pc[r] = "post")
      <4>1. PICK row : logs' = Append(logs, row) /\ row.by = r /\ row.test = log_id
                       /\ (row.success => pc[r] = "post")
        BY <3>3
      <4>2. ASSUME row.success, log_id = mine[r], NEW c \in Clusters
            PROVE  <<mine[r], c, my_hour[r]>> \in logged_hours
        <5>1. PICK t \in mine[r] .. config : <<t, c, my_hour[r]>> \in logged_hours
          BY <4>1, <4>2 DEF Progress, Covered
        <5>2. config <= log_id
          BY DEF LogIdLeads
        <5>3. t = mine[r]
          BY <4>2, <5>1, <5>2
        <5> QED
          BY <5>1, <5>3
      <4>3. /\ \A i \in 1 .. Len(logs) : logs'[i] = logs[i]
            /\ logs'[Len(logs) + 1] = row
            /\ DOMAIN logs' = 1 .. Len(logs) + 1 /\ DOMAIN logs = 1 .. Len(logs)
            /\ Len(logs) \in Nat
        BY <4>1, AppendFacts
      <4>4. \A i \in DOMAIN logs' : i \in DOMAIN logs \/ i = Len(logs) + 1
        BY <4>3
      <4>5. ASSUME NEW i \in DOMAIN logs'
            PROVE  RowOk(i)'
        <5>1. CASE i \in DOMAIN logs
          <6>1. logs'[i] = logs[i]
            BY <4>3, <5>1
          <6>2. RowOk(i)
            BY <5>1 DEF LogsOk
          <6>3. pc'[logs[i].by] # "new"
            BY <3>1, <6>2 DEF RowOk
          <6> HIDE DEF Shape
          <6> QED
            BY <3>1, <6>1, <6>2, <6>3 DEF RowOk
        <5>2. CASE i = Len(logs) + 1
          <6>1. logs'[i] = row
            BY <4>3, <5>2
          <6> HIDE DEF Shape
          <6> QED
            BY <3>1, <4>1, <4>2, <6>1 DEF RowOk
        <5> QED
          BY <4>4, <5>1, <5>2
      <4> QED
        BY <4>5 DEF LogsOk
    <3> QED
      <4>1. CASE ClusterAnswers(r)
        BY <3>2, <3>3, <4>1, RowAdded DEF ClusterAnswers, AddsRow
      <4>2. CASE ClusterFails(r)
        BY <3>2, <3>3, <4>2, RowAdded DEF ClusterFails, AddsRow
      <4>3. CASE Fail(r)
        <5>1. PICK ms : log_request(r, NamedCluster(r), FALSE, ms)
          BY <4>3 DEF Fail
        <5>2. AddsRow(r, NamedCluster(r), FALSE, ms)
          BY <5>1, RowAdded
        <5> HIDE DEF Shape
        <5> QED
          BY <3>2, <3>3, <5>2 DEF AddsRow
      <4> QED
        BY <2>3, <4>1, <4>2, <4>3
  <2> QED
    BY <1>1, <2>1, <2>2, <2>3 DEF handle_llm_request
<1>2. CASE start_test \/ HourPasses \/ UNCHANGED vars
  <2>1. /\ logs' = logs /\ logged_hours' = logged_hours /\ pc' = pc
        /\ mine' = mine /\ my_hour' = my_hour
    BY <1>2 DEF start_test, ResetMarketData, SetLogId, StoreConfig, HourPasses,
                vars, dataVars
  <2> QED
    BY <2>1, QuietStep
<1> QED
  BY <1>1, <1>2 DEF Next

LEMMA MarketStep ==
  ASSUME MarketInv, [Next]_vars
  PROVE  MarketInv'
<1> USE DEF MarketInv
<1>1. LogsOk
  BY LogsOkMeans
<1>2. Shape'
  BY ShapeStep
<1>3. LogIdLeads'
  BY LogIdStep
<1>4. \A r \in Requests : Progress(r)'
  BY <1>2, ProgressStep
<1>5. LogsOk'
  BY <1>1, LogsStep
<1>6. /\ \A i \in DOMAIN logs' : logs'[i].by \in Requests
      /\ LoggedHaveBegun' /\ SuccessHasMarketData'
  BY <1>5 DEF LogsOk, RowOk, LoggedHaveBegun, SuccessHasMarketData
<1> QED
  BY <1>2, <1>3, <1>4, <1>6

LEMMA MarketInit == Init => MarketInv
<1> SUFFICES ASSUME Init PROVE MarketInv
  OBVIOUS
<1>1. Shape /\ LogIdLeads
  BY ShapeInit DEF Init, LogIdLeads
<1>2. \A r \in Requests : Progress(r)
  BY DEF Init, Progress, CollectPcs, NoTest
<1>3. DOMAIN logs = {}
  BY DEF Init
<1> QED
  BY <1>1, <1>2, <1>3 DEF MarketInv, LoggedHaveBegun, SuccessHasMarketData

(* Every success filed under the test it was chosen in has the market      *)
(* values of its hour, for every cluster, in the results of that test,     *)
(* however requests and start_test interfere.                              *)
THEOREM SuccessesHaveMarketData == Spec => []SuccessHasMarketData
<1>1. MarketInv => SuccessHasMarketData
  BY DEF MarketInv
<1> QED
  BY <1>1, MarketInit, MarketStep, PTL DEF Spec

-----------------------------------------------------------------------------
(* The log and the answers: how many rows a request has follows from where *)
(* it is, and what they say from where it is and which cluster it got.     *)

RowsAt(r) == {j \in DOMAIN logs : logs[j].by = r}

(* The most rows a request at this place may have.                         *)
Limit(r) ==
    CASE pc[r] = "ok" -> 1
      [] pc[r] = "failing" -> IF chosen[r] = NoCluster THEN 0 ELSE 1
      [] pc[r] = "failed" -> IF chosen[r] = NoCluster THEN 1 ELSE 2
      [] OTHER -> 0

RowTells(r, row) ==
    /\ row.cluster = NamedCluster(r)
    /\ row.success => pc[r] = "ok"
    /\ ~row.success => pc[r] # "ok"

Tells(r) ==
    /\ pc[r] \in CollectPcs \cup {"new", "choose"} => chosen[r] = NoCluster
    /\ pc[r] \in {"post", "ok"} => chosen[r] # NoCluster
    /\ Cardinality(RowsAt(r)) <= Limit(r)
    /\ \A j \in RowsAt(r) : RowTells(r, logs[j])

LEMMA RowsAreFinite ==
  ASSUME Shape, NEW r
  PROVE  IsFiniteSet(RowsAt(r)) /\ Cardinality(RowsAt(r)) \in Nat
<1>1. DOMAIN logs = 1 .. Len(logs) /\ Len(logs) \in Nat
  BY AppendFacts DEF Shape
<1>2. IsFiniteSet(1 .. Len(logs))
  BY <1>1, FS_Interval
<1>3. RowsAt(r) \subseteq 1 .. Len(logs)
  BY <1>1 DEF RowsAt
<1> QED
  BY <1>2, <1>3, FS_Subset, FS_CardinalityType

(* Where no row of r is added and r, if it has one, keeps its cluster.     *)
LEMMA SameRowsTell ==
  ASSUME Shape, NEW r, Tells(r), RowsAt(r)' = RowsAt(r),
         \A j \in RowsAt(r) : logs'[j] = logs[j],
         pc'[r] = pc[r], chosen'[r] = chosen[r],
         pc[r] # "new" => mine'[r] = mine[r]
  PROVE  Tells(r)'
<1>1. Limit(r)' = Limit(r)
  BY DEF Limit
<1>2. Cardinality(RowsAt(r))' = Cardinality(RowsAt(r))
  OBVIOUS
<1>3. ASSUME NEW j \in RowsAt(r)' PROVE RowTells(r, logs[j])'
  <2>1. pc[r] # "new"
    <3>1. SUFFICES ASSUME pc[r] = "new" PROVE FALSE
      OBVIOUS
    <3>2. Limit(r) = 0
      BY <3>1 DEF Limit
    <3>3. Cardinality(RowsAt(r)) = 0
      BY <3>2, RowsAreFinite DEF Tells
    <3>4. RowsAt(r) = {}
      BY <3>3, RowsAreFinite, FS_EmptySet
    <3> QED
      BY <1>3, <3>4
  <2> QED
    BY <1>3, <2>1 DEF Tells, RowTells, NamedCluster
<1> QED
  BY <1>1, <1>2, <1>3 DEF Tells

(* A request without rows that moves on without one.                       *)
LEMMA NoRowsTell ==
  ASSUME Shape, NEW r, Tells(r), logs' = logs, Limit(r) = 0,
         pc'[r] \in CollectPcs \cup {"new", "choose"} => chosen'[r] = NoCluster,
         pc'[r] \in {"post", "ok"} => chosen'[r] # NoCluster,
         Limit(r)' \in Nat
  PROVE  Tells(r)'
<1>1. Cardinality(RowsAt(r)) = 0
  BY RowsAreFinite DEF Tells
<1>2. RowsAt(r) = {}
  BY <1>1, RowsAreFinite, FS_EmptySet
<1>3. RowsAt(r)' = {} /\ Cardinality(RowsAt(r))' = 0
  BY <1>1, <1>2 DEF RowsAt
<1> QED
  BY <1>3 DEF Tells

(* A write of the log adds one row, or none, and it is of r.               *)
LEMMA OneRowMore ==
  ASSUME Shape, NEW r, NEW c, NEW success, NEW ms, log_request(r, c, success, ms)
  PROVE  /\ Cardinality(RowsAt(r)') \in Nat
         /\ Cardinality(RowsAt(r)') <= Cardinality(RowsAt(r)) + 1
         /\ \A j \in RowsAt(r)' :
               \/ j \in RowsAt(r) /\ logs'[j] = logs[j]
               \/ logs'[j].cluster = c /\ logs'[j].success = success
         /\ \A q \in Requests \ {r} :
               RowsAt(q)' = RowsAt(q) /\ \A j \in RowsAt(q) : logs'[j] = logs[j]
<1>1. AddsRow(r, c, success, ms)
  BY RowAdded
<1>2. CASE logs' = logs
  <2>1. \A q : RowsAt(q)' = RowsAt(q)
    BY <1>2 DEF RowsAt
  <2>2. Cardinality(RowsAt(r)') = Cardinality(RowsAt(r))
    BY <2>1
  <2> QED
    BY <1>2, <2>1, <2>2, RowsAreFinite
<1>3. CASE \E row : /\ logs' = Append(logs, row)
                    /\ row.by = r /\ row.cluster = c /\ row.success = success
  <2>1. PICK row : /\ logs' = Append(logs, row)
                   /\ row.by = r /\ row.cluster = c /\ row.success = success
    BY <1>3
  <2>2. /\ \A i \in 1 .. Len(logs) : logs'[i] = logs[i]
        /\ logs'[Len(logs) + 1] = row
        /\ DOMAIN logs' = 1 .. Len(logs) + 1 /\ DOMAIN logs = 1 .. Len(logs)
        /\ Len(logs) \in Nat
    BY <2>1, AppendFacts DEF Shape
  <2>3. RowsAt(r)' = RowsAt(r) \cup {Len(logs) + 1}
    BY <2>1, <2>2 DEF RowsAt
  <2>4. /\ Cardinality(RowsAt(r)') \in Nat
        /\ Cardinality(RowsAt(r)') <= Cardinality(RowsAt(r)) + 1
    <3>1. IsFiniteSet(RowsAt(r)) /\ Cardinality(RowsAt(r)) \in Nat
      BY RowsAreFinite
    <3>2. /\ IsFiniteSet(RowsAt(r) \cup {Len(logs) + 1})
          /\ Cardinality(RowsAt(r) \cup {Len(logs) + 1}) \in Nat
          /\ Cardinality(RowsAt(r) \cup {Len(logs) + 1}) <= Cardinality(RowsAt(r)) + 1
      BY <3>1, FS_AddElement, FS_CardinalityType
    <3> QED
      BY <2>3, <3>2
  <2>5. ASSUME NEW j \in RowsAt(r)'
        PROVE  \/ j \in RowsAt(r) /\ logs'[j] = logs[j]
               \/ logs'[j].cluster = c /\ logs'[j].success = success
    BY <2>1, <2>2, <2>3, <2>5 DEF RowsAt
  <2>6. ASSUME NEW q \in Requests \ {r}
        PROVE  RowsAt(q)' = RowsAt(q) /\ \A j \in RowsAt(q) : logs'[j] = logs[j]
    BY <2>1, <2>2, <2>6 DEF RowsAt
  <2> QED
    BY <2>4, <2>5, <2>6
<1> QED
  BY <1>1, <1>2, <1>3 DEF AddsRow

LEMMA TellsStep ==
  ASSUME Shape, \A r \in Requests : Tells(r), [Next]_vars
  PROVE  \A r \in Requests : Tells(r)'
<1>1. ASSUME NEW r \in Requests, handle_llm_request(r), NEW q \in Requests
      PROVE  Tells(q)'
  <2>0. Shape /\ Tells(q) /\ Tells(r) /\ pc[r] \in Places
    BY DEF Shape
  <2>1. CASE q # r
    <3>1. pc'[q] = pc[q] /\ mine'[q] = mine[q]
      BY <1>1, <2>1, RequestStepsAreLocal DEF OnlyOf
    <3>2. chosen'[q] = chosen[q]
      BY <1>1, <2>1 DEF Shape, handle_llm_request, Begin, BeginUnconfigured, Collect, Choose,
                        ClusterAnswers, ClusterFails, AnswerIncomplete, Fail
    <3>3. RowsAt(q)' = RowsAt(q) /\ \A j \in RowsAt(q) : logs'[j] = logs[j]
      <4>1. CASE logs' = logs
        BY <4>1 DEF RowsAt
      <4>2. CASE ClusterAnswers(r) \/ ClusterFails(r) \/ Fail(r)
        <5>1. PICK c, success, ms : log_request(r, c, success, ms)
          BY <4>2 DEF ClusterAnswers, ClusterFails, Fail
        <5> QED
          BY <2>1, <5>1, OneRowMore
      <4> QED
        BY <1>1, <4>1, <4>2 DEF handle_llm_request, Begin, BeginUnconfigured, Collect, Choose,
                                AnswerIncomplete
    <3> QED
      BY <2>0, <3>1, <3>2, <3>3, SameRowsTell
  <2>2. CASE q = r
    <3>1. CASE Begin(r) \/ BeginUnconfigured(r) \/ Collect(r) \/ Choose(r) \/ AnswerIncomplete(r)
      <4>1. logs' = logs
        BY <3>1 DEF Begin, BeginUnconfigured, Collect, Choose, AnswerIncomplete
      <4>2. pc[r] \in CollectPcs \cup {"new", "choose", "post"}
        BY <3>1 DEF Begin, BeginUnconfigured, Collect, Choose, AnswerIncomplete,
                    get_cluster_runtime_data, Hit, Miss, Fetched, CollectFails,
                    SnapshotKnown, SnapshotNew, AddHour, SaveSnapshot, SaveFails, Poll, CollectPcs
      <4>3. /\ pc'[r] \in CollectPcs \cup {"new", "choose"} => chosen'[r] = NoCluster
            /\ pc'[r] \in {"post", "ok"} => chosen'[r] # NoCluster
        <5>1. CASE Choose(r)
          BY <2>0, <5>1 DEF Choose, Goto, Shape, CollectPcs
        <5>2. CASE Begin(r) \/ BeginUnconfigured(r)
          BY <2>0, <5>2 DEF Begin, BeginUnconfigured, Goto, Shape, CollectPcs, Tells
        <5>3. CASE AnswerIncomplete(r)
          BY <2>0, <5>3 DEF AnswerIncomplete, Goto, Shape, CollectPcs
        <5>4. CASE Collect(r)
          <6>1. chosen' = chosen /\ pc[r] \in CollectPcs
            BY <5>4 DEF Collect, get_cluster_runtime_data, Hit, Miss, Fetched, CollectFails,
                        SnapshotKnown, SnapshotNew, AddHour, SaveSnapshot, SaveFails, Poll,
                        CollectPcs
          <6>2. pc'[r] \in CollectPcs \cup {"choose", "failing"}
            BY <5>4 DEF Shape, Goto, Take, Collect, get_cluster_runtime_data, Hit, Miss, Fetched,
                        CollectFails, SnapshotKnown, SnapshotNew, AddHour, SaveSnapshot,
                        SaveFails, Poll, CollectPcs
          <6> QED
            BY <2>0, <6>1, <6>2 DEF Tells, CollectPcs
        <5> QED
          BY <3>1, <5>1, <5>2, <5>3, <5>4
      <4>4. Limit(r) = 0
        BY <4>2 DEF Limit, CollectPcs
      <4>5. Limit(r)' \in Nat
        BY DEF Limit
      <4> QED
        BY <2>0, <2>2, <4>1, <4>3, <4>4, <4>5, NoRowsTell
    <3>2. CASE ClusterAnswers(r)
      <4>1. pc[r] = "post" /\ pc'[r] = "ok" /\ chosen'[r] = chosen[r] /\ mine' = mine
        BY <3>2 DEF ClusterAnswers, Goto, Shape
      <4>2. PICK ms : log_request(r, chosen[r], TRUE, ms)
        BY <3>2 DEF ClusterAnswers
      <4>3. Limit(r) = 0 /\ Limit(r)' = 1 /\ chosen[r] # NoCluster
        BY <2>0, <4>1 DEF Limit, Tells
      <4>4. Cardinality(RowsAt(r)) = 0 /\ RowsAt(r) = {}
        <5>1. Cardinality(RowsAt(r)) = 0
          BY <2>0, <4>3, RowsAreFinite DEF Tells
        <5> QED
          BY <5>1, RowsAreFinite, FS_EmptySet
      <4>5. Cardinality(RowsAt(r)') <= 1
        <5>1. Cardinality(RowsAt(r)') <= Cardinality(RowsAt(r)) + 1
          BY <4>2, OneRowMore
        <5> QED
          BY <4>4, <5>1
      <4>6. ASSUME NEW j \in RowsAt(r)' PROVE RowTells(r, logs[j])'
        <5>1. logs'[j].cluster = chosen[r] /\ logs'[j].success = TRUE
          BY <4>2, <4>4, <4>6, OneRowMore
        <5> QED
          BY <4>1, <4>3, <5>1 DEF RowTells, NamedCluster
      <4> QED
        BY <2>2, <4>1, <4>3, <4>5, <4>6 DEF Tells, CollectPcs
    <3>3. CASE ClusterFails(r)
      <4>1. pc[r] = "post" /\ pc'[r] = "failing" /\ chosen'[r] = chosen[r] /\ mine' = mine
        BY <3>3 DEF ClusterFails, Goto, Shape
      <4>2. PICK ms : log_request(r, chosen[r], FALSE, ms)
        BY <3>3 DEF ClusterFails
      <4>3. Limit(r) = 0 /\ Limit(r)' = 1 /\ chosen[r] # NoCluster
        BY <2>0, <4>1 DEF Limit, Tells
      <4>4. Cardinality(RowsAt(r)) = 0 /\ RowsAt(r) = {}
        <5>1. Cardinality(RowsAt(r)) = 0
          BY <2>0, <4>3, RowsAreFinite DEF Tells
        <5> QED
          BY <5>1, RowsAreFinite, FS_EmptySet
      <4>5. Cardinality(RowsAt(r)') <= 1
        <5>1. Cardinality(RowsAt(r)') <= Cardinality(RowsAt(r)) + 1
          BY <4>2, OneRowMore
        <5> QED
          BY <4>4, <5>1
      <4>6. ASSUME NEW j \in RowsAt(r)' PROVE RowTells(r, logs[j])'
        <5>1. logs'[j].cluster = chosen[r] /\ logs'[j].success = FALSE
          BY <4>2, <4>4, <4>6, OneRowMore
        <5> QED
          BY <4>1, <4>3, <5>1 DEF RowTells, NamedCluster
      <4> QED
        BY <2>2, <4>1, <4>3, <4>5, <4>6 DEF Tells, CollectPcs
    <3>4. CASE Fail(r)
      <4>1. pc[r] = "failing" /\ pc'[r] = "failed" /\ chosen'[r] = chosen[r] /\ mine' = mine
        BY <3>4 DEF Fail, Goto, Shape
      <4>2. PICK ms : log_request(r, NamedCluster(r), FALSE, ms)
        BY <3>4 DEF Fail
      <4>3. Limit(r)' = Limit(r) + 1 /\ Limit(r) \in Nat
        BY <4>1 DEF Limit
      <4>4. Cardinality(RowsAt(r)) <= Limit(r) /\ \A j \in RowsAt(r) : RowTells(r, logs[j])
        BY <2>0 DEF Tells
      <4>5. Cardinality(RowsAt(r)') <= Limit(r)'
        <5>1. Cardinality(RowsAt(r)) \in Nat
          BY RowsAreFinite
        <5>2. /\ Cardinality(RowsAt(r)') \in Nat
              /\ Cardinality(RowsAt(r)') <= Cardinality(RowsAt(r)) + 1
          BY <4>2, OneRowMore
        <5> QED
          BY <4>3, <4>4, <5>1, <5>2
      <4>6. ASSUME NEW j \in RowsAt(r)' PROVE RowTells(r, logs[j])'
        <5>1. NamedCluster(r)' = NamedCluster(r)
          BY <4>1 DEF NamedCluster
        <5>2. CASE j \in RowsAt(r) /\ logs'[j] = logs[j]
          BY <4>1, <4>4, <5>1, <5>2 DEF RowTells
        <5>3. CASE logs'[j].cluster = NamedCluster(r) /\ logs'[j].success = FALSE
          BY <4>1, <5>1, <5>3 DEF RowTells
        <5> QED
          BY <4>2, <4>6, <5>2, <5>3, OneRowMore
      <4> QED
        BY <2>2, <4>1, <4>5, <4>6 DEF Tells, CollectPcs
    <3> QED
      BY <1>1, <3>1, <3>2, <3>3, <3>4 DEF handle_llm_request
  <2> QED
    BY <2>1, <2>2
<1>2. CASE start_test \/ HourPasses \/ UNCHANGED vars
  <2>1. logs' = logs /\ pc' = pc /\ mine' = mine /\ chosen' = chosen
    BY <1>2 DEF start_test, ResetMarketData, SetLogId, StoreConfig, HourPasses,
                vars, dataVars
  <2>2. ASSUME NEW r \in Requests PROVE Tells(r)'
    <3>1. RowsAt(r)' = RowsAt(r)
      BY <2>1 DEF RowsAt
    <3> QED
      BY <2>1, <3>1, SameRowsTell
  <2> QED
    BY <2>2
<1> QED
  BY <1>1, <1>2 DEF Next

LEMMA TellsMeans ==
  ASSUME Shape, \A r \in Requests : Tells(r)
  PROVE  LogsTellTheAnswer
<1> SUFFICES ASSUME NEW r \in Requests
             PROVE  /\ \A row \in Rows(r) :
                          /\ row.success => pc[r] = "ok" /\ CountRows(r) = 1
                          /\ ~row.success => pc[r] \in {"failing", "failed"}
                          /\ chosen[r] # NoCluster => row.cluster = chosen[r]
                    /\ CountRows(r) <= IF chosen[r] = NoCluster THEN 1 ELSE 2
                    /\ Cardinality({row.cluster : row \in Rows(r)}) <= 1
  BY DEF LogsTellTheAnswer
<1>1. CountRows(r) = Cardinality(RowsAt(r)) /\ CountRows(r) \in Nat
  BY RowsAreFinite DEF CountRows, RowsAt
<1>2. Tells(r) /\ pc[r] \in Places /\ CountRows(r) <= Limit(r)
  BY <1>1 DEF Tells, Shape
<1>3. ASSUME NEW row \in Rows(r)
      PROVE  /\ row.success => pc[r] = "ok" /\ CountRows(r) = 1
             /\ ~row.success => pc[r] \in {"failing", "failed"}
             /\ row.cluster = NamedCluster(r)
  <2>1. PICK j \in RowsAt(r) : row = logs[j]
    BY <1>3 DEF Rows, RowsAt
  <2>2. RowTells(r, row)
    BY <1>2, <2>1 DEF Tells
  <2>3. CountRows(r) # 0
    BY <1>1, <2>1, RowsAreFinite, FS_EmptySet
  <2>4. Limit(r) > 0
    BY <1>1, <1>2, <2>3 DEF Limit
  <2>5. pc[r] \in {"ok", "failing", "failed"}
    BY <2>4 DEF Limit
  <2>6. pc[r] = "ok" => CountRows(r) = 1
    BY <1>1, <1>2, <2>3 DEF Limit
  <2> QED
    BY <2>2, <2>5, <2>6 DEF RowTells
<1>4. CountRows(r) <= IF chosen[r] = NoCluster THEN 1 ELSE 2
  <2>1. pc[r] = "ok" => chosen[r] # NoCluster
    BY <1>2 DEF Tells
  <2> QED
    BY <1>1, <1>2, <2>1 DEF Limit
<1>5. Cardinality({row.cluster : row \in Rows(r)}) <= 1
  <2> DEFINE named == {row.cluster : row \in Rows(r)}
  <2>1. named \subseteq {NamedCluster(r)}
    BY <1>3
  <2> HIDE DEF named
  <2>2. IsFiniteSet({NamedCluster(r)}) /\ Cardinality({NamedCluster(r)}) = 1
    BY FS_Singleton
  <2>3. Cardinality(named) <= Cardinality({NamedCluster(r)})
    BY <2>1, <2>2, FS_Subset
  <2>4. Cardinality(named) <= 1
    BY <2>2, <2>3
  <2> QED
    BY <2>4 DEF named
<1> QED
  BY <1>3, <1>4, <1>5 DEF NamedCluster

AnswerInv == Shape /\ \A r \in Requests : Tells(r)

LEMMA AnswerInit == Init => AnswerInv
<1> SUFFICES ASSUME Init PROVE AnswerInv
  OBVIOUS
<1>1. Shape
  BY ShapeInit
<1>2. ASSUME NEW r \in Requests PROVE Tells(r)
  <2>1. pc[r] = "new" /\ chosen[r] = NoCluster /\ RowsAt(r) = {}
    BY DEF Init, RowsAt
  <2>2. Cardinality(RowsAt(r)) = 0 /\ Limit(r) = 0
    BY <2>1, FS_EmptySet DEF Limit
  <2> QED
    BY <2>1, <2>2 DEF Tells, CollectPcs
<1> QED
  BY <1>1, <1>2 DEF AnswerInv

(* What the log says of a request is what its caller was told, for any     *)
(* number of requests, however their steps and their writes interleave.    *)
THEOREM LogTellsTheAnswer == Spec => []LogsTellTheAnswer
<1>1. AnswerInv /\ [Next]_vars => AnswerInv'
  BY ShapeStep, TellsStep DEF AnswerInv
<1>2. AnswerInv => LogsTellTheAnswer
  BY TellsMeans DEF AnswerInv
<1> QED
  BY <1>1, <1>2, AnswerInit, PTL DEF Spec
-----------------------------------------------------------------------------
(* Averages *)

LogRows == [by : Requests, cluster : Clusters \cup {NoCluster}, success : BOOLEAN,
          latency : Nat, test : Tests \cup {NoTest}]

LogTypes == IsSeq(logs) /\ \A i \in DOMAIN logs : logs[i] \in LogRows

(* What a sum over the log adds at each row. *)
Addend(recent, n) ==
    [x \in (1 .. n) \X Nat |->
        x[2] + (IF x[1] \in recent THEN logs[x[1]].latency ELSE 0)]

LEMMA AddendAt ==
  ASSUME NEW recent, NEW n \in Nat, NEW i \in 1 .. n, NEW b \in Nat
  PROVE  Addend(recent, n)[<<i, b>>] =
             b + (IF i \in recent THEN logs[i].latency ELSE 0)
<1>1. <<i, b>> \in (1 .. n) \X Nat /\ <<i, b>>[1] = i /\ <<i, b>>[2] = b
  OBVIOUS
<1> QED
  BY <1>1, Zenon DEF Addend

LEMMA AddendType ==
  ASSUME LogTypes, NEW recent
  PROVE  Addend(recent, Len(logs)) \in [(1 .. Len(logs)) \X Nat -> Nat]
<1>1. Len(logs) \in Nat /\ DOMAIN logs = 1 .. Len(logs)
  BY AppendFacts DEF LogTypes
<1>2. \A i \in 1 .. Len(logs) : logs[i].latency \in Nat
  BY <1>1 DEF LogTypes, LogRows
<1> QED
  BY <1>1, <1>2 DEF Addend

(* The average of whatever rows is a number: the sum exists and is one.    *)
LEMMA AverageType ==
  ASSUME LogTypes, NEW c, NEW t, NEW k \in Nat
  PROVE  AvgLatency(c, t, k) \in Nat
<1> DEFINE n == Len(logs)
           recent == RecentOf(c, t, k)
           body(g) == [i \in 0 .. n |->
                         IF i = 0 THEN 0
                         ELSE g[i - 1] + (IF i \in recent THEN logs[i].latency ELSE 0)]
           total == CHOOSE g : g = body(g)
<1>1. AvgLatency(c, t, k) = IF recent = {} THEN 0
                            ELSE Rounded(total[n], Cardinality(recent))
  BY DEF AvgLatency
<1>2. n \in Nat /\ DOMAIN logs = 1 .. n
  BY AppendFacts DEF LogTypes
<1>3. \A i \in 1 .. n : logs[i].latency \in Nat
  BY <1>2 DEF LogTypes, LogRows
<1>4. PICK h \in [0 .. n -> Nat] :
          /\ h[0] = 0
          /\ \A i \in 1 .. n : h[i] = Addend(recent, n)[<<i, h[i - 1]>>]
  <2>1. Addend(recent, n) \in [(1 .. n) \X Nat -> Nat]
    BY AddendType, Zenon
  <2>2. n \in Nat /\ 0 \in Nat
    BY <1>2
  <2> HIDE DEF n, recent, body, total
  <2>3. \E h : Loop(n, Nat, 0, Addend(recent, n), h)
    BY <2>1, <2>2, LoopExists, Zenon
  <2> QED
    BY <2>3, Zenon DEF Loop
<1> HIDE DEF n, recent
<1>5. h = body(h)
  <2>1. ASSUME NEW i \in 0 .. n, i # 0 PROVE h[i] = body(h)[i]
    <3>1. i \in 1 .. n /\ h[i - 1] \in Nat
      BY <1>2, <1>4, <2>1
    <3>2. h[i] = Addend(recent, n)[<<i, h[i - 1]>>]
      BY <1>4, <3>1
    <3> QED
      BY <1>2, <2>1, <3>1, <3>2, AddendAt
  <2>2. h[0] = body(h)[0]
    BY <1>2, <1>4
  <2>3. \A i \in 0 .. n : h[i] = body(h)[i]
    BY <2>1, <2>2
  <2> QED
    BY <1>4, <2>3
<1>6. total = body(total)
  BY <1>5
<1> HIDE DEF total
<1>7. \A i \in 0 .. n : total[i] = body(total)[i]
  BY <1>6
<1>8. \A i \in 0 .. n : total[i] \in Nat
  <2> DEFINE Out == {i \in 0 .. n : total[i] \notin Nat}
  <2> SUFFICES ASSUME Out # {} PROVE FALSE
    OBVIOUS
  <2>1. Out \subseteq Nat
    OBVIOUS
  <2> HIDE DEF Out
  <2>2. PICK m \in Out : \A j \in Out : m <= j
    BY <2>1, SmallestNat
  <2> USE DEF Out
  <2>3. total[0] = 0
    BY <1>2, <1>7
  <2>4. m \in 1 .. n /\ total[m] \notin Nat
    BY <1>2, <2>2, <2>3
  <2>5. m - 1 \in 0 .. n /\ m - 1 \notin Out
    BY <1>2, <2>1, <2>2, <2>4
  <2>6. total[m - 1] \in Nat
    BY <2>5
  <2>7. total[m] = total[m - 1] + (IF m \in recent THEN logs[m].latency ELSE 0)
    BY <1>2, <1>7, <2>4
  <2> QED
    BY <1>3, <2>4, <2>6, <2>7
<1>9. CASE recent # {}
  <2>1. recent \subseteq 0 .. n
    BY <1>2 DEF recent, RecentOf, n
  <2>2. IsFiniteSet(0 .. n)
    BY <1>2, FS_Interval
  <2>3. IsFiniteSet(recent)
    BY <2>1, <2>2, FS_Subset
  <2>4. Cardinality(recent) \in Nat \ {0}
    BY <1>9, <2>3, FS_CardinalityType, FS_EmptySet
  <2>5. total[n] \in Nat
    BY <1>2, <1>8
  <2> QED
    BY <1>1, <1>9, <2>4, <2>5, RoundedNat
<1> QED
  BY <1>1, <1>9
-----------------------------------------------------------------------------
(* Types.  They come with what the requests know: every value a request    *)
(* has read, from the cache or from a provider, is the one published for   *)
(* the series, the cluster and the hour it is reading, and the data it     *)
(* chooses by are readings of its own hour.                                *)

SnapshotKeys == Tests \X Clusters \X Hours

ConfigTypes ==
    /\ config \in 0 .. MaxTests
    /\ hour \in Hours
    /\ starting \in {"no", "reset", "named"}
    /\ starting # "no" => config < MaxTests

CacheTypes ==
    /\ DOMAIN cache = Keys /\ cache = [k \in Keys |-> cache[k]]
    /\ \A s \in SeriesNames, c \in Clusters, h \in Hours :
          cache[<<s, c, h>>] \in {Absent, Market[s][c][h]}

SnapshotTypes ==
    /\ logged_hours \subseteq SnapshotKeys
    /\ saved \cup lost \subseteq logged_hours \X Requests

RequestTypes ==
    /\ mine \in [Requests -> Tests \cup {NoTest}]
    /\ my_hour \in [Requests -> Hours]
    /\ avg \in [Requests -> [Clusters -> Nat]]
    /\ filing \in [Requests -> SnapshotKeys \cup {NoSnapshot}]
    /\ chosen \in [Requests -> Clusters \cup {NoCluster}]
    /\ DOMAIN got = Requests /\ \A r \in Requests : IsSeq(got[r])

Filing(r) ==
    /\ pc[r] \in CollectPcs => mine[r] # NoTest
    /\ pc[r] \in {"add", "save"} => filing[r] \in SnapshotKeys
    /\ pc[r] = "save" => filing[r] \in logged_hours

Got(r) ==
    /\ Len(got[r]) <= Len(Series)
    /\ pc[r] = "new" => got[r] = <<>>
    /\ pc[r] \in {"lookup", "fetch"} => Len(got[r]) < Len(Series)
    /\ pc[r] \in CollectPcs \ {"lookup", "fetch"} => Len(got[r]) = Len(Series)
    /\ pc[r] \in CollectPcs =>
          \A i \in 1 .. Len(got[r]) :
              got[r][i] = Market[Series[i]][At(r)][my_hour[r]]

Read(r) ==
    /\ Len(data[r]) <= NClusters
    /\ pc[r] = "choose" => Len(data[r]) = NClusters
    /\ \A c \in 1 .. Len(data[r]) : \E nodes \in Polls, ms \in Nat :
          data[r][c] = Reading(c, my_hour[r], nodes, ms)

TypeInv ==
    /\ MarketInv
    /\ ConfigTypes /\ CacheTypes /\ SnapshotTypes /\ RequestTypes /\ LogTypes
    /\ \A r \in Requests : Filing(r) /\ Got(r) /\ Read(r)

LEMMA Constants ==
  /\ NClusters \in Nat \ {0} /\ MaxHour \in Nat \ {0} /\ MaxTests \in Nat
  /\ NClusters \in Clusters /\ 1 \in Hours
  /\ Len(Series) \in Nat \ {0} /\ DOMAIN Series = 1 .. Len(Series)
  /\ \A i \in 1 .. Len(Series) : Series[i] \in SeriesNames
  /\ SeriesNames \subseteq {"power", "carbon", "price"}
  /\ \A s \in SeriesNames, c \in Clusters, h \in Hours : Market[s][c][h] \in Nat
<1>1. /\ NClusters \in Nat \ {0} /\ MaxHour \in Nat \ {0} /\ MaxTests \in Nat
      /\ NClusters \in Clusters /\ 1 \in Hours
  BY RuntimeDataAssumption, TestsAssumption DEF Clusters, Hours
<1>2. Series \in Seq({"power", "carbon", "price"}) /\ Series # <<>>
  BY RuntimeDataAssumption
<1>3. Len(Series) \in Nat \ {0} /\ DOMAIN Series = 1 .. Len(Series)
  BY <1>2
<1>4. /\ \A i \in 1 .. Len(Series) : Series[i] \in SeriesNames
      /\ SeriesNames \subseteq {"power", "carbon", "price"}
  BY <1>2, <1>3 DEF SeriesNames
<1>5. \A s \in SeriesNames, c \in Clusters, h \in Hours : Market[s][c][h] \in Nat
  BY RuntimeDataAssumption
<1> QED
  BY <1>1, <1>3, <1>4, <1>5

(* What is published of a series, 0 when the instance leaves it out. *)
Published(s, c, h) == IF s \in SeriesNames THEN Market[s][c][h] ELSE 0

LEMMA ValueIsPublished ==
  ASSUME NEW values, NEW c \in Clusters, NEW h \in Hours, NEW s,
         \A i \in 1 .. Len(Series) : values[i] = Market[Series[i]][c][h]
  PROVE  Value(values, s) = Published(s, c, h) /\ Value(values, s) \in Nat
<1>1. CASE s \in SeriesNames
  <2> DEFINE i == CHOOSE j \in DOMAIN Series : Series[j] = s
  <2>1. \E j \in DOMAIN Series : Series[j] = s
    BY <1>1 DEF SeriesNames
  <2>2. i \in DOMAIN Series /\ Series[i] = s
    BY <2>1
  <2>3. Value(values, s) = values[i]
    BY <1>1 DEF Value
  <2> HIDE DEF i
  <2>4. values[i] = Market[s][c][h]
    BY <2>2, Constants
  <2> QED
    BY <1>1, <2>3, <2>4, Constants DEF Published
<1>2. CASE s \notin SeriesNames
  BY <1>2 DEF Value, Published
<1> QED
  BY <1>1, <1>2

AllPublished(values, c, h) ==
    \A i \in 1 .. Len(Series) : values[i] = Market[Series[i]][c][h]

(* Data put together from published values are a reading.                  *)
LEMMA DataIsReading ==
  ASSUME NEW values, NEW c \in Clusters, NEW h \in Hours, NEW nodes, NEW ms,
         AllPublished(values, c, h)
  PROVE  RuntimeDataOf(values, c, nodes, ms) = Reading(c, h, nodes, ms)
<1> DEFINE published == [i \in DOMAIN Series |-> Market[Series[i]][c][h]]
<1>1. \A i \in 1 .. Len(Series) : published[i] = Market[Series[i]][c][h]
  BY Constants
<1>2. Reading(c, h, nodes, ms) = RuntimeDataOf(published, c, nodes, ms)
  BY DEF Reading
<1> HIDE DEF published
<1>3. \A s : Value(values, s) = Published(s, c, h) /\ Value(published, s) = Published(s, c, h)
  BY <1>1, ValueIsPublished DEF AllPublished
<1> QED
  BY <1>2, <1>3 DEF RuntimeDataOf

LEMMA ReadingType ==
  ASSUME NEW c \in Clusters, NEW h \in Hours, NEW nodes \in Polls, NEW ms \in Nat
  PROVE  Reading(c, h, nodes, ms) \in RuntimeDatas
<1> DEFINE published == [i \in DOMAIN Series |-> Market[Series[i]][c][h]]
<1>1. \A i \in 1 .. Len(Series) : published[i] = Market[Series[i]][c][h]
  BY Constants
<1>2. Reading(c, h, nodes, ms) = RuntimeDataOf(published, c, nodes, ms)
  BY DEF Reading
<1> HIDE DEF published
<1>3. \A s : Value(published, s) \in Nat
  BY <1>1, ValueIsPublished
<1>4. compute_cluster_load(nodes[1], nodes[2]) + BaseLoad[c] \in Nat
  <2>1. nodes[1] \in Nat /\ nodes[2] \in Nat /\ BaseLoad[c] \in Nat
    BY RuntimeDataAssumption
  <2>2. nodes[1] * NODE_POWER_ACTIVE_W \in Nat /\ nodes[2] * NODE_POWER_IDLE_W \in Nat
    BY <2>1, ScoringAssumption
  <2> QED
    BY <2>1, <2>2 DEF compute_cluster_load
<1> QED
  BY <1>2, <1>3, <1>4 DEF RuntimeDataOf, RuntimeDatas
(* What a request may choose by. *)
LEMMA ChoiceData ==
  ASSUME TypeInv, NEW r \in Requests
  PROVE  /\ Len(data[r]) \in Nat
         /\ \A c \in 1 .. Len(data[r]) : data[r][c] \in RuntimeDatas
<1>1. Len(data[r]) \in Nat
  BY AppendFacts DEF TypeInv, MarketInv, Shape
<1>2. Len(data[r]) <= NClusters /\ my_hour[r] \in Hours
  BY DEF TypeInv, Read, RequestTypes
<1>3. ASSUME NEW c \in 1 .. Len(data[r]) PROVE data[r][c] \in RuntimeDatas
  <2>1. PICK nodes \in Polls, ms \in Nat : data[r][c] = Reading(c, my_hour[r], nodes, ms)
    BY DEF TypeInv, Read
  <2>2. c \in Clusters
    BY <1>1, <1>2, Constants DEF Clusters
  <2> QED
    BY <1>2, <2>1, <2>2, ReadingType
<1> QED
  BY <1>1, <1>3

LEMMA ChoiceType ==
  ASSUME TypeInv, NEW r \in Requests, pc[r] = "choose"
  PROVE  choose_cluster(data[r]) \in Clusters \cup {NoCluster}
<1>1. Len(data[r]) = NClusters
  BY DEF TypeInv, Read
<1>2. choose_cluster(data[r]) = 0 \/ FirstOfTheBest(choose_cluster(data[r]), data[r])
  BY ChoiceData, ChoosesTheFirstOfTheBest
<1> QED
  BY <1>1, <1>2 DEF FirstOfTheBest, On, Clusters, NoCluster

(* Where a request is reading. *)
LEMMA Reads ==
  ASSUME TypeInv, NEW r \in Requests, pc[r] \in CollectPcs
  PROVE  /\ At(r) \in Clusters /\ my_hour[r] \in Hours
         /\ config \in Tests /\ Snapshot(r) \in SnapshotKeys
         /\ IsSeq(got[r]) /\ Len(got[r]) \in Nat
         /\ pc[r] \in {"lookup", "fetch"} =>
               SeriesAt(r) \in SeriesNames /\ Key(r) \in Keys
<1>1. Len(data[r]) \in Nat /\ Len(data[r]) < NClusters
  BY ChoiceData DEF TypeInv, MarketInv, Progress
<1>2. At(r) \in Clusters /\ my_hour[r] \in Hours
  BY <1>1, Constants DEF At, Clusters, TypeInv, RequestTypes
<1>3. config \in Tests
  <2>1. mine[r] # NoTest /\ mine[r] \in Tests \cup {NoTest} /\ mine[r] <= config
    BY DEF TypeInv, Filing, RequestTypes, MarketInv, Progress
  <2>2. config \in 0 .. MaxTests
    BY DEF TypeInv, ConfigTypes
  <2> QED
    BY <2>1, <2>2, Constants DEF Tests, NoTest
<1>4. Snapshot(r) \in SnapshotKeys
  BY <1>2, <1>3 DEF Snapshot, SnapshotKeys
<1>5. IsSeq(got[r])
  BY DEF TypeInv, RequestTypes
<1>6. Len(got[r]) \in Nat
  BY <1>5, AppendFacts
<1>7. ASSUME pc[r] \in {"lookup", "fetch"}
      PROVE  SeriesAt(r) \in SeriesNames /\ Key(r) \in Keys
  <2>1. Len(got[r]) < Len(Series)
    BY <1>7 DEF TypeInv, Got
  <2>2. SeriesAt(r) \in SeriesNames
    BY <1>6, <2>1, Constants DEF SeriesAt
  <2> QED
    BY <1>2, <2>2 DEF Key, Keys
<1> QED
  BY <1>2, <1>3, <1>4, <1>5, <1>6, <1>7

LEMMA ConfigTypesStep ==
  ASSUME TypeInv, [Next]_vars
  PROVE  ConfigTypes'
<1> USE DEF ConfigTypes
<1>0. ConfigTypes /\ config \in 0 .. MaxTests /\ 1 \in Hours
  BY Constants DEF TypeInv
<1>1. ASSUME NEW r \in Requests, handle_llm_request(r) PROVE ConfigTypes'
  <2>1. UNCHANGED <<config, hour, starting>>
    BY <1>1 DEF handle_llm_request, Begin, BeginUnconfigured, Collect, Choose,
                ClusterAnswers, ClusterFails, AnswerIncomplete, Fail,
                get_cluster_runtime_data, Hit, Miss, Fetched, CollectFails, Take,
                SnapshotKnown, SnapshotNew, AddHour, SaveSnapshot, SaveFails, Poll
  <2> QED
    BY <1>0, <2>1
<1>2. CASE ResetMarketData \/ SetLogId
  BY <1>0, <1>2, Constants DEF ResetMarketData, SetLogId, dataVars
<1>3. CASE StoreConfig
  BY <1>0, <1>3, Constants DEF StoreConfig
<1>4. CASE HourPasses
  BY <1>0, <1>4, Constants DEF HourPasses, Hours
<1>5. CASE UNCHANGED vars
  BY <1>0, <1>5 DEF vars, dataVars
<1> QED
  BY <1>1, <1>2, <1>3, <1>4, <1>5 DEF Next, start_test

LEMMA CacheStep ==
  ASSUME TypeInv, [Next]_vars
  PROVE  CacheTypes'
<1>0. CacheTypes
  BY DEF TypeInv
<1>1. CASE UNCHANGED cache
  BY <1>0, <1>1 DEF CacheTypes
<1>2. CASE ResetMarketData
  <2>1. cache' = [k \in Keys |-> Absent]
    BY <1>2 DEF ResetMarketData
  <2>2. ASSUME NEW t \in SeriesNames, NEW c \in Clusters, NEW h \in Hours
        PROVE  cache'[<<t, c, h>>] = Absent
    BY <2>1 DEF Keys
  <2> QED
    BY <2>1, <2>2 DEF CacheTypes
<1>3. ASSUME NEW r \in Requests, Fetched(r) PROVE CacheTypes'
  <2>1. pc[r] = "fetch"
    BY <1>3 DEF Fetched
  <2>2. /\ SeriesAt(r) \in SeriesNames /\ At(r) \in Clusters /\ my_hour[r] \in Hours
        /\ Key(r) \in Keys
    BY <2>1, Reads DEF CollectPcs
  <2>3. cache' = [cache EXCEPT ![Key(r)] = Market[SeriesAt(r)][At(r)][my_hour[r]]]
    BY <1>3 DEF Fetched
  <2>4. DOMAIN cache' = Keys /\ cache' = [k \in Keys |-> cache'[k]]
    BY <1>0, <2>3 DEF CacheTypes
  <2>5. ASSUME NEW t \in SeriesNames, NEW c \in Clusters, NEW h \in Hours
        PROVE  cache'[<<t, c, h>>] \in {Absent, Market[t][c][h]}
    <3>0. <<t, c, h>> \in Keys /\ cache[<<t, c, h>>] \in {Absent, Market[t][c][h]}
      BY <1>0 DEF Keys, CacheTypes
    <3>1. CASE <<t, c, h>> = Key(r)
      <4>1. t = SeriesAt(r) /\ c = At(r) /\ h = my_hour[r]
        BY <3>1 DEF Key
      <4> QED
        BY <1>0, <2>3, <3>0, <3>1, <4>1 DEF CacheTypes
    <3>2. CASE <<t, c, h>> # Key(r)
      BY <1>0, <2>3, <3>0, <3>2 DEF CacheTypes
    <3> QED
      BY <3>1, <3>2
  <2> QED
    BY <2>4, <2>5 DEF CacheTypes
<1>4. ASSUME NEW r \in Requests, handle_llm_request(r) PROVE CacheTypes'
  <2>1. UNCHANGED cache \/ Fetched(r)
    BY <1>4 DEF handle_llm_request, Begin, BeginUnconfigured, Collect, Choose,
                ClusterAnswers, ClusterFails, AnswerIncomplete, Fail,
                get_cluster_runtime_data, Hit, Miss, CollectFails,
                SnapshotKnown, SnapshotNew, AddHour, SaveSnapshot, SaveFails, Poll
  <2> QED
    BY <1>1, <1>3, <2>1
<1>5. CASE SetLogId \/ StoreConfig \/ HourPasses \/ UNCHANGED vars
  BY <1>1, <1>5 DEF SetLogId, StoreConfig, HourPasses, vars, dataVars
<1> QED
  BY <1>2, <1>4, <1>5 DEF Next, start_test

LEMMA SnapshotTypesStep ==
  ASSUME TypeInv, [Next]_vars
  PROVE  SnapshotTypes'
<1> USE DEF SnapshotTypes
<1>0. SnapshotTypes
  BY DEF TypeInv
<1>1. CASE UNCHANGED <<logged_hours, saved, lost>>
  BY <1>0, <1>1
<1>2. ASSUME NEW r \in Requests, AddHour(r) PROVE SnapshotTypes'
  <2>1. filing[r] \in SnapshotKeys
    BY <1>2 DEF AddHour, TypeInv, Filing
  <2> QED
    BY <1>0, <1>2, <2>1 DEF AddHour
<1>3. ASSUME NEW r \in Requests, SaveSnapshot(r) \/ SaveFails(r) PROVE SnapshotTypes'
  <2>1. filing[r] \in logged_hours
    BY <1>3 DEF SaveSnapshot, SaveFails, TypeInv, Filing
  <2> QED
    BY <1>0, <1>3, <2>1 DEF SaveSnapshot, SaveFails
<1>4. ASSUME NEW r \in Requests, handle_llm_request(r) PROVE SnapshotTypes'
  <2>1. \/ UNCHANGED <<logged_hours, saved, lost>>
        \/ AddHour(r) \/ SaveSnapshot(r) \/ SaveFails(r)
    BY <1>4 DEF handle_llm_request, Begin, BeginUnconfigured, Collect, Choose,
                ClusterAnswers, ClusterFails, AnswerIncomplete, Fail,
                get_cluster_runtime_data, Hit, Miss, Fetched, CollectFails, Take,
                SnapshotKnown, SnapshotNew, Poll
  <2> QED
    BY <1>1, <1>2, <1>3, <2>1
<1>5. CASE start_test \/ HourPasses \/ UNCHANGED vars
  BY <1>1, <1>5 DEF start_test, ResetMarketData, SetLogId, StoreConfig, HourPasses,
                    vars, dataVars
<1> QED
  BY <1>4, <1>5 DEF Next
LEMMA RequestTypesStep ==
  ASSUME TypeInv, [Next]_vars
  PROVE  RequestTypes'
<1>0. RequestTypes
  BY DEF TypeInv
<1>1. CASE UNCHANGED <<mine, my_hour, avg, filing, chosen, got>>
  BY <1>0, <1>1 DEF RequestTypes
<1>2. ASSUME NEW r \in Requests, Begin(r) PROVE RequestTypes'
  <2>1. /\ mine' = [mine EXCEPT ![r] = config]
        /\ my_hour' = [my_hour EXCEPT ![r] = hour]
        /\ filing' = filing /\ chosen' = chosen /\ got' = got /\ config # NoTest
    BY <1>2 DEF Begin
  <2>2. config \in Tests /\ hour \in Hours
    BY <2>1, Constants DEF TypeInv, ConfigTypes, Tests, NoTest
  <2>3. PICK k \in 1 .. Len(logs) + 1 :
            avg' = [avg EXCEPT ![r] = [c \in Clusters |-> AvgLatency(c, config, k)]]
    BY <1>2 DEF Begin
  <2>4. Len(logs) \in Nat /\ LogTypes
    BY AppendFacts DEF TypeInv, LogTypes
  <2>5. k \in Nat
    BY <2>3, <2>4
  <2>6. \A c \in Clusters : AvgLatency(c, config, k) \in Nat
    BY <2>4, <2>5, AverageType
  <2>7. [c \in Clusters |-> AvgLatency(c, config, k)] \in [Clusters -> Nat]
    BY <2>6
  <2>8. avg' \in [Requests -> [Clusters -> Nat]]
    BY <1>0, <2>3, <2>7 DEF RequestTypes
  <2> QED
    BY <1>0, <2>1, <2>2, <2>8 DEF RequestTypes
<1>3. ASSUME NEW r \in Requests, Collect(r) PROVE RequestTypes'
  <2>1. UNCHANGED <<mine, my_hour, avg, chosen>>
    BY <1>3 DEF Collect, get_cluster_runtime_data, Hit, Miss, Fetched, CollectFails,
                SnapshotKnown, SnapshotNew, AddHour, SaveSnapshot, SaveFails, Poll
  <2>2. filing' \in [Requests -> SnapshotKeys \cup {NoSnapshot}]
    <3>1. CASE UNCHANGED filing
      BY <1>0, <3>1 DEF RequestTypes
    <3>2. CASE SnapshotNew(r)
      <4>1. Snapshot(r) \in SnapshotKeys
        BY <3>2, Reads DEF SnapshotNew, CollectPcs
      <4> QED
        BY <1>0, <3>2, <4>1 DEF SnapshotNew, RequestTypes
    <3>3. CASE SaveSnapshot(r) \/ SaveFails(r)
      BY <1>0, <3>3 DEF SaveSnapshot, SaveFails, RequestTypes
    <3> QED
      BY <1>3, <3>1, <3>2, <3>3
         DEF Collect, get_cluster_runtime_data, Hit, Miss, Fetched, CollectFails,
             SnapshotKnown, AddHour, Poll
  <2>3. DOMAIN got' = Requests /\ \A q \in Requests : IsSeq(got'[q])
    <3>1. CASE UNCHANGED got
      BY <1>0, <3>1 DEF RequestTypes
    <3>2. CASE Hit(r) \/ Fetched(r)
      <4>1. PICK v : got' = [got EXCEPT ![r] = Append(got[r], v)]
        BY <3>2 DEF Hit, Fetched, Take
      <4>2. IsSeq(Append(got[r], v))
        BY <1>0, AppendFacts DEF RequestTypes
      <4> QED
        BY <1>0, <4>1, <4>2 DEF RequestTypes
    <3>3. CASE Poll(r)
      BY <1>0, <3>3, EmptyIsSeq DEF Poll, RequestTypes
    <3> QED
      BY <1>3, <3>1, <3>2, <3>3
         DEF Collect, get_cluster_runtime_data, Miss, CollectFails,
             SnapshotKnown, SnapshotNew, AddHour, SaveSnapshot, SaveFails
  <2> QED
    BY <1>0, <2>1, <2>2, <2>3 DEF RequestTypes
<1>4. ASSUME NEW r \in Requests, Choose(r) PROVE RequestTypes'
  <2>1. choose_cluster(data[r]) \in Clusters \cup {NoCluster}
    BY <1>4, ChoiceType DEF Choose
  <2> QED
    BY <1>0, <1>4, <2>1 DEF Choose, RequestTypes
<1>5. ASSUME NEW r \in Requests, Fail(r) PROVE RequestTypes'
  <2>1. [c \in Clusters |-> 0] \in [Clusters -> Nat]
    OBVIOUS
  <2> QED
    BY <1>0, <1>5, <2>1, EmptyIsSeq DEF Fail, RequestTypes
<1>6. ASSUME NEW r \in Requests, handle_llm_request(r) PROVE RequestTypes'
  <2>1. CASE BeginUnconfigured(r) \/ ClusterAnswers(r) \/ ClusterFails(r) \/ AnswerIncomplete(r)
    BY <1>1, <2>1 DEF BeginUnconfigured, ClusterAnswers, ClusterFails, AnswerIncomplete
  <2> QED
    BY <1>2, <1>3, <1>4, <1>5, <1>6, <2>1 DEF handle_llm_request
<1>7. CASE start_test \/ HourPasses \/ UNCHANGED vars
  BY <1>1, <1>7 DEF start_test, ResetMarketData, SetLogId, StoreConfig, HourPasses,
                    vars, dataVars
<1> QED
  BY <1>6, <1>7 DEF Next

LEMMA LogTypesStep ==
  ASSUME TypeInv, [Next]_vars
  PROVE  LogTypes'
<1>0. LogTypes
  BY DEF TypeInv
<1>1. CASE UNCHANGED logs
  BY <1>0, <1>1 DEF LogTypes
<1>2. log_id \in Tests \cup {NoTest}
  <2>1. /\ config \in 0 .. MaxTests /\ (starting # "no" => config < MaxTests)
        /\ (starting = "named" => log_id = config + 1)
        /\ (starting # "named" => log_id = config)
    BY DEF TypeInv, ConfigTypes, MarketInv, LogIdLeads
  <2> QED
    BY <2>1, Constants DEF Tests, NoTest
<1>3. ASSUME NEW r \in Requests, NEW c \in Clusters \cup {NoCluster}, NEW success \in BOOLEAN,
             NEW ms \in Nat, log_request(r, c, success, ms)
      PROVE  LogTypes'
  <2> DEFINE row == [by |-> r, cluster |-> c, success |-> success, latency |-> ms,
                     test |-> log_id]
  <2>1. row \in LogRows
    BY <1>2 DEF LogRows
  <2>2. logs' = Append(logs, row) \/ logs' = logs
    BY <1>3 DEF log_request
  <2> HIDE DEF row
  <2>3. CASE logs' = Append(logs, row)
    <3>1. /\ IsSeq(logs') /\ Len(logs) \in Nat
          /\ DOMAIN logs = 1 .. Len(logs) /\ DOMAIN logs' = 1 .. Len(logs) + 1
          /\ \A i \in 1 .. Len(logs) : logs'[i] = logs[i]
          /\ logs'[Len(logs) + 1] = row
      BY <1>0, <2>3, AppendFacts DEF LogTypes
    <3> QED
      BY <1>0, <2>1, <3>1 DEF LogTypes
  <2> QED
    BY <1>1, <2>2, <2>3
<1>4. ASSUME NEW r \in Requests, handle_llm_request(r) PROVE LogTypes'
  <2>1. chosen[r] \in Clusters \cup {NoCluster}
    BY DEF TypeInv, RequestTypes
  <2>2. CASE ClusterAnswers(r)
    <3>1. PICK ms \in Latencies : log_request(r, chosen[r], TRUE, ms)
      BY <2>2 DEF ClusterAnswers
    <3>2. ms \in Nat
      BY LatenciesAssumption
    <3> QED
      BY <1>3, <2>1, <3>1, <3>2
  <2>3. CASE ClusterFails(r)
    <3>1. PICK ms \in Latencies : log_request(r, chosen[r], FALSE, ms)
      BY <2>3 DEF ClusterFails
    <3>2. ms \in Nat
      BY LatenciesAssumption
    <3> QED
      BY <1>3, <2>1, <3>1, <3>2
  <2>4. CASE Fail(r)
    <3>1. PICK ms \in Latencies \cup {0} : log_request(r, NamedCluster(r), FALSE, ms)
      BY <2>4 DEF Fail
    <3>2. ms \in Nat
      BY LatenciesAssumption
    <3>3. NamedCluster(r) \in Clusters \cup {NoCluster}
      BY <2>1, Constants DEF NamedCluster
    <3> QED
      BY <1>3, <3>1, <3>2, <3>3
  <2>5. CASE Begin(r) \/ BeginUnconfigured(r) \/ Collect(r) \/ Choose(r) \/ AnswerIncomplete(r)
    BY <1>1, <2>5 DEF Begin, BeginUnconfigured, Collect, Choose, AnswerIncomplete
  <2> QED
    BY <1>4, <2>2, <2>3, <2>4, <2>5 DEF handle_llm_request
<1>5. CASE start_test \/ HourPasses \/ UNCHANGED vars
  BY <1>1, <1>5 DEF start_test, ResetMarketData, SetLogId, StoreConfig, HourPasses,
                    vars, dataVars
<1> QED
  BY <1>4, <1>5 DEF Next

(* The requests one by one. *)
Own(r) == Filing(r) /\ Got(r) /\ Read(r)

LEMMA OwnStays ==
  ASSUME NEW q \in Requests, Own(q), logged_hours \subseteq logged_hours',
         pc'[q] = pc[q], mine'[q] = mine[q], my_hour'[q] = my_hour[q],
         data'[q] = data[q], filing'[q] = filing[q], got'[q] = got[q]
  PROVE  Own(q)'
<1>1. Filing(q)'
  BY DEF Own, Filing
<1>2. At(q)' = At(q)
  BY DEF At
<1>3. Got(q)'
  BY <1>2 DEF Own, Got
<1>4. Read(q)'
  BY DEF Own, Read
<1> QED
  BY <1>1, <1>3, <1>4 DEF Own

(* A request that reads no more need only keep what it has.                *)
LEMMA OwnAtRest ==
  ASSUME Shape, Shape', NEW r \in Requests, Own(r),
         pc'[r] \notin CollectPcs \cup {"new", "choose"},
         got'[r] \in {got[r], <<>>}, data'[r] \in {data[r], <<>>}, my_hour'[r] = my_hour[r]
  PROVE  Own(r)'
<1>1. Filing(r)'
  BY DEF Filing, CollectPcs
<1>2. Len(<<>>) = 0 /\ NClusters \in Nat /\ Len(Series) \in Nat
  BY Constants
<1>3. Got(r)'
  BY <1>2 DEF Own, Got, CollectPcs
<1>4. Read(r)'
  BY <1>2 DEF Own, Read, CollectPcs
<1> QED
  BY <1>1, <1>3, <1>4 DEF Own
(* What a step of r does for r itself. *)
LEMMA OwnTypes ==
  ASSUME TypeInv, Shape', NEW r \in Requests, handle_llm_request(r)
  PROVE  Own(r)'
<1>0. /\ Shape /\ RequestTypes /\ Own(r) /\ Progress(r)
      /\ NClusters \in Nat \ {0} /\ Len(Series) \in Nat \ {0}
      /\ Len(<<>>) = 0
      /\ IsSeq(got[r]) /\ Len(got[r]) \in Nat /\ Len(data[r]) \in Nat
  BY Constants, ChoiceData, AppendFacts DEF TypeInv, Own, MarketInv, RequestTypes
<1>1. CASE Begin(r)
  <2>1. /\ pc[r] = "new" /\ pc'[r] = "lookup" /\ mine'[r] = config /\ config # NoTest
        /\ got'[r] = <<>> /\ data'[r] = <<>>
    BY <1>0, <1>1 DEF Begin, Goto, Shape, RequestTypes, Own, Got, Progress
  <2> QED
    BY <1>0, <2>1 DEF Own, Filing, Got, Read
<1>2. CASE BeginUnconfigured(r) \/ AnswerIncomplete(r) \/ ClusterAnswers(r) \/ ClusterFails(r)
  <2>1. /\ pc'[r] \in {"failing", "ok"}
        /\ got'[r] = got[r] /\ data'[r] = data[r] /\ my_hour'[r] = my_hour[r]
    BY <1>0, <1>2 DEF BeginUnconfigured, AnswerIncomplete, ClusterAnswers, ClusterFails,
                      Goto, Shape
  <2> QED
    BY <1>0, <2>1, OwnAtRest DEF CollectPcs
<1>3. CASE Choose(r) \/ Fail(r)
  <2>1. /\ got'[r] \in {got[r], <<>>} /\ data'[r] = <<>> /\ my_hour'[r] = my_hour[r]
    BY <1>0, <1>3 DEF Choose, Fail, Shape, RequestTypes
  <2>2. CASE Choose(r)
    <3>1. \E place \in {"failing", "post"} : pc' = [pc EXCEPT ![r] = place]
      BY <2>2, Zenon DEF Choose, Goto
    <3> QED
      BY <1>0, <2>1, <3>1, OwnAtRest DEF CollectPcs, Shape
  <2>3. CASE Fail(r)
    <3>1. pc'[r] = "failed"
      BY <1>0, <2>3 DEF Fail, Goto, Shape
    <3> QED
      BY <1>0, <2>1, <3>1, OwnAtRest DEF CollectPcs
  <2> QED
    BY <1>3, <2>2, <2>3
<1>4. CASE CollectFails(r) \/ SaveFails(r)
  <2>1. /\ pc'[r] = "failing"
        /\ got'[r] = got[r] /\ data'[r] = data[r] /\ my_hour'[r] = my_hour[r]
    BY <1>0, <1>4 DEF CollectFails, SaveFails, Goto, Shape
  <2> QED
    BY <1>0, <2>1, OwnAtRest DEF CollectPcs
<1>5. CASE Miss(r) \/ SnapshotKnown(r) \/ SnapshotNew(r) \/ AddHour(r) \/ SaveSnapshot(r)
  <2>1. /\ mine'[r] = mine[r] /\ my_hour'[r] = my_hour[r]
        /\ got'[r] = got[r] /\ data'[r] = data[r]
        /\ \/ pc[r] = "lookup" /\ pc'[r] = "fetch"
           \/ /\ pc[r] \in CollectPcs \ {"lookup", "fetch"}
              /\ pc'[r] \in CollectPcs \ {"lookup", "fetch"}
    BY <1>0, <1>5 DEF Miss, SnapshotKnown, SnapshotNew, AddHour, SaveSnapshot, Goto, Shape,
                      CollectPcs
  <2>2. At(r)' = At(r)
    BY <2>1 DEF At
  <2>3. Got(r)'
    BY <1>0, <2>1, <2>2 DEF Own, Got, CollectPcs
  <2>4. Read(r)'
    BY <1>0, <2>1 DEF Own, Read, CollectPcs
  <2>5. mine'[r] # NoTest
    BY <1>0, <2>1 DEF Own, Filing, CollectPcs
  <2>6. CASE Miss(r) \/ SnapshotKnown(r) \/ SaveSnapshot(r)
    <3>1. pc'[r] \in {"fetch", "poll"}
      BY <1>0, <2>6 DEF Miss, SnapshotKnown, SaveSnapshot, Goto, Shape
    <3> QED
      BY <2>3, <2>4, <2>5, <3>1 DEF Own, Filing
  <2>7. CASE SnapshotNew(r)
    <3>1. pc'[r] = "add" /\ filing'[r] = Snapshot(r) /\ Snapshot(r) \in SnapshotKeys
      BY <1>0, <2>7, Reads DEF SnapshotNew, Goto, Shape, CollectPcs
    <3> QED
      BY <2>3, <2>4, <2>5, <3>1 DEF Own, Filing
  <2>8. CASE AddHour(r)
    <3>1. /\ pc[r] = "add" /\ pc'[r] = "save" /\ filing'[r] = filing[r]
          /\ filing[r] \in logged_hours'
      BY <1>0, <2>8 DEF AddHour, Goto, Shape
    <3> QED
      BY <1>0, <2>3, <2>4, <2>5, <3>1 DEF Own, Filing
  <2> QED
    BY <1>5, <2>6, <2>7, <2>8
<1>6. CASE Hit(r) \/ Fetched(r)
  <2>1. pc[r] \in {"lookup", "fetch"} /\ pc[r] \in CollectPcs /\ Len(got[r]) < Len(Series)
    BY <1>0, <1>6 DEF Hit, Fetched, CollectPcs, Own, Got
  <2>2. /\ SeriesAt(r) \in SeriesNames /\ At(r) \in Clusters /\ my_hour[r] \in Hours
        /\ SeriesAt(r) = Series[Len(got[r]) + 1]
    BY <2>1, Reads DEF SeriesAt
  <2>3. PICK v : /\ Take(r, v)
                 /\ v = Market[SeriesAt(r)][At(r)][my_hour[r]]
    <3>1. CASE Hit(r)
      <4>1. cache[Key(r)] \in {Absent, Market[SeriesAt(r)][At(r)][my_hour[r]]}
        BY <2>2 DEF TypeInv, CacheTypes, Key
      <4> QED
        BY <3>1, <4>1 DEF Hit
    <3>2. CASE Fetched(r)
      BY <3>2 DEF Fetched
    <3> QED
      BY <1>6, <3>1, <3>2
  <2>4. /\ mine'[r] = mine[r] /\ my_hour'[r] = my_hour[r] /\ data'[r] = data[r]
    BY <1>6 DEF Hit, Fetched
  <2>5. got'[r] = Append(got[r], v)
    BY <1>0, <2>3 DEF Take, RequestTypes
  <2>6. pc'[r] = IF Len(got[r]) + 1 = Len(Series) THEN "snapshot" ELSE "lookup"
    BY <1>0, <2>3 DEF Take, Goto, Shape
  <2>7. /\ Len(got'[r]) = Len(got[r]) + 1
        /\ \A i \in 1 .. Len(got[r]) : got'[r][i] = got[r][i]
        /\ got'[r][Len(got[r]) + 1] = v
    BY <1>0, <2>5, AppendFacts
  <2>8. At(r)' = At(r)
    BY <2>4 DEF At
  <2>9. \A i \in 1 .. Len(got[r]) + 1 :
            got'[r][i] = Market[Series[i]][At(r)][my_hour[r]]
    <3> TAKE i \in 1 .. Len(got[r]) + 1
    <3>1. i \in 1 .. Len(got[r]) \/ i = Len(got[r]) + 1
      BY <1>0
    <3>2. \A j \in 1 .. Len(got[r]) : got[r][j] = Market[Series[j]][At(r)][my_hour[r]]
      BY <1>0, <2>1 DEF Own, Got
    <3> QED
      BY <2>2, <2>3, <2>7, <3>1, <3>2
  <2>10. Got(r)'
    BY <1>0, <2>1, <2>4, <2>6, <2>7, <2>8, <2>9 DEF Got, CollectPcs
  <2>11. Read(r)'
    BY <1>0, <2>4, <2>6 DEF Own, Read
  <2>12. Filing(r)'
    BY <1>0, <2>1, <2>4, <2>6 DEF Own, Filing
  <2> QED
    BY <2>10, <2>11, <2>12 DEF Own
<1>7. CASE Poll(r)
  <2>1. pc[r] = "poll" /\ pc[r] \in CollectPcs
    BY <1>7 DEF Poll, CollectPcs
  <2>2. At(r) \in Clusters /\ my_hour[r] \in Hours /\ At(r) = Len(data[r]) + 1
    BY <2>1, Reads DEF At
  <2>3. PICK nodes \in Polls :
            data' = [data EXCEPT ![r] =
                        Append(@, RuntimeDataOf(got[r], At(r), nodes, avg[r][At(r)]))]
    BY <1>7 DEF Poll
  <2> DEFINE reading == RuntimeDataOf(got[r], At(r), nodes, avg[r][At(r)])
  <2>4. avg[r][At(r)] \in Nat
    BY <1>0, <2>2 DEF RequestTypes
  <2>5. reading = Reading(At(r), my_hour[r], nodes, avg[r][At(r)])
    <3>1. Len(got[r]) = Len(Series)
      BY <1>0, <2>1 DEF Own, Got, CollectPcs
    <3>2. \A i \in 1 .. Len(Series) : got[r][i] = Market[Series[i]][At(r)][my_hour[r]]
      BY <1>0, <2>1, <3>1 DEF Own, Got
    <3>3. AllPublished(got[r], At(r), my_hour[r])
      BY <3>2 DEF AllPublished
    <3>4. RuntimeDataOf(got[r], At(r), nodes, avg[r][At(r)])
            = Reading(At(r), my_hour[r], nodes, avg[r][At(r)])
      <4> DEFINE ms == avg[r][At(r)]
                 c == At(r)
                 h == my_hour[r]
                 values == got[r]
      <4>1. c \in Clusters /\ h \in Hours /\ AllPublished(values, c, h)
        BY <2>2, <3>3
      <4> HIDE DEF ms, c, h, values
      <4>2. RuntimeDataOf(values, c, nodes, ms) = Reading(c, h, nodes, ms)
        BY <4>1, DataIsReading
      <4> QED
        BY <4>2 DEF ms, c, h, values
    <3> QED
      BY <3>4
  <2>6. data'[r] = Append(data[r], reading)
    BY <1>0, <2>3 DEF Shape
  <2> HIDE DEF reading
  <2>7. /\ Len(data'[r]) = Len(data[r]) + 1
        /\ \A c \in 1 .. Len(data[r]) : data'[r][c] = data[r][c]
        /\ data'[r][Len(data[r]) + 1] = reading
    BY <1>0, <2>6, AppendFacts DEF Shape
  <2>8. /\ mine'[r] = mine[r] /\ my_hour'[r] = my_hour[r] /\ got'[r] = <<>>
        /\ pc'[r] = IF At(r) = NClusters THEN "choose" ELSE "lookup"
    BY <1>0, <1>7 DEF Poll, Goto, Shape, RequestTypes
  <2>9. Filing(r)'
    BY <1>0, <2>1, <2>8 DEF Own, Filing
  <2>10. Got(r)'
    BY <1>0, <2>8 DEF Got, CollectPcs
  <2>11. \A c \in 1 .. Len(data'[r]) : \E n \in Polls, ms \in Nat :
             data'[r][c] = Reading(c, my_hour'[r], n, ms)
    <3> TAKE c \in 1 .. Len(data'[r])
    <3>1. c \in 1 .. Len(data[r]) \/ c = At(r)
      BY <1>0, <2>2, <2>7
    <3>2. CASE c \in 1 .. Len(data[r])
      BY <1>0, <2>7, <2>8, <3>2 DEF Own, Read
    <3>3. CASE c = At(r)
      BY <2>2, <2>4, <2>5, <2>7, <2>8, <3>3
    <3> QED
      BY <3>1, <3>2, <3>3
  <2>12. Len(data[r]) < NClusters
    BY <1>0, <2>1 DEF Progress
  <2>13. Read(r)'
    BY <1>0, <2>2, <2>7, <2>8, <2>11, <2>12 DEF Read
  <2> QED
    BY <2>9, <2>10, <2>13 DEF Own
<1> QED
  BY <1>1, <1>2, <1>3, <1>4, <1>5, <1>6, <1>7
     DEF handle_llm_request, Collect, get_cluster_runtime_data

LEMMA OthersKeepTypes ==
  ASSUME TypeInv, NEW r \in Requests, handle_llm_request(r), NEW q \in Requests, q # r
  PROVE  Own(q)'
<1>1. Own(q) /\ Shape /\ RequestTypes
  BY DEF TypeInv, Own, MarketInv
<1>2. OnlyOf(r)
  BY <1>1, RequestStepsAreLocal
<1>3. got'[q] = got[q]
  BY <1>1 DEF RequestTypes, handle_llm_request, Begin, BeginUnconfigured, Collect, Choose,
              ClusterAnswers, ClusterFails, AnswerIncomplete, Fail,
              get_cluster_runtime_data, Hit, Miss, Fetched, CollectFails, Take,
              SnapshotKnown, SnapshotNew, AddHour, SaveSnapshot, SaveFails, Poll
<1> QED
  BY <1>1, <1>2, <1>3, OwnStays DEF OnlyOf

LEMMA TypeInvStep ==
  ASSUME TypeInv, [Next]_vars
  PROVE  TypeInv'
<1>1. MarketInv'
  BY MarketStep DEF TypeInv
<1>2. Shape'
  BY <1>1 DEF MarketInv
<1>3. ASSUME NEW q \in Requests PROVE Own(q)'
  <2>1. ASSUME NEW r \in Requests, handle_llm_request(r) PROVE Own(q)'
    BY <1>2, <2>1, OwnTypes, OthersKeepTypes
  <2>2. CASE start_test \/ HourPasses \/ UNCHANGED vars
    <3>1. /\ logged_hours' = logged_hours /\ pc' = pc /\ mine' = mine /\ my_hour' = my_hour
          /\ data' = data /\ filing' = filing /\ got' = got
      BY <2>2 DEF start_test, ResetMarketData, SetLogId, StoreConfig, HourPasses,
                  vars, dataVars
    <3>2. Own(q)
      BY DEF TypeInv, Own
    <3> QED
      BY <3>1, <3>2, OwnStays
  <2> QED
    BY <2>1, <2>2 DEF Next
<1> QED
  BY <1>1, <1>3, ConfigTypesStep, CacheStep, SnapshotTypesStep, RequestTypesStep, LogTypesStep
     DEF TypeInv, Own

LEMMA TypeInvInit == Init => TypeInv
<1> SUFFICES ASSUME Init PROVE TypeInv
  OBVIOUS
<1>1. MarketInv
  BY MarketInit
<1>2. ConfigTypes
  BY Constants DEF Init, ConfigTypes, NoTest
<1>3. CacheTypes
  BY DEF Init, CacheTypes, Keys
<1>4. SnapshotTypes
  BY DEF Init, SnapshotTypes
<1>5. RequestTypes
  <2>1. [c \in Clusters |-> 0] \in [Clusters -> Nat]
    OBVIOUS
  <2> QED
    BY <2>1, Constants, EmptyIsSeq DEF Init, RequestTypes
<1>6. LogTypes
  BY EmptyIsSeq DEF Init, LogTypes
<1>7. ASSUME NEW r \in Requests PROVE Filing(r) /\ Got(r) /\ Read(r)
  <2>1. pc[r] = "new" /\ got[r] = <<>> /\ data[r] = <<>>
    BY DEF Init
  <2>2. Len(<<>>) = 0
    OBVIOUS
  <2> QED
    BY <2>1, <2>2, Constants DEF Filing, Got, Read, CollectPcs
<1> QED
  BY <1>1, <1>2, <1>3, <1>4, <1>5, <1>6, <1>7 DEF TypeInv

LEMMA Typed == Spec => []TypeInv
BY TypeInvInit, TypeInvStep, PTL DEF Spec

LEMMA TypeInvGivesTypes ==
  ASSUME TypeInv
  PROVE  TypeOK
<1>1. config \in Tests \cup {NoTest} /\ hour \in Hours /\ starting \in {"no", "reset", "named"}
  BY Constants DEF TypeInv, ConfigTypes, Tests, NoTest
<1>2. log_id \in Tests \cup {NoTest}
  <2>1. /\ config \in 0 .. MaxTests /\ (starting # "no" => config < MaxTests)
        /\ (starting = "named" => log_id = config + 1)
        /\ (starting # "named" => log_id = config)
    BY DEF TypeInv, ConfigTypes, MarketInv, LogIdLeads
  <2> QED
    BY <2>1, Constants DEF Tests, NoTest
<1>3. cache \in [Keys -> Nat \cup {Absent}]
  <2>1. ASSUME NEW k \in Keys PROVE cache[k] \in Nat \cup {Absent}
    <3>1. PICK t \in SeriesNames, c \in Clusters, h \in Hours : k = <<t, c, h>>
      BY DEF Keys
    <3>2. cache[<<t, c, h>>] \in {Absent, Market[t][c][h]}
      BY DEF TypeInv, CacheTypes
    <3>3. Market[t][c][h] \in Nat
      BY Constants
    <3> QED
      BY <3>1, <3>2, <3>3
  <2> QED
    BY <2>1 DEF TypeInv, CacheTypes
<1>4. /\ logged_hours \subseteq Tests \X Clusters \X Hours
      /\ saved \cup lost \subseteq logged_hours \X Requests
  BY DEF TypeInv, SnapshotTypes, SnapshotKeys
<1>5. pc \in [Requests -> {"new", "choose", "post", "failing"} \cup CollectPcs \cup Answered]
  BY DEF TypeInv, MarketInv, Shape, Places
<1>6. /\ mine \in [Requests -> Tests \cup {NoTest}]
      /\ my_hour \in [Requests -> Hours]
      /\ avg \in [Requests -> [Clusters -> Nat]]
      /\ filing \in [Requests -> (Tests \X Clusters \X Hours) \cup {NoSnapshot}]
      /\ chosen \in [Requests -> Clusters \cup {NoCluster}]
  BY DEF TypeInv, RequestTypes, SnapshotKeys
<1>7. \A r \in Requests : Len(got[r]) <= Len(Series) /\ Len(data[r]) <= NClusters
  BY DEF TypeInv, Got, Read
<1>8. \A i \in DOMAIN logs :
         logs[i] \in [by : Requests, cluster : Clusters \cup {NoCluster},
                      success : BOOLEAN, latency : Nat, test : Tests \cup {NoTest}]
  BY DEF TypeInv, LogTypes, LogRows
<1> QED
  BY <1>1, <1>2, <1>3, <1>4, <1>5, <1>6, <1>7, <1>8 DEF TypeOK

(* Type correctness, for every market, every set of requests and any       *)
(* number of clusters, tests and hours; the cache holds what is published  *)
(* for its keys although tests replace it while requests read and fill it. *)
THEOREM ForwardingTypes == Spec => []TypeOK
<1>1. TypeInv => TypeOK
  BY TypeInvGivesTypes
<1> QED
  BY <1>1, Typed, PTL

-----------------------------------------------------------------------------
(* The choice *)

(* A request leaves "choose" by choosing. *)
LEMMA ChoosesToLeave ==
  ASSUME TypeInv, [Next]_vars, NEW r \in Requests, pc[r] = "choose", pc'[r] # "choose"
  PROVE  Choose(r)
<1>0. Shape
  BY DEF TypeInv, MarketInv
<1>1. ASSUME NEW q \in Requests, handle_llm_request(q) PROVE Choose(r)
  <2>1. q = r
    BY <1>0, <1>1, RequestStepsAreLocal DEF OnlyOf
  <2> QED
    BY <1>1, <2>1 DEF handle_llm_request, Begin, BeginUnconfigured, Collect,
                      ClusterAnswers, ClusterFails, AnswerIncomplete, Fail,
                      get_cluster_runtime_data, Hit, Miss, Fetched, CollectFails,
                      SnapshotKnown, SnapshotNew, AddHour, SaveSnapshot, SaveFails, Poll
<1>2. CASE start_test \/ HourPasses \/ UNCHANGED vars
  BY <1>2 DEF start_test, ResetMarketData, SetLogId, StoreConfig, HourPasses,
              vars, dataVars
<1> QED
  BY <1>1, <1>2 DEF Next

(* What it chooses, of the data of every cluster. *)
ChosenOf(r) ==
    /\ Len(data[r]) = NClusters
    /\ \/ On(data[r]) = {} /\ chosen'[r] = NoCluster /\ pc'[r] = "failing"
       \/ FirstOfTheBest(chosen'[r], data[r]) /\ pc'[r] = "post"

LEMMA ChoiceStep ==
  ASSUME TypeInv, [Next]_vars, NEW r \in Requests, pc[r] = "choose", pc'[r] # "choose"
  PROVE  ChosenOf(r)
<1>1. Choose(r) /\ Shape /\ RequestTypes
  BY ChoosesToLeave DEF TypeInv, MarketInv
<1>2. Len(data[r]) = NClusters
  BY DEF TypeInv, Read
<1>3. /\ chosen'[r] = choose_cluster(data[r])
      /\ pc'[r] = IF chosen'[r] = NoCluster THEN "failing" ELSE "post"
  BY <1>1 DEF Choose, Goto, Shape, RequestTypes
<1>4. \/ choose_cluster(data[r]) = 0 /\ On(data[r]) = {}
      \/ FirstOfTheBest(choose_cluster(data[r]), data[r])
  BY ChoiceData, ChoosesTheFirstOfTheBest
<1>5. FirstOfTheBest(choose_cluster(data[r]), data[r]) => choose_cluster(data[r]) # 0
  BY <1>2, Constants DEF FirstOfTheBest, On
<1> QED
  BY <1>2, <1>3, <1>4, <1>5 DEF ChosenOf, NoCluster

(* A request goes to the first of the best-scoring clusters that are on,   *)
(* of what it has read of all of them, and is refused only when all are    *)
(* off, whatever other requests and a start_test do meanwhile.             *)
THEOREM TakesTheFirstOfTheBest ==
  Spec => [][\A r \in Requests :
                pc[r] = "choose" /\ pc'[r] # "choose" => ChosenOf(r)]_vars
<1>1. TypeInv /\ [Next]_vars =>
         [\A r \in Requests : pc[r] = "choose" /\ pc'[r] # "choose" => ChosenOf(r)]_vars
  BY ChoiceStep
<1> QED
  BY <1>1, Typed, PTL DEF Spec

LEMMA CarbonIgnoresLatency ==
  ASSUME NEW c, NEW h, NEW nodes, NEW ms
  PROVE  compute_carbon_blend(Reading(c, h, nodes, ms))
           = compute_carbon_blend(Reading(c, h, nodes, 0))
BY DEF Reading, RuntimeDataOf, compute_carbon_blend, GridPower

(* Where carbon tells, the better of two readings of an hour scores more.  *)
LEMMA BetterScoresMore ==
  ASSUME CarbonTells, NEW c \in Clusters, NEW e \in Clusters, NEW h \in Hours,
         NEW m \in Polls, NEW n \in Polls, NEW ms \in Nat, NEW ns \in Nat,
         Better(Reading(c, h, m, ms), Reading(e, h, n, ns))
  PROVE  score_cluster(Reading(e, h, n, ns)) < score_cluster(Reading(c, h, m, ms))
<1> DEFINE d == Reading(c, h, m, ms)
           f == Reading(e, h, n, ns)
           less == compute_carbon_blend(Reading(c, h, m, 0))
           more == compute_carbon_blend(Reading(e, h, n, 0))
<1>1. ~LessEq(more, less) /\ LessEq(more, <<CARBON_REF_MAX, 1>>) =>
         W_GCO2 * (normalize_value(less, CARBON_REF_MAX)
                     - normalize_value(more, CARBON_REF_MAX)) >= WeightUnit
  BY DEF CarbonTells
<1>2. compute_carbon_blend(d) = less /\ compute_carbon_blend(f) = more
  BY CarbonIgnoresLatency
<1>3. d \in RuntimeDatas /\ f \in RuntimeDatas
  BY ReadingType
<1>4. Better(d, f)
  OBVIOUS
<1> HIDE DEF d, f, less, more
<1>5. AsGood(d, f) /\ ~LessEq(more, less) /\ LessEq(more, <<CARBON_REF_MAX, 1>>)
  BY <1>2, <1>4 DEF Better
<1>6. W_GCO2 * (CarbonWorth(d) - CarbonWorth(f)) >= WeightUnit
  BY <1>1, <1>2, <1>5 DEF CarbonWorth
<1>7. score_cluster(f) < score_cluster(d)
  BY <1>3, <1>5, <1>6, ScoreIsStrict
<1> QED
  BY <1>7 DEF d, f

LEMMA UndominatedStep ==
  ASSUME CarbonTells, TypeInv, NEW r \in Requests, FirstOfTheBest(chosen'[r], data[r]),
         Len(data[r]) = NClusters, NEW c \in On(data[r]) \ {chosen'[r]}
  PROVE  /\ c < chosen'[r] => ~AsGood(data[r][c], data[r][chosen'[r]])
         /\ ~Better(data[r][c], data[r][chosen'[r]])
<1> DEFINE choice == chosen'[r]
           d == data[r][c]
           f == data[r][choice]
<1>1. c \in Clusters /\ choice \in Clusters /\ c \in 1 .. Len(data[r])
      /\ choice \in 1 .. Len(data[r]) /\ my_hour[r] \in Hours
  BY Constants DEF FirstOfTheBest, On, Clusters, TypeInv, RequestTypes
<1>2. /\ score_cluster(d) <= score_cluster(f)
      /\ c < choice => score_cluster(d) < score_cluster(f)
  BY DEF FirstOfTheBest
<1>3. d \in RuntimeDatas /\ f \in RuntimeDatas
  BY <1>1, ChoiceData
<1>4. PICK m \in Polls, ms \in Nat : d = Reading(c, my_hour[r], m, ms)
  BY <1>1 DEF TypeInv, Read
<1>5. PICK n \in Polls, ns \in Nat : f = Reading(choice, my_hour[r], n, ns)
  BY <1>1 DEF TypeInv, Read
<1> HIDE DEF d, f, choice
<1>6. ASSUME c < choice, AsGood(d, f) PROVE FALSE
  <2>1. /\ score_cluster(d) \in Nat /\ score_cluster(f) \in Nat
        /\ score_cluster(f) <= score_cluster(d)
    BY <1>3, <1>6, ScoreIsMonotone
  <2> QED
    BY <1>2, <1>6, <2>1
<1>7. ASSUME Better(d, f) PROVE FALSE
  <2>1. AsGood(d, f)
    BY <1>7 DEF Better
  <2>2. score_cluster(d) \in Nat /\ score_cluster(f) \in Nat
    BY <1>3, <2>1, ScoreIsMonotone
  <2>3. score_cluster(f) < score_cluster(d)
    BY <1>1, <1>4, <1>5, <1>7, BetterScoresMore
  <2> QED
    BY <1>2, <2>2, <2>3
<1> QED
  BY <1>6, <1>7 DEF d, f, choice

(* What one request must not do, for the step that leaves "choose". *)
Undominated(r) ==
    LET on == {c \in Clusters : ~data[r][c].all_nodes_powered_off}
        choice == chosen'[r]
    IN  pc[r] = "choose" /\ pc'[r] # "choose" =>
            \/ on = {} /\ pc'[r] = "failing"
            \/ /\ choice \in on
               /\ \A c \in on \ {choice} :
                      /\ c < choice => ~AsGood(data[r][c], data[r][choice])
                      /\ ~Better(data[r][c], data[r][choice])

LEMMA UndominatedChoice ==
  ASSUME CarbonTells, TypeInv, [Next]_vars, NEW r \in Requests
  PROVE  Undominated(r)
<1> SUFFICES ASSUME pc[r] = "choose", pc'[r] # "choose" PROVE Undominated(r)
  BY DEF Undominated
<1>1. ChosenOf(r)
  BY ChoiceStep
<1>2. On(data[r]) = {c \in Clusters : ~data[r][c].all_nodes_powered_off}
  BY <1>1 DEF ChosenOf, On, Clusters
<1>3. CASE On(data[r]) = {} /\ pc'[r] = "failing"
  BY <1>2, <1>3 DEF Undominated
<1>4. CASE FirstOfTheBest(chosen'[r], data[r])
  <2>1. chosen'[r] \in On(data[r])
    BY <1>4 DEF FirstOfTheBest
  <2>2. \A c \in On(data[r]) \ {chosen'[r]} :
           /\ c < chosen'[r] => ~AsGood(data[r][c], data[r][chosen'[r]])
           /\ ~Better(data[r][c], data[r][chosen'[r]])
    BY <1>1, <1>4, UndominatedStep DEF ChosenOf
  <2> QED
    BY <1>2, <2>1, <2>2, Zenon DEF Undominated
<1> QED
  BY <1>1, <1>3, <1>4 DEF ChosenOf

(* Where the weights and references let carbon tell, no request goes to a  *)
(* cluster that is off while one is on, past an earlier one as good in     *)
(* every respect, or to one that is worse in carbon and better in nothing. *)
THEOREM ChoiceNotDominated ==
  ASSUME CarbonTells
  PROVE  Spec => ChoiceIsUndominated
<1>1. TypeInv /\ [Next]_vars => [\A r \in Requests : Undominated(r)]_vars
  BY UndominatedChoice
<1> QED
  BY <1>1, Typed, PTL DEF Spec, ChoiceIsUndominated, Undominated
=============================================================================
