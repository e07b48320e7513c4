----------------------- MODULE RequestDispatch_proofs -----------------------
(***************************************************************************)
(* Proofs about RequestDispatch for every number of tests, questions and   *)
(* retries, whatever times out, breaks off or is cancelled.                *)
(***************************************************************************)
EXTENDS RequestDispatch, FiniteSetTheorems, TLAPS

(* A task that has begun and is not over belongs to the test being run.    *)
InOwnTest == \A q \in Questions : task[q] \in Pending \ {"planned"} => TestOf[q] = test

(* A success of the attempt that is being waited for has been filed.       *)
Filed(q) ==
    \E e \in logs : e.attempt = Current(q) /\ e.success /\ e.test = TestOf[q]

AnswersAreFiled ==
    \A q \in Questions :
        \/ task[q] \in {"waiting", "reading"} /\ handler[Current(q)] = "good"
        \/ task[q] = "ok"
        => Filed(q)

(* An attempt that got through and has not been given up is the current    *)
(* one, and its question is not about to be sent.                          *)
OnlyCurrentIsLive ==
    \A a \in Attempts :
        handler[a] # "none" /\ a \notin expired =>
            a = Current(a[1]) /\ task[a[1]] \notin {"planned", "connecting", "resting"}

(* Only a question with attempts left waits for the next one.              *)
RestersMayRetry == \A q \in Questions : task[q] = "resting" => attempt[q] < MAX_RETRIES

Inv == /\ TypeOK /\ RestersMayRetry
       /\ InOwnTest /\ AnswersAreFiled /\ OnlyCurrentIsLive

LEMMA CurrentIsAttempt ==
  ASSUME TypeOK, NEW q \in Questions
  PROVE  Current(q) \in Attempts /\ Current(q)[1] = q
BY RetriesAssumption DEF TypeOK, Current, Attempts

(* Nothing has been sent, answered or logged at the start.                 *)
LEMMA InitInv == Init => Inv
<1> SUFFICES ASSUME Init PROVE Inv
  OBVIOUS
<1> USE DEF Init
<1>1. TypeOK
  BY QuestionsAssumption, RetriesAssumption, TestsAssumption DEF TypeOK, Tests, Pending, Handling
<1>2. RestersMayRetry /\ InOwnTest /\ AnswersAreFiled /\ OnlyCurrentIsLive
  BY DEF RestersMayRetry, InOwnTest, AnswersAreFiled, OnlyCurrentIsLive
<1> QED
  BY <1>1, <1>2 DEF Inv

LEMMA EntryType ==
  ASSUME TypeOK, NEW a \in Attempts, NEW w \in Writers, NEW s \in BOOLEAN
  PROVE  /\ Entry(a, w, s) \in [attempt : Attempts, by : Writers, success : BOOLEAN,
                                test : Tests]
         /\ Entry(a, w, s).attempt = a /\ Entry(a, w, s).success = s
         /\ Entry(a, w, s).test = test
BY DEF TypeOK, Entry

(* Every step stays in the domains.                                        *)
LEMMA TypeStep ==
  ASSUME TypeOK, RestersMayRetry, Next
  PROVE  TypeOK'
<1> USE DEF TypeOK, Pending, Handling, TaskTo, HandlerTo
<1>1. ASSUME NEW q \in Questions, TaskStep(q) PROVE TypeOK'
  <2>0. Current(q) \in Attempts /\ "client" \in Writers
    BY CurrentIsAttempt DEF Writers
  <2>1. CASE BeginTask(q) \/ Connect(q) \/ ResponseBegins(q) \/ BodyRead(q) \/ BodyFails(q)
    BY <2>0, <2>1 DEF BeginTask, Connect, ResponseBegins, BodyRead, BodyFails
  <2>2. CASE ConnectFails(q) \/ TotalTimeout(q) \/ ConnectionLost(q)
    <3>1. Entry(Current(q), "client", FALSE)
             \in [attempt : Attempts, by : Writers, success : BOOLEAN, test : Tests]
      BY <2>0, EntryType
    <3> QED
      BY <2>0, <2>2, <3>1 DEF ConnectFails, TotalTimeout, ConnectionLost, RetryOrGiveUp
  <2>3. CASE Retry(q)
    BY <2>3, RetriesAssumption DEF Retry, RestersMayRetry
  <2> QED
    BY <1>1, <2>1, <2>2, <2>3 DEF TaskStep
<1>2. ASSUME NEW a \in Attempts, HandlerStep(a) PROVE TypeOK'
  <2>1. \A w \in Writers, s \in BOOLEAN :
           Entry(a, w, s)
             \in [attempt : Attempts, by : Writers, success : BOOLEAN, test : Tests]
    BY EntryType
  <2> HIDE DEF Entry
  <2>2. CASE PostToCluster(a)
    BY <2>2 DEF PostToCluster
  <2>3. CASE ChoiceFails(a) \/ ClusterAnswers(a)
    BY <2>1, <2>3 DEF ChoiceFails, ClusterAnswers, Writers
  <2>4. CASE ClusterFails(a)
    <3>1. PICK writers \in {{"call", "handler"}, {"handler"}} :
             logs' = logs \cup {Entry(a, w, FALSE) : w \in writers}
      BY <2>4 DEF ClusterFails
    <3>2. logs' \in SUBSET [attempt : Attempts, by : Writers, success : BOOLEAN, test : Tests]
      BY <2>1, <3>1 DEF Writers
    <3> QED
      BY <2>4, <3>2 DEF ClusterFails
  <2> QED
    BY <1>2, <2>2, <2>3, <2>4 DEF HandlerStep
<1>3. CASE CancelTasks
  BY <1>3 DEF CancelTasks
<1>4. CASE NextTest
  BY <1>4, TestsAssumption DEF NextTest, Tests
<1> QED
  BY <1>1, <1>2, <1>3, <1>4 DEF Next

(* A step of question q leaves the other questions alone.                  *)
LEMMA TasksAreLocal ==
  ASSUME TypeOK, NEW q \in Questions, TaskStep(q)
  PROVE  /\ test' = test /\ logs \subseteq logs'
         /\ \A p \in Questions \ {q} : task'[p] = task[p] /\ attempt'[p] = attempt[p]
         /\ \A a \in Attempts : a # Current(q) => handler'[a] = handler[a]
         /\ expired \subseteq expired'
BY DEF TypeOK, TaskTo, TaskStep, BeginTask, Connect, ConnectFails, TotalTimeout,
       ConnectionLost, Retry, ResponseBegins, BodyRead, BodyFails, RetryOrGiveUp

(* A handler moves on, and never back to where it has not been reached.    *)
LEMMA HandlersAreLocal ==
  ASSUME TypeOK, NEW a \in Attempts, HandlerStep(a)
  PROVE  /\ test' = test /\ task' = task /\ attempt' = attempt /\ expired' = expired
         /\ logs \subseteq logs'
         /\ \A b \in Attempts \ {a} : handler'[b] = handler[b]
         /\ handler[a] # "none" /\ handler'[a] # "none"
BY DEF TypeOK, HandlerTo, HandlerStep, ChoiceFails, PostToCluster, ClusterAnswers, ClusterFails

(* A next test begins only when the tasks of the last one are over.        *)
LEMMA OwnTestStep ==
  ASSUME TypeOK, InOwnTest, Next
  PROVE  InOwnTest'
<1> USE DEF TypeOK, InOwnTest, Pending
<1>1. ASSUME NEW q \in Questions, TaskStep(q) PROVE InOwnTest'
  <2>1. TestOf[q] = test \/ task'[q] \notin Pending \ {"planned"}
    BY <1>1 DEF TaskStep, BeginTask, Connect, ConnectFails, TotalTimeout, ConnectionLost,
                Retry, ResponseBegins, BodyRead, BodyFails
  <2> QED
    BY <1>1, <2>1, TasksAreLocal
<1>2. ASSUME NEW a \in Attempts, HandlerStep(a) PROVE InOwnTest'
  BY <1>2, HandlersAreLocal
<1>3. CASE CancelTasks
  BY <1>3 DEF CancelTasks
<1>4. CASE NextTest
  BY <1>4 DEF NextTest
<1> QED
  BY <1>1, <1>2, <1>3, <1>4 DEF Next

(* What is in the logs stays there, and an attempt stays what it is until  *)
(* the question is sent again.                                             *)
LEMMA FiledStays ==
  ASSUME NEW q \in Questions, Filed(q), logs \subseteq logs', attempt'[q] = attempt[q]
  PROVE  Filed(q)'
BY DEF Filed, Current

(* The answer is logged before it is given, under the test that is waiting *)
(* for it.                                                                 *)
LEMMA FiledStep ==
  ASSUME TypeOK, InOwnTest, AnswersAreFiled, Next
  PROVE  AnswersAreFiled'
<1>1. ASSUME NEW q \in Questions, TaskStep(q) PROVE AnswersAreFiled'
  <2>1. ASSUME NEW p \in Questions \ {q},
               \/ task'[p] \in {"waiting", "reading"} /\ handler'[Current(p)'] = "good"
               \/ task'[p] = "ok"
        PROVE  Filed(p)'
    <3>1. Current(p)' = Current(p) /\ Current(p) # Current(q) /\ Current(p) \in Attempts
      BY <1>1, TasksAreLocal, CurrentIsAttempt DEF Current
    <3>2. Filed(p)
      BY <1>1, <2>1, <3>1, TasksAreLocal DEF AnswersAreFiled
    <3> QED
      BY <1>1, <3>2, TasksAreLocal, FiledStays
  <2>2. ASSUME \/ task'[q] \in {"waiting", "reading"} /\ handler'[Current(q)'] = "good"
               \/ task'[q] = "ok"
        PROVE  Filed(q)'
    <3>1. CASE BeginTask(q) \/ ConnectFails(q) \/ TotalTimeout(q) \/ ConnectionLost(q)
               \/ Retry(q) \/ BodyFails(q)
      BY <2>2, <3>1 DEF TypeOK, TaskTo, BeginTask, ConnectFails, TotalTimeout,
                        ConnectionLost, Retry, BodyFails, RetryOrGiveUp
    <3>2. CASE Connect(q)
      <4>1. handler'[Current(q)] = "accepted" /\ Current(q)' = Current(q)
            /\ task'[q] = "waiting"
        BY <3>2, CurrentIsAttempt DEF TypeOK, TaskTo, Connect, Current
      <4> QED
        BY <2>2, <4>1
    <3>3. CASE ResponseBegins(q) \/ BodyRead(q)
      <4>1. attempt' = attempt /\ handler' = handler /\ logs' = logs
        BY <3>3 DEF ResponseBegins, BodyRead
      <4>2. Current(q)' = Current(q)
        BY <4>1 DEF Current
      <4>3. task[q] \in {"waiting", "reading"} /\ handler[Current(q)] = "good"
        BY <2>2, <3>3, <4>1, <4>2 DEF TypeOK, TaskTo, ResponseBegins, BodyRead
      <4> QED
        BY <4>1, <4>3, FiledStays DEF AnswersAreFiled
    <3> QED
      BY <1>1, <3>1, <3>2, <3>3 DEF TaskStep
  <2> QED
    BY <2>1, <2>2 DEF AnswersAreFiled
<1>2. ASSUME NEW a \in Attempts, HandlerStep(a) PROVE AnswersAreFiled'
  <2>1. ASSUME NEW q \in Questions,
               \/ task'[q] \in {"waiting", "reading"} /\ handler'[Current(q)'] = "good"
               \/ task'[q] = "ok"
        PROVE  Filed(q)'
    <3>1. Current(q)' = Current(q) /\ Current(q) \in Attempts
      BY <1>2, HandlersAreLocal, CurrentIsAttempt DEF Current
    <3>2. CASE \/ task[q] \in {"waiting", "reading"} /\ handler[Current(q)] = "good"
               \/ task[q] = "ok"
      BY <1>2, <3>2, HandlersAreLocal, FiledStays DEF AnswersAreFiled
    <3>3. CASE /\ task[q] \in {"waiting", "reading"}
               /\ handler[Current(q)] # "good" /\ handler'[Current(q)] = "good"
      <4>1. a = Current(q)
        BY <1>2, <3>1, <3>3, HandlersAreLocal
      <4>2. ClusterAnswers(a)
        BY <1>2, <3>3, <4>1 DEF TypeOK, HandlerTo, HandlerStep, ChoiceFails, PostToCluster,
                                ClusterAnswers, ClusterFails
      <4>3. TestOf[q] = test
        BY <3>3 DEF InOwnTest, Pending
      <4>4. Entry(a, "handler", TRUE) \in logs'
        BY <4>2 DEF ClusterAnswers
      <4>5. /\ Entry(a, "handler", TRUE).attempt = a /\ Entry(a, "handler", TRUE).success
            /\ Entry(a, "handler", TRUE).test = test
        BY DEF Entry
      <4> QED
        BY <3>1, <4>1, <4>3, <4>4, <4>5 DEF Filed
    <3> QED
      BY <1>2, <2>1, <3>1, <3>2, <3>3, HandlersAreLocal
  <2> QED
    BY <2>1 DEF AnswersAreFiled
<1>3. CASE CancelTasks \/ NextTest
  <2>1. /\ attempt' = attempt /\ handler' = handler /\ logs' = logs
        /\ \A q \in Questions : task'[q] \in {"waiting", "reading", "ok"} => task[q] = task'[q]
    BY <1>3 DEF CancelTasks, NextTest
  <2>2. \A q \in Questions : Current(q)' = Current(q)
    BY <2>1 DEF Current
  <2> QED
    BY <2>1, <2>2, FiledStays DEF AnswersAreFiled
<1> QED
  BY <1>1, <1>2, <1>3 DEF Next

(* The retry loop counts.                                                  *)
LEMMA RestStep ==
  ASSUME TypeOK, RestersMayRetry, Next
  PROVE  RestersMayRetry'
<1> USE DEF TypeOK, TaskTo, RestersMayRetry
<1>1. ASSUME NEW q \in Questions, TaskStep(q) PROVE RestersMayRetry'
  <2>1. task'[q] = "resting" => attempt'[q] < MAX_RETRIES
    BY <1>1 DEF TaskStep, BeginTask, Connect, ConnectFails, TotalTimeout, ConnectionLost,
                Retry, ResponseBegins, BodyRead, BodyFails, RetryOrGiveUp
  <2> QED
    BY <1>1, <2>1, TasksAreLocal
<1>2. ASSUME NEW a \in Attempts, HandlerStep(a) PROVE RestersMayRetry'
  BY <1>2, HandlersAreLocal
<1>3. CASE CancelTasks \/ NextTest
  BY <1>3 DEF CancelTasks, NextTest
<1> QED
  BY <1>1, <1>2, <1>3 DEF Next

(* A question is sent again only after its last attempt did not get        *)
(* through or was given up.                                                *)
LEMMA LiveStep ==
  ASSUME TypeOK, OnlyCurrentIsLive, Next
  PROVE  OnlyCurrentIsLive'
<1>1. ASSUME NEW q \in Questions, TaskStep(q) PROVE OnlyCurrentIsLive'
  <2>0. Current(q) \in Attempts /\ Current(q)[1] = q
    BY CurrentIsAttempt
  <2>1. ASSUME NEW a \in Attempts, handler'[a] # "none", a \notin expired'
        PROVE  /\ a = Current(a[1])'
               /\ task'[a[1]] \notin {"planned", "connecting", "resting"}
    <3>0. a[1] \in Questions
      BY DEF Attempts
    <3>1. CASE a[1] # q
      <4>1. a # Current(q)
        BY <2>0, <3>1
      <4>2. handler[a] # "none" /\ a \notin expired
        BY <1>1, <2>1, <4>1, TasksAreLocal
      <4> QED
        BY <1>1, <3>0, <3>1, <4>2, TasksAreLocal DEF OnlyCurrentIsLive, Current
    <3>2. CASE a[1] = q
      <4>1. CASE Connect(q)
        <5>1. task[q] = "connecting" /\ task'[q] = "waiting" /\ Current(q)' = Current(q)
          BY <4>1 DEF TypeOK, Connect, TaskTo, Current
        <5>2. a = Current(q)
          BY <1>1, <2>1, <3>2, <5>1, TasksAreLocal DEF OnlyCurrentIsLive
        <5> QED
          BY <3>2, <5>1, <5>2
      <4>2. CASE TotalTimeout(q)
        <5>1. /\ handler' = handler /\ expired' = expired \cup {Current(q)}
              /\ task[q] = "waiting"
          BY <4>2 DEF TotalTimeout
        <5>2. a = Current(q)
          BY <2>1, <3>2, <5>1 DEF OnlyCurrentIsLive
        <5> QED
          BY <2>1, <5>1, <5>2
      <4>3. CASE BeginTask(q) \/ ConnectFails(q) \/ Retry(q)
        <5>1. /\ handler' = handler /\ expired' = expired
              /\ task[q] \in {"planned", "connecting", "resting"}
          BY <4>3 DEF BeginTask, ConnectFails, Retry
        <5> QED
          BY <2>1, <3>2, <5>1 DEF OnlyCurrentIsLive
      <4>4. CASE ConnectionLost(q) \/ ResponseBegins(q) \/ BodyRead(q) \/ BodyFails(q)
        <5>1. /\ handler' = handler /\ expired' = expired /\ attempt' = attempt
              /\ task'[q] \notin {"planned", "connecting", "resting"}
          BY <4>4 DEF TypeOK, TaskTo, ConnectionLost, ResponseBegins, BodyRead, BodyFails
        <5> QED
          BY <2>1, <3>2, <5>1 DEF OnlyCurrentIsLive, Current
      <4> QED
        BY <1>1, <4>1, <4>2, <4>3, <4>4 DEF TaskStep
    <3> QED
      BY <3>1, <3>2
  <2> QED
    BY <2>1 DEF OnlyCurrentIsLive
<1>2. ASSUME NEW a \in Attempts, HandlerStep(a) PROVE OnlyCurrentIsLive'
  <2>1. \A b \in Attempts : handler'[b] # "none" => handler[b] # "none"
    BY <1>2, HandlersAreLocal
  <2> QED
    BY <1>2, <2>1, HandlersAreLocal DEF OnlyCurrentIsLive, Current
<1>3. CASE CancelTasks \/ NextTest
  <2>1. /\ attempt' = attempt /\ handler' = handler /\ expired' = expired
        /\ \A q \in Questions : task'[q] \in {"planned", "connecting", "resting"}
                                   => task[q] = task'[q]
    BY <1>3 DEF CancelTasks, NextTest
  <2>2. \A a \in Attempts : a[1] \in Questions
    BY DEF Attempts
  <2> QED
    BY <2>1, <2>2 DEF OnlyCurrentIsLive, Current
<1> QED
  BY <1>1, <1>2, <1>3 DEF Next

LEMMA NextInv == Inv /\ [Next]_vars => Inv'
<1> SUFFICES ASSUME Inv, [Next]_vars PROVE Inv'
  OBVIOUS
<1>1. CASE Next
  BY <1>1, TypeStep, RestStep, OwnTestStep, FiledStep, LiveStep DEF Inv
<1>2. CASE UNCHANGED vars
  BY <1>2 DEF vars, Inv, TypeOK, RestersMayRetry, InOwnTest, AnswersAreFiled, OnlyCurrentIsLive, Filed, Current
<1> QED
  BY <1>1, <1>2

(* The inductive invariant of a question's attempts.                       *)
THEOREM DispatchInv == Spec => []Inv
BY InitInv, NextInv, PTL DEF Spec

(* Every variable of the dispatch stays within its domain.                 *)
THEOREM DispatchTypes == Spec => []TypeOK
<1>1. Inv => TypeOK
  BY DEF Inv
<1> QED
  BY <1>1, DispatchInv, PTL

(* Of the attempts of a question that reached the global API, all but one  *)
(* were given up by the total timeout, for any number of retries.          *)
THEOREM OneAttemptPerTimeout == Spec => []OncePerTimeout
<1>1. Inv => OncePerTimeout
  <2> SUFFICES ASSUME Inv, NEW q \in Questions
               PROVE  Cardinality({a \in Attempts : /\ a[1] = q
                                                    /\ handler[a] # "none"
                                                    /\ a \notin expired}) <= 1
    BY DEF OncePerTimeout
  <2> DEFINE live == {a \in Attempts : a[1] = q /\ handler[a] # "none" /\ a \notin expired}
  <2>1. live \subseteq {Current(q)}
    BY DEF Inv, OnlyCurrentIsLive
  <2> HIDE DEF live
  <2>2. IsFiniteSet({Current(q)}) /\ Cardinality({Current(q)}) = 1
    BY FS_Singleton
  <2>3. Cardinality(live) <= Cardinality({Current(q)})
    BY <2>1, <2>2, FS_Subset
  <2>4. Cardinality(live) <= 1
    BY <2>2, <2>3
  <2> QED
    BY <2>4 DEF live
<1> QED
  BY <1>1, DispatchInv, PTL

(* A question answered with success is in the request logs of its own test *)
(* as a success, whichever tests and tasks come after it.                  *)
THEOREM SuccessesAreFiled == Spec => []OkIsFiled
<1>1. Inv => OkIsFiled
  BY DEF Inv, AnswersAreFiled, Filed, OkIsFiled
<1> QED
  BY <1>1, DispatchInv, PTL
=============================================================================
