--------------------------- MODULE RequestDispatch ---------------------------
(***************************************************************************)
(* One question on its way from the workload generator (strato_api         *)
(* workload/run_workload.py) to a cluster (global_api services/            *)
(* handle_llm_request.py), and what both write into the request logs.      *)
(*                                                                         *)
(* The questions of a workload are asyncio tasks of one thread: a task     *)
(* gives way only where it awaits, and every such place is a step          *)
(* boundary.  Each POST that gets through is a handler thread of the       *)
(* global API, which goes on whether or not its client still waits.        *)
(* Which cluster is the best one and what it answers is left open.         *)
(***************************************************************************)
EXTENDS TestIds

CONSTANTS
    Questions,      \* the planned requests of all tests
    TestOf,         \* the test each of them belongs to
    MAX_RETRIES

ASSUME QuestionsAssumption ==
    MaxTests >= 1 /\ TestOf \in [Questions -> Tests]
ASSUME RetriesAssumption == MAX_RETRIES \in Nat

Attempts == Questions \X (0 .. MAX_RETRIES)

VARIABLES
    test,       \* the test being run, by which both processes tag their logs
    task,       \* task[q]: where the task of question q is
    attempt,    \* attempt[q]: the loop variable of its retry loop
    handler,    \* handler[a]: where the global API is with attempt a
    expired,    \* attempts given up by the total timeout before any response
    sent,       \* questions with a LogSent entry
    logs        \* RequestLog entries

vars == <<test, task, attempt, handler, expired, sent, logs>>

Pending == {"planned", "connecting", "waiting", "reading", "resting"}
Handling == {"accepted", "posted"}

(* Who wrote an entry: the client, or the two except clauses and the       *)
(* success path of handle_llm_request.                                     *)
Writers == {"client", "call", "handler"}

TypeOK ==
    /\ test \in Tests
    /\ task \in [Questions -> Pending \cup {"ok", "failed", "cancelled", "unsent"}]
    /\ attempt \in [Questions -> 0 .. MAX_RETRIES]
    /\ handler \in [Attempts -> Handling \cup {"none", "good", "bad"}]
    /\ expired \in SUBSET Attempts
    /\ sent \in SUBSET Questions
    /\ logs \in SUBSET [attempt : Attempts, by : Writers, success : BOOLEAN,
                        test : Tests]

Init ==
    /\ test = 1
    /\ task = [q \in Questions |-> "planned"]
    /\ attempt = [q \in Questions |-> 0]
    /\ handler = [a \in Attempts |-> "none"]
    /\ expired = {}
    /\ sent = {}
    /\ logs = {}

-----------------------------------------------------------------------------

TaskTo(q, place) == task' = [task EXCEPT ![q] = place]
Current(q) == <<q, attempt[q]>>

(* log_request: the entry is tagged with the test the process is in now. *)
Entry(a, by, success) ==
    [attempt |-> a, by |-> by, success |-> success, test |-> test]

-----------------------------------------------------------------------------
(* _send_request *)

(* The scheduled moment has come: log_sent, then the first attempt. *)
BeginTask(q) ==
    /\ TestOf[q] = test
    /\ task[q] = "planned"
    /\ sent' = sent \cup {q}
    /\ TaskTo(q, "connecting")
    /\ UNCHANGED <<test, attempt, handler, expired, logs>>

Connect(q) ==
    /\ task[q] = "connecting"
    /\ handler' = [handler EXCEPT ![Current(q)] = "accepted"]
    /\ TaskTo(q, "waiting")
    /\ UNCHANGED <<test, attempt, expired, sent, logs>>

(* Mutant of RetryOrGiveUp: the last attempt fails without an entry. *)
RetryOrGiveUpUnlogged(q) ==
    /\ TaskTo(q, IF attempt[q] < MAX_RETRIES THEN "resting" ELSE "failed")
    /\ UNCHANGED logs

(* Mutant of RetryOrGiveUp: tried again without end. *)
RetryForever(q) == TaskTo(q, "resting") /\ UNCHANGED logs

(* The except clause of the retry loop: TimeoutError, ClientConnectorError *)
RetryOrGiveUp(q) ==
    IF attempt[q] < MAX_RETRIES
      THEN TaskTo(q, "resting") /\ UNCHANGED logs
      ELSE /\ TaskTo(q, "failed")
           /\ logs' = logs \cup {Entry(Current(q), "client", FALSE)}

(* No connection within three seconds, or refused. *)
ConnectFails(q) ==
    /\ task[q] = "connecting"
    /\ RetryOrGiveUp(q)
    /\ UNCHANGED <<test, attempt, handler, expired, sent>>

(* The total timeout, before any part of a response. *)
TotalTimeout(q) ==
    /\ task[q] = "waiting"
    /\ expired' = expired \cup {Current(q)}
    /\ RetryOrGiveUp(q)
    /\ UNCHANGED <<test, attempt, handler, sent>>

(* The connection breaks: not one of the exceptions that are retried. *)
ConnectionLost(q) ==
    /\ task[q] = "waiting"
    /\ TaskTo(q, "failed")
    /\ logs' = logs \cup {Entry(Current(q), "client", FALSE)}
    /\ UNCHANGED <<test, attempt, handler, expired, sent>>

Retry(q) ==
    /\ task[q] = "resting"
    /\ attempt' = [attempt EXCEPT ![q] = @ + 1]
    /\ TaskTo(q, "connecting")
    /\ UNCHANGED <<test, handler, expired, sent, logs>>

(* request_reached_host = True *)
ResponseBegins(q) ==
    /\ task[q] = "waiting"
    /\ handler[Current(q)] \in {"good", "bad"}
    /\ TaskTo(q, "reading")
    /\ UNCHANGED <<test, attempt, handler, expired, sent, logs>>

BodyRead(q) ==
    /\ task[q] = "reading"
    /\ TaskTo(q, IF handler[Current(q)] = "good" THEN "ok" ELSE "failed")
    /\ UNCHANGED <<test, attempt, handler, expired, sent, logs>>

(* Mutant of BodyFails: a response already begun does not keep from retrying. *)
BodyFailsAndRetries(q) ==
    /\ task[q] = "reading"
    /\ RetryOrGiveUp(q)
    /\ UNCHANGED <<test, attempt, handler, expired, sent>>

(* The body breaks off or runs into the total timeout: neither retried nor *)
(* logged, for the request has reached the host.                           *)
BodyFails(q) ==
    /\ task[q] = "reading"
    /\ TaskTo(q, "failed")
    /\ UNCHANGED <<test, attempt, handler, expired, sent, logs>>

TaskStep(q) ==
    \/ BeginTask(q) \/ Connect(q) \/ ConnectFails(q)
    \/ TotalTimeout(q) \/ ConnectionLost(q) \/ Retry(q)
    \/ ResponseBegins(q) \/ BodyRead(q) \/ BodyFails(q)

-----------------------------------------------------------------------------
(* execute_workload *)

(* stop_check() is true: every task that is not done is cancelled.  One    *)
(* that was still asleep has no result at all.                             *)
CancelTasks ==
    /\ \E q \in Questions : TestOf[q] = test /\ task[q] \in Pending
    /\ task' = [q \in Questions |->
                   IF TestOf[q] # test \/ task[q] \notin Pending THEN task[q]
                   ELSE IF task[q] = "planned" THEN "unsent" ELSE "cancelled"]
    /\ UNCHANGED <<test, attempt, handler, expired, sent, logs>>

(* The workload returns when its tasks are done, and a next test begins:   *)
(* both processes tag what they log with its id from then on.              *)
NextTest ==
    /\ test < MaxTests
    /\ \A q \in Questions : TestOf[q] = test => task[q] \notin Pending
    /\ test' = test + 1
    /\ UNCHANGED <<task, attempt, handler, expired, sent, logs>>

-----------------------------------------------------------------------------
(* handle_llm_request *)

HandlerTo(a, place) == handler' = [handler EXCEPT ![a] = place]

(* A cluster does not answer for its state, or all nodes of all clusters   *)
(* are off and choose_cluster finds none: logged by the outer except.      *)
ChoiceFails(a) ==
    /\ handler[a] = "accepted"
    /\ HandlerTo(a, "bad")
    /\ logs' = logs \cup {Entry(a, "handler", FALSE)}
    /\ UNCHANGED <<test, task, attempt, expired, sent>>

PostToCluster(a) ==
    /\ handler[a] = "accepted"
    /\ HandlerTo(a, "posted")
    /\ UNCHANGED <<test, task, attempt, expired, sent, logs>>

(* Mutant of ClusterAnswers: the caller is answered without an entry. *)
ClusterAnswersUnlogged(a) ==
    /\ handler[a] = "posted"
    /\ HandlerTo(a, "good")
    /\ UNCHANGED <<test, task, attempt, expired, sent, logs>>

(* The entry is written before the caller is answered. *)
ClusterAnswers(a) ==
    /\ handler[a] = "posted"
    /\ HandlerTo(a, "good")
    /\ logs' = logs \cup {Entry(a, "handler", TRUE)}
    /\ UNCHANGED <<test, task, attempt, expired, sent>>

(* An error or the timeout: logged where it is caught and, raised again,   *)
(* "logged once more".  An answer that lacks a part is logged there only.  *)
ClusterFails(a) ==
    /\ handler[a] = "posted"
    /\ HandlerTo(a, "bad")
    /\ \E writers \in {{"call", "handler"}, {"handler"}} :
           logs' = logs \cup {Entry(a, w, FALSE) : w \in writers}
    /\ UNCHANGED <<test, task, attempt, expired, sent>>

HandlerStep(a) ==
    \/ ChoiceFails(a) \/ PostToCluster(a)
    \/ ClusterAnswers(a) \/ ClusterFails(a)

-----------------------------------------------------------------------------

Next ==
    \/ \E q \in Questions : TaskStep(q)
    \/ \E a \in Attempts : HandlerStep(a)
    \/ CancelTasks
    \/ NextTest

Spec == Init /\ [][Next]_vars

(***************************************************************************)
(* Timers fire, and both the POST of the client and that of the handler    *)
(* carry a timeout.  Nobody has to stop a test or to start another.        *)
(***************************************************************************)
Fairness ==
    /\ \A q \in Questions : WF_vars(TaskStep(q))
    /\ \A a \in Attempts : WF_vars(HandlerStep(a))

FairSpec == Spec /\ Fairness

-----------------------------------------------------------------------------
(* Invariants *)

(* The retry loop (run_workload.py:133-138): of the attempts of a question *)
(* that reached the global API, all but one were given up by the total     *)
(* timeout.  A question is never sent again after a response has begun or  *)
(* the connection has broken under it.                                     *)
OncePerTimeout ==
    \A q \in Questions :
        Cardinality({a \in Attempts : /\ a[1] = q
                                      /\ handler[a] # "none"
                                      /\ a \notin expired}) <= 1

(* A question answered with success is in the request logs of its own test *)
(* as a success, from the moment the answer can be read.                   *)
OkIsFiled ==
    \A q \in Questions :
        task[q] = "ok" =>
            \E e \in logs : /\ e.attempt = Current(q)
                            /\ e.success
                            /\ e.test = TestOf[q]

-----------------------------------------------------------------------------
(* Liveness *)

(* Sent and completed requests can be correlated (logger.py:130): whatever *)
(* fails on the way, a question recorded as sent gets an entry in the      *)
(* request logs, unless its task was cancelled.                            *)
SentIsAccountedFor ==
    \A q \in Questions :
        q \in sent ~> \/ \E e \in logs : e.attempt[1] = q
                      \/ task[q] = "cancelled"
=============================================================================
