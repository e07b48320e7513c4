----------------------------- MODULE ScaleCycle ------------------------------
(***************************************************************************)
(* One cycle after the other of the global power scheduler (global_api     *)
(* services/power_scheduler.py): count the running nodes, estimate how     *)
(* many are needed, power the difference on in the best clusters, and let  *)
(* the clusters turn off what is idle.                                     *)
(*                                                                         *)
(* A cluster is here the number of its nodes that are off, starting and    *)
(* running; which of them it takes is the business of its own API.  Which  *)
(* cluster is better than which is decided by scores that are left open.   *)
(* Durations are integers: milliseconds, and rates in hundredths of a      *)
(* request per second, which is what get_current_rps rounds to.  Quotients *)
(* are exact here and floats there: for a quotient that is a whole number  *)
(* a float may be one step above it, and math.ceil one node.               *)
(***************************************************************************)
EXTENDS Integers, Sequences, FiniteSets

CONSTANTS
    Clusters,
    Size,           \* Size[c]: number of worker nodes of cluster c
    SentCounts,     \* numbers of requests sent within the latency window
    Latencies,      \* observed average inference times, 0 for none
    latency_window_s,
    max_ms

ASSUME ClustersAssumption ==
    IsFiniteSet(Clusters) /\ Size \in [Clusters -> Nat \ {0}]
ASSUME DemandAssumption ==
    /\ SentCounts \subseteq Nat /\ Latencies \subseteq Nat
    /\ latency_window_s \in Nat \ {0} /\ max_ms \in Nat \ {0}

VARIABLES
    off,        \* off[c]: nodes of c that are off
    booting,    \* booting[c]: started by the request being waited for
    stray,      \* stray[c]: started by a request whose answer was lost
    phase,
    unread,     \* clusters still to be asked for their state, or swept
    view,       \* view[c]: number of OFF nodes c answered with
    active,     \* current_active_nodes
    demand,     \* <<current_rps, avg_llama_latency_ms>> of this cycle
    order,      \* sorted_clusters
    at,         \* position of the loop over them
    toAdd,      \* nodes_to_add
    asked,      \* what the cluster will answer as node_changed
    clean,      \* nothing was starting unknown to the scheduler this cycle
    failed      \* a node did not come up this cycle

scalerVars == <<phase, unread, view, active, demand, order, at, toAdd, asked>>
vars == <<off, booting, stray, scalerVars, clean, failed>>

Phases == {"asleep", "reading", "loop", "asking", "sweeping"}
Orders == {s \in [1 .. Cardinality(Clusters) -> Clusters] :
              \A i, j \in DOMAIN s : s[i] = s[j] => i = j}

(* The nodes a count f stands for, those of cluster c numbered from 1.     *)
NodesOf(f) == UNION {{c} \X (1 .. f[c]) : c \in Clusters}
Total(f) == Cardinality(NodesOf(f))
Running(c) == Size[c] - off[c] - booting[c] - stray[c]
Up == Total(Size) - Total(off)  \* running or on the way to it

TypeOK ==
    /\ off \in [Clusters -> Nat] /\ booting \in [Clusters -> Nat]
    /\ stray \in [Clusters -> Nat]
    /\ \A c \in Clusters : Running(c) >= 0
    /\ phase \in Phases
    /\ unread \subseteq Clusters
    /\ view \in [Clusters -> Nat]
    /\ active \in 0 .. Total(Size)
    /\ order \in Orders /\ at \in 1 .. Cardinality(Clusters) + 1
    /\ toAdd \in Nat
    /\ asked \in Nat
    /\ clean \in BOOLEAN /\ failed \in BOOLEAN

Init ==
    /\ off \in {f \in [Clusters -> 0 .. Total(Size)] :
                   \A c \in Clusters : f[c] <= Size[c]}
    /\ booting = [c \in Clusters |-> 0]
    /\ stray = [c \in Clusters |-> 0]
    /\ phase = "asleep"
    /\ unread = {}
    /\ view = [c \in Clusters |-> 0]
    /\ active = 0
    /\ demand = <<0, 0>>
    /\ order = CHOOSE s \in Orders : TRUE
    /\ at = 1
    /\ toAdd = 0
    /\ asked = 0
    /\ clean = TRUE
    /\ failed = FALSE

-----------------------------------------------------------------------------
(* The estimates *)

CeilDiv(a, b) == (a + b - 1) \div b
MaxOf(a, b) == IF a <= b THEN b ELSE a
MinOf(a, b) == IF a <= b THEN a ELSE b

(* round(count / time_interval_s, 2), in hundredths: 0 for less than half  *)
(* a hundredth.                                                            *)
get_current_rps(count) ==
    (200 * count + latency_window_s) \div (2 * latency_window_s)

(* Mutant of estimate_required_nodes: rounded down. *)
estimate_required_nodesDown(latency, rps) == (rps * latency) \div 100000

(* ceil(rps / (1000 / latency)) *)
estimate_required_nodes(latency, rps) ==
    IF rps = 0 \/ latency = 0 THEN 0 ELSE CeilDiv(rps * latency, 100000)

(* Nodes to add so that the latency, taken as inversely proportional to    *)
(* the number of nodes, comes down to the limit.                           *)
apply_lantecy_scaling(nodes, latency) ==
    IF nodes > 0 /\ latency > max_ms THEN CeilDiv(nodes * latency, max_ms) - nodes
                                     ELSE 0

estimate_nodes_to_add(latency, rps, nodes) ==
    IF nodes = 0 THEN MaxOf(1, estimate_required_nodes(latency, rps))
    ELSE MaxOf(0, estimate_required_nodes(latency, rps) - nodes)

(* The larger of the two estimates. *)
nodes_to_add(latency, rps, nodes) ==
    MaxOf(estimate_nodes_to_add(latency, rps, nodes),
          apply_lantecy_scaling(nodes, latency))

(* The number of nodes this cycle is after. *)
Goal == active + nodes_to_add(demand[2], demand[1], active)

-----------------------------------------------------------------------------
(* turn_nodes_on *)

(* After the sleep: get_cluster_information asks one cluster after the     *)
(* other.  One that does not answer ends the thread (see GlobalTest).      *)
BeginCycle ==
    /\ phase = "asleep"
    /\ phase' = "reading"
    /\ unread' = Clusters
    /\ clean' = (Total(stray) = 0)
    /\ failed' = FALSE
    /\ UNCHANGED <<off, booting, stray, view, active, demand, order, at,
                   toAdd, asked>>

ReadCluster(c) ==
    /\ phase = "reading"
    /\ c \in unread
    /\ unread' = unread \ {c}
    /\ view' = [view EXCEPT ![c] = off[c]]
    /\ active' = active + Running(c)
    /\ UNCHANGED <<off, booting, stray, phase, demand, order, at, toAdd,
                   asked, clean, failed>>

(* No requests or no observed latency: the scaling is skipped.             *)
Decide(count, latency) ==
    /\ phase = "reading"
    /\ unread = {}
    /\ LET rps == get_current_rps(count)
       IN  IF rps = 0 \/ latency = 0
             THEN /\ phase' = "sweeping"
                  /\ unread' = Clusters
                  /\ UNCHANGED <<demand, order, toAdd>>
             ELSE /\ phase' = "loop"
                  /\ demand' = <<rps, latency>>
                  /\ order' \in Orders
                  /\ toAdd' = nodes_to_add(latency, rps, active)
                  /\ UNCHANGED unread
    /\ UNCHANGED <<off, booting, stray, view, active, at, asked, clean, failed>>

InLoop == phase = "loop" /\ at <= Len(order) /\ toAdd > 0

(* Mutant of Amount: every OFF node of the cluster. *)
AmountAllOff == view[order[at]]

(* Mutant of Amount: one node from each cluster. *)
AmountOne == MinOf(1, view[order[at]])

Amount == MinOf(toAdd, view[order[at]])

SkipCluster ==
    /\ InLoop
    /\ Amount = 0
    /\ at' = at + 1
    /\ UNCHANGED <<off, booting, stray, phase, unread, view, active, demand,
                   order, toAdd, asked, clean, failed>>

(* POST turn_on_nodes reaches the cluster, which starts as many of its OFF *)
(* nodes as it is asked for.                                               *)
turn_on_nodes ==
    /\ InLoop
    /\ Amount > 0
    /\ LET n == MinOf(Amount, off[order[at]])
       IN  /\ off' = [off EXCEPT ![order[at]] = @ - n]
           /\ booting' = [booting EXCEPT ![order[at]] = n]
           /\ asked' = n
    /\ phase' = "asking"
    /\ UNCHANGED <<stray, unread, view, active, demand, order, at, toAdd,
                   clean, failed>>

(* A cluster that is not reached: caught, and on to the next one. *)
RequestFails ==
    /\ InLoop
    /\ Amount > 0
    /\ at' = at + 1
    /\ failed' = TRUE
    /\ UNCHANGED <<off, booting, stray, phase, unread, view, active, demand,
                   order, toAdd, asked, clean>>

(* Mutant of TurnedOn: the number of nodes turned on is not taken off. *)
TurnedOnForgotten ==
    /\ phase = "asking"
    /\ booting[order[at]] = 0
    /\ at' = at + 1
    /\ phase' = "loop"
    /\ asked' = 0
    /\ UNCHANGED <<off, booting, stray, unread, view, active, demand, order,
                   toAdd, clean, failed>>

(* Mutant of TurnedOn: the loop is left after the first cluster. *)
TurnedOnBreak ==
    /\ phase = "asking"
    /\ booting[order[at]] = 0
    /\ toAdd' = toAdd - asked
    /\ at' = Len(order) + 1
    /\ phase' = "loop"
    /\ asked' = 0
    /\ UNCHANGED <<off, booting, stray, unread, view, active, demand, order,
                   clean, failed>>

(* The answer, when all nodes are up or given up: node_changed counts the  *)
(* nodes that were selected.                                               *)
TurnedOn ==
    /\ phase = "asking"
    /\ booting[order[at]] = 0
    /\ toAdd' = toAdd - asked
    /\ at' = at + 1
    /\ phase' = "loop"
    /\ asked' = 0
    /\ UNCHANGED <<off, booting, stray, unread, view, active, demand, order,
                   clean, failed>>

(* Mutant of AnswerLost: the same cluster is asked again. *)
AnswerLostAskAgain ==
    /\ phase = "asking"
    /\ stray' = [stray EXCEPT ![order[at]] = @ + booting[order[at]]]
    /\ booting' = [booting EXCEPT ![order[at]] = 0]
    /\ phase' = "loop"
    /\ asked' = 0
    /\ clean' = FALSE
    /\ UNCHANGED <<off, unread, view, active, demand, order, at, toAdd, failed>>

(* The answer is lost or late: nothing is taken off nodes_to_add, and the  *)
(* nodes go on starting.                                                   *)
AnswerLost ==
    /\ phase = "asking"
    /\ stray' = [stray EXCEPT ![order[at]] = @ + booting[order[at]]]
    /\ booting' = [booting EXCEPT ![order[at]] = 0]
    /\ at' = at + 1
    /\ phase' = "loop"
    /\ asked' = 0
    /\ clean' = FALSE
    /\ UNCHANGED <<off, unread, view, active, demand, order, toAdd, failed>>

EndLoop ==
    /\ phase = "loop"
    /\ at > Len(order) \/ toAdd = 0
    /\ phase' = "sweeping"
    /\ unread' = Clusters
    /\ UNCHANGED <<off, booting, stray, view, active, demand, order, at,
                   toAdd, asked, clean, failed>>

-----------------------------------------------------------------------------
(* turn_off_idle_nodes: each cluster turns off some nodes, or none, or is  *)
(* not reached, which is caught.                                           *)
SweepCluster(c) ==
    /\ phase = "sweeping"
    /\ c \in unread
    /\ unread' = unread \ {c}
    /\ \E n \in 0 .. Running(c) : off' = [off EXCEPT ![c] = @ + n]
    /\ UNCHANGED <<booting, stray, phase, view, active, demand, order, at,
                   toAdd, asked, clean, failed>>

(* The end of the cycle; with a latency above the limit nothing is swept.  *)
EndCycle ==
    /\ phase = "sweeping"
    /\ unread \in {{}, Clusters}
    /\ phase' = "asleep"
    /\ unread' = {}
    /\ view' = [c \in Clusters |-> 0]
    /\ active' = 0
    /\ demand' = <<0, 0>>
    /\ at' = 1
    /\ toAdd' = 0
    /\ UNCHANGED <<off, booting, stray, order, asked, clean, failed>>

-----------------------------------------------------------------------------
(* The nodes that are starting *)

NodeReady(c) ==
    /\ \/ /\ booting[c] > 0
          /\ booting' = [booting EXCEPT ![c] = @ - 1]
          /\ UNCHANGED stray
       \/ /\ stray[c] > 0
          /\ stray' = [stray EXCEPT ![c] = @ - 1]
          /\ UNCHANGED booting
    /\ UNCHANGED <<off, scalerVars, clean, failed>>

NodeGivenUp(c) ==
    /\ \/ /\ booting[c] > 0
          /\ booting' = [booting EXCEPT ![c] = @ - 1]
          /\ UNCHANGED stray
       \/ /\ stray[c] > 0
          /\ stray' = [stray EXCEPT ![c] = @ - 1]
          /\ UNCHANGED booting
    /\ off' = [off EXCEPT ![c] = @ + 1]
    /\ failed' = TRUE
    /\ UNCHANGED <<scalerVars, clean>>

-----------------------------------------------------------------------------

SchedulerStep ==
    \/ BeginCycle
    \/ \E c \in Clusters : ReadCluster(c) \/ SweepCluster(c)
    \/ \E count \in SentCounts, latency \in Latencies : Decide(count, latency)
    \/ SkipCluster \/ turn_on_nodes \/ RequestFails \/ TurnedOn \/ AnswerLost
    \/ EndLoop \/ EndCycle

NodeStep == \E c \in Clusters : NodeReady(c) \/ NodeGivenUp(c)

Next == SchedulerStep \/ NodeStep

Spec == Init /\ [][Next]_vars

(* Every request of the scheduler carries a timeout, so that each of its   *)
(* steps comes to an end; nothing is asked of the nodes.                   *)
FairSpec == Spec /\ WF_vars(SchedulerStep)

-----------------------------------------------------------------------------
(* Invariants *)

Scaling == phase \in {"loop", "asking"}

(* What the estimates aim at, by definition: no fewer nodes than there     *)
(* are, at least one, enough for the current rate, and enough to bring the *)
(* latency down to the limit.                                              *)
Suffices(n) ==
    /\ n >= active /\ n >= 1
    /\ n * 100000 >= demand[1] * demand[2]
    /\ n * max_ms >= active * demand[2]

(* The number of nodes the scheduler is after is the least sufficient one  *)
(* (power_scheduler.py:236-244, 310-316): the larger of two estimates, one *)
(* from the rate and one from the latency, each with cases of its own,     *)
(* neither falls short nor goes beyond.                                    *)
GoalIsLeastSufficient == Scaling => Suffices(Goal) /\ ~Suffices(Goal - 1)

(* No node more than that is powered on (power_scheduler.py:338): what a   *)
(* cluster turned on is not asked of the next one again, and every cycle   *)
(* starts from a fresh count.  It needs that no answer was lost: then the  *)
(* nodes started are asked for once more elsewhere.                        *)
NoOvershoot == Scaling /\ clean => Up <= Goal

(* Nor less: when the loop ends undisturbed, the goal is met or every node *)
(* of every cluster is on.                                                 *)
DemandIsMet ==
    phase = "loop" /\ ~InLoop /\ clean /\ ~failed =>
        Up = Goal \/ Up = Total(Size)

(* "Process the best-scoring clusters first" (power_scheduler.py:272): a   *)
(* cluster is asked only when the better ones have no node left to turn on.*)
BestFirst ==
    phase = "asking" /\ clean /\ ~failed =>
        \A i \in 1 .. at - 1 : off[order[i]] = 0

-----------------------------------------------------------------------------
(* Liveness *)

(* Whatever clusters fail to answer, the scheduler comes back to its sleep *)
(* and to looking for a stop (power_scheduler.py:420).                     *)
CycleEnds == phase # "asleep" ~> phase = "asleep"
=============================================================================
