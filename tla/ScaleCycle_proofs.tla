-------------------------- MODULE ScaleCycle_proofs --------------------------
(***************************************************************************)
(* Proofs about ScaleCycle for every set of clusters, all sizes, rates,    *)
(* latencies and limits: what the estimates aim at, and that a cycle gets  *)
(* there, no further, and in the order of the scores.                      *)
(***************************************************************************)
EXTENDS ScaleCycle, FiniteSetTheorems, TLAPS

-----------------------------------------------------------------------------
(* Totals over the clusters *)

(* A count is a number of nodes for each cluster.                          *)
Counted(f) == \A c \in Clusters : f[c] \in Nat

(* The i-th node of c is counted when c counts that far.                   *)
LEMMA InNodesOf ==
  ASSUME NEW f, NEW c \in Clusters, NEW i
  PROVE  <<c, i>> \in NodesOf(f) <=> i \in 1 .. f[c]
BY DEF NodesOf

(* Every node has a cluster and a number.                                  *)
LEMMA NodesArePairs ==
  ASSUME NEW f, NEW p \in NodesOf(f)
  PROVE  \E c \in Clusters : \E i \in 1 .. f[c] : p = <<c, i>>
<1>1. PICK c \in Clusters : p \in {c} \X (1 .. f[c])
  BY DEF NodesOf
<1> QED
  BY <1>1

(* Finitely many clusters have finitely many nodes.                        *)
LEMMA NodesFinite ==
  ASSUME NEW f, Counted(f)
  PROVE  IsFiniteSet(NodesOf(f)) /\ Total(f) \in Nat
<1> DEFINE group == [c \in Clusters |-> {c} \X (1 .. f[c])]
           Groups == {{c} \X (1 .. f[c]) : c \in Clusters}
<1>1. ASSUME NEW c \in Clusters PROVE IsFiniteSet({c} \X (1 .. f[c]))
  <2>1. IsFiniteSet({c})
    BY FS_Singleton
  <2>2. f[c] \in Int /\ 1 \in Int
    BY DEF Counted
  <2>3. IsFiniteSet(1 .. f[c])
    BY <2>2, FS_Interval, Zenon
  <2> QED
    BY <2>1, <2>3, FS_Product, Zenon
<1>2. group \in Surjection(Clusters, Groups)
  BY DEF Surjection
<1>3. IsFiniteSet(Groups)
  BY <1>2, ClustersAssumption, FS_Surjection
<1>4. IsFiniteSet(UNION Groups)
  BY <1>1, <1>3, FS_UNION
<1> QED
  BY <1>4, FS_CardinalityType DEF NodesOf, Total

(* How many numbers an interval has.                                       *)
LEMMA IntervalSize ==
  ASSUME NEW a \in Int, NEW b \in Int, a <= b + 1
  PROVE  IsFiniteSet(a .. b) /\ Cardinality(a .. b) = b - a + 1
BY FS_Interval

(* n nodes more of one cluster are n nodes more.                           *)
LEMMA TotalStep ==
  ASSUME NEW f, NEW g, Counted(f), NEW c \in Clusters, NEW n \in Nat,
         g[c] = f[c] + n, \A d \in Clusters \ {c} : g[d] = f[d]
  PROVE  Total(g) = Total(f) + n
<1> DEFINE k == f[c]
           Numbers == k + 1 .. k + n
           More == {c} \X Numbers
<1>1. k \in Nat /\ Counted(g)
  BY DEF Counted
<1> HIDE DEF k
<1>2. IsFiniteSet(More) /\ Cardinality(More) = n
  <2>1. IsFiniteSet({c}) /\ Cardinality({c}) = 1
    BY FS_Singleton
  <2>2. PICK a \in Int, b \in Int : a = k + 1 /\ b = k + n
    BY <1>1
  <2>3. IsFiniteSet(a .. b) /\ Cardinality(a .. b) = b - a + 1
    BY <1>1, <2>2, IntervalSize
  <2>4. IsFiniteSet(Numbers) /\ Cardinality(Numbers) = n
    BY <1>1, <2>2, <2>3
  <2> HIDE DEF Numbers
  <2>5. IsFiniteSet(More) /\ Cardinality(More) = Cardinality({c}) * Cardinality(Numbers)
    BY <2>1, <2>4, FS_Product, Zenon
  <2>6. 1 * n = n
    OBVIOUS
  <2> QED
    BY <2>1, <2>4, <2>5, <2>6, Zenon
<1>3. NodesOf(g) = NodesOf(f) \cup More
  <2>1. ASSUME NEW p \in NodesOf(g) PROVE p \in NodesOf(f) \cup More
    <3>1. PICK d \in Clusters : \E i \in 1 .. g[d] : p = <<d, i>>
      BY <2>1, NodesArePairs
    <3>2. PICK i \in 1 .. g[d] : p = <<d, i>>
      BY <3>1
    <3>3. CASE d = c
      <4>1. i \in 1 .. k \/ i \in k + 1 .. k + n
        BY <1>1, <3>2, <3>3 DEF k
      <4> QED
        BY <3>2, <3>3, <4>1, InNodesOf DEF k
    <3>4. CASE d # c
      BY <3>2, <3>4, InNodesOf
    <3> QED
      BY <3>3, <3>4
  <2>2. ASSUME NEW p \in NodesOf(f) PROVE p \in NodesOf(g)
    <3>1. PICK d \in Clusters : \E i \in 1 .. f[d] : p = <<d, i>>
      BY <2>2, NodesArePairs
    <3>2. PICK i \in 1 .. f[d] : p = <<d, i>>
      BY <3>1
    <3>3. i \in 1 .. g[d]
      BY <1>1, <3>2 DEF k
    <3> QED
      BY <3>2, <3>3, InNodesOf
  <2>3. ASSUME NEW p \in More PROVE p \in NodesOf(g)
    <3>1. PICK i \in k + 1 .. k + n : p = <<c, i>>
      BY <2>3
    <3>2. i \in 1 .. g[c]
      BY <1>1, <3>1 DEF k
    <3> QED
      BY <3>1, <3>2, InNodesOf
  <2> QED
    BY <2>1, <2>2, <2>3
<1>4. NodesOf(f) \cap More = {}
  <2> SUFFICES ASSUME NEW p \in NodesOf(f), p \in More PROVE FALSE
    OBVIOUS
  <2>1. PICK i \in k + 1 .. k + n : p = <<c, i>>
    OBVIOUS
  <2>2. i \in 1 .. k
    BY <2>1, InNodesOf DEF k
  <2> QED
    BY <1>1, <2>1, <2>2
<1>5. Cardinality(NodesOf(f) \cup More) = Total(f) + n - 0
  <2>1. IsFiniteSet(NodesOf(f))
    BY NodesFinite
  <2>2. Cardinality(NodesOf(f) \cup More)
          = Cardinality(NodesOf(f)) + Cardinality(More) - Cardinality(NodesOf(f) \cap More)
    BY <1>2, <2>1, FS_Union, Zenon
  <2> HIDE DEF More
  <2> QED
    BY <1>2, <1>4, <2>2, FS_EmptySet DEF Total
<1>6. Total(f) \in Nat
  BY NodesFinite
<1> HIDE DEF More
<1> QED
  BY <1>3, <1>5, <1>6 DEF Total

(* Nothing is counted when there is nothing to count.                      *)
LEMMA TotalZero ==
  ASSUME NEW f, Counted(f)
  PROVE  Total(f) = 0 <=> \A c \in Clusters : f[c] = 0
<1>1. Total(f) = 0 <=> NodesOf(f) = {}
  BY NodesFinite, FS_EmptySet DEF Total
<1>2. ASSUME NodesOf(f) = {}, NEW c \in Clusters PROVE f[c] = 0
  <2>1. 1 \notin 1 .. f[c]
    BY <1>2, InNodesOf
  <2> QED
    BY <2>1 DEF Counted
<1>3. ASSUME \A c \in Clusters : f[c] = 0 PROVE NodesOf(f) = {}
  <2> SUFFICES ASSUME NEW p \in NodesOf(f) PROVE FALSE
    OBVIOUS
  <2>1. PICK d \in Clusters : \E i \in 1 .. f[d] : p = <<d, i>>
    BY NodesArePairs
  <2> QED
    BY <1>3, <2>1
<1> QED
  BY <1>1, <1>2, <1>3

(* Who counts the same, or less, for each cluster does so in total.        *)
LEMMA TotalMonotone ==
  ASSUME NEW f, NEW g, Counted(f), Counted(g), \A c \in Clusters : f[c] <= g[c]
  PROVE  Total(f) <= Total(g)
<1>1. ASSUME NEW p \in NodesOf(f) PROVE p \in NodesOf(g)
  <2>1. PICK d \in Clusters : \E i \in 1 .. f[d] : p = <<d, i>>
    BY <1>1, NodesArePairs
  <2>2. PICK i \in 1 .. f[d] : p = <<d, i>>
    BY <2>1
  <2>3. i \in 1 .. g[d]
    BY <2>2 DEF Counted
  <2> QED
    BY <2>2, <2>3, InNodesOf
<1>2. IsFiniteSet(NodesOf(g)) /\ NodesOf(f) \in SUBSET NodesOf(g)
  BY <1>1, NodesFinite
<1> QED
  BY <1>2, FS_Subset DEF Total

(* A total depends on the counts of the clusters alone.                    *)
LEMMA TotalExtensional ==
  ASSUME NEW f, NEW g, \A c \in Clusters : f[c] = g[c]
  PROVE  Total(f) = Total(g)
BY DEF Total, NodesOf
-----------------------------------------------------------------------------
(* math.ceil of a quotient *)

LEMMA DivFacts ==
  ASSUME NEW a \in Nat, NEW b \in Nat \ {0}
  PROVE  a \div b \in Nat /\ (a \div b) * b <= a /\ a < (a \div b) * b + b
OBVIOUS

LEMMA TimesIsMonotone ==
  ASSUME NEW m \in Int, NEW n \in Int, NEW b \in Nat, m <= n
  PROVE  m * b <= n * b
OBVIOUS

(* CeilDiv(a, b) is the least n with n * b >= a.                           *)
LEMMA CeilIsLeast ==
  ASSUME NEW a \in Nat, NEW b \in Nat \ {0}
  PROVE  /\ CeilDiv(a, b) \in Nat
         /\ \A n \in Int : n >= CeilDiv(a, b) <=> n * b >= a
<1> DEFINE x == a + b - 1
           q == x \div b
<1>1. x \in Nat
  OBVIOUS
<1>2. q \in Nat /\ q * b <= x /\ x < q * b + b
  BY <1>1, DivFacts
<1>3. q * b \in Int
  BY <1>2
<1>4. a <= q * b /\ q * b < a + b
  BY <1>2, <1>3
<1> HIDE DEF x, q
<1>5. ASSUME NEW n \in Int, n >= q PROVE n * b >= a
  <2>1. q * b <= n * b
    BY <1>2, <1>5, TimesIsMonotone
  <2>2. n * b \in Int
    OBVIOUS
  <2> QED
    BY <1>3, <1>4, <2>1, <2>2
<1>6. ASSUME NEW n \in Int, ~(n >= q) PROVE ~(n * b >= a)
  <2>1. (n + 1) * b <= q * b
    BY <1>2, <1>6, TimesIsMonotone
  <2>2. (n + 1) * b = n * b + b /\ n * b \in Int
    OBVIOUS
  <2> QED
    BY <1>3, <1>4, <2>1, <2>2
<1>7. CeilDiv(a, b) = q
  BY DEF CeilDiv, q, x
<1> QED
  BY <1>2, <1>5, <1>6, <1>7

-----------------------------------------------------------------------------
(* The goal *)

(* What Suffices asks for, of the number of active nodes, a rate and a     *)
(* latency.                                                                *)
Enough(n, nodes, rps, latency) ==
    /\ n >= nodes /\ n >= 1
    /\ n * 100000 >= rps * latency
    /\ n * max_ms >= nodes * latency

(* The two estimates taken together are the least number that is enough.   *)
LEMMA EstimateIsLeast ==
  ASSUME NEW nodes \in Nat, NEW rps \in Nat, NEW latency \in Nat
  PROVE  LET n == nodes_to_add(latency, rps, nodes)
         IN  /\ n \in Nat
             /\ Enough(nodes + n, nodes, rps, latency)
             /\ ~Enough(nodes + n - 1, nodes, rps, latency)
<1>0. max_ms \in Nat \ {0}
  BY DemandAssumption
<1>1. PICK R \in Nat : /\ R = estimate_required_nodes(latency, rps)
                       /\ \A n \in Nat : n >= R <=> n * 100000 >= rps * latency
  <2>1. rps * latency \in Nat
    OBVIOUS
  <2>2. CASE rps = 0 \/ latency = 0
    <3>1. rps * latency = 0
      BY <2>2
    <3>2. \A n \in Nat : n >= 0 /\ n * 100000 >= 0
      OBVIOUS
    <3> QED
      BY <2>2, <3>1, <3>2 DEF estimate_required_nodes
  <2>3. CASE ~(rps = 0 \/ latency = 0)
    <3>1. estimate_required_nodes(latency, rps) = CeilDiv(rps * latency, 100000)
      BY <2>3 DEF estimate_required_nodes
    <3>2. /\ CeilDiv(rps * latency, 100000) \in Nat
          /\ \A n \in Int : n >= CeilDiv(rps * latency, 100000)
                               <=> n * 100000 >= rps * latency
      BY <2>1, CeilIsLeast
    <3> QED
      BY <3>1, <3>2
  <2> QED
    BY <2>2, <2>3
<1>2. PICK L \in Nat : /\ L = CeilDiv(nodes * latency, max_ms)
                       /\ \A n \in Int : n >= L <=> n * max_ms >= nodes * latency
  <2>1. nodes * latency \in Nat
    OBVIOUS
  <2> QED
    BY <1>0, <2>1, CeilIsLeast
<1>3. latency <= max_ms => L <= nodes
  <2>1. latency <= max_ms => latency * nodes <= max_ms * nodes
    BY <1>0, TimesIsMonotone
  <2>2. latency * nodes = nodes * latency /\ max_ms * nodes = nodes * max_ms
    BY <1>0
  <2> QED
    BY <1>0, <1>2, <2>1, <2>2
<1>4. latency > max_ms => L >= nodes
  <2>1. SUFFICES ASSUME latency > max_ms, L < nodes PROVE FALSE
    BY <1>2
  <2>2. max_ms * nodes <= latency * nodes
    BY <1>0, <2>1, TimesIsMonotone
  <2>3. nodes - 1 >= L
    BY <2>1
  <2>4. (nodes - 1) * max_ms >= nodes * latency
    BY <1>2, <2>3
  <2>5. (nodes - 1) * max_ms = nodes * max_ms - max_ms /\ nodes * max_ms \in Int
        /\ latency * nodes = nodes * latency /\ max_ms * nodes = nodes * max_ms
        /\ nodes * latency \in Int
    BY <1>0
  <2> QED
    BY <1>0, <2>2, <2>4, <2>5
<1>5. nodes = 0 => L = 0
  <2>1. nodes = 0 => 0 * max_ms = 0 /\ nodes * latency = 0
    BY <1>0
  <2> QED
    BY <1>2, <2>1
<1>6. PICK A \in Int : A = nodes_to_add(latency, rps, nodes)
  BY <1>1, <1>2 DEF nodes_to_add, estimate_nodes_to_add, apply_lantecy_scaling, MaxOf
<1>7. /\ A \in Nat
      /\ nodes + A >= 1 /\ nodes + A >= R /\ nodes + A >= L
      /\ \/ A = 0 /\ nodes >= 1
         \/ nodes + A = 1 /\ nodes = 0
         \/ nodes + A = R
         \/ nodes + A = L
  <2>1. CASE nodes = 0
    BY <1>1, <1>5, <1>6, <2>1
       DEF nodes_to_add, estimate_nodes_to_add, apply_lantecy_scaling, MaxOf
  <2>2. CASE nodes > 0 /\ latency > max_ms
    BY <1>0, <1>1, <1>2, <1>4, <1>6, <2>2
       DEF nodes_to_add, estimate_nodes_to_add, apply_lantecy_scaling, MaxOf
  <2>3. CASE nodes > 0 /\ latency <= max_ms
    BY <1>0, <1>1, <1>3, <1>6, <2>3
       DEF nodes_to_add, estimate_nodes_to_add, apply_lantecy_scaling, MaxOf
  <2> QED
    BY <1>0, <2>1, <2>2, <2>3
<1>8. Enough(nodes + A, nodes, rps, latency)
  <2>1. (nodes + A) * 100000 >= rps * latency
    BY <1>1, <1>7
  <2>2. (nodes + A) * max_ms >= nodes * latency
    BY <1>2, <1>7
  <2> QED
    BY <1>7, <2>1, <2>2 DEF Enough
<1>9. ~Enough(nodes + A - 1, nodes, rps, latency)
  <2>1. SUFFICES ASSUME Enough(nodes + A - 1, nodes, rps, latency) PROVE FALSE
    OBVIOUS
  <2>2. nodes + A - 1 >= nodes /\ nodes + A - 1 >= 1 /\ nodes + A - 1 \in Nat
    BY <1>7, <2>1 DEF Enough
  <2>3. nodes + A - 1 >= R
    BY <1>1, <2>1, <2>2 DEF Enough
  <2>4. nodes + A - 1 >= L
    BY <1>2, <2>1, <2>2 DEF Enough
  <2> QED
    BY <1>1, <1>2, <1>7, <2>2, <2>3, <2>4
<1> QED
  BY <1>6, <1>7, <1>8, <1>9

-----------------------------------------------------------------------------
(* The counts *)

(* No cluster counts more nodes than it has, nodes are started by at most  *)
(* one request that is waited for, and what is left to ask for is not less *)
(* than what has been asked for.                                           *)
Counts ==
    /\ off \in [Clusters -> Nat] /\ booting \in [Clusters -> Nat]
    /\ stray \in [Clusters -> Nat] /\ view \in [Clusters -> Nat]
    /\ \A c \in Clusters : off[c] + booting[c] + stray[c] <= Size[c]
    /\ phase \in Phases
    /\ unread \subseteq Clusters
    /\ order \in Orders /\ at \in Nat \ {0}
    /\ toAdd \in Nat /\ asked \in Nat

Waiting ==
    /\ phase = "asking" => asked <= toAdd /\ at <= Len(order)
    /\ \A c \in Clusters :
           booting[c] > 0 => phase = "asking" /\ at <= Len(order) /\ c = order[at]

(* What the estimates were made from is kept until the end of the loop.    *)
GoalInv ==
    /\ active \in Nat
    /\ demand \in Nat \X Nat
    /\ Scaling => Suffices(Goal) /\ ~Suffices(Goal - 1)

Inv == Counts /\ Waiting /\ GoalInv

LEMMA SizeNat == Size \in [Clusters -> Nat]
  BY ClustersAssumption

LEMMA OrdersAreLists ==
  ASSUME NEW s \in Orders
  PROVE  Len(s) \in Nat /\ \A i \in Nat \ {0} : i <= Len(s) => s[i] \in Clusters
<1>1. Cardinality(Clusters) \in Nat
  BY ClustersAssumption, FS_CardinalityType
<1>2. s \in [1 .. Cardinality(Clusters) -> Clusters]
  BY DEF Orders
<1>3. s \in Seq(Clusters) /\ Len(s) = Cardinality(Clusters)
  BY <1>1, <1>2
<1> QED
  BY <1>1, <1>2, <1>3

(* The cluster the loop is at.                                             *)
LEMMA OrderFacts ==
  ASSUME Counts
  PROVE  Len(order) \in Nat /\ \A i \in Nat \ {0} : i <= Len(order) => order[i] \in Clusters
BY OrdersAreLists DEF Counts

LEMMA InitInv == Init => Inv
<1> SUFFICES ASSUME Init PROVE Inv
  OBVIOUS
<1>1. off \in [Clusters -> Nat] /\ \A c \in Clusters : off[c] <= Size[c]
  BY DEF Init
<1>2. PICK s \in Orders : TRUE
  <2>1. PICK n \in Nat : n = Cardinality(Clusters)
    BY ClustersAssumption, FS_CardinalityType
  <2>2. ExistsBijection(1 .. n, Clusters)
    BY <2>1, ClustersAssumption, FS_CardinalityType
  <2>3. PICK f \in [1 .. n -> Clusters] : \A i, j \in 1 .. n : f[i] = f[j] => i = j
    BY <2>2 DEF ExistsBijection, Bijection, Injection, IsInjective
  <2> QED
    BY <2>1, <2>3 DEF Orders
<1>3. order \in Orders
  BY <1>2 DEF Init
<1>4. Counts
  BY <1>1, <1>3, SizeNat DEF Init, Counts, Phases
<1> QED
  BY <1>4 DEF Init, Inv, Waiting, GoalInv, Scaling

LEMMA RateIsNat ==
  ASSUME NEW count \in SentCounts, NEW latency \in Latencies
  PROVE  get_current_rps(count) \in Nat /\ latency \in Nat
<1>1. count \in Nat /\ latency \in Nat /\ latency_window_s \in Nat \ {0}
  BY DemandAssumption
<1>2. 200 * count + latency_window_s \in Nat /\ 2 * latency_window_s \in Nat \ {0}
  BY <1>1
<1>3. (200 * count + latency_window_s) \div (2 * latency_window_s) \in Nat
  BY <1>2, DivFacts
<1> QED
  BY <1>1, <1>3 DEF get_current_rps

LEMMA CountsStep ==
  ASSUME Counts, Waiting, GoalInv, Next
  PROVE  Counts' /\ Waiting'
<1>0. /\ Size \in [Clusters -> Nat]
      /\ Len(order) \in Nat
      /\ \A i \in Nat \ {0} : i <= Len(order) => order[i] \in Clusters
  BY SizeNat, OrderFacts
<1> USE DEF Counts, Waiting, Phases
<1>1. CASE BeginCycle \/ EndLoop \/ EndCycle
  <2>1. CASE BeginCycle
    BY <2>1 DEF BeginCycle
  <2>2. CASE EndLoop
    BY <2>2 DEF EndLoop
  <2>3. CASE EndCycle
    BY <2>3 DEF EndCycle
  <2> QED
    BY <1>1, <2>1, <2>2, <2>3
<1>2. ASSUME NEW c \in Clusters, ReadCluster(c) \/ SweepCluster(c) PROVE Counts' /\ Waiting'
  <2>1. CASE ReadCluster(c)
    BY <1>0, <2>1 DEF ReadCluster
  <2>2. CASE SweepCluster(c)
    <3>1. PICK n \in 0 .. Running(c) : off' = [off EXCEPT ![c] = off[c] + n]
      BY <2>2 DEF SweepCluster
    <3>2. n \in Nat /\ off[c] + n + booting[c] + stray[c] <= Size[c]
      BY <1>0, <3>1 DEF Running
    <3>3. /\ off' \in [Clusters -> Nat]
          /\ \A d \in Clusters : off'[d] + booting[d] + stray[d] <= Size[d]
      BY <3>1, <3>2
    <3> QED
      BY <2>2, <3>3 DEF SweepCluster
  <2> QED
    BY <1>2, <2>1, <2>2
<1>3. ASSUME NEW count \in SentCounts, NEW latency \in Latencies, Decide(count, latency)
      PROVE  Counts' /\ Waiting'
  <2>1. get_current_rps(count) \in Nat /\ latency \in Nat
    BY RateIsNat
  <2>2. nodes_to_add(latency, get_current_rps(count), active) \in Nat
    BY <2>1, EstimateIsLeast DEF GoalInv
  <2> QED
    BY <1>0, <1>3, <2>2 DEF Decide
<1>4. CASE SkipCluster \/ RequestFails
  BY <1>0, <1>4 DEF SkipCluster, RequestFails, InLoop
<1>5. CASE turn_on_nodes
  <2>1. order[at] \in Clusters /\ booting[order[at]] = 0
    BY <1>0, <1>5 DEF turn_on_nodes, InLoop
  <2>2. PICK n \in Nat : /\ n = MinOf(Amount, off[order[at]])
                         /\ n <= toAdd /\ n <= off[order[at]]
    BY <2>1 DEF MinOf, Amount
  <2>3. /\ off' = [off EXCEPT ![order[at]] = off[order[at]] - n]
        /\ booting' = [booting EXCEPT ![order[at]] = n]
        /\ asked' = n /\ phase' = "asking"
        /\ UNCHANGED <<stray, unread, view, active, demand, order, at, toAdd>>
        /\ at <= Len(order)
    BY <1>5, <2>2 DEF turn_on_nodes, InLoop
  <2> QED
    BY <1>0, <2>1, <2>2, <2>3
<1>6. CASE TurnedOn
  <2>1. order[at] \in Clusters
    BY <1>0, <1>6 DEF TurnedOn
  <2>2. \A c \in Clusters : booting[c] = 0
    <3>1. booting[order[at]] = 0
      BY <1>6 DEF TurnedOn
    <3> QED
      BY <3>1
  <2> QED
    BY <1>0, <1>6, <2>2 DEF TurnedOn
<1>7. CASE AnswerLost
  <2>1. order[at] \in Clusters
    BY <1>0, <1>7 DEF AnswerLost
  <2>2. \A c \in Clusters : booting'[c] = 0
    BY <1>7, <2>1 DEF AnswerLost
  <2>3. /\ stray' \in [Clusters -> Nat] /\ booting' \in [Clusters -> Nat]
        /\ \A c \in Clusters : off[c] + booting'[c] + stray'[c] <= Size[c]
    BY <1>0, <1>7, <2>1 DEF AnswerLost
  <2> QED
    BY <1>0, <1>7, <2>2, <2>3 DEF AnswerLost
<1>8. ASSUME NEW c \in Clusters, NodeReady(c) \/ NodeGivenUp(c) PROVE Counts' /\ Waiting'
  <2>1. UNCHANGED scalerVars
    BY <1>8 DEF NodeReady, NodeGivenUp
  <2>2. /\ off' \in [Clusters -> Nat] /\ booting' \in [Clusters -> Nat]
        /\ stray' \in [Clusters -> Nat]
        /\ \A d \in Clusters : off'[d] + booting'[d] + stray'[d] <= Size[d]
        /\ \A d \in Clusters : booting'[d] <= booting[d]
    <3>0. /\ off \in [Clusters -> Nat] /\ booting \in [Clusters -> Nat]
          /\ stray \in [Clusters -> Nat]
          /\ \A d \in Clusters : off[d] + booting[d] + stray[d] <= Size[d]
      OBVIOUS
    <3> HIDE DEF Counts, Waiting, Phases
    <3>1. CASE booting[c] > 0 /\ booting' = [booting EXCEPT ![c] = booting[c] - 1]
               /\ stray' = stray /\ (off' = off \/ off' = [off EXCEPT ![c] = off[c] + 1])
      <4>1. /\ booting' \in [Clusters -> Nat] /\ booting'[c] = booting[c] - 1
            /\ \A d \in Clusters \ {c} : booting'[d] = booting[d]
        BY <3>0, <3>1
      <4>2. /\ off' \in [Clusters -> Nat] /\ off'[c] <= off[c] + 1
            /\ \A d \in Clusters \ {c} : off'[d] = off[d]
        BY <3>0, <3>1
      <4>3. stray' \in [Clusters -> Nat] /\ \A d \in Clusters : stray'[d] = stray[d]
        BY <3>0, <3>1
      <4>4. ASSUME NEW d \in Clusters
            PROVE  off'[d] + booting'[d] + stray'[d] <= Size[d] /\ booting'[d] <= booting[d]
        <5>1. /\ off[d] \in Nat /\ booting[d] \in Nat /\ stray[d] \in Nat /\ Size[d] \in Nat
              /\ off'[d] \in Nat /\ booting'[d] \in Nat /\ stray'[d] \in Nat
              /\ off[d] + booting[d] + stray[d] <= Size[d]
          BY <1>0, <3>0, <4>1, <4>2, <4>3
        <5>2. CASE d = c
          BY <4>1, <4>2, <4>3, <5>1, <5>2
        <5>3. CASE d # c
          BY <4>1, <4>2, <4>3, <5>1, <5>3
        <5> QED
          BY <5>2, <5>3
      <4> QED
        BY <4>1, <4>2, <4>3, <4>4
    <3>2. CASE stray[c] > 0 /\ stray' = [stray EXCEPT ![c] = stray[c] - 1]
               /\ booting' = booting /\ (off' = off \/ off' = [off EXCEPT ![c] = off[c] + 1])
      <4>1. /\ stray' \in [Clusters -> Nat] /\ stray'[c] = stray[c] - 1
            /\ \A d \in Clusters \ {c} : stray'[d] = stray[d]
        BY <3>0, <3>2
      <4>2. /\ off' \in [Clusters -> Nat] /\ off'[c] <= off[c] + 1
            /\ \A d \in Clusters \ {c} : off'[d] = off[d]
        BY <3>0, <3>2
      <4>3. booting' \in [Clusters -> Nat] /\ \A d \in Clusters : booting'[d] = booting[d]
        BY <3>0, <3>2
      <4>4. ASSUME NEW d \in Clusters
            PROVE  off'[d] + booting'[d] + stray'[d] <= Size[d] /\ booting'[d] <= booting[d]
        <5>1. /\ off[d] \in Nat /\ booting[d] \in Nat /\ stray[d] \in Nat /\ Size[d] \in Nat
              /\ off'[d] \in Nat /\ booting'[d] \in Nat /\ stray'[d] \in Nat
              /\ off[d] + booting[d] + stray[d] <= Size[d]
          BY <1>0, <3>0, <4>1, <4>2, <4>3
        <5>2. CASE d = c
          BY <4>1, <4>2, <4>3, <5>1, <5>2
        <5>3. CASE d # c
          BY <4>1, <4>2, <4>3, <5>1, <5>3
        <5> QED
          BY <5>2, <5>3
      <4> QED
        BY <4>1, <4>2, <4>3, <4>4
    <3> QED
      BY <1>8, <3>1, <3>2 DEF NodeReady, NodeGivenUp
  <2>3. \A d \in Clusters : booting'[d] > 0 => booting[d] > 0
    BY <2>2
  <2> QED
    BY <2>1, <2>2, <2>3 DEF scalerVars
<1> QED
  BY <1>1, <1>2, <1>3, <1>4, <1>5, <1>6, <1>7, <1>8 DEF Next, SchedulerStep, NodeStep

(* The goal is set when the loop begins; nothing in the loop moves it.     *)
LEMMA GoalStep ==
  ASSUME Counts, GoalInv, Next
  PROVE  GoalInv'
<1>1. CASE /\ active' = active /\ demand' = demand
           /\ Scaling' => Scaling
  BY <1>1 DEF GoalInv, Suffices, Goal
<1>2. CASE BeginCycle \/ EndLoop
  BY <1>1, <1>2 DEF BeginCycle, EndLoop, Scaling
<1>3. CASE EndCycle
  BY <1>3 DEF EndCycle, GoalInv, Scaling
<1>4. ASSUME NEW c \in Clusters, ReadCluster(c) \/ SweepCluster(c) PROVE GoalInv'
  <2>1. Running(c) \in Nat
    BY SizeNat DEF Running, Counts
  <2>2. CASE ReadCluster(c)
    BY <2>1, <2>2 DEF ReadCluster, GoalInv, Scaling
  <2>3. CASE SweepCluster(c)
    BY <1>1, <2>3 DEF SweepCluster, Scaling
  <2> QED
    BY <1>4, <2>2, <2>3
<1>5. ASSUME NEW count \in SentCounts, NEW latency \in Latencies, Decide(count, latency)
      PROVE  GoalInv'
  <2> DEFINE rps == get_current_rps(count)
  <2>1. rps \in Nat /\ latency \in Nat /\ active \in Nat
    BY RateIsNat DEF GoalInv
  <2>2. CASE rps = 0 \/ latency = 0
    BY <1>1, <1>5, <2>2 DEF Decide, Scaling
  <2>3. CASE ~(rps = 0 \/ latency = 0)
    <3>1. demand' = <<rps, latency>> /\ active' = active
      BY <1>5, <2>3 DEF Decide
    <3> HIDE DEF rps
    <3>2. PICK n \in Nat : /\ n = nodes_to_add(latency, rps, active)
                           /\ Enough(active + n, active, rps, latency)
                           /\ ~Enough(active + n - 1, active, rps, latency)
      BY <2>1, EstimateIsLeast
    <3>3. PICK goal \in Int : goal = active + n
      BY <2>1
    <3>4. Goal' = goal
      BY <3>1, <3>2, <3>3 DEF Goal
    <3>5. demand'[1] = rps /\ demand'[2] = latency
      BY <3>1
    <3>6. \A m : Suffices(m)' <=> Enough(m, active, rps, latency)
      BY <3>1, <3>5 DEF Suffices, Enough
    <3>7. Suffices(goal)' /\ ~Suffices(goal - 1)'
      BY <2>1, <3>2, <3>3, <3>6
    <3>8. Suffices(Goal)' /\ ~Suffices(Goal - 1)'
      BY <3>4, <3>7 DEF Suffices
    <3> QED
      BY <2>1, <3>1, <3>8 DEF GoalInv
  <2> QED
    BY <2>2, <2>3
<1>6. CASE SkipCluster \/ turn_on_nodes \/ RequestFails \/ TurnedOn \/ AnswerLost
  BY <1>1, <1>6 DEF SkipCluster, turn_on_nodes, RequestFails, TurnedOn, AnswerLost, InLoop,
                    Scaling
<1>7. CASE NodeStep
  BY <1>1, <1>7 DEF NodeStep, NodeReady, NodeGivenUp, scalerVars, Scaling
<1> QED
  BY <1>2, <1>3, <1>4, <1>5, <1>6, <1>7 DEF Next, SchedulerStep

LEMMA NextInv == Inv /\ [Next]_vars => Inv'
<1> SUFFICES ASSUME Inv, [Next]_vars PROVE Inv'
  OBVIOUS
<1>1. CASE Next
  BY <1>1, CountsStep, GoalStep DEF Inv
<1>2. CASE UNCHANGED vars
  BY <1>2 DEF vars, scalerVars, Inv, Counts, Waiting, GoalInv, Scaling, Suffices, Goal
<1> QED
  BY <1>1, <1>2

(* The inductive invariant of a cycle.                                     *)
THEOREM CycleInv == Spec => []Inv
BY InitInv, NextInv, PTL DEF Spec

(* While it powers nodes on, the scheduler is after the least number of    *)
(* nodes that is at least one, no fewer than there are, enough for the     *)
(* rate and enough to bring the latency down to the limit: for all rates,  *)
(* latencies, limits and numbers of nodes.                                 *)
THEOREM GoalIsLeast == Spec => []GoalIsLeastSufficient
<1>1. Inv => GoalIsLeastSufficient
  BY DEF Inv, GoalInv, GoalIsLeastSufficient
<1> QED
  BY <1>1, CycleInv, PTL

-----------------------------------------------------------------------------
(* The census of a cycle *)

(* What a cycle starts with, and where its loop can be.                    *)
CycleBounds ==
    /\ phase \in {"asleep", "reading"} => at = 1
    /\ phase = "asleep" => active = 0
    /\ phase # "asking" => asked = 0
    /\ at <= Cardinality(Clusters) + 1
    /\ clean \in BOOLEAN /\ failed \in BOOLEAN

(* Active nodes are counted once for each cluster that has been asked.     *)
Owned == [c \in Clusters |-> IF c \in unread THEN Size[c] ELSE 0]

ActiveInv ==
    /\ active <= Total(Size)
    /\ phase = "reading" => active + Total(Owned) <= Total(Size)

(* As long as nothing is starting that the scheduler does not know of, the *)
(* census is exact: what has been seen running and what may still be add   *)
(* up to all nodes there are.                                              *)
Unseen == [c \in Clusters |-> IF c \in unread THEN Size[c] ELSE off[c]]

CensusInv ==
    phase = "reading" /\ clean =>
        /\ \A c \in Clusters : stray[c] = 0
        /\ active + Total(Unseen) = Total(Size)
        /\ \A c \in Clusters \ unread : view[c] = off[c]

(* The nodes that are up with those still to be asked for: at most the     *)
(* goal, and the goal itself as long as nothing has failed.                *)
Promised == Up + toAdd - asked

DebtInv ==
    Scaling /\ clean =>
        /\ Promised <= Goal
        /\ ~failed => Promised = Goal

(* Undisturbed, the loop knows how many nodes each cluster it has not been *)
(* at has left, and goes on only when those before have none.              *)
LoopInv ==
    Scaling /\ clean /\ ~failed =>
        /\ \A i \in at .. Len(order) :
              off[order[i]] = view[order[i]] - (IF i = at THEN asked ELSE 0)
        /\ toAdd > 0 => \A i \in 1 .. at - 1 : off[order[i]] = 0
        /\ phase = "asking" => /\ toAdd > 0
                               /\ asked = toAdd \/ off[order[at]] = 0

CensusOfCycle == CycleBounds /\ ActiveInv /\ CensusInv /\ DebtInv /\ LoopInv

LEMMA InitCensus == Init => CensusOfCycle
<1> SUFFICES ASSUME Init PROVE CensusOfCycle
  OBVIOUS
<1>1. Cardinality(Clusters) \in Nat
  BY ClustersAssumption, FS_CardinalityType
<1>2. Total(Size) \in Nat
  BY NodesFinite, SizeNat DEF Counted
<1>3. phase = "asleep" /\ active = 0 /\ at = 1 /\ asked = 0
  BY DEF Init
<1>4. clean \in BOOLEAN /\ failed \in BOOLEAN
  BY DEF Init
<1>5. CycleBounds
  BY <1>1, <1>3, <1>4 DEF CycleBounds
<1>6. ActiveInv /\ CensusInv /\ DebtInv /\ LoopInv
  BY <1>2, <1>3 DEF ActiveInv, CensusInv, DebtInv, LoopInv, Scaling
<1> QED
  BY <1>5, <1>6 DEF CensusOfCycle

(* The loop comes to every cluster.                                        *)
LEMMA OrderIsOnto ==
  ASSUME Counts
  PROVE  /\ Len(order) = Cardinality(Clusters)
         /\ \A c \in Clusters : \E i \in 1 .. Len(order) : order[i] = c
<1> DEFINE N == Cardinality(Clusters)
           places == 1 .. N
<1>1. N \in Nat
  BY ClustersAssumption, FS_CardinalityType
<1>2. order \in [places -> Clusters] /\ \A i, j \in places : order[i] = order[j] => i = j
  BY DEF Counts, Orders
<1>3. IsFiniteSet(places) /\ Cardinality(places) = N
  <2> HIDE DEF N
  <2> QED
    BY <1>1, IntervalSize
<1>4. Len(order) = N
  BY <1>1, <1>2
<1> HIDE DEF N, places
<1>5. order \in Injection(places, Clusters)
  BY <1>2 DEF Injection, IsInjective
<1>6. order \in Surjection(places, Clusters)
  BY <1>3, <1>5, ClustersAssumption, FS_Injection DEF N
<1>7. \A c \in Clusters : \E i \in places : order[i] = c
  BY <1>6 DEF Surjection
<1> QED
  BY <1>4, <1>7 DEF N, places

(* The loop is left at the end of the list at the latest.                  *)
LEMMA BoundsStep ==
  ASSUME Inv, CycleBounds, Next
  PROVE  CycleBounds'
<1>0. Len(order) = Cardinality(Clusters) /\ at \in Nat /\ Cardinality(Clusters) \in Nat
  BY OrderIsOnto, ClustersAssumption, FS_CardinalityType DEF Inv, Counts
<1>1. at' <= Cardinality(Clusters) + 1
  BY <1>0 DEF CycleBounds, Inv, Waiting, Next, SchedulerStep, NodeStep, BeginCycle, ReadCluster,
     SweepCluster, Decide, SkipCluster, turn_on_nodes, RequestFails, TurnedOn, AnswerLost,
     EndLoop, EndCycle, NodeReady, NodeGivenUp, scalerVars, InLoop
<1>2. clean' \in BOOLEAN /\ failed' \in BOOLEAN
  BY DEF CycleBounds, Next, SchedulerStep, NodeStep, BeginCycle, ReadCluster,
     SweepCluster, Decide, SkipCluster, turn_on_nodes, RequestFails, TurnedOn, AnswerLost,
     EndLoop, EndCycle, NodeReady, NodeGivenUp
<1>3. /\ phase' \in {"asleep", "reading"} => at' = 1
      /\ phase' = "asleep" => active' = 0
      /\ phase' # "asking" => asked' = 0
  BY DEF CycleBounds, Next, SchedulerStep, NodeStep, BeginCycle, ReadCluster,
     SweepCluster, Decide, SkipCluster, turn_on_nodes, RequestFails, TurnedOn, AnswerLost,
     EndLoop, EndCycle, NodeReady, NodeGivenUp, scalerVars, InLoop
<1> QED
  BY <1>1, <1>2, <1>3 DEF CycleBounds

(* What has been counted stays below what there is.                        *)
LEMMA ActiveStep ==
  ASSUME Inv, CycleBounds, ActiveInv, Next
  PROVE  ActiveInv'
<1> DEFINE OwnedBy(S) == [c \in Clusters |-> IF c \in S THEN Size[c] ELSE 0]
<1>0. /\ Counted(Size) /\ Total(Size) \in Nat /\ Total(Size)' = Total(Size)
      /\ active \in Nat
  BY SizeNat, NodesFinite DEF Counted, Inv, GoalInv, Total, NodesOf
<1>1. \A S : Counted(OwnedBy(S)) /\ Total(OwnedBy(S)) \in Nat
  BY SizeNat, NodesFinite DEF Counted
<1>2. Owned = OwnedBy(unread) /\ Owned' = OwnedBy(unread')
  BY DEF Owned
<1>3. Total(Owned) = Total(OwnedBy(unread)) /\ Total(Owned)' = Total(OwnedBy(unread'))
  BY <1>2 DEF Total, NodesOf
<1>4. CASE BeginCycle
  <2>1. active' = 0 /\ unread' = Clusters
    BY <1>4 DEF BeginCycle, CycleBounds
  <2>2. Total(OwnedBy(Clusters)) = Total(Size)
    BY TotalExtensional
  <2> HIDE DEF OwnedBy
  <2> QED
    BY <1>0, <1>3, <2>1, <2>2 DEF ActiveInv
<1>5. ASSUME NEW c \in Clusters, ReadCluster(c) PROVE ActiveInv'
  <2>1. /\ phase = "reading" /\ c \in unread /\ unread' = unread \ {c}
        /\ active' = active + Running(c)
    BY <1>5 DEF ReadCluster
  <2>2. Running(c) \in Nat /\ Running(c) <= Size[c] /\ Size[c] \in Nat
    BY SizeNat DEF Running, Inv, Counts
  <2>3. OwnedBy(unread)[c] = OwnedBy(unread')[c] + Size[c]
        /\ \A d \in Clusters \ {c} : OwnedBy(unread)[d] = OwnedBy(unread')[d]
    BY <2>1, <2>2
  <2> HIDE DEF OwnedBy
  <2>4. Total(OwnedBy(unread)) = Total(OwnedBy(unread')) + Size[c]
    BY <1>1, <2>2, <2>3, TotalStep
  <2>5. active + Total(OwnedBy(unread)) <= Total(Size)
    BY <1>3, <2>1 DEF ActiveInv
  <2> QED
    BY <1>0, <1>1, <1>3, <2>1, <2>2, <2>4, <2>5 DEF ActiveInv
<1>6. CASE EndCycle
  BY <1>0, <1>6 DEF EndCycle, ActiveInv
<1>7. CASE UNCHANGED active /\ phase' # "reading"
  BY <1>0, <1>7 DEF ActiveInv
<1>8. CASE NodeStep
  <2>1. active' = active /\ phase' = phase /\ unread' = unread
    BY <1>8 DEF NodeStep, NodeReady, NodeGivenUp, scalerVars
  <2> HIDE DEF OwnedBy
  <2> QED
    BY <1>0, <1>3, <2>1 DEF ActiveInv
<1>9. ASSUME NEW c \in Clusters, SweepCluster(c) PROVE ActiveInv'
  BY <1>7, <1>9 DEF SweepCluster
<1>10. CASE EndLoop \/ SkipCluster \/ turn_on_nodes \/ RequestFails \/ TurnedOn \/ AnswerLost
  BY <1>7, <1>10 DEF EndLoop, SkipCluster, turn_on_nodes, RequestFails, TurnedOn, AnswerLost,
                     InLoop
<1>11. ASSUME NEW count \in SentCounts, NEW latency \in Latencies, Decide(count, latency)
       PROVE  ActiveInv'
  BY <1>7, <1>11 DEF Decide
<1> QED
  BY <1>4, <1>5, <1>6, <1>8, <1>9, <1>10, <1>11 DEF Next, SchedulerStep

(* Nothing moves during the census when nothing was starting before it.    *)
LEMMA CensusStep ==
  ASSUME Inv, Inv', CycleBounds, CensusInv, Next
  PROVE  CensusInv'
<1> DEFINE UnseenOf(S, f) == [c \in Clusters |-> IF c \in S THEN Size[c] ELSE f[c]]
<1>0. /\ Total(Size)' = Total(Size) /\ active \in Nat
      /\ \A c \in Clusters : /\ Size[c] \in Nat /\ off[c] \in Nat /\ off'[c] \in Nat
                             /\ stray[c] \in Nat /\ booting[c] \in Nat
  BY SizeNat DEF Inv, Counts, GoalInv, Total, NodesOf
<1>1. Total(Unseen) = Total(UnseenOf(unread, off))
      /\ Total(Unseen)' = Total(UnseenOf(unread', off'))
  BY DEF Unseen, Total, NodesOf
<1>2. /\ Counted(UnseenOf(unread, off)) /\ Total(UnseenOf(unread, off)) \in Nat
      /\ Counted(UnseenOf(unread', off')) /\ Total(UnseenOf(unread', off')) \in Nat
  BY <1>0, NodesFinite DEF Counted
<1>3. CASE BeginCycle
  <2>1. /\ active' = 0 /\ unread' = Clusters /\ stray' = stray
        /\ clean' = (Total(stray) = 0)
    BY <1>3 DEF BeginCycle, CycleBounds
  <2>2. Total(UnseenOf(unread', off')) = Total(Size)
    BY <2>1, TotalExtensional
  <2>3. Total(stray) = 0 => \A c \in Clusters : stray[c] = 0
    BY <1>0, TotalZero DEF Counted
  <2> HIDE DEF UnseenOf
  <2>4. clean' => \A c \in Clusters : stray'[c] = 0
    BY <2>1, <2>3
  <2> QED
    BY <1>0, <1>1, <1>2, <2>1, <2>2, <2>4 DEF CensusInv
<1>4. ASSUME NEW c \in Clusters, ReadCluster(c), clean' PROVE CensusInv'
  <2>1. /\ phase = "reading" /\ c \in unread /\ unread' = unread \ {c} /\ clean
        /\ active' = active + Running(c) /\ off' = off /\ stray' = stray
        /\ view' = [view EXCEPT ![c] = off[c]] /\ view \in [Clusters -> Nat]
    BY <1>4 DEF ReadCluster, Inv, Counts
  <2>2. /\ \A d \in Clusters : stray[d] = 0
        /\ active + Total(UnseenOf(unread, off)) = Total(Size)
        /\ \A d \in Clusters \ unread : view[d] = off[d]
    BY <1>1, <2>1 DEF CensusInv
  <2>3. booting[c] = 0
    BY <1>0, <2>1 DEF Inv, Waiting
  <2>4. Running(c) = Size[c] - off[c] /\ Running(c) \in Nat
    BY <1>0, <2>2, <2>3 DEF Running, Inv, Counts
  <2>5. UnseenOf(unread, off)[c] = UnseenOf(unread', off')[c] + Running(c)
        /\ \A d \in Clusters \ {c} : UnseenOf(unread, off)[d] = UnseenOf(unread', off')[d]
    BY <1>0, <2>1, <2>4
  <2> HIDE DEF UnseenOf
  <2>6. Total(UnseenOf(unread, off)) = Total(UnseenOf(unread', off')) + Running(c)
    BY <1>2, <2>4, <2>5, TotalStep
  <2>7. active' + Total(UnseenOf(unread', off')) = Total(Size)
    BY <1>0, <1>2, <2>1, <2>2, <2>4, <2>6
  <2>8. \A d \in Clusters \ unread' : view'[d] = off'[d]
    BY <2>1, <2>2
  <2>9. \A d \in Clusters : stray'[d] = 0
    BY <2>1, <2>2
  <2> QED
    BY <1>0, <1>1, <2>7, <2>8, <2>9 DEF CensusInv
<1>5. CASE NodeStep
  <2>1. PICK c \in Clusters : booting[c] > 0 \/ stray[c] > 0
    BY <1>5 DEF NodeStep, NodeReady, NodeGivenUp
  <2>2. phase' = phase /\ clean' = clean
    BY <1>5 DEF NodeStep, NodeReady, NodeGivenUp, scalerVars
  <2>3. ~(phase = "reading" /\ clean)
    BY <1>0, <2>1 DEF CensusInv, Inv, Waiting
  <2> QED
    BY <2>2, <2>3 DEF CensusInv
<1>6. CASE phase' # "reading"
  BY <1>6 DEF CensusInv
<1>7. CASE EndLoop \/ SkipCluster \/ turn_on_nodes \/ RequestFails \/ TurnedOn
           \/ AnswerLost \/ EndCycle
  BY <1>6, <1>7 DEF EndLoop, SkipCluster, turn_on_nodes, RequestFails, TurnedOn, AnswerLost,
                    EndCycle, InLoop
<1>8. ASSUME NEW c \in Clusters, SweepCluster(c) PROVE CensusInv'
  BY <1>6, <1>8 DEF SweepCluster
<1>9. ASSUME NEW count \in SentCounts, NEW latency \in Latencies, Decide(count, latency)
      PROVE  CensusInv'
  BY <1>6, <1>9 DEF Decide
<1>10. ~clean' => CensusInv'
  BY DEF CensusInv
<1> QED
  BY <1>3, <1>4, <1>5, <1>7, <1>8, <1>9, <1>10 DEF Next, SchedulerStep

(* The step that ends the census and sets the goal.                        *)
LEMMA DecideSettles ==
  ASSUME Inv, Inv', CycleBounds, CensusInv, NEW count \in SentCounts, NEW latency \in Latencies,
         Decide(count, latency), Scaling', clean'
  PROVE  /\ phase' = "loop" /\ off' = off /\ view' = view /\ at' = 1 /\ asked' = 0
         /\ \A c \in Clusters : view[c] = off[c]
         /\ Up' = active /\ active' = active /\ active \in Nat
         /\ toAdd' = nodes_to_add(demand'[2], demand'[1], active)
         /\ Goal' = active + toAdd' /\ toAdd' \in Nat
<1>1. /\ phase = "reading" /\ unread = {} /\ clean /\ at = 1 /\ asked = 0
      /\ UNCHANGED <<off, view, active, at, asked>>
  BY DEF Decide, CycleBounds
<1>2. /\ phase' = "loop" /\ demand' = <<get_current_rps(count), latency>>
      /\ toAdd' = nodes_to_add(latency, get_current_rps(count), active)
  BY DEF Decide, Scaling
<1>3. /\ active + Total(Unseen) = Total(Size)
      /\ \A c \in Clusters : view[c] = off[c]
  BY <1>1 DEF CensusInv
<1>4. Total(Unseen) = Total(off)
  BY <1>1, TotalExtensional DEF Unseen
<1>5. Total(off) \in Nat /\ active \in Nat
  BY NodesFinite DEF Counted, Inv, Counts, GoalInv
<1>6. Up' = Total(Size) - Total(off)
  BY <1>1 DEF Up, Total, NodesOf
<1>7. Up' = active
  <2>1. Total(Size) \in Nat
    BY SizeNat, NodesFinite DEF Counted
  <2> QED
    BY <1>3, <1>4, <1>5, <1>6, <2>1
<1>8. toAdd' \in Nat
  BY DEF Inv, Counts
<1> QED
  BY <1>1, <1>2, <1>3, <1>5, <1>7, <1>8 DEF Goal

(* The goal is a number.                                                   *)
LEMMA GoalIsInt ==
  ASSUME Inv
  PROVE  Goal \in Int
<1>1. active \in Nat /\ demand[1] \in Nat /\ demand[2] \in Nat
  BY DEF Inv, GoalInv
<1>2. nodes_to_add(demand[2], demand[1], active) \in Nat
  BY <1>1, EstimateIsLeast
<1> QED
  BY <1>1, <1>2 DEF Goal

(* What a step of the loop leaves alone.                                   *)
LEMMA GoalStays ==
  ASSUME active' = active, demand' = demand
  PROVE  Goal' = Goal
BY DEF Goal

(* The debt is what the steps of the loop pay off.                         *)
LEMMA DebtStep ==
  ASSUME Inv, Inv', CycleBounds, CensusInv, DebtInv, Next
  PROVE  DebtInv'
<1> SUFFICES ASSUME Scaling', clean' PROVE (Promised <= Goal /\ (~failed => Promised = Goal))'
  BY DEF DebtInv
<1>0. /\ Total(Size)' = Total(Size) /\ Up' = Total(Size) - Total(off') /\ Total(Size) \in Nat
      /\ Counted(off) /\ Counted(off') /\ Total(off) \in Nat /\ Total(off') \in Nat
      /\ toAdd \in Nat /\ asked \in Nat /\ toAdd' \in Nat /\ asked' \in Nat
  <2>1. Counted(off) /\ Counted(off') /\ Counted(Size)
    BY SizeNat DEF Counted, Inv, Counts
  <2>2. Total(off) \in Nat /\ Total(off') \in Nat /\ Total(Size) \in Nat
    BY <2>1, NodesFinite
  <2>3. Total(Size)' = Total(Size) /\ Up' = Total(Size) - Total(off')
    BY DEF Up, Total, NodesOf
  <2> QED
    BY <2>1, <2>2, <2>3 DEF Inv, Counts
<1>1. ASSUME NEW count \in SentCounts, NEW latency \in Latencies, Decide(count, latency)
      PROVE  (Promised <= Goal /\ (~failed => Promised = Goal))'
  <2>1. Up' = active /\ active \in Nat /\ asked' = 0 /\ Goal' = active + toAdd'
    BY <1>1, DecideSettles
  <2>2. Promised' = Up' + toAdd' - asked'
    BY DEF Promised
  <2>3. Promised' = Goal'
    BY <1>0, <2>1, <2>2
  <2>4. Promised' \in Int
    BY <1>0, <2>1, <2>2
  <2> QED
    BY <2>3, <2>4
<1>2. ASSUME Scaling, clean, Goal' = Goal,
             \/ Promised' = Promised /\ (failed => failed')
             \/ Promised' <= Promised /\ failed'
      PROVE  (Promised <= Goal /\ (~failed => Promised = Goal))'
  <2>1. Promised <= Goal /\ (~failed => Promised = Goal)
    BY <1>2 DEF DebtInv
  <2>2. Promised \in Int /\ Promised' \in Int
    <3>1. Up \in Int /\ Up' \in Int
      BY <1>0 DEF Up
    <3> QED
      BY <1>0, <3>1 DEF Promised
  <2>3. Goal \in Int
    BY GoalIsInt
  <2> QED
    BY <1>2, <2>1, <2>2, <2>3
<1>3. CASE SkipCluster \/ RequestFails \/ TurnedOn
  <2>1. /\ Scaling /\ clean /\ off' = off /\ active' = active /\ demand' = demand
    BY <1>3 DEF SkipCluster, RequestFails, TurnedOn, InLoop, Scaling
  <2>2. failed => failed'
    BY <1>3, Zenon DEF SkipCluster, RequestFails, TurnedOn
  <2>3. toAdd' - asked' = toAdd - asked
    <3>1. CASE SkipCluster \/ RequestFails
      BY <3>1 DEF SkipCluster, RequestFails
    <3>2. CASE TurnedOn
      <4>1. toAdd' = toAdd - asked /\ asked' = 0
        BY <3>2 DEF TurnedOn
      <4> QED
        BY <1>0, <4>1
    <3> QED
      BY <1>3, <3>1, <3>2
  <2>4. Up' = Up
    BY <1>0, <2>1 DEF Up
  <2>5. Promised' = Promised
    BY <1>0, <2>3, <2>4 DEF Promised, Up
  <2> QED
    BY <1>2, <2>1, <2>5, <2>2, GoalStays
<1>4. CASE turn_on_nodes
  <2>1. PICK c \in Clusters : c = order[at]
    BY <1>4, OrderFacts DEF turn_on_nodes, InLoop, Inv, Counts
  <2>2. PICK n \in Nat : n = MinOf(Amount, off[c]) /\ n <= off[c]
    <3>1. view[c] \in Nat /\ off[c] \in Nat
      BY DEF Inv, Counts
    <3> QED
      BY <1>0, <2>1, <3>1 DEF MinOf, Amount
  <2>3. /\ Scaling /\ clean /\ asked = 0 /\ asked' = n /\ toAdd' = toAdd
        /\ off' = [off EXCEPT ![c] = @ - n] /\ active' = active /\ demand' = demand
        /\ failed' = failed
    BY <1>4, <2>1, <2>2 DEF turn_on_nodes, InLoop, Scaling, CycleBounds
  <2>4. off[c] = off'[c] + n /\ \A d \in Clusters \ {c} : off[d] = off'[d]
    BY <2>2, <2>3 DEF Inv, Counts
  <2>5. Total(off) = Total(off') + n
    BY <1>0, <2>4, TotalStep
  <2>6. Up' = Up + n
    BY <1>0, <2>5 DEF Up
  <2>7. Promised' = Promised
    BY <1>0, <2>3, <2>6 DEF Promised, Up
  <2> QED
    BY <1>2, <2>3, <2>7, GoalStays
<1>5. ASSUME NEW c \in Clusters, NodeReady(c)
      PROVE  (Promised <= Goal /\ (~failed => Promised = Goal))'
  <2>1. /\ Scaling /\ clean /\ off' = off /\ active' = active /\ demand' = demand
        /\ failed' = failed /\ toAdd' = toAdd /\ asked' = asked
    BY <1>5 DEF NodeReady, Scaling, scalerVars
  <2>2. Promised' = Promised
    BY <1>0, <2>1 DEF Promised, Up
  <2> QED
    BY <1>2, <2>1, <2>2, GoalStays
<1>6. ASSUME NEW c \in Clusters, NodeGivenUp(c)
      PROVE  (Promised <= Goal /\ (~failed => Promised = Goal))'
  <2>1. /\ Scaling /\ clean /\ active' = active /\ demand' = demand
        /\ failed' /\ toAdd' = toAdd /\ asked' = asked
        /\ off' = [off EXCEPT ![c] = @ + 1]
    BY <1>6 DEF NodeGivenUp, Scaling, scalerVars
  <2>2. off'[c] = off[c] + 1 /\ \A d \in Clusters \ {c} : off'[d] = off[d]
    BY <2>1 DEF Inv, Counts
  <2>3. Total(off') = Total(off) + 1
    BY <1>0, <2>2, TotalStep
  <2>4. Promised' <= Promised
    BY <1>0, <2>1, <2>3 DEF Promised, Up
  <2> QED
    BY <1>2, <2>1, <2>4, GoalStays
<1>7. ~BeginCycle /\ ~EndLoop /\ ~EndCycle /\ ~AnswerLost
      /\ \A c \in Clusters : ~ReadCluster(c) /\ ~SweepCluster(c)
  BY DEF Scaling, BeginCycle, EndLoop, EndCycle, AnswerLost, ReadCluster, SweepCluster
<1> QED
  BY <1>1, <1>3, <1>4, <1>5, <1>6, <1>7 DEF Next, SchedulerStep, NodeStep

(* The loop passes a cluster only when it has no node left to turn on.     *)
LEMMA LoopStep ==
  ASSUME Inv, Inv', CycleBounds, CensusInv, LoopInv, Next
  PROVE  LoopInv'
<1> SUFFICES ASSUME Scaling', clean', ~failed' PROVE LoopInv'
  BY DEF LoopInv
<1>0. /\ at \in Nat \ {0} /\ toAdd \in Nat /\ asked \in Nat /\ Len(order) \in Nat
      /\ \A i \in Nat \ {0} : i <= Len(order) => order[i] \in Clusters
      /\ \A c \in Clusters : off[c] \in Nat /\ view[c] \in Nat
      /\ off \in [Clusters -> Nat]
  BY OrderFacts DEF Inv, Counts
<1>1. ASSUME NEW count \in SentCounts, NEW latency \in Latencies, Decide(count, latency)
      PROVE  LoopInv'
  <2>1. /\ phase' = "loop" /\ off' = off /\ view' = view /\ at' = 1 /\ asked' = 0
        /\ \A c \in Clusters : view[c] = off[c]
    BY <1>1, DecideSettles
  <2>2. Len(order)' \in Nat /\ \A i \in Nat \ {0} : i <= Len(order') => order'[i] \in Clusters
    <3>1. order' \in Orders
      BY DEF Inv, Counts
    <3> QED
      BY <3>1, OrdersAreLists
  <2>3. ASSUME NEW i \in 1 .. Len(order')
        PROVE  off'[order'[i]] = view'[order'[i]] - (IF i = at' THEN asked' ELSE 0)
    <3>1. order'[i] \in Clusters
      BY <2>2
    <3> QED
      BY <1>0, <2>1, <3>1
  <2> QED
    BY <2>1, <2>3 DEF LoopInv
<1>2. ASSUME Scaling, clean, ~failed
      PROVE  /\ \A i \in at .. Len(order) :
                   off[order[i]] = view[order[i]] - (IF i = at THEN asked ELSE 0)
             /\ toAdd > 0 => \A i \in 1 .. at - 1 : off[order[i]] = 0
             /\ phase = "asking" => /\ toAdd > 0
                                    /\ asked = toAdd \/ off[order[at]] = 0
  BY <1>2 DEF LoopInv
<1>3. \A i, j \in 1 .. Len(order) : order[i] = order[j] => i = j
  <2>1. Len(order) = Cardinality(Clusters) /\ order \in Orders
    BY OrderIsOnto DEF Inv, Counts
  <2> QED
    BY <2>1 DEF Orders
<1>4. CASE SkipCluster
  <2>1. /\ Scaling /\ clean /\ ~failed /\ phase' = "loop" /\ asked = 0 /\ asked' = 0
        /\ off' = off /\ view' = view /\ order' = order /\ at' = at + 1 /\ toAdd' = toAdd
        /\ at <= Len(order) /\ toAdd > 0 /\ Amount = 0
    BY <1>4 DEF SkipCluster, InLoop, Scaling, CycleBounds
  <2>2. off[order[at]] = 0
    <3>1. order[at] \in Clusters
      BY <1>0, <2>1
    <3>2. off[order[at]] = view[order[at]]
      BY <1>0, <1>2, <2>1, <3>1
    <3> QED
      BY <1>0, <2>1, <3>1, <3>2 DEF Amount, MinOf
  <2>3. \A i \in 1 .. at' - 1 : off'[order'[i]] = 0
    BY <1>0, <1>2, <2>1, <2>2
  <2>4. \A i \in at' .. Len(order') :
           off'[order'[i]] = view'[order'[i]] - (IF i = at' THEN asked' ELSE 0)
    BY <1>0, <1>2, <2>1
  <2> QED
    BY <2>1, <2>3, <2>4 DEF LoopInv
<1>5. CASE TurnedOn
  <2>1. /\ Scaling /\ clean /\ ~failed /\ phase = "asking" /\ phase' = "loop" /\ asked' = 0
        /\ off' = off /\ view' = view /\ order' = order /\ at' = at + 1
        /\ toAdd' = toAdd - asked
    BY <1>5 DEF TurnedOn, Scaling
  <2>2. ASSUME toAdd' > 0 PROVE \A i \in 1 .. at' - 1 : off'[order'[i]] = 0
    BY <1>0, <1>2, <2>1, <2>2
  <2>3. \A i \in at' .. Len(order') :
           off'[order'[i]] = view'[order'[i]] - (IF i = at' THEN asked' ELSE 0)
    BY <1>0, <1>2, <2>1
  <2> QED
    BY <2>1, <2>2, <2>3 DEF LoopInv
<1>6. CASE turn_on_nodes
  <2>1. /\ Scaling /\ clean /\ ~failed /\ phase' = "asking" /\ asked = 0
        /\ view' = view /\ order' = order /\ at' = at /\ toAdd' = toAdd
        /\ at <= Len(order) /\ toAdd > 0
        /\ asked' = MinOf(Amount, off[order[at]])
        /\ off' = [off EXCEPT ![order[at]] = @ - asked']
    BY <1>6 DEF turn_on_nodes, InLoop, Scaling, CycleBounds
  <2>2. PICK c \in Clusters : c = order[at]
    BY <1>0, <2>1
  <2>3. off[c] = view[c] /\ off[c] \in Nat
    BY <1>0, <1>2, <2>1, <2>2
  <2>4. asked' = MinOf(toAdd, off[c])
    BY <1>0, <2>1, <2>2, <2>3 DEF Amount, MinOf
  <2>5. off'[c] = off[c] - asked' /\ \A d \in Clusters : d # c => off'[d] = off[d]
    BY <1>0, <2>1, <2>2
  <2>6. asked' = toAdd' \/ off'[order'[at']] = 0
    BY <1>0, <2>1, <2>2, <2>3, <2>4, <2>5 DEF MinOf
  <2>7. ASSUME NEW i \in at .. Len(order)
        PROVE  off'[order[i]] = view[order[i]] - (IF i = at THEN asked' ELSE 0)
    <3>1. CASE i = at
      BY <2>2, <2>3, <2>5, <3>1
    <3>2. CASE i # at
      <4>1. order[i] \in Clusters /\ order[i] # c
        BY <1>0, <1>3, <2>1, <2>2, <3>2
      <4>2. off[order[i]] = view[order[i]]
        BY <1>0, <1>2, <2>1, <3>2, <4>1
      <4> QED
        BY <1>0, <2>5, <3>2, <4>1, <4>2
    <3> QED
      BY <3>1, <3>2
  <2>8. ASSUME NEW i \in 1 .. at - 1 PROVE off'[order[i]] = 0
    <3>1. order[i] \in Clusters /\ order[i] # c
      BY <1>0, <1>3, <2>1, <2>2
    <3>2. off[order[i]] = 0
      BY <1>2, <2>1
    <3> QED
      BY <2>5, <3>1, <3>2
  <2> QED
    BY <2>1, <2>6, <2>7, <2>8 DEF LoopInv
<1>7. ASSUME NEW c \in Clusters, NodeReady(c) PROVE LoopInv'
  <2>1. UNCHANGED <<off, phase, view, order, at, toAdd, asked, clean, failed>>
    BY <1>7 DEF NodeReady, scalerVars
  <2> QED
    BY <2>1 DEF LoopInv, Scaling
<1>8. /\ ~BeginCycle /\ ~EndLoop /\ ~EndCycle /\ ~AnswerLost /\ ~RequestFails
      /\ \A c \in Clusters : ~ReadCluster(c) /\ ~SweepCluster(c) /\ ~NodeGivenUp(c)
  BY DEF Scaling, BeginCycle, EndLoop, EndCycle, AnswerLost, RequestFails, ReadCluster,
         SweepCluster, NodeGivenUp
<1> QED
  BY <1>1, <1>4, <1>5, <1>6, <1>7, <1>8 DEF Next, SchedulerStep, NodeStep

LEMMA CensusOfCycleStep == Inv /\ Inv' /\ CensusOfCycle /\ [Next]_vars => CensusOfCycle'
<1>1. Inv /\ Inv' /\ CensusOfCycle /\ Next => CensusOfCycle'
  BY BoundsStep, ActiveStep, CensusStep, DebtStep, LoopStep DEF CensusOfCycle
<1>2. CensusOfCycle /\ UNCHANGED vars => CensusOfCycle'
  BY DEF vars, scalerVars, CensusOfCycle, CycleBounds, ActiveInv, CensusInv, DebtInv, LoopInv,
         Scaling, Owned, Unseen, Promised, Up, Goal, Total, NodesOf
<1> QED
  BY <1>1, <1>2

LEMMA CycleCensus == Spec => [](Inv /\ CensusOfCycle)
BY CycleInv, InitCensus, CensusOfCycleStep, PTL DEF Spec

-----------------------------------------------------------------------------
(* What follows *)

LEMMA CensusGivesTypes ==
  ASSUME Inv, CensusOfCycle
  PROVE  TypeOK
<1>1. \A c \in Clusters : Running(c) >= 0
  BY SizeNat DEF Running, Inv, Counts
<1>2. active \in 0 .. Total(Size)
  <2>1. Total(Size) \in Nat
    BY SizeNat, NodesFinite DEF Counted
  <2> QED
    BY <2>1 DEF CensusOfCycle, ActiveInv, Inv, GoalInv
<1>3. at \in 1 .. Cardinality(Clusters) + 1
  <2>1. Cardinality(Clusters) \in Nat
    BY ClustersAssumption, FS_CardinalityType
  <2> QED
    BY <2>1 DEF CensusOfCycle, CycleBounds, Inv, Counts
<1>4. clean \in BOOLEAN /\ failed \in BOOLEAN
  BY DEF CensusOfCycle, CycleBounds
<1> QED
  BY <1>1, <1>2, <1>3, <1>4 DEF TypeOK, Inv, Counts

(* Type correctness: no cluster counts more nodes than it has, and the     *)
(* census never more than there are.                                       *)
THEOREM CycleTypes == Spec => []TypeOK
<1>1. Inv /\ CensusOfCycle => TypeOK
  BY CensusGivesTypes
<1> QED
  BY <1>1, CycleCensus, PTL

LEMMA CensusBoundsUp ==
  ASSUME Inv, CensusOfCycle, Scaling, clean
  PROVE  Up <= Goal
<1>1. Promised <= Goal
  BY DEF CensusOfCycle, DebtInv
<1>2. asked <= toAdd /\ asked \in Nat /\ toAdd \in Nat
  BY DEF Inv, Counts, Waiting, CensusOfCycle, CycleBounds
<1>3. Up \in Int
  <2>1. Total(Size) \in Nat /\ Total(off) \in Nat
    BY SizeNat, NodesFinite DEF Counted, Inv, Counts
  <2> QED
    BY <2>1 DEF Up
<1>4. Goal \in Int
  BY GoalIsInt
<1> QED
  BY <1>1, <1>2, <1>3, <1>4 DEF Promised

(* No node beyond the goal is powered on in a cycle in which no answer was *)
(* lost: whatever the clusters, their sizes, the rates and the latencies.  *)
THEOREM NeverTooMany == Spec => []NoOvershoot
<1>1. Inv /\ CensusOfCycle => NoOvershoot
  BY CensusBoundsUp DEF NoOvershoot
<1> QED
  BY <1>1, CycleCensus, PTL

LEMMA LoopEndsMet ==
  ASSUME Inv, CensusOfCycle, phase = "loop", ~InLoop, clean, ~failed
  PROVE  Up = Goal \/ Up = Total(Size)
<1>1. Promised = Goal /\ asked = 0
  BY DEF CensusOfCycle, DebtInv, CycleBounds, Scaling
<1>2. Total(Size) \in Nat /\ Total(off) \in Nat /\ Counted(off)
  BY SizeNat, NodesFinite DEF Counted, Inv, Counts
<1>3. CASE toAdd = 0
  <2>1. Up \in Int
    BY <1>2 DEF Up
  <2> QED
    BY <1>1, <1>3, <2>1 DEF Promised
<1>4. CASE toAdd > 0
  <2>1. at > Len(order) /\ Len(order) \in Nat /\ at \in Nat
    BY <1>4, OrderFacts DEF InLoop, Inv, Counts
  <2>2. \A i \in 1 .. at - 1 : off[order[i]] = 0
    BY <1>4 DEF CensusOfCycle, LoopInv, Scaling
  <2>3. \A c \in Clusters : off[c] = 0
    <3> SUFFICES ASSUME NEW c \in Clusters PROVE off[c] = 0
      OBVIOUS
    <3>1. PICK i \in 1 .. Len(order) : order[i] = c
      BY OrderIsOnto DEF Inv
    <3> QED
      BY <2>1, <2>2, <3>1
  <2>4. Total(off) = 0
    BY <1>2, <2>3, TotalZero
  <2> QED
    BY <1>2, <2>4 DEF Up
<1> QED
  BY <1>3, <1>4 DEF Inv, Counts

(* The loop that ends undisturbed has met the goal, or has left no node of *)
(* any cluster off.                                                        *)
THEOREM DemandGetsMet == Spec => []DemandIsMet
<1>1. Inv /\ CensusOfCycle => DemandIsMet
  BY LoopEndsMet DEF DemandIsMet
<1> QED
  BY <1>1, CycleCensus, PTL

(* "Process the best-scoring clusters first": a cluster that is being      *)
(* asked comes after clusters without a node left to turn on.              *)
THEOREM BestClustersFirst == Spec => []BestFirst
<1>1. CensusOfCycle => BestFirst
  BY DEF CensusOfCycle, LoopInv, BestFirst, Scaling
<1> QED
  BY <1>1, CycleCensus, PTL
=============================================================================
