--------------------------- MODULE Scoring_proofs ---------------------------
(***************************************************************************)
(* Proofs about the score and the choice, for all weights, references and  *)
(* loads and any number of clusters: the score, rounding included, never   *)
(* rewards what is worse, and the loop over the clusters returns the first *)
(* of the best.                                                            *)
(***************************************************************************)
EXTENDS Scoring, WellFoundedInduction, TLAPS

LEMMA SmallestNat ==
  ASSUME NEW S, S \subseteq Nat, S # {}
  PROVE  \E m \in S : \A k \in S : m <= k
<1>1. PICK m \in S : \A k \in S : <<k, m>> \notin OpToRel(<, Nat)
  BY WFMin, NatLessThanWellFounded, Zenon
<1>2. \A k \in S : ~(k < m)
  BY <1>1, Zenon DEF OpToRel
<1> QED
  BY <1>2

-----------------------------------------------------------------------------
(* Loops.  A recursive function over 0 .. n exists, whatever its steps do: *)
(* were there a first length it does not reach, the function of the length *)
(* before could be continued by one step.                                  *)

(* g is the loop that starts at z and takes the steps F. *)
Loop(n, S, z, F, g) ==
    /\ g \in [0 .. n -> S]
    /\ g[0] = z
    /\ \A i \in 1 .. n : g[i] = F[<<i, g[i - 1]>>]

LEMMA LoopExists ==
  ASSUME NEW n \in Nat, NEW S, NEW z \in S, NEW F \in [(1 .. n) \X S -> S]
  PROVE  \E g : Loop(n, S, z, F, g)
<1> DEFINE Reaches(k) == \E g \in [0 .. k -> S] :
                            /\ g[0] = z
                            /\ \A i \in 1 .. k : g[i] = F[<<i, g[i - 1]>>]
           Missed == {k \in 0 .. n : ~Reaches(k)}
<1>1. Reaches(0)
  <2> DEFINE h == [i \in 0 .. 0 |-> z]
  <2>1. h \in [0 .. 0 -> S] /\ h[0] = z
    OBVIOUS
  <2>2. \A i \in 1 .. 0 : h[i] = F[<<i, h[i - 1]>>]
    OBVIOUS
  <2> HIDE DEF h
  <2> QED
    BY <2>1, <2>2
<1>2. ASSUME NEW k \in 1 .. n, Reaches(k - 1) PROVE Reaches(k)
  <2>1. PICK g \in [0 .. k - 1 -> S] :
            /\ g[0] = z
            /\ \A i \in 1 .. k - 1 : g[i] = F[<<i, g[i - 1]>>]
    BY <1>2
  <2>2. g[k - 1] \in S
    BY <2>1
  <2> DEFINE h == [i \in 0 .. k |-> IF i = k THEN F[<<k, g[k - 1]>>] ELSE g[i]]
  <2>3. F[<<k, g[k - 1]>>] \in S
    BY <2>2
  <2>4. h \in [0 .. k -> S]
    BY <2>1, <2>3
  <2>5. h[k] = F[<<k, g[k - 1]>>] /\ \A i \in 0 .. k - 1 : h[i] = g[i]
    OBVIOUS
  <2> HIDE DEF h
  <2>6. h[0] = z
    BY <2>1, <2>5
  <2>7. \A i \in 1 .. k : h[i] = F[<<i, h[i - 1]>>]
    <3> TAKE i \in 1 .. k
    <3>1. CASE i = k
      BY <2>5, <3>1
    <3>2. CASE i # k
      <4>1. i \in 1 .. k - 1 /\ i \in 0 .. k - 1 /\ i - 1 \in 0 .. k - 1
        BY <3>2
      <4>2. h[i] = g[i] /\ h[i - 1] = g[i - 1]
        BY <2>5, <4>1
      <4> QED
        BY <2>1, <4>1, <4>2
    <3> QED
      BY <3>1, <3>2
  <2> QED
    BY <2>4, <2>6, <2>7
<1>3. Missed = {}
  <2> SUFFICES ASSUME Missed # {} PROVE FALSE
    OBVIOUS
  <2>1. Missed \subseteq Nat
    OBVIOUS
  <2> HIDE DEF Missed
  <2>2. PICK m \in Missed : \A k \in Missed : m <= k
    BY <2>1, SmallestNat
  <2> USE DEF Missed
  <2> HIDE DEF Reaches
  <2>3. m \in 1 .. n /\ ~Reaches(m)
    BY <1>1, <2>2
  <2>4. m - 1 \in 0 .. n /\ m - 1 \notin Missed
    BY <2>1, <2>2, <2>3
  <2>5. Reaches(m - 1)
    BY <2>4
  <2> QED
    BY <1>2, <2>3, <2>5
<1>4. n \notin Missed
  BY <1>3
<1>5. PICK g \in [0 .. n -> S] :
          /\ g[0] = z
          /\ \A i \in 1 .. n : g[i] = F[<<i, g[i - 1]>>]
  BY <1>4
<1>6. Loop(n, S, z, F, g)
  BY <1>5 DEF Loop
<1> QED
  BY <1>6

-----------------------------------------------------------------------------
(* Rounding *)

(* Cross-multiplied: q = x \div y. *)
LEMMA DivBounds ==
  ASSUME NEW x \in Int, NEW y \in Nat \ {0}
  PROVE  /\ x \div y \in Int
         /\ (x \div y) * y <= x
         /\ x < (x \div y + 1) * y
OBVIOUS

LEMMA TimesMonotone ==
  ASSUME NEW a \in Int, NEW b \in Int, NEW k \in Nat, a <= b
  PROVE  a * k <= b * k
OBVIOUS

LEMMA TimesStrict ==
  ASSUME NEW a \in Int, NEW b \in Int, NEW k \in Nat \ {0}, a < b
  PROVE  a * k < b * k
OBVIOUS

(* A larger quotient is not rounded to less. *)
LEMMA RoundedMonotone ==
  ASSUME NEW a \in Int, NEW b \in Nat \ {0}, NEW c \in Int, NEW d \in Nat \ {0},
         a * d <= c * b
  PROVE  /\ Rounded(a, b) \in Int /\ Rounded(c, d) \in Int
         /\ Rounded(a, b) <= Rounded(c, d)
<1> DEFINE p == Rounded(a, b)
           q == Rounded(c, d)
<1>0. /\ 2 * b \in Nat \ {0} /\ 2 * d \in Nat \ {0}
      /\ 2 * a + b \in Int /\ 2 * c + d \in Int
  OBVIOUS
<1>1. p \in Int /\ p * (2 * b) <= 2 * a + b
  BY <1>0, DivBounds DEF Rounded
<1>2. q \in Int /\ 2 * c + d < (q + 1) * (2 * d)
  BY <1>0, DivBounds DEF Rounded
<1> HIDE DEF p, q
<1>3. ASSUME q + 1 <= p PROVE FALSE
  <2>1. (q + 1) * (2 * b * d) <= p * (2 * b * d)
    BY <1>1, <1>2, <1>3, TimesMonotone
  <2>2. p * (2 * b) * d <= (2 * a + b) * d
    BY <1>1, TimesMonotone
  <2>3. (2 * c + d) * b < (q + 1) * (2 * d) * b
    BY <1>2, TimesStrict
  <2>4. p * (2 * b) * d = p * (2 * b * d) /\ (q + 1) * (2 * d) * b = (q + 1) * (2 * b * d)
    BY <1>1, <1>2
  <2>5. (2 * a + b) * d = 2 * (a * d) + b * d /\ (2 * c + d) * b = 2 * (c * b) + b * d
    OBVIOUS
  <2>6. (2 * c + d) * b < (2 * a + b) * d
    BY <1>1, <1>2, <2>1, <2>2, <2>3, <2>4
  <2> QED
    BY <2>5, <2>6
<1> QED
  BY <1>1, <1>2, <1>3 DEF p, q
(* What is not negative is not rounded to less than nothing. *)
LEMMA RoundedNat ==
  ASSUME NEW a \in Nat, NEW b \in Nat \ {0}
  PROVE  Rounded(a, b) \in Nat
<1>1. Rounded(0, b) = 0
  BY DEF Rounded
<1>2. 0 * b <= a * b
  OBVIOUS
<1>3. Rounded(0, b) <= Rounded(a, b) /\ Rounded(a, b) \in Int
  BY <1>2, RoundedMonotone
<1> QED
  BY <1>1, <1>3

-----------------------------------------------------------------------------
(* The score *)

RuntimeDatas == [renewable_output_w : Nat, cluster_load_w : Nat,
                 grid_carbon_intensity : Nat, grid_electricity_price : Nat,
                 avg_latency_ms : Nat, all_nodes_powered_off : BOOLEAN]

Quotients == Nat \X (Nat \ {0})

LEMMA BlendTypes ==
  ASSUME NEW d \in RuntimeDatas
  PROVE  /\ compute_carbon_blend(d) \in Quotients
         /\ compute_cost_blend(d) \in Quotients
         /\ <<d.avg_latency_ms, 1>> \in Quotients
<1>1. GridPower(d) \in Nat
  BY DEF GridPower, Smaller, RuntimeDatas
<1>2. Larger(1, d.cluster_load_w) \in Nat \ {0}
  BY DEF Larger, RuntimeDatas
<1>3. /\ d.grid_carbon_intensity * GridPower(d) \in Nat
      /\ d.grid_electricity_price * GridPower(d) \in Nat
      /\ d.avg_latency_ms \in Nat
  BY <1>1 DEF RuntimeDatas
<1>4. Rounded(d.grid_electricity_price * GridPower(d), Larger(1, d.cluster_load_w)) \in Nat
  BY <1>2, <1>3, RoundedNat
<1> QED
  BY <1>2, <1>3, <1>4 DEF compute_carbon_blend, compute_cost_blend, Quotients

(* Less is never worth less, whatever the reference and the rounding. *)
LEMMA NormalizeAntitone ==
  ASSUME NEW v \in Quotients, NEW u \in Quotients, LessEq(v, u), NEW ref \in Nat \ {0}
  PROVE  /\ normalize_value(v, ref) \in Nat /\ normalize_value(u, ref) \in Nat
         /\ normalize_value(u, ref) <= normalize_value(v, ref)
<1>1. PICK p \in Nat, q \in Nat \ {0}, x \in Nat, y \in Nat \ {0} :
          v = <<p, q>> /\ u = <<x, y>>
  BY DEF Quotients
<1>2. p * y <= x * q
  BY <1>1 DEF LessEq
<1> DEFINE a == ref * y - x
           b == ref * q - p
<1>3. /\ ref * y \in Nat \ {0} /\ ref * q \in Nat \ {0}
      /\ a \in Int /\ b \in Int
      /\ Unit * a \in Int /\ Unit * b \in Int
  BY DEF Unit
<1>4. a * q <= b * y
  <2>1. a * q = ref * y * q - x * q /\ b * y = ref * y * q - p * y
    OBVIOUS
  <2> QED
    BY <1>2, <2>1
<1>5. (Unit * a) * (ref * q) <= (Unit * b) * (ref * y)
  <2> HIDE DEF a, b
  <2>1. (a * q) * (Unit * ref) <= (b * y) * (Unit * ref)
    BY <1>3, <1>4, TimesMonotone DEF Unit
  <2>2. /\ (a * q) * (Unit * ref) = (Unit * a) * (ref * q)
        /\ (b * y) * (Unit * ref) = (Unit * b) * (ref * y)
    BY <1>3 DEF Unit
  <2> QED
    BY <2>1, <2>2
<1>6. /\ Rounded(Unit * a, ref * y) \in Int /\ Rounded(Unit * b, ref * q) \in Int
      /\ Rounded(Unit * a, ref * y) <= Rounded(Unit * b, ref * q)
  <2> HIDE DEF a, b
  <2> QED
    BY <1>3, <1>5, RoundedMonotone
<1>7. /\ normalize_value(u, ref) = Larger(0, Rounded(Unit * a, ref * y))
      /\ normalize_value(v, ref) = Larger(0, Rounded(Unit * b, ref * q))
  BY <1>1 DEF normalize_value
<1> HIDE DEF a, b
<1> QED
  BY <1>6, <1>7 DEF Larger

LEMMA NormalizeTypes ==
  ASSUME NEW v \in Quotients, NEW ref \in Nat \ {0}
  PROVE  normalize_value(v, ref) \in Nat
<1>1. LessEq(v, v)
  BY DEF LessEq, Quotients
<1> QED
  BY <1>1, NormalizeAntitone

(* The parts of a score, and their weighted sum. *)
CarbonWorth(d) == normalize_value(compute_carbon_blend(d), CARBON_REF_MAX)
CostWorth(d) == normalize_value(compute_cost_blend(d), COST_REF_MAX)
SpeedWorth(d) == normalize_value(<<d.avg_latency_ms, 1>>, LATENCY_REF_MAX)
Worth(d) ==
    W_GCO2 * CarbonWorth(d) + W_COST * CostWorth(d) + W_LATENCY * SpeedWorth(d)

LEMMA PartsAreMonotone ==
  ASSUME NEW d \in RuntimeDatas, NEW e \in RuntimeDatas, AsGood(d, e)
  PROVE  /\ CarbonWorth(d) \in Nat /\ CarbonWorth(e) \in Nat
         /\ CarbonWorth(e) <= CarbonWorth(d)
         /\ W_COST * CostWorth(d) + W_LATENCY * SpeedWorth(d) \in Nat
         /\ W_COST * CostWorth(e) + W_LATENCY * SpeedWorth(e) \in Nat
         /\ W_COST * CostWorth(e) + W_LATENCY * SpeedWorth(e)
              <= W_COST * CostWorth(d) + W_LATENCY * SpeedWorth(d)
<1>1. /\ CarbonWorth(d) \in Nat /\ CarbonWorth(e) \in Nat
      /\ CarbonWorth(e) <= CarbonWorth(d)
  BY BlendTypes, NormalizeAntitone, ScoringAssumption DEF AsGood, CarbonWorth
<1>2. CostWorth(d) \in Nat /\ CostWorth(e) \in Nat /\ CostWorth(e) <= CostWorth(d)
  BY BlendTypes, NormalizeAntitone, ScoringAssumption DEF AsGood, CostWorth
<1>3. SpeedWorth(d) \in Nat /\ SpeedWorth(e) \in Nat /\ SpeedWorth(e) <= SpeedWorth(d)
  <2>1. LessEq(<<d.avg_latency_ms, 1>>, <<e.avg_latency_ms, 1>>)
    BY DEF AsGood, LessEq, RuntimeDatas
  <2> QED
    BY <2>1, BlendTypes, NormalizeAntitone, ScoringAssumption DEF SpeedWorth
<1>4. /\ W_COST * CostWorth(e) \in Nat /\ W_COST * CostWorth(d) \in Nat
      /\ W_COST * CostWorth(e) <= W_COST * CostWorth(d)
  <2>1. CostWorth(e) * W_COST <= CostWorth(d) * W_COST
    BY <1>2, TimesMonotone, ScoringAssumption
  <2> QED
    BY <1>2, <2>1, ScoringAssumption
<1>5. /\ W_LATENCY * SpeedWorth(e) \in Nat /\ W_LATENCY * SpeedWorth(d) \in Nat
      /\ W_LATENCY * SpeedWorth(e) <= W_LATENCY * SpeedWorth(d)
  <2>1. SpeedWorth(e) * W_LATENCY <= SpeedWorth(d) * W_LATENCY
    BY <1>3, TimesMonotone, ScoringAssumption
  <2> QED
    BY <1>3, <2>1, ScoringAssumption
<1> QED
  BY <1>1, <1>4, <1>5

LEMMA ScoreIsRoundedWorth ==
  ASSUME NEW d
  PROVE  score_cluster(d) = Rounded(Worth(d), WeightUnit)
  BY DEF score_cluster, Worth, CarbonWorth, CostWorth, SpeedWorth

LEMMA WorthOfCarbon ==
  ASSUME NEW d \in RuntimeDatas, NEW e \in RuntimeDatas, AsGood(d, e)
  PROVE  /\ Worth(d) \in Nat /\ Worth(e) \in Nat
         /\ Worth(e) + W_GCO2 * (CarbonWorth(d) - CarbonWorth(e)) <= Worth(d)
         /\ W_GCO2 * (CarbonWorth(d) - CarbonWorth(e)) \in Nat
<1> DEFINE rest(x) == W_COST * CostWorth(x) + W_LATENCY * SpeedWorth(x)
<1>1. /\ CarbonWorth(d) \in Nat /\ CarbonWorth(e) \in Nat
      /\ CarbonWorth(e) <= CarbonWorth(d)
      /\ rest(d) \in Nat /\ rest(e) \in Nat /\ rest(e) <= rest(d)
  BY PartsAreMonotone
<1>2. /\ W_GCO2 * CarbonWorth(d) \in Nat /\ W_GCO2 * CarbonWorth(e) \in Nat
      /\ W_GCO2 * (CarbonWorth(d) - CarbonWorth(e))
           = W_GCO2 * CarbonWorth(d) - W_GCO2 * CarbonWorth(e)
  BY <1>1, ScoringAssumption
<1>3. CarbonWorth(e) * W_GCO2 <= CarbonWorth(d) * W_GCO2
  BY <1>1, TimesMonotone, ScoringAssumption
<1>4. W_GCO2 * CarbonWorth(e) <= W_GCO2 * CarbonWorth(d)
  BY <1>1, <1>3, ScoringAssumption
<1>5. /\ Worth(d) = W_GCO2 * CarbonWorth(d) + rest(d)
      /\ Worth(e) = W_GCO2 * CarbonWorth(e) + rest(e)
  <2>1. /\ W_COST * CostWorth(d) \in Int /\ W_LATENCY * SpeedWorth(d) \in Int
        /\ W_COST * CostWorth(e) \in Int /\ W_LATENCY * SpeedWorth(e) \in Int
    BY BlendTypes, NormalizeTypes, ScoringAssumption DEF CostWorth, SpeedWorth
  <2> QED
    BY <1>2, <2>1 DEF Worth
<1> HIDE DEF rest
<1> QED
  BY <1>1, <1>2, <1>4, <1>5

(* A cluster as good as another in all three respects scores no less: for  *)
(* all weights, references and loads.  No score is negative, so that the   *)
(* best_score of -1.0 the loop begins with is below every one.             *)
THEOREM ScoreIsMonotone ==
  ASSUME NEW d \in RuntimeDatas, NEW e \in RuntimeDatas, AsGood(d, e)
  PROVE  score_cluster(d) \in Nat /\ score_cluster(e) \in Nat
         /\ score_cluster(e) <= score_cluster(d)
<1>1. Worth(d) \in Nat /\ Worth(e) \in Nat /\ Worth(e) <= Worth(d)
  BY WorthOfCarbon
<1>2. WeightUnit \in Nat \ {0} /\ Worth(e) * WeightUnit <= Worth(d) * WeightUnit
  BY <1>1 DEF WeightUnit
<1> QED
  BY <1>1, <1>2, ScoreIsRoundedWorth, RoundedNat, RoundedMonotone

(* And when its carbon is better by what the weight makes a unit of the    *)
(* score, rounding does not hide it.                                       *)
LEMMA ScoreIsStrict ==
  ASSUME NEW d \in RuntimeDatas, NEW e \in RuntimeDatas, AsGood(d, e),
         W_GCO2 * (CarbonWorth(d) - CarbonWorth(e)) >= WeightUnit
  PROVE  score_cluster(e) < score_cluster(d)
<1>1. /\ Worth(d) \in Nat /\ Worth(e) \in Nat
      /\ WeightUnit \in Nat \ {0} /\ Worth(e) + WeightUnit <= Worth(d)
  BY WorthOfCarbon DEF WeightUnit
<1>2. Rounded(Worth(e) + WeightUnit, WeightUnit) = Rounded(Worth(e), WeightUnit) + 1
  BY <1>1 DEF Rounded, WeightUnit
<1>3. (Worth(e) + WeightUnit) * WeightUnit <= Worth(d) * WeightUnit
  BY <1>1 DEF WeightUnit
<1>4. /\ Rounded(Worth(e) + WeightUnit, WeightUnit) <= Rounded(Worth(d), WeightUnit)
      /\ Rounded(Worth(d), WeightUnit) \in Int
  BY <1>1, <1>3, RoundedMonotone
<1>5. Rounded(Worth(e), WeightUnit) \in Nat
  BY <1>1, RoundedNat
<1> QED
  BY <1>2, <1>4, <1>5, ScoreIsRoundedWorth

-----------------------------------------------------------------------------
(* The choice *)

(* The loop of choose_cluster, one step per cluster. *)
Step(data, n) ==
    [x \in (1 .. n) \X (0 .. n) |->
        IF data[x[1]].all_nodes_powered_off THEN x[2]
        ELSE IF x[2] = 0 THEN x[1]
        ELSE IF score_cluster(data[x[1]]) > score_cluster(data[x[2]])
               THEN x[1]
        ELSE x[2]]

LEMMA StepAt ==
  ASSUME NEW data, NEW n \in Nat, NEW i \in 1 .. n, NEW b \in 0 .. n
  PROVE  Step(data, n)[<<i, b>>] =
             IF data[i].all_nodes_powered_off THEN b
             ELSE IF b = 0 THEN i
             ELSE IF score_cluster(data[i]) > score_cluster(data[b]) THEN i
             ELSE b
<1>1. <<i, b>> \in (1 .. n) \X (0 .. n) /\ <<i, b>>[1] = i /\ <<i, b>>[2] = b
  OBVIOUS
<1> QED
  BY <1>1, Zenon DEF Step

LEMMA StepType ==
  ASSUME NEW data, NEW n \in Nat
  PROVE  Step(data, n) \in [(1 .. n) \X (0 .. n) -> 0 .. n]
BY DEF Step

LEMMA ChoiceLoop ==
  ASSUME NEW data, Len(data) \in Nat
  PROVE  \E best \in [0 .. Len(data) -> 0 .. Len(data)] :
            /\ best[0] = 0
            /\ \A i \in 1 .. Len(data) :
                  best[i] = Step(data, Len(data))[<<i, best[i - 1]>>]
            /\ choose_cluster(data) = best[Len(data)]
<1> DEFINE n == Len(data)
           body(g) == [i \in 0 .. n |->
                         IF i = 0 THEN 0
                         ELSE IF data[i].all_nodes_powered_off THEN g[i - 1]
                         ELSE IF g[i - 1] = 0 THEN i
                         ELSE IF score_cluster(data[i]) > score_cluster(data[g[i - 1]])
                                THEN i
                         ELSE g[i - 1]]
           best == CHOOSE g : g = body(g)
<1>1. choose_cluster(data) = best[n]
  BY DEF choose_cluster
<1>3. PICK h \in [0 .. n -> 0 .. n] :
          /\ h[0] = 0
          /\ \A i \in 1 .. n : h[i] = Step(data, n)[<<i, h[i - 1]>>]
  <2> HIDE DEF body, best
  <2>1. Step(data, n) \in [(1 .. n) \X (0 .. n) -> 0 .. n]
    BY StepType, Zenon
  <2>2. n \in Nat /\ 0 \in 0 .. n
    OBVIOUS
  <2> HIDE DEF n
  <2>3. \E h : Loop(n, 0 .. n, 0, Step(data, n), h)
    BY <2>1, <2>2, LoopExists, Zenon
  <2> QED
    BY <2>3, Zenon DEF Loop
<1>4. h = body(h)
  <2>1. ASSUME NEW i \in 0 .. n, i # 0 PROVE h[i] = body(h)[i]
    <3>1. i \in 1 .. n /\ h[i - 1] \in 0 .. n
      BY <1>3, <2>1
    <3>2. h[i] = Step(data, n)[<<i, h[i - 1]>>]
      BY <1>3, <3>1
    <3> QED
      BY <2>1, <3>1, <3>2, StepAt
  <2>2. h[0] = body(h)[0]
    BY <1>3
  <2>3. \A i \in 0 .. n : h[i] = body(h)[i]
    BY <2>1, <2>2
  <2> QED
    BY <1>3, <2>3
<1>5. best = body(best)
  BY <1>4
<1> HIDE DEF best
<1>6. best[0] = 0
  BY <1>5
<1>7. \A i \in 1 .. n : best[i] = body(best)[i]
  BY <1>5
<1>8. \A i \in 0 .. n : best[i] \in 0 .. n
  <2> DEFINE Out == {i \in 0 .. n : best[i] \notin 0 .. n}
  <2> SUFFICES ASSUME Out # {} PROVE FALSE
    OBVIOUS
  <2>1. Out \subseteq Nat
    OBVIOUS
  <2> HIDE DEF Out
  <2>2. PICK m \in Out : \A k \in Out : m <= k
    BY <2>1, SmallestNat
  <2> USE DEF Out
  <2>3. m \in 1 .. n /\ best[m] \notin 0 .. n
    BY <1>6, <2>2
  <2>4. m - 1 \in 0 .. n /\ m - 1 \notin Out
    BY <2>1, <2>2, <2>3
  <2>5. best[m - 1] \in 0 .. n
    BY <2>4
  <2>6. best[m] \in {m, best[m - 1]}
    BY <1>7, <2>3
  <2> QED
    BY <2>3, <2>5, <2>6
<1>9. best \in [0 .. n -> 0 .. n]
  BY <1>5, <1>8
<1>10. \A i \in 1 .. n : best[i] = Step(data, n)[<<i, best[i - 1]>>]
  <2> TAKE i \in 1 .. n
  <2>1. best[i - 1] \in 0 .. n
    BY <1>8
  <2> QED
    BY <1>7, <2>1, StepAt
<1> QED
  BY <1>1, <1>6, <1>9, <1>10

On(data) == {i \in 1 .. Len(data) : ~data[i].all_nodes_powered_off}

(* c is on, none that is on scores more, and none before it as much. *)
FirstOfTheBest(c, data) ==
    /\ c \in On(data)
    /\ \A i \in On(data) :
          /\ score_cluster(data[i]) <= score_cluster(data[c])
          /\ i < c => score_cluster(data[i]) < score_cluster(data[c])

(* The choice is the first of the best-scoring clusters that are on, and   *)
(* there is none only when all are off.                                    *)
THEOREM ChoosesTheFirstOfTheBest ==
  ASSUME NEW data, Len(data) \in Nat,
         \A i \in 1 .. Len(data) : data[i] \in RuntimeDatas
  PROVE  \/ choose_cluster(data) = 0 /\ On(data) = {}
         \/ FirstOfTheBest(choose_cluster(data), data)
<1> DEFINE n == Len(data)
           on == On(data)
           score == [i \in 1 .. n |-> score_cluster(data[i])]
<1>1. PICK best \in [0 .. n -> 0 .. n] :
          /\ best[0] = 0
          /\ \A i \in 1 .. n : best[i] = Step(data, n)[<<i, best[i - 1]>>]
          /\ choose_cluster(data) = best[n]
  BY ChoiceLoop
<1>2. \A i \in 1 .. n : score[i] \in Nat
  <2> TAKE i \in 1 .. n
  <2>1. \A v \in Quotients : LessEq(v, v)
    BY DEF LessEq, Quotients
  <2> DEFINE d == data[i]
  <2>2. d \in RuntimeDatas /\ d.avg_latency_ms <= d.avg_latency_ms
    BY DEF RuntimeDatas
  <2> HIDE DEF d
  <2>3. AsGood(d, d)
    BY <2>1, <2>2, BlendTypes DEF AsGood
  <2> QED
    BY <2>2, <2>3, ScoreIsMonotone DEF d
<1>3. ASSUME NEW i \in 1 .. n
      PROVE  best[i] = IF i \notin on THEN best[i - 1]
                       ELSE IF best[i - 1] = 0 THEN i
                       ELSE IF score[i] > score[best[i - 1]] THEN i
                       ELSE best[i - 1]
  <2>1. best[i - 1] \in 0 .. n
    BY <1>1
  <2>2. best[i] = Step(data, n)[<<i, best[i - 1]>>]
    BY <1>1
  <2>3. i \notin on <=> data[i].all_nodes_powered_off
    BY DEF On
  <2>4. best[i - 1] # 0 => score[best[i - 1]] = score_cluster(data[best[i - 1]])
    BY <2>1
  <2> QED
    BY <2>1, <2>2, <2>3, <2>4, StepAt
<1> DEFINE Good(i) ==
              \/ best[i] = 0 /\ \A j \in on : j > i
              \/ /\ best[i] \in on /\ best[i] <= i
                 /\ \A j \in on : j <= i =>
                       /\ score[j] <= score[best[i]]
                       /\ j < best[i] => score[j] < score[best[i]]
           Wrong == {i \in 0 .. n : ~Good(i)}
<1>4. on \subseteq 1 .. n
  BY DEF On
<1>5. Good(0)
  BY <1>1, <1>4
<1> HIDE DEF on, score
<1>6. ASSUME NEW i \in 1 .. n, Good(i - 1) PROVE Good(i)
  <2>1. CASE i \notin on
    <3>1. best[i] = best[i - 1]
      BY <1>3, <2>1
    <3>2. \A j \in on : j <= i => j <= i - 1
      BY <1>4, <2>1
    <3> QED
      BY <1>4, <1>6, <3>1, <3>2
  <2>2. CASE i \in on /\ best[i - 1] = 0
    <3>1. best[i] = i
      BY <1>3, <2>2
    <3>2. \A j \in on : j <= i => j = i
      BY <1>4, <1>6, <2>2
    <3> QED
      BY <1>2, <1>4, <2>2, <3>1, <3>2
  <2>3. CASE i \in on /\ best[i - 1] # 0
    <3>1. /\ best[i - 1] \in on /\ best[i - 1] <= i - 1
          /\ \A j \in on : j <= i - 1 =>
                /\ score[j] <= score[best[i - 1]]
                /\ j < best[i - 1] => score[j] < score[best[i - 1]]
      BY <1>4, <1>6, <2>3
    <3>2. best[i - 1] \in 1 .. n /\ score[i] \in Nat /\ score[best[i - 1]] \in Nat
      BY <1>2, <1>4, <3>1
    <3>3. CASE score[i] > score[best[i - 1]]
      <4>1. best[i] = i
        BY <1>3, <2>3, <3>3
      <4>2. \A j \in on : j <= i => j = i \/ (j <= i - 1 /\ score[j] < score[i])
        BY <1>2, <1>4, <3>1, <3>2, <3>3
      <4> QED
        BY <1>2, <1>4, <2>3, <4>1, <4>2
    <3>4. CASE ~(score[i] > score[best[i - 1]])
      <4>1. best[i] = best[i - 1]
        BY <1>3, <2>3, <3>4
      <4>2. \A j \in on : j <= i => j = i \/ j <= i - 1
        BY <1>4
      <4>3. score[i] <= score[best[i - 1]] /\ ~(i < best[i - 1])
        BY <3>1, <3>2, <3>4
      <4> QED
        BY <1>4, <3>1, <3>2, <4>1, <4>2, <4>3
    <3> QED
      BY <3>3, <3>4
  <2> QED
    BY <2>1, <2>2, <2>3
<1>7. Good(n)
  <2> SUFFICES ASSUME Wrong # {} PROVE FALSE
    OBVIOUS
  <2>1. Wrong \subseteq Nat
    OBVIOUS
  <2> HIDE DEF Wrong
  <2>2. PICK m \in Wrong : \A k \in Wrong : m <= k
    BY <2>1, SmallestNat
  <2> USE DEF Wrong
  <2> HIDE DEF Good
  <2>3. m \in 1 .. n /\ ~Good(m)
    BY <1>5, <2>2
  <2>4. m - 1 \in 0 .. n /\ m - 1 \notin Wrong
    BY <2>1, <2>2, <2>3
  <2> QED
    BY <1>6, <2>3, <2>4
<1>8. CASE best[n] = 0 /\ \A j \in on : j > n
  BY <1>1, <1>4, <1>8 DEF on
<1>9. CASE best[n] # 0
  <2>1. /\ best[n] \in on
        /\ \A j \in on : /\ score[j] <= score[best[n]]
                          /\ j < best[n] => score[j] < score[best[n]]
    BY <1>4, <1>7, <1>9
  <2>2. \A j \in on : score[j] = score_cluster(data[j])
    BY <1>4 DEF score
  <2>3. choose_cluster(data) = best[n]
    BY <1>1
  <2>4. FirstOfTheBest(best[n], data)
    BY <2>1, <2>2 DEF on, FirstOfTheBest
  <2> QED
    BY <2>3, <2>4
<1> QED
  BY <1>4, <1>7, <1>8, <1>9
=============================================================================
