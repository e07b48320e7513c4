------------------------------ MODULE Scoring ------------------------------
(***************************************************************************)
(* global_api/services/scoring.py: what a cluster is worth, and which one  *)
(* a request goes to.                                                      *)
(*                                                                         *)
(* The code computes with floats and rounds to four decimals.  Here a      *)
(* score is an integer in ten-thousandths, watts, gCO2/kWh and             *)
(* milliseconds are integers, a price is in ten-thousandths of a EUR/kWh   *)
(* and a weight in hundredths; quotients that the code does not round are  *)
(* kept exact, as a numerator over a positive denominator.                 *)
(***************************************************************************)
EXTENDS Integers, Sequences

CONSTANTS   \* EnergyConfig, with power_scale_factor multiplied in
    NODE_POWER_ACTIVE_W, NODE_POWER_IDLE_W,
    CARBON_REF_MAX, COST_REF_MAX, LATENCY_REF_MAX,
    W_GCO2, W_COST, W_LATENCY   \* WeightsConfig

ASSUME ScoringAssumption ==
    /\ NODE_POWER_ACTIVE_W \in Nat \ {0} /\ NODE_POWER_IDLE_W \in Nat \ {0}
    /\ CARBON_REF_MAX \in Nat \ {0} /\ COST_REF_MAX \in Nat \ {0}
    /\ LATENCY_REF_MAX \in Nat \ {0}
    /\ W_GCO2 \in Nat /\ W_COST \in Nat /\ W_LATENCY \in Nat

Unit == 10000       \* four decimals
WeightUnit == 100

Smaller(a, b) == IF a <= b THEN a ELSE b
Larger(a, b) == IF a <= b THEN b ELSE a

(* round(a / b) for b > 0; a tie goes up. *)
Rounded(a, b) == (2 * a + b) \div (2 * b)

compute_cluster_load(active_nodes, idle_nodes) ==
    active_nodes * NODE_POWER_ACTIVE_W + idle_nodes * NODE_POWER_IDLE_W

-----------------------------------------------------------------------------
(* Below, d is the ClusterRuntimeData of a cluster: renewable_output_w,    *)
(* cluster_load_w, grid_carbon_intensity, grid_electricity_price,          *)
(* avg_latency_ms and all_nodes_powered_off.                               *)

(* compute_grid_fraction, times the load *)
GridPower(d) ==
    d.cluster_load_w - Smaller(d.renewable_output_w, d.cluster_load_w)

compute_carbon_blend(d) ==
    <<d.grid_carbon_intensity * GridPower(d), Larger(1, d.cluster_load_w)>>

compute_cost_blend(d) ==
    <<Rounded(d.grid_electricity_price * GridPower(d),
              Larger(1, d.cluster_load_w)), 1>>

(* value = <<numerator, denominator>> *)
normalize_value(value, ref_max) ==
    Larger(0, Rounded(Unit * (ref_max * value[2] - value[1]),
                      ref_max * value[2]))

score_cluster(d) ==
    Rounded(W_GCO2 * normalize_value(compute_carbon_blend(d), CARBON_REF_MAX)
              + W_COST * normalize_value(compute_cost_blend(d), COST_REF_MAX)
              + W_LATENCY * normalize_value(<<d.avg_latency_ms, 1>>, LATENCY_REF_MAX),
            WeightUnit)

(* Mutant of choose_cluster: clusters that are off take part. *)
choose_any_cluster(data) ==
    LET best[i \in 0 .. Len(data)] ==
            IF i = 0 THEN 0
            ELSE IF best[i - 1] = 0 THEN i
            ELSE IF score_cluster(data[i]) > score_cluster(data[best[i - 1]])
                   THEN i
            ELSE best[i - 1]
    IN  best[Len(data)]

(* The position of the best cluster, 0 when all of them are off: the loop  *)
(* goes through the list and keeps what only a strictly better one beats.  *)
(* Its initial best_score of -1.0 is below every score.                    *)
choose_cluster(data) ==
    LET best[i \in 0 .. Len(data)] ==
            IF i = 0 THEN 0
            ELSE IF data[i].all_nodes_powered_off THEN best[i - 1]
            ELSE IF best[i - 1] = 0 THEN i
            ELSE IF score_cluster(data[i]) > score_cluster(data[best[i - 1]])
                   THEN i
            ELSE best[i - 1]
    IN  best[Len(data)]
-----------------------------------------------------------------------------
(* What the properties of the choice compare clusters by.                  *)

(* v <= u, as quotients *)
LessEq(v, u) == v[1] * u[2] <= u[1] * v[2]

(* d is at least as good as e in all that the choice looks at. *)
AsGood(d, e) ==
    /\ LessEq(compute_carbon_blend(d), compute_carbon_blend(e))
    /\ LessEq(compute_cost_blend(d), compute_cost_blend(e))
    /\ d.avg_latency_ms <= e.avg_latency_ms

(* And has less carbon than e, which is not off the scale.                 *)
Better(d, e) ==
    /\ AsGood(d, e)
    /\ ~LessEq(compute_carbon_blend(e), compute_carbon_blend(d))
    /\ LessEq(compute_carbon_blend(e), <<CARBON_REF_MAX, 1>>)
=============================================================================
