------------------------- MODULE MCClusterReadiness -------------------------
(* A small instance of ClusterReadiness for TLC. *)
EXTENDS ClusterReadiness

MCNodes == {1, 2}
MCListOrder == <<2, 1>>
=============================================================================
