---------------------------- MODULE MCClusterApi ----------------------------
(* Small instances of ClusterApi for TLC. *)
EXTENDS ClusterApi, TLC

\* Two nodes listed in the opposite order of their names, so that the two
\* orders the code uses can be told apart.
MCNodes == {1, 2}
MCListOrder == <<2, 1>>

\* Requests are interchangeable.
Symmetry == Permutations(Requests)
=============================================================================
