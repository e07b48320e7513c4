---------------------------- MODULE MCScaleCycle -----------------------------
(* A small instance of ScaleCycle for TLC: two clusters of two nodes each, *)
(* and a window of five minutes, in which one request is no rate.          *)
EXTENDS ScaleCycle

CONSTANTS c1, c2

MCClusters == {c1, c2}
MCSize == [c \in MCClusters |-> 2]
=============================================================================
