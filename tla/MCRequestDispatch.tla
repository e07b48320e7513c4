-------------------------- MODULE MCRequestDispatch --------------------------
(* A small instance of RequestDispatch for TLC: two tests of one question  *)
(* each.                                                                   *)
EXTENDS RequestDispatch

CONSTANTS q1, q2

MCQuestions == {q1, q2}
MCTestOf == [q \in MCQuestions |-> IF q = q2 THEN 2 ELSE 1]
=============================================================================
