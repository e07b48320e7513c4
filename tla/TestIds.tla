------------------------------- MODULE TestIds -------------------------------
(* Tests, as the strato API and the global API both number them: config.id *)
(* is a fresh identifier made by every call of the strato start_test.      *)
EXTENDS Integers, FiniteSets

CONSTANT MaxTests   \* bound: calls of start_test

ASSUME TestsAssumption == MaxTests \in Nat

Tests == 1 .. MaxTests
NoTest == 0
=============================================================================
