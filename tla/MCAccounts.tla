----------------------------- MODULE MCAccounts -----------------------------
(* A small instance of Accounts for TLC.                                   *)
EXTENDS Accounts

MCNodes == {1, 2}
MCCarbonOf == [h \in 0 .. MaxTime \div HourLength |-> 2 + h]

RequestSymmetry == Permutations(Requests)
=============================================================================
