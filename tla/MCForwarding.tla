---------------------------- MODULE MCForwarding ----------------------------
(* A small instance of Forwarding for TLC.                                 *)
EXTENDS Forwarding, TLC

MCSeries == <<"power", "carbon">>

(* The first cluster has some sun in the first hour and more than its load *)
(* in the second; the second has the cleaner grid, and none published in   *)
(* the second hour, which reads as perfectly clean.                        *)
MCMarket ==
    [power  |-> << <<2, 9>>, <<0, 0>> >>,
     carbon |-> << <<30, 30>>, <<20, 0>> >>]

MCBaseLoad == <<1, 0>>
MCPolls == {<<0, 0>>, <<1, 0>>}

ASSUME MCCarbonTells == CarbonTells

RequestSymmetry == Permutations(Requests)
=============================================================================
