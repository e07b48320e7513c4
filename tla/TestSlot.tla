------------------------------ MODULE TestSlot ------------------------------
(***************************************************************************)
(* What the strato API promises of its tests: one slot, taken by one test  *)
(* at a time and by each test at most once; a stop asked for while a test  *)
(* has the slot concerns that test and no later one.                       *)
(***************************************************************************)
CONSTANTS Tests, NoTest

VARIABLES
    owner,      \* the test that has the slot, NoTest if none has
    stopping,   \* the owner has been asked to stop
    waiting     \* the tests that have not been started or refused

vars == <<owner, stopping, waiting>>

Init ==
    /\ owner = NoTest
    /\ stopping = FALSE
    /\ waiting = Tests

Take(t) ==
    /\ t \in waiting
    /\ owner = NoTest
    /\ owner' = t
    /\ waiting' = waiting \ {t}
    /\ UNCHANGED stopping

Refuse(t) ==
    /\ t \in waiting
    /\ waiting' = waiting \ {t}
    /\ UNCHANGED <<owner, stopping>>

AskToStop ==
    /\ owner # NoTest
    /\ stopping' = TRUE
    /\ UNCHANGED <<owner, waiting>>

GiveBack ==
    /\ owner # NoTest
    /\ owner' = NoTest
    /\ stopping' = FALSE
    /\ UNCHANGED waiting

Next ==
    \/ \E t \in Tests : Take(t) \/ Refuse(t)
    \/ AskToStop
    \/ GiveBack

Spec == Init /\ [][Next]_vars
=============================================================================
