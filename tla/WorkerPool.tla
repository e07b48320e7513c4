----------------------------- MODULE WorkerPool -----------------------------
(***************************************************************************)
(* What the routing of a cluster API promises, without locks, loops or     *)
(* half-done updates: every request is either turned away or given one     *)
(* worker, exactly once, and gives it back, exactly once; the counter of a *)
(* worker moves by one, together with the request that moves it.           *)
(***************************************************************************)
EXTENDS Integers

CONSTANTS Requests, Workers, NoWorker

VARIABLES
    phase,  \* phase[r]: request r is still outside, inside or past its work
    use,    \* use[r]: the worker given to r, NoWorker while it has none
    count   \* count[w]: how many requests worker w has been given

vars == <<phase, use, count>>

Init ==
    /\ phase = [r \in Requests |-> "outside"]
    /\ use = [r \in Requests |-> NoWorker]
    /\ count = [w \in Workers |-> 0]

Enter(r, w) ==
    /\ phase[r] = "outside"
    /\ phase' = [phase EXCEPT ![r] = "inside"]
    /\ use' = [use EXCEPT ![r] = w]
    /\ count' = [count EXCEPT ![w] = @ + 1]

TurnAway(r) ==
    /\ phase[r] = "outside"
    /\ phase' = [phase EXCEPT ![r] = "past"]
    /\ UNCHANGED <<use, count>>

Leave(r) ==
    /\ phase[r] = "inside"
    /\ phase' = [phase EXCEPT ![r] = "past"]
    /\ use' = [use EXCEPT ![r] = NoWorker]
    /\ count' = [count EXCEPT ![use[r]] = @ - 1]

Next ==
    \E r \in Requests :
        \/ \E w \in Workers : Enter(r, w)
        \/ TurnAway(r)
        \/ Leave(r)

Spec == Init /\ [][Next]_vars
=============================================================================
