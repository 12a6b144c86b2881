------------------------------ MODULE Scenario ------------------------------
(***************************************************************************)
(* A scenario for TLC: the initial state chooses it, and it has a budget   *)
(* for every kind of call from outside.                                    *)
(***************************************************************************)
EXTENDS Naturals

CONSTANT Scenarios     \* the ones to check

VARIABLES
    scenario,
    budget             \* the calls that may still be made

Spend(kind) ==
    /\ budget[kind] > 0
    /\ budget' = [budget EXCEPT ![kind] = @ - 1]

=============================================================================
