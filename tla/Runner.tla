------------------------------- MODULE Runner -------------------------------
(***************************************************************************)
(* What running a program promises: unless it is refused before its first  *)
(* step, steps are taken one by one until the program ends or the budget   *)
(* is used up, never one more, and there is always a verdict.              *)
(***************************************************************************)
EXTENDS Naturals

CONSTANT Endings        \* the verdicts a program can end with

VARIABLES
    max,                \* the budget of steps
    taken,              \* the steps taken
    verdict             \* "none" while the program runs

vars == <<max, taken, verdict>>

Init == max \in Nat /\ taken = 0 /\ verdict = "none"

Refuse ==
    /\ verdict = "none" /\ taken = 0
    /\ verdict' = "Refused"
    /\ UNCHANGED <<max, taken>>

Step ==
    /\ verdict = "none" /\ taken < max
    /\ taken' = taken + 1
    /\ verdict' \in {"none"} \cup Endings
    /\ max' = max

OutOfSteps ==
    /\ verdict = "none" /\ taken = max
    /\ verdict' = "StepLimit"
    /\ UNCHANGED <<max, taken>>

Next == Refuse \/ Step \/ OutOfSteps

Spec == Init /\ [][Next]_vars /\ WF_vars(Next)
=============================================================================
