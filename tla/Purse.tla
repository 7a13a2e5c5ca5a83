------------------------------- MODULE Purse -------------------------------
(***************************************************************************)
(* What the paid recognition of one run promises its owner, without        *)
(* processes, files or leases: a budget is fixed once, before the first    *)
(* charge; a clip is charged at most once and only within the budget; a    *)
(* settlement reports at least what has been charged and never goes back.  *)
(***************************************************************************)
EXTENDS Integers, FiniteSets

CONSTANTS Clips, Unit

NoBudget == -1

VARIABLES charged,   \* the requests charged for, as <<clip, number of the request>>
          budget,    \* what the run may spend, or NoBudget
          reported   \* what the settlement says was spent

vars == <<charged, budget, reported>>

Owed == Unit * Cardinality(charged)

Init == charged = {} /\ budget = NoBudget /\ reported = 0

Authorise ==
    /\ budget = NoBudget
    /\ budget' \in Nat
    /\ UNCHANGED <<charged, reported>>

Charge(c) ==
    /\ \A paid \in charged : paid[1] # c
    /\ Owed + Unit <= budget
    /\ \E a \in charged' : a[1] = c /\ charged' = charged \cup {a}
    /\ UNCHANGED <<budget, reported>>

Report ==
    /\ reported' >= reported
    /\ reported' >= Owed
    /\ UNCHANGED <<charged, budget>>

Next == Authorise \/ (\E c \in Clips : Charge(c)) \/ Report

Spec == Init /\ [][Next]_vars
=============================================================================
