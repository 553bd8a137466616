------------------------------- MODULE Repair -------------------------------
(***************************************************************************)
(* What the repair promises, whatever fixes it chooses and in whatever     *)
(* order it applies them: it only ever closes reports, one that is closed  *)
(* is never opened again, and it does not say it is done while a report is *)
(* open, unless the reports ask for fixes that are at odds.  It may give   *)
(* up at any time, on an assertion.                                        *)
(***************************************************************************)
CONSTANT Report

VARIABLES
    open,         \* the reports whose store is not persisted yet
    compatible,   \* no two reports are at odds
    answer        \* "none" while the repair runs

vars == <<open, compatible, answer>>

Init ==
    /\ open \in SUBSET Report
    /\ compatible \in BOOLEAN
    /\ answer = "none"

\* A fix may close several reports, and most steps close none.
Close ==
    /\ answer = "none"
    /\ open' \in SUBSET open
    /\ UNCHANGED <<compatible, answer>>

\* The last step may close reports too.
Finish ==
    /\ answer = "none"
    /\ open' \in SUBSET open
    /\ compatible => open' = {}
    /\ answer' = "done"
    /\ UNCHANGED compatible

GiveUp ==
    /\ answer = "none"
    /\ answer' = "abort"
    /\ UNCHANGED <<open, compatible>>

Next == Close \/ Finish \/ GiveUp

Spec == Init /\ [][Next]_vars
=============================================================================
