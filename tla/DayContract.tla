----------------------------- MODULE DayContract -----------------------------
(***************************************************************************)
(* What the rows of the days table promise, whatever the engine, a crash   *)
(* or the operator does: a date gets its row either because a capture      *)
(* window started on it (capturing) or because it passed without one       *)
(* (missed); from there a day can only be settled, as complete or failed,  *)
(* and a settled day stays settled, though it may be settled again. No row *)
(* is ever removed, and none is given to a date that has not come.         *)
(***************************************************************************)
EXTENDS Naturals

CONSTANTS
    LastDay     \* the dates are 0..LastDay

VARIABLES
    day,        \* today's local date
    status      \* days.status of every date, "none" when it has no row

vars == <<day, status>>

Day    == 0..LastDay
Final  == {"complete", "failed"}
Status == {"none", "capturing", "missed"} \cup Final

Init ==
    /\ day = 0
    /\ status = [d \in Day |-> "none"]

NextDay ==
    /\ day < LastDay
    /\ day' = day + 1
    /\ UNCHANGED status

Start(d) ==
    /\ d \in Day
    /\ d <= day
    /\ status[d] = "none"
    /\ status' = [status EXCEPT ![d] = "capturing"]
    /\ UNCHANGED day

Settle(d, outcome) ==
    /\ d \in Day
    /\ d <= day
    /\ status[d] # "none"
    /\ outcome \in Final
    /\ status' = [status EXCEPT ![d] = outcome]
    /\ UNCHANGED day

\* One transaction gives every unrecorded date before some past date its row.
RecordMissed(upTo) ==
    /\ upTo \in Day
    /\ upTo <= day
    /\ status' = [d \in Day |-> IF d < upTo /\ status[d] = "none"
                                THEN "missed" ELSE status[d]]
    /\ UNCHANGED day

Next ==
    \/ NextDay
    \/ \E d \in Day : Start(d) \/ RecordMissed(d)
    \/ \E d \in Day, outcome \in Final : Settle(d, outcome)

Spec == Init /\ [][Next]_vars
=============================================================================
