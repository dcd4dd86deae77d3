---------------------------- MODULE MCDailySlots ----------------------------
(* Dates of 16, 12 and 14 instants: 25, 23 and 24 hours, in that order. The   *)
(* time changes between the plan and the backup slot.                         *)
EXTENDS DailySlots

Shift     == [d \in 0..LastDay |-> CASE d = 0 -> 2 [] d = 1 -> -2 [] OTHER -> 0]
Midnights == [d \in 0..(LastDay + 1) |->
                CASE d = 0 -> 0 [] d = 1 -> 16 [] d = 2 -> 28 [] OTHER -> 42 + 14 * (d - 3)]
Times     == [plan |-> 1, backup |-> 4, retention |-> 5, forecast |-> 8, headsup |-> 9,
              start |-> 10, end |-> 12]
DaySlots  == [k \in Slots |-> [d \in 0..LastDay |->
                Midnights[d] + Times[k] + IF k = "plan" THEN 0 ELSE Shift[d]]]
=============================================================================
