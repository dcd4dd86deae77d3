--------------------------- MODULE MCDayLifecycle ---------------------------
(***************************************************************************)
(* Instances of DayLifecycle for TLC. A date has five instants: 0 is       *)
(* midnight's daily plan, 1 the retention slot, 2 and 3 the capture        *)
(* window, 4 the evening after it. The archive cutoff lies inside the      *)
(* window, so that a captured frame may be too late to publish.            *)
(***************************************************************************)
EXTENDS DayLifecycle

MCSlots == {0, 1}
MCAdminDates == {0}
MCNoDates == {}
=============================================================================
