------------------------------ MODULE MCTrigger ------------------------------
(* Small instances of Trigger. *)
EXTENDS Trigger

MCScores == {1, 7, 9}

\* Half intervals: exactly two intervals, the longest gap allowed, and more.
MCGaps   == {4, 5}
=============================================================================
