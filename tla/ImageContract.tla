---------------------------- MODULE ImageContract ----------------------------
(***************************************************************************)
(* What a date's published image promises the public pages and the         *)
(* operator, whatever fails, crashes or overlaps underneath: it is there   *)
(* whole or not at all; only a call that was asked to finalize the date    *)
(* may publish a frame or take the image away, and does so once, when it   *)
(* concludes; and a re-crop shows the same frame under another crop. No    *)
(* step damages the image, and a day that failed is not brought back by    *)
(* a re-crop.                                                              *)
(***************************************************************************)
CONSTANTS
    Callers,    \* the goroutines that may be asked to finalize
    Images,     \* the images there may be: records with a frame and a crop
    NoImage     \* shown when there is none

VARIABLES
    asked,      \* the callers with a finalization to conclude
    status,     \* days.status
    shown       \* the image the day's pages can show in full

vars == <<asked, status, shown>>

Init ==
    /\ asked = {}
    /\ status = "capturing"
    /\ shown = NoImage

Ask(c) ==
    /\ c \in Callers \ asked
    /\ asked' = asked \cup {c}
    /\ UNCHANGED <<status, shown>>

Publish(c, i) ==
    /\ c \in asked /\ i \in Images
    /\ asked' = asked \ {c}
    /\ status' = "complete" /\ shown' = i

GiveUp(c) ==
    /\ c \in asked
    /\ asked' = asked \ {c}
    /\ status' = "failed" /\ shown' = NoImage

\* A call returns an error, or the process dies with all of them.
Drop(lost) ==
    /\ lost \in SUBSET asked
    /\ asked' = asked \ lost
    /\ UNCHANGED <<status, shown>>

Recrop(i) ==
    /\ status = "complete"
    /\ i \in Images /\ i.frame = shown.frame
    /\ shown' = i
    /\ UNCHANGED <<asked, status>>

Next ==
    \/ \E c \in Callers : Ask(c) \/ GiveUp(c) \/ \E i \in Images : Publish(c, i)
    \/ \E lost \in SUBSET asked : Drop(lost)
    \/ \E i \in Images : Recrop(i)

Spec == Init /\ [][Next]_vars
=============================================================================
