--------------------------- MODULE MCPublishedDay ---------------------------
(***************************************************************************)
(* Three frames of two cameras: two of the primary's, one of a backup's.   *)
(* The operator may withdraw the primary and move the cutoff before its    *)
(* best frame.                                                             *)
(***************************************************************************)
EXTENDS PublishedDay, TLC

CONSTANTS prim, back

Primary == [role |-> "publish_primary", priority |-> 2]
Backup  == [role |-> "publish_backup", priority |-> 1]
Neither == [role |-> "none", priority |-> 2]

MCCameras   == {prim, back}
MCFrames    == 1..3
MCCameraOf  == 1 :> prim @@ 2 :> prim @@ 3 :> back
MCScore     == 1 :> 4 @@ 2 :> 6 @@ 3 :> 8
MCFirstPost == prim :> Primary @@ back :> Backup
MCPosts     == prim :> {Primary, Neither} @@ back :> {Backup}
MCRulings   == {{1, 2, 3}, {1, 3}}

\* The goroutines are alike.
MCSymmetry  == Permutations(Callers)
=============================================================================
