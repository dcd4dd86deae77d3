---------------------------- MODULE PublishedDay ----------------------------
(***************************************************************************)
(* The published image of one date: which frame FinalizeDay picks, the     *)
(* files FinalizeDay and RecropDay write under /data/best, and the days    *)
(* row that names them. A call writes one file at a time and the row last; *)
(* RecropDay then removes the files it has replaced. The window is over,   *)
(* so no frame is added; frames disappear through retention, the deletion  *)
(* of a camera, the orphan sweep and lost files, and the operator's edits  *)
(* of the cameras and the settings change which of them may be published.  *)
(* The process may crash between any two steps.                            *)
(*                                                                         *)
(* File names contain the hash of the published bytes, which the frame and *)
(* the crop determine: a published image is known by that pair.            *)
(*                                                                         *)
(* Nothing in the code orders the calls of one date: the engine's own, the *)
(* operator's refinalize and the operator's recrop may overlap.            *)
(* RecropAlone restricts the model to operators who re-crop a date only    *)
(* while nothing else works on it.                                         *)
(***************************************************************************)
EXTENDS Naturals, FiniteSets

CONSTANTS
    Callers,        \* the goroutines that may be inside FinalizeDay or RecropDay
    Cameras, Frames,    \* frames are numbered in the order they were fetched
    CameraOf, Score,    \* of each frame
    FirstPost, Posts,   \* the post of each camera at first; those it may be given
    Rulings,            \* the frames a cutoff and a darkness floor admit, for each
                        \* setting of the two
    Crops, FullFrame,   \* the publish crops; no crop, or an invalid one
    RecropAlone,
    MaxFinalizes, MaxEdits, MaxFaults, MaxCrashes

\* What a camera publishes as; "none": it is not publish-eligible, or alerts only.
Roles == {"publish_primary", "publish_backup", "none"}
Post  == [role : Roles, priority : Nat]

ASSUME FrameAssumption ==
    /\ Frames \subseteq Nat \ {0} /\ IsFiniteSet(Frames)
    /\ CameraOf \in [Frames -> Cameras] /\ Score \in [Frames -> Nat]
ASSUME CameraAssumption ==
    /\ FirstPost \in [Cameras -> Post] /\ Posts \in [Cameras -> SUBSET Post]
    /\ Rulings \subseteq SUBSET Frames
    /\ FullFrame \in Crops
ASSUME CallAssumption ==
    /\ RecropAlone \in BOOLEAN
    /\ {MaxFinalizes, MaxEdits, MaxFaults, MaxCrashes} \subseteq Nat

\* The files of an image in the order they are written, and removed:
\* 1 the image, 2 its 480 and 3 its 240 pixel thumbnail, 4 the sidecar.
File    == 1..4
Image   == [frame : Frames, crop : Crops]
NoImage == [frame |-> 0, crop |-> FullFrame]
Op     == {"none", "finalize", "recrop"}
Stage  == {"idle", "load", "orig", "write", "row", "delete", "fail"}
Call   == [op : Op, at : Stage, n : File,
           old : Image \cup {NoImage}, new : Image \cup {NoImage}]

Enter(op, at, old, new) == [op |-> op, at |-> at, n |-> 1, old |-> old, new |-> new]
Idle == Enter("none", "idle", NoImage, NoImage)

VARIABLES
    rows,           \* the frame rows of the date with valid = ok
    admitted,       \* the frames that the settings make archive-eligible
    archive,        \* the frames whose file is still under /data/frames
    cameras,        \* the cameras table
    post,           \* role with publish_eligible, and publish_priority, of each camera
    crop,           \* cameras.crop_*: the publish crop of each camera
    doomed,         \* the files that a deletion of a camera has yet to remove
    status, best,   \* days.status; the image best_path and the thumb paths name
    files,          \* the images that have each file under /data/best
    orig,           \* the frames with an original under /data/best/orig
    call,           \* the call each goroutine is in
    barred,         \* history: what was not publishable at some time of each call
    outdated,       \* history: the calls whose frame was picked before the last change of
    superseded,     \* a post or of the settings; the row's frame was
    finalizes, edits, faults, crashes

conf   == <<admitted, cameras, post, crop>>
disk   == <<archive, files, orig>>
row    == <<status, best, superseded>>
calls  == <<call, barred, outdated>>
budget == <<finalizes, edits, faults, crashes>>
vars   == <<rows, conf, doomed, disk, row, calls, budget>>

-----------------------------------------------------------------------------
(* FinalizeDay's choice *)

Eligible    == rows \cap admitted
Role(f)     == post[CameraOf[f]].role
Priority(f) == post[CameraOf[f]].priority

\* Faulty: compares scores without keeping to one camera's frames.
CandidatesMixed == {f \in Eligible : \A g \in Eligible : Score[g] <= Score[f]}

\* The best-scored frame of each camera, the first one of those that tie.
Candidates ==
    {f \in Eligible : \A g \in Eligible : CameraOf[g] = CameraOf[f] =>
                          Score[g] < Score[f] \/ (Score[g] = Score[f] /\ f <= g)}

\* Two cameras of one priority: map iteration order decides.
Preferred(role) ==
    LET c == {f \in Candidates : Role(f) = role}
    IN  {f \in c : \A g \in c : Priority(f) <= Priority(g)}

Picks == IF Preferred("publish_primary") # {}
         THEN Preferred("publish_primary")
         ELSE Preferred("publish_backup")

\* The frames that FinalizeDay chooses among in the end.
Publishable == {f \in Eligible : Role(f) # "none"}

-----------------------------------------------------------------------------
Init ==
    /\ rows \in SUBSET Frames /\ archive = rows
    /\ admitted \in Rulings
    /\ cameras = Cameras /\ post = FirstPost
    /\ crop = [c \in Cameras |-> FullFrame]
    /\ doomed = {}
    /\ status = "capturing" /\ best = NoImage /\ superseded = FALSE
    /\ files = [k \in File |-> {}] /\ orig = {}
    /\ call = [c \in Callers |-> Idle]
    /\ barred = [c \in Callers |-> {}] /\ outdated = {}
    /\ finalizes = 0 /\ edits = 0 /\ faults = 0 /\ crashes = 0

\* What publishing frame f with its camera's crop of this moment yields.
Rendering(f)      == [frame |-> f, crop |-> crop[CameraOf[f]]]

Become(c, stage)  == /\ call' = [call EXCEPT ![c].at = stage]
                     /\ UNCHANGED <<barred, outdated>>
Step(c, stage, n) == /\ call' = [call EXCEPT ![c].at = stage, ![c].n = n]
                     /\ UNCHANGED <<barred, outdated>>
Return(c)         == /\ call' = [call EXCEPT ![c] = Idle]
                     /\ barred' = [barred EXCEPT ![c] = {}] /\ outdated' = outdated \ {c}
Fault             == faults < MaxFaults /\ faults' = faults + 1
AllIdle           == \A c \in Callers : call[c] = Idle
NoRecrop          == \A c \in Callers : call[c].op # "recrop"
Known(i)          == CameraOf[i.frame] \in cameras

\* Reads the settings, the cameras and the frame rows, and picks.
BeginFinalize(c) ==
    /\ call[c] = Idle
    /\ RecropAlone => NoRecrop
    /\ finalizes < MaxFinalizes /\ finalizes' = finalizes + 1
    /\ IF Picks = {}
       THEN call' = [call EXCEPT ![c] = Enter("finalize", "fail", NoImage, NoImage)]
       ELSE \E f \in Picks :
                call' = [call EXCEPT ![c] = Enter("finalize", "load", NoImage, Rendering(f))]
    /\ barred' = [barred EXCEPT ![c] = Frames \ Publishable] /\ UNCHANGED outdated
    /\ UNCHANGED <<rows, conf, doomed, disk, row, edits, faults, crashes>>

\* Faulty: takes an original that is there already for a failure.
LoadFrameOnce(c) ==
    /\ call[c].op = "finalize" /\ call[c].at = "load"
    /\ Become(c, IF call[c].new.frame \in archive \ orig THEN "orig" ELSE "fail")
    /\ UNCHANGED <<rows, conf, doomed, disk, row, budget>>

LoadFrame(c) ==
    /\ call[c].op = "finalize" /\ call[c].at = "load"
    /\ Become(c, IF call[c].new.frame \in archive THEN "orig" ELSE "fail")
    /\ UNCHANGED <<rows, conf, doomed, disk, row, budget>>

\* CompleteDay with status failed and no image; its error is ignored.
FailDay(c) ==
    /\ call[c].at = "fail"
    /\ \/ status' = "failed" /\ best' = NoImage /\ superseded' = FALSE /\ UNCHANGED faults
       \/ Fault /\ UNCHANGED row
    /\ Return(c)
    /\ UNCHANGED <<rows, conf, doomed, disk, finalizes, edits, crashes>>

WriteOrig(c) ==
    /\ call[c].at = "orig"
    /\ orig' = orig \cup {call[c].new.frame}
    /\ Become(c, "write")
    /\ UNCHANGED <<rows, conf, doomed, archive, files, row, budget>>

-----------------------------------------------------------------------------
(* RecropDay *)

\* The days row loses its camera with the camera: it is not re-cropped then.
BeginRecrop(c) ==
    /\ call[c] = Idle
    /\ RecropAlone => AllIdle
    /\ status = "complete" /\ Known(best)
    /\ call' = [call EXCEPT ![c] = Enter("recrop", "load", best, NoImage)]
    /\ outdated' = (IF superseded THEN outdated \cup {c} ELSE outdated) /\ UNCHANGED barred
    /\ UNCHANGED <<rows, conf, doomed, disk, row, budget>>

\* Faulty: renders whichever original is on disk, not the sidecar's.
LoadOriginalAny(c) ==
    LET old == call[c].old
    IN  /\ call[c].op = "recrop" /\ call[c].at = "load"
        /\ IF old \in files[4] /\ old.frame \in orig /\ Known(old)
           THEN /\ \E f \in orig :
                      call' = [call EXCEPT ![c] = Enter("recrop", "write", old, Rendering(f))]
                /\ UNCHANGED <<barred, outdated>>
           ELSE Return(c)
        /\ UNCHANGED <<rows, conf, doomed, disk, row, budget>>

\* Reads the sidecar, the original it names, and the camera's current crop.
LoadOriginal(c) ==
    LET old == call[c].old
    IN  /\ call[c].op = "recrop" /\ call[c].at = "load"
        /\ IF old \in files[4] /\ old.frame \in orig /\ Known(old)
           THEN /\ call' = [call EXCEPT ![c] = Enter("recrop", "write", old, Rendering(old.frame))]
                /\ UNCHANGED <<barred, outdated>>
           ELSE Return(c)
        /\ UNCHANGED <<rows, conf, doomed, disk, row, budget>>

\* Faulty: the first file is taken for written already.
WriteFileSkipping(c) ==
    LET n == call[c].n
    IN  /\ call[c].at = "write"
        /\ files' = [files EXCEPT ![n] = IF n = 2 THEN @ ELSE @ \cup {call[c].new}]
        /\ IF n = 4 THEN Step(c, "row", 1) ELSE Step(c, "write", n + 1)
        /\ UNCHANGED <<rows, conf, doomed, archive, orig, row, budget>>

WriteFile(c) ==
    LET n == call[c].n
    IN  /\ call[c].at = "write"
        /\ files' = [files EXCEPT ![n] = @ \cup {call[c].new}]
        /\ IF n = 4 THEN Step(c, "row", 1) ELSE Step(c, "write", n + 1)
        /\ UNCHANGED <<rows, conf, doomed, archive, orig, row, budget>>

\* Faulty: leaves the replaced files where they are.
CompleteDayOnly(c) ==
    /\ call[c].at = "row" /\ Known(call[c].new)
    /\ status' = "complete" /\ best' = call[c].new /\ superseded' = (c \in outdated)
    /\ Return(c)
    /\ UNCHANGED <<rows, conf, doomed, disk, budget>>

\* The names differ exactly when the images do.
CompleteDay(c) ==
    /\ call[c].at = "row" /\ Known(call[c].new)
    /\ status' = "complete" /\ best' = call[c].new /\ superseded' = (c \in outdated)
    /\ IF call[c].op = "recrop" /\ call[c].old # call[c].new
       THEN Become(c, "delete")
       ELSE Return(c)
    /\ UNCHANGED <<rows, conf, doomed, disk, budget>>

\* A row that names a deleted camera violates its foreign key: an error.
CameraGone(c) ==
    /\ call[c].at = "row" /\ ~Known(call[c].new)
    /\ Return(c)
    /\ UNCHANGED <<rows, conf, doomed, disk, row, budget>>

\* An error of os.Remove is logged and the file left behind.
DeleteOld(c) ==
    LET n == call[c].n
    IN  /\ call[c].at = "delete"
        /\ \/ files' = [files EXCEPT ![n] = @ \ {call[c].old}] /\ UNCHANGED faults
           \/ Fault /\ UNCHANGED files
        /\ IF n = 4 THEN Return(c) ELSE Step(c, "delete", n + 1)
        /\ UNCHANGED <<rows, conf, doomed, archive, orig, row, finalizes, edits, crashes>>

\* A read of RecropDay, an encoding, a write or the row's update fails: the
\* error is returned.
CallFails(c) ==
    /\ \/ call[c].at \in {"orig", "write", "row"}
       \/ call[c].op = "recrop" /\ call[c].at = "load"
    /\ Fault
    /\ Return(c)
    /\ UNCHANGED <<rows, conf, doomed, disk, row, finalizes, edits, crashes>>

-----------------------------------------------------------------------------
(* What the calls depend on and do not control *)

\* What the running finalizations may not publish after this step.
Bar == barred' = [c \in Callers |-> IF call[c].op = "finalize"
                                    THEN barred[c] \cup (Frames \ Publishable')
                                    ELSE barred[c]]

\* The frames of the running calls, and the row's, were picked before this step.
Supersede == /\ outdated' = {c \in Callers : call[c] # Idle}
             /\ superseded' = (status = "complete")

Edit == edits < MaxEdits /\ edits' = edits + 1

\* cameraSave writes the crop and the post together.
EditCamera(cam, to, p) ==
    /\ cam \in cameras /\ <<to, p>> # <<crop[cam], post[cam]>>
    /\ Edit
    /\ crop' = [crop EXCEPT ![cam] = to]
    /\ post' = [post EXCEPT ![cam] = p]
    /\ UNCHANGED <<rows, admitted, cameras, doomed, disk, status, best, call, finalizes, faults,
                   crashes>>
    /\ IF p = post[cam] THEN UNCHANGED <<outdated, superseded>> ELSE Supersede
    /\ Bar

\* settingsSave moves the cutoff or the darkness floor, for the very next call.
EditSettings(s) ==
    /\ s # admitted
    /\ Edit
    /\ admitted' = s
    /\ UNCHANGED <<rows, cameras, post, crop, doomed, disk, status, best, call, finalizes, faults,
                   crashes>>
    /\ Supersede
    /\ Bar

\* cameraDelete drops the camera and its rows in one transaction ...
DeleteCamera(cam) ==
    /\ cam \in cameras /\ cameras' = cameras \ {cam}
    /\ Edit
    /\ rows' = {f \in rows : CameraOf[f] # cam}
    /\ doomed' = doomed \cup (rows \ rows')
    /\ UNCHANGED <<admitted, post, crop, disk, row, call, outdated, finalizes, faults, crashes>>
    /\ Bar

\* ... and then removes their files, or leaves one behind.
DeleteFile(f) ==
    /\ f \in doomed /\ doomed' = doomed \ {f}
    /\ \/ archive' = archive \ {f} /\ UNCHANGED faults
       \/ Fault /\ UNCHANGED archive
    /\ UNCHANGED <<rows, conf, files, orig, row, calls, finalizes, edits, crashes>>

\* Retention removes the date's frame rows, never anything under /data/best.
Retention ==
    /\ rows # {} /\ rows' = {}
    /\ UNCHANGED <<conf, doomed, disk, row, call, outdated, budget>>
    /\ Bar

LoseFile(f) ==
    /\ f \in archive
    /\ Fault
    /\ archive' = archive \ {f}
    /\ UNCHANGED <<rows, conf, doomed, files, orig, row, calls, finalizes, edits, crashes>>

\* Startup: files without a row are removed, rows without a file marked missing.
SweepOrphans ==
    /\ AllIdle /\ rows # archive
    /\ rows' = rows \cap archive /\ archive' = rows \cap archive
    /\ UNCHANGED <<conf, doomed, files, orig, row, calls, budget>>

Crash ==
    /\ ~AllIdle \/ doomed # {}
    /\ crashes < MaxCrashes /\ crashes' = crashes + 1
    /\ call' = [c \in Callers |-> Idle]
    /\ barred' = [c \in Callers |-> {}] /\ outdated' = {}
    /\ doomed' = {}
    /\ UNCHANGED <<rows, conf, disk, row, finalizes, edits, faults>>

FinalizeDay(c) == BeginFinalize(c) \/ LoadFrame(c) \/ FailDay(c) \/ WriteOrig(c)
RecropDay(c)   == BeginRecrop(c) \/ LoadOriginal(c) \/ DeleteOld(c)
Publish(c)     == WriteFile(c) \/ CompleteDay(c) \/ CameraGone(c) \/ CallFails(c)
Operator       == \/ \E cam \in Cameras : \/ \E to \in Crops, p \in Posts[cam] : EditCamera(cam, to, p)
                                         \/ DeleteCamera(cam)
                  \/ \E s \in Rulings : EditSettings(s)
                  \/ \E f \in Frames : DeleteFile(f)

Next == \/ \E c \in Callers : FinalizeDay(c) \/ RecropDay(c) \/ Publish(c)
        \/ Operator
        \/ \E f \in Frames : LoseFile(f)
        \/ Retention \/ SweepOrphans \/ Crash

Spec == Init /\ [][Next]_vars

-----------------------------------------------------------------------------
(* Properties *)

TypeOK ==
    /\ rows \subseteq Frames /\ archive \subseteq Frames /\ orig \subseteq Frames
    /\ admitted \subseteq Frames /\ doomed \subseteq Frames
    /\ cameras \subseteq Cameras /\ post \in [Cameras -> Post] /\ crop \in [Cameras -> Crops]
    /\ status \in {"capturing", "complete", "failed"}
    /\ best \in Image \cup {NoImage}
    /\ files \in [File -> SUBSET Image]
    /\ call \in [Callers -> Call]
    /\ barred \in [Callers -> SUBSET Frames]
    /\ outdated \subseteq Callers /\ superseded \in BOOLEAN
    /\ finalizes \in 0..MaxFinalizes /\ edits \in 0..MaxEdits
    /\ faults \in 0..MaxFaults /\ crashes \in 0..MaxCrashes

\* A complete day can be served and re-cropped: each file its row names, the
\* sidecar and the uncropped original are there, whichever step a call of
\* FinalizeDay or RecropDay failed or crashed in.
RowServable ==
    status = "complete" =>
        (\A k \in File : best \in files[k]) /\ best.frame \in orig

\* Frame g should have been published rather than frame f.
Outranks(g, f) ==
    \/ Role(g) = "publish_primary" /\ Role(f) # "publish_primary"
    \/ Role(g) = Role(f) /\ Priority(g) < Priority(f)
    \/ CameraOf[g] = CameraOf[f] /\ Score[g] > Score[f]

\* Unless a post or the settings were changed after its pick, the published
\* frame is one that no frame still archived for the date outranks: a
\* publish-eligible camera's, the primary's before a backup's, the lowest
\* priority's, and the best-scored one of that camera.
NothingBetter ==
    status = "complete" /\ ~superseded =>
        /\ Role(best.frame) # "none"
        /\ \A g \in Publishable : ~Outranks(g, best.frame)

\* Re-cropping replaces: when nothing failed, the day was finalized once and
\* no camera deleted, no file of an earlier rendering is left once the call has
\* returned.
NoLitter ==
    AllIdle /\ finalizes <= 1 /\ faults = 0 /\ crashes = 0 /\ cameras = Cameras =>
        \A k \in File : files[k] \subseteq {best}

\* What the pages of the date can show: the image its row names, when every
\* file of it and the original it is re-cropped from are on disk.
Whole(i) == (\A k \in File : i \in files[k]) /\ i.frame \in orig
Shown    == IF status = "complete" /\ Whole(best) THEN best ELSE NoImage
Asked    == {c \in Callers : call[c].op = "finalize"}

Contract == INSTANCE ImageContract
    WITH Images <- Image, NoImage <- NoImage, Callers <- Callers,
         asked <- Asked, status <- status, shown <- Shown

\* FinalizeDay and RecropDay keep what a published image promises, step by
\* step: each call that concludes swaps one whole image for another, a re-crop
\* under the frame that was published, and no other step shows.
KeepsImageContract == Contract!Spec

\* A completed day loses its image only for a cause. Unless something has
\* failed, the finalization that takes it away has had the published frame
\* withdrawn before or under it (by retention, the deletion of its camera, the
\* post its camera was given or a moved cutoff or floor), or else the very
\* frame it had picked instead.
ImageLostForCause ==
    [][status = "complete" /\ status' # "complete" =>
          \/ faults > 0
          \/ \E c \in Callers : /\ call[c].at = "fail" /\ call'[c] = Idle
                                /\ {best.frame, call[c].new.frame} \cap barred[c] # {}]_vars
=============================================================================
