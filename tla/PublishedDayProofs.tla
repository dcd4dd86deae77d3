------------------------- MODULE PublishedDayProofs -------------------------
(***************************************************************************)
(* Type correctness of PublishedDay, and that a complete day keeps every   *)
(* file its row names provided nobody works on a date while it is being    *)
(* re-cropped. A call proves that by what it has already written: Written  *)
(* says which files are there at each stage, and Alone that the removals   *)
(* of a re-crop meet no other call's files. Then that what is published    *)
(* is the best there is, that re-cropping leaves no old file behind, and   *)
(* that a published day loses its image only for a cause.                  *)
(***************************************************************************)
EXTENDS PublishedDay, TLAPS, FiniteSetTheorems

-----------------------------------------------------------------------------
LEMMA EnterType ==
    ASSUME NEW op \in Op, NEW at \in Stage,
           NEW old \in Image \cup {NoImage}, NEW new \in Image \cup {NoImage}
    PROVE  Enter(op, at, old, new) \in Call
  BY DEF Enter, Call, File

LEMMA IdleType == Idle \in Call
  BY EnterType DEF Idle, Op, Stage

\* Every frame FinalizeDay picks is a row of the date.
LEMMA PicksAreRows == Picks \subseteq rows
  BY DEF Picks, Preferred, Candidates, Eligible

LEMMA RenderingType ==
    ASSUME TypeOK, NEW f \in Frames
    PROVE  Rendering(f) \in Image /\ Rendering(f).frame = f
  BY FrameAssumption DEF TypeOK, Rendering, Image

LEMMA InitType == Init => TypeOK
<1> SUFFICES ASSUME Init PROVE TypeOK
  OBVIOUS
<1>1. call \in [Callers -> Call]
  BY IdleType DEF Init
<1>2. crop \in [Cameras -> Crops] /\ post \in [Cameras -> Post] /\ admitted \subseteq Frames
  BY CameraAssumption DEF Init
<1>3. barred \in [Callers -> SUBSET Frames] /\ files \in [File -> SUBSET Image]
  BY DEF Init
<1>4. superseded \in BOOLEAN BY DEF Init
<1> QED BY <1>1, <1>2, <1>3, <1>4, CallAssumption DEF Init, TypeOK

\* Replacing one call by another, or taking it to another stage, keeps the type.
LEMMA CallType ==
    ASSUME TypeOK, NEW c \in Callers
    PROVE  /\ \A k \in Call : [call EXCEPT ![c] = k] \in [Callers -> Call]
           /\ \A s \in Stage : [call EXCEPT ![c].at = s] \in [Callers -> Call]
           /\ \A n \in File, s \in Stage : Step(c, s, n) => call' \in [Callers -> Call]
  BY DEF TypeOK, Call, Step

\* The rows, the cameras, the settings and the archive are not a call's to change.
LEMMA CallLeaves ==
    ASSUME NEW c \in Callers, FinalizeDay(c) \/ RecropDay(c) \/ Publish(c)
    PROVE  UNCHANGED <<rows, admitted, cameras, post, crop, doomed, archive, edits, crashes>>
<1>1. CASE FinalizeDay(c)
  BY <1>1 DEF FinalizeDay, BeginFinalize, LoadFrame, FailDay, WriteOrig, conf, disk, budget
<1>2. CASE RecropDay(c)
  BY <1>2 DEF RecropDay, BeginRecrop, LoadOriginal, DeleteOld, conf, disk, budget
<1>3. CASE Publish(c)
  BY <1>3 DEF Publish, WriteFile, CompleteDay, CameraGone, CallFails, conf, disk, budget
<1> QED BY <1>1, <1>2, <1>3

\* What the calls write is theirs alone, but for a crash.
LEMMA Outside ==
    ASSUME [Next]_vars
    PROVE  \/ \E c \in Callers : FinalizeDay(c) \/ RecropDay(c) \/ Publish(c)
           \/ Crash
           \/ UNCHANGED <<call, status, best, files, orig, finalizes, crashes>>
  BY DEF Next, vars, disk, row, calls, budget, Edit, Operator, EditCamera, EditSettings,
         DeleteCamera, DeleteFile, LoseFile, Retention, SweepOrphans

LEMMA NextCallType ==
    ASSUME TypeOK, [Next]_vars
    PROVE  call' \in [Callers -> Call]
<1>1. ASSUME NEW c \in Callers, FinalizeDay(c) PROVE call' \in [Callers -> Call]
  <2>1. CASE BeginFinalize(c)
    <3>1. CASE Picks = {}
      <4>1. Enter("finalize", "fail", NoImage, NoImage) \in Call
        BY EnterType DEF Op, Stage
      <4> QED BY <2>1, <3>1, <4>1, CallType DEF BeginFinalize
    <3>2. CASE Picks # {}
      <4>1. PICK f \in Picks : call' = [call EXCEPT ![c] =
                                  Enter("finalize", "load", NoImage, Rendering(f))]
        BY <2>1, <3>2 DEF BeginFinalize
      <4>2. Rendering(f) \in Image
        BY <4>1, PicksAreRows, RenderingType DEF TypeOK
      <4>3. Enter("finalize", "load", NoImage, Rendering(f)) \in Call
        BY <4>2, EnterType DEF Op, Stage
      <4> QED BY <4>1, <4>3, CallType
    <3> QED BY <3>1, <3>2
  <2>2. CASE LoadFrame(c)
    BY <2>2, CallType DEF LoadFrame, Become, Stage
  <2>3. CASE FailDay(c)
    BY <2>3, CallType, IdleType DEF FailDay, Return
  <2>4. CASE WriteOrig(c)
    BY <2>4, CallType DEF WriteOrig, Become, Stage
  <2> QED BY <1>1, <2>1, <2>2, <2>3, <2>4 DEF FinalizeDay
<1>2. ASSUME NEW c \in Callers, RecropDay(c) PROVE call' \in [Callers -> Call]
  <2>1. CASE BeginRecrop(c)
    <3>1. Enter("recrop", "load", best, NoImage) \in Call
      BY EnterType DEF TypeOK, Op, Stage
    <3> QED BY <2>1, <3>1, CallType DEF BeginRecrop
  <2>2. CASE LoadOriginal(c)
    <3> DEFINE old == call[c].old
    <3>1. CASE old \in files[4] /\ old.frame \in orig /\ Known(old)
      <4>1. old \in Image \cup {NoImage} /\ Rendering(old.frame) \in Image
        BY <3>1, RenderingType DEF TypeOK, Call
      <4>2. Enter("recrop", "write", old, Rendering(old.frame)) \in Call
        BY <4>1, EnterType DEF Op, Stage
      <4> QED BY <2>2, <3>1, <4>2, CallType DEF LoadOriginal
    <3>2. CASE ~(old \in files[4] /\ old.frame \in orig /\ Known(old))
      BY <2>2, <3>2, CallType, IdleType DEF LoadOriginal, Return
    <3> QED BY <3>1, <3>2
  <2>3. CASE DeleteOld(c)
    <3>1. call[c].n # 4 => call[c].n + 1 \in File
      BY DEF TypeOK, Call, File
    <3>2. Return(c) \/ (Step(c, "delete", call[c].n + 1) /\ call[c].n # 4)
      BY <2>3 DEF DeleteOld
    <3>3. CASE Return(c) BY <3>3, CallType, IdleType DEF Return
    <3>4. CASE Step(c, "delete", call[c].n + 1) /\ call[c].n # 4
      <4>1. call[c].n + 1 \in File /\ "delete" \in Stage BY <3>1, <3>4 DEF Stage
      <4> QED BY <3>4, <4>1, CallType
    <3> QED BY <3>2, <3>3, <3>4
  <2> QED BY <1>2, <2>1, <2>2, <2>3 DEF RecropDay
<1>3. ASSUME NEW c \in Callers, Publish(c) PROVE call' \in [Callers -> Call]
  <2>1. CASE WriteFile(c)
    <3>1. call[c].n # 4 => call[c].n + 1 \in File
      BY DEF TypeOK, Call, File
    <3>2. Step(c, "row", 1) \/ (Step(c, "write", call[c].n + 1) /\ call[c].n # 4)
      BY <2>1 DEF WriteFile
    <3>3. 1 \in File /\ {"row", "write"} \subseteq Stage
      BY DEF File, Stage
    <3>4. CASE Step(c, "row", 1) BY <3>3, <3>4, CallType
    <3>5. CASE Step(c, "write", call[c].n + 1) /\ call[c].n # 4
      BY <3>1, <3>3, <3>5, CallType
    <3> QED BY <3>2, <3>4, <3>5
  <2>2. CASE CompleteDay(c)
    <3>1. Become(c, "delete") \/ Return(c) BY <2>2 DEF CompleteDay
    <3>2. CASE Become(c, "delete") BY <3>2, CallType DEF Become, Stage
    <3>3. CASE Return(c) BY <3>3, CallType, IdleType DEF Return
    <3> QED BY <3>1, <3>2, <3>3
  <2>3. CASE CallFails(c) \/ CameraGone(c)
    BY <2>3, CallType, IdleType DEF CallFails, CameraGone, Return
  <2> QED BY <1>3, <2>1, <2>2, <2>3 DEF Publish
<1>4. CASE UNCHANGED call
  BY <1>4 DEF TypeOK
<1>5. CASE Crash
  BY <1>5, IdleType DEF Crash
<1> QED BY <1>1, <1>2, <1>3, <1>4, <1>5, Outside

-----------------------------------------------------------------------------
(* What one step of a call does to the calls *)

Others(c) == \A d \in Callers \ {c} : call'[d] = call[d]

Keeps(c) == /\ call'[c].op = call[c].op
            /\ call'[c].old = call[c].old /\ call'[c].new = call[c].new

LEMMA EnterFields ==
    ASSUME NEW op, NEW at, NEW old, NEW new
    PROVE  LET k == Enter(op, at, old, new)
           IN  k.op = op /\ k.at = at /\ k.n = 1 /\ k.old = old /\ k.new = new
  BY DEF Enter

LEMMA IdleFields == Idle.op = "none" /\ Idle.at = "idle"
  BY DEF Idle, Enter

LEMMA Moves ==
    ASSUME TypeOK, NEW c \in Callers
    PROVE  /\ \A s : Become(c, s) =>
                 Others(c) /\ Keeps(c) /\ call'[c].at = s /\ call'[c].n = call[c].n
           /\ \A s, n : Step(c, s, n) =>
                 Others(c) /\ Keeps(c) /\ call'[c].at = s /\ call'[c].n = n
           /\ \A k : call' = [call EXCEPT ![c] = k] => Others(c) /\ call'[c] = k
  BY DEF TypeOK, Call, Become, Step, Others, Keeps

-----------------------------------------------------------------------------
(* Every call that has got beyond its reads names an image *)

Named(c) ==
    /\ call[c].at \in {"orig", "write", "row"} => call[c].new \in Image
    /\ call[c].at = "load" /\ call[c].op = "finalize" => call[c].new \in Image
    /\ call[c].op = "recrop" => call[c].old \in Image /\ call[c].at \notin {"orig", "fail"}

AllNamed == /\ \A c \in Callers : Named(c)
            /\ status = "complete" => best \in Image

Typed == TypeOK /\ AllNamed

LEMMA InitTyped == Init => Typed
  BY InitType, IdleFields DEF Init, Typed, AllNamed, Named

\* The calls after a step by c, when c's own call is still well named.
LEMMA NamedStep ==
    ASSUME Typed, NEW c \in Callers, Others(c), Named(c)',
           status' = "complete" => best' \in Image
    PROVE  AllNamed'
  BY DEF Typed, AllNamed, Named, Others

LEMMA NextNamed == Typed /\ [Next]_vars => AllNamed'
<1> SUFFICES ASSUME Typed, [Next]_vars PROVE AllNamed'
  OBVIOUS
<1>0. TypeOK /\ \A c \in Callers : Named(c)
  BY DEF Typed, AllNamed
<1>1. ASSUME NEW c \in Callers, FinalizeDay(c) PROVE AllNamed'
  <2>1. CASE BeginFinalize(c)
    <3>1. Others(c) /\ Named(c)'
      <4>1. CASE Picks = {}
        BY <1>0, <2>1, <4>1, Moves, EnterFields DEF BeginFinalize, Named
      <4>2. CASE Picks # {}
        <5>1. PICK f \in Picks : call' = [call EXCEPT ![c] =
                                    Enter("finalize", "load", NoImage, Rendering(f))]
          BY <2>1, <4>2 DEF BeginFinalize
        <5>2. Rendering(f) \in Image
          BY <1>0, <5>1, PicksAreRows, RenderingType DEF TypeOK
        <5>3. Others(c) /\ call'[c] = Enter("finalize", "load", NoImage, Rendering(f))
          BY <1>0, <5>1, Moves
        <5>4. call'[c].op = "finalize" /\ call'[c].at = "load" /\ call'[c].new = Rendering(f)
          BY <5>3, EnterFields
        <5> QED BY <5>2, <5>3, <5>4 DEF Named
      <4> QED BY <4>1, <4>2
    <3> QED BY <2>1, <3>1, NamedStep DEF BeginFinalize, row, Typed, AllNamed
  <2>2. CASE LoadFrame(c)
    <3>1. Others(c) /\ Named(c)'
      BY <1>0, <2>2, Moves DEF LoadFrame, Named, Keeps
    <3> QED BY <2>2, <3>1, NamedStep DEF LoadFrame, row, Typed, AllNamed
  <2>3. CASE FailDay(c)
    <3>1. Others(c) /\ Named(c)'
      BY <1>0, <2>3, Moves, IdleFields DEF FailDay, Return, Named
    <3> QED BY <2>3, <3>1, NamedStep DEF FailDay, row, Typed, AllNamed
  <2>4. CASE WriteOrig(c)
    <3>1. Others(c) /\ Named(c)'
      BY <1>0, <2>4, Moves DEF WriteOrig, Named, Keeps
    <3> QED BY <2>4, <3>1, NamedStep DEF WriteOrig, row, Typed, AllNamed
  <2> QED BY <1>1, <2>1, <2>2, <2>3, <2>4 DEF FinalizeDay
<1>2. ASSUME NEW c \in Callers, RecropDay(c) PROVE AllNamed'
  <2>1. CASE BeginRecrop(c)
    <3>1. Others(c) /\ Named(c)'
      <4>1. Others(c) /\ call'[c] = Enter("recrop", "load", best, NoImage)
        BY <1>0, <2>1, Moves DEF BeginRecrop
      <4>2. call'[c].op = "recrop" /\ call'[c].at = "load" /\ call'[c].old = best
        BY <4>1, EnterFields
      <4>3. best \in Image
        BY <2>1 DEF BeginRecrop, Typed, AllNamed
      <4> QED BY <4>1, <4>2, <4>3 DEF Named
    <3> QED BY <2>1, <3>1, NamedStep DEF BeginRecrop, row, Typed, AllNamed
  <2>2. CASE LoadOriginal(c)
    <3> DEFINE old == call[c].old
    <3>1. Others(c) /\ Named(c)'
      <4>1. CASE old \in files[4] /\ old.frame \in orig /\ Known(old)
        <5>1. old \in Image /\ Rendering(old.frame) \in Image
          BY <1>0, <2>2, <4>1, RenderingType DEF LoadOriginal, Named, TypeOK
        <5> QED BY <1>0, <2>2, <4>1, <5>1, Moves, EnterFields DEF LoadOriginal, Named
      <4>2. CASE ~(old \in files[4] /\ old.frame \in orig /\ Known(old))
        BY <1>0, <2>2, <4>2, Moves, IdleFields DEF LoadOriginal, Return, Named
      <4> QED BY <4>1, <4>2
    <3> QED BY <2>2, <3>1, NamedStep DEF LoadOriginal, row, Typed, AllNamed
  <2>3. CASE DeleteOld(c)
    <3>1. Others(c) /\ Named(c)'
      BY <1>0, <2>3, Moves, IdleFields DEF DeleteOld, Return, Named, Keeps
    <3> QED BY <2>3, <3>1, NamedStep DEF DeleteOld, row, Typed, AllNamed
  <2> QED BY <1>2, <2>1, <2>2, <2>3 DEF RecropDay
<1>3. ASSUME NEW c \in Callers, Publish(c) PROVE AllNamed'
  <2>1. CASE WriteFile(c)
    <3>1. Others(c) /\ Named(c)'
      BY <1>0, <2>1, Moves DEF WriteFile, Named, Keeps
    <3> QED BY <2>1, <3>1, NamedStep DEF WriteFile, row, Typed, AllNamed
  <2>2. CASE CompleteDay(c)
    <3>1. Others(c) /\ Named(c)'
      BY <1>0, <2>2, Moves, IdleFields DEF CompleteDay, Return, Named, Keeps
    <3>2. call[c].new \in Image
      BY <1>0, <2>2 DEF CompleteDay, Named
    <3> QED BY <2>2, <3>1, <3>2, NamedStep DEF CompleteDay
  <2>3. CASE CallFails(c) \/ CameraGone(c)
    <3>1. Others(c) /\ Named(c)'
      BY <1>0, <2>3, Moves, IdleFields DEF CallFails, CameraGone, Return, Named
    <3> QED BY <2>3, <3>1, NamedStep DEF CallFails, CameraGone, row, Typed, AllNamed
  <2> QED BY <1>3, <2>1, <2>2, <2>3 DEF Publish
<1>4. CASE UNCHANGED <<call, status, best>>
  BY <1>4 DEF Typed, AllNamed, Named, row
<1>5. CASE Crash
  BY <1>5, IdleFields DEF Crash, Typed, AllNamed, Named, row
<1> QED BY <1>1, <1>2, <1>3, <1>4, <1>5, Outside

LEMMA NextType == Typed /\ [Next]_vars => TypeOK'
<1> SUFFICES ASSUME Typed, [Next]_vars PROVE TypeOK'
  OBVIOUS
<1>0. TypeOK /\ \A c \in Callers : Named(c)
  BY DEF Typed, AllNamed
<1>1. call' \in [Callers -> Call]
  BY <1>0, NextCallType
<1>2. /\ rows' \subseteq Frames /\ archive' \subseteq Frames /\ doomed' \subseteq Frames
      /\ admitted' \subseteq Frames /\ cameras' \subseteq Cameras
      /\ post' \in [Cameras -> Post] /\ crop' \in [Cameras -> Crops] /\ edits' \in 0..MaxEdits
  <2>1. CASE \E c \in Callers : FinalizeDay(c) \/ RecropDay(c) \/ Publish(c)
    BY <1>0, <2>1, CallLeaves DEF TypeOK
  <2>2. ASSUME NEW cam \in Cameras, NEW to \in Crops, NEW p \in Posts[cam],
               EditCamera(cam, to, p)
        PROVE  post' \in [Cameras -> Post] /\ crop' \in [Cameras -> Crops]
    <3>1. p \in Post BY CameraAssumption
    <3> QED BY <1>0, <2>2, <3>1 DEF EditCamera, TypeOK
  <2>3. CASE Operator
    BY <1>0, <2>2, <2>3, CallAssumption, CameraAssumption
       DEF Operator, EditCamera, EditSettings, DeleteCamera, DeleteFile, Edit, TypeOK, conf, disk
  <2> QED BY <1>0, <2>1, <2>3
          DEF Next, vars, conf, disk, budget, LoseFile, Retention, SweepOrphans, Crash, TypeOK
<1>3. barred' \in [Callers -> SUBSET Frames] /\ outdated' \subseteq Callers
  <2>1. ASSUME NEW c \in Callers, FinalizeDay(c) \/ RecropDay(c) \/ Publish(c)
        PROVE  \/ UNCHANGED <<barred, outdated>>
               \/ barred' = [barred EXCEPT ![c] = {}] /\ outdated' = outdated \ {c}
               \/ barred' = [barred EXCEPT ![c] = Frames \ Publishable] /\ UNCHANGED outdated
               \/ UNCHANGED barred /\ outdated' \in {outdated, outdated \cup {c}}
    BY <2>1 DEF FinalizeDay, BeginFinalize, LoadFrame, FailDay, WriteOrig, RecropDay,
         BeginRecrop, LoadOriginal, DeleteOld, Publish, WriteFile, CompleteDay, CameraGone,
         CallFails, Become, Step, Return
  <2>2. CASE \E c \in Callers : FinalizeDay(c) \/ RecropDay(c) \/ Publish(c)
    BY <1>0, <2>1, <2>2 DEF TypeOK
  <2>3. Bar => barred' \in [Callers -> SUBSET Frames]
    BY <1>0 DEF Bar, TypeOK
  <2> QED BY <1>0, <2>2, <2>3
          DEF Next, vars, calls, Operator, EditCamera, EditSettings, DeleteCamera, DeleteFile,
              Supersede, LoseFile, Retention, SweepOrphans, Crash, TypeOK
<1>4. finalizes' \in 0..MaxFinalizes /\ faults' \in 0..MaxFaults /\ crashes' \in 0..MaxCrashes
  BY <1>0, CallAssumption
     DEF TypeOK, Next, vars, budget, Fault, FinalizeDay, BeginFinalize, LoadFrame, FailDay,
         WriteOrig, RecropDay, BeginRecrop, LoadOriginal, DeleteOld, Publish, WriteFile,
         CompleteDay, CameraGone, CallFails, Operator, EditCamera, EditSettings, DeleteCamera,
         DeleteFile, LoseFile, Retention, SweepOrphans, Crash
<1>5. status' \in {"capturing", "complete", "failed"} /\ best' \in Image \cup {NoImage}
  BY <1>0, Outside
     DEF TypeOK, Named, row, FinalizeDay, BeginFinalize, LoadFrame, FailDay, WriteOrig,
         RecropDay, BeginRecrop, LoadOriginal, DeleteOld, Publish, WriteFile, CompleteDay,
         CameraGone, CallFails, Crash
<1>6. superseded' \in BOOLEAN
  <2>1. \/ superseded' = superseded \/ superseded' = FALSE
        \/ superseded' = (status = "complete")
        \/ \E c \in Callers : superseded' = (c \in outdated)
    BY DEF Next, vars, row, FinalizeDay, BeginFinalize, LoadFrame, FailDay, WriteOrig, RecropDay,
           BeginRecrop, LoadOriginal, DeleteOld, Publish, WriteFile, CompleteDay, CameraGone,
           CallFails, Operator, EditCamera, EditSettings, DeleteCamera, DeleteFile, Supersede,
           LoseFile, Retention, SweepOrphans, Crash
  <2>2. superseded \in BOOLEAN BY <1>0 DEF TypeOK
  <2>3. ASSUME superseded' = (status = "complete") PROVE superseded' \in BOOLEAN
    BY <2>3
  <2>4. ASSUME NEW c \in Callers, superseded' = (c \in outdated) PROVE superseded' \in BOOLEAN
    BY <2>4
  <2> QED BY <2>1, <2>2, <2>3, <2>4
<1>7. orig' \subseteq Frames
  <2>1. ASSUME NEW c \in Callers, WriteOrig(c) PROVE orig' \subseteq Frames
    BY <1>0, <2>1 DEF WriteOrig, Named, TypeOK, Image
  <2> QED BY <1>0, <2>1, Outside
     DEF TypeOK, disk, FinalizeDay, BeginFinalize, LoadFrame, FailDay, RecropDay, BeginRecrop,
         LoadOriginal, DeleteOld, Publish, WriteFile, CompleteDay, CameraGone, CallFails, Crash
<1>8. files' \in [File -> SUBSET Image]
  <2>1. ASSUME NEW c \in Callers, WriteFile(c) \/ DeleteOld(c)
        PROVE  files' \in [File -> SUBSET Image]
    BY <1>0, <2>1 DEF WriteFile, DeleteOld, Named, TypeOK
  <2> QED BY <1>0, <2>1, Outside
     DEF TypeOK, disk, FinalizeDay, BeginFinalize, LoadFrame, FailDay, WriteOrig, RecropDay,
         BeginRecrop, LoadOriginal, Publish, CompleteDay, CameraGone, CallFails, Crash
<1> QED BY <1>1, <1>2, <1>3, <1>4, <1>5, <1>6, <1>7, <1>8 DEF TypeOK

\* Every variable keeps its type.
THEOREM TypeCorrect == Spec => []TypeOK
<1>1. Typed /\ [Next]_vars => Typed'
  BY NextType, NextNamed DEF Typed
<1>2. Typed => TypeOK
  BY DEF Typed
<1> QED BY InitTyped, <1>1, <1>2, PTL DEF Spec

-----------------------------------------------------------------------------
(* RowServable, when a date is re-cropped alone *)

\* While one call re-crops, no other call is in progress.
Alone ==
    \A c, d \in Callers : call[c].op = "recrop" /\ c # d => call[d] = Idle

\* What call c has written, and what it may remove.
Written(c) ==
    /\ call[c].at \in {"load", "orig"} => call[c].n = 1
    /\ call[c].at \in {"write", "row"} => call[c].new.frame \in orig
    /\ call[c].at = "write" => \A k \in File : k < call[c].n => call[c].new \in files[k]
    /\ call[c].at = "row" => \A k \in File : call[c].new \in files[k]
    /\ call[c].at = "delete" => /\ call[c].op = "recrop"
                                /\ status = "complete" /\ best # call[c].old

IInv == Typed /\ Alone /\ (\A c \in Callers : Written(c)) /\ RowServable

LEMMA InitIInv == Init => IInv
  BY InitTyped, IdleFields DEF Init, IInv, Alone, Written, RowServable

\* An idle call neither names nor removes anything.
LEMMA IdleWritten ==
    ASSUME NEW c \in Callers, call[c] = Idle PROVE Written(c)
  BY IdleFields DEF Written

\* No step but a re-crop's own begins while it runs.
LEMMA AloneStep ==
    ASSUME IInv, NEW c \in Callers, Others(c), call[c] # Idle,
           call'[c].op = "recrop" => call[c].op = "recrop"
    PROVE  Alone'
  BY DEF IInv, Alone, Others

\* A step that takes no file away and leaves the row alone keeps what the other
\* calls have written, and the row's files.
LEMMA GrowStep ==
    ASSUME IInv, NEW c \in Callers, Others(c), Written(c)',
           orig \subseteq orig', \A k \in File : files[k] \subseteq files'[k], UNCHANGED row
    PROVE  (\A d \in Callers : Written(d)') /\ RowServable'
<1>1. ASSUME NEW d \in Callers, d # c PROVE Written(d)'
  <2>1. call'[d] = call[d] /\ Written(d)
    BY <1>1 DEF Others, IInv
  <2> QED BY <2>1 DEF Written, row
<1>2. RowServable'
  BY DEF IInv, RowServable, row
<1> QED BY <1>1, <1>2

LEMMA NextIInv == ASSUME RecropAlone PROVE IInv /\ [Next]_vars => IInv'
<1> SUFFICES ASSUME IInv, [Next]_vars PROVE Alone' /\ (\A d \in Callers : Written(d)') /\ RowServable'
  BY NextType, NextNamed DEF IInv, Typed
<1>0. TypeOK /\ \A c \in Callers : Named(c) /\ Written(c)
  BY DEF IInv, Typed, AllNamed
<1>1. ASSUME NEW c \in Callers, FinalizeDay(c)
      PROVE  Alone' /\ (\A d \in Callers : Written(d)') /\ RowServable'
  <2>1. CASE BeginFinalize(c)
    <3>1. /\ Others(c)
          /\ call'[c].op = "finalize" /\ call'[c].at \in {"fail", "load"} /\ call'[c].n = 1
      <4>1. CASE Picks = {}
        BY <1>0, <2>1, <4>1, Moves, EnterFields DEF BeginFinalize
      <4>2. CASE Picks # {}
        <5>1. PICK f \in Picks : call' = [call EXCEPT ![c] =
                                    Enter("finalize", "load", NoImage, Rendering(f))]
          BY <2>1, <4>2 DEF BeginFinalize
        <5>2. Others(c) /\ call'[c] = Enter("finalize", "load", NoImage, Rendering(f))
          BY <1>0, <5>1, Moves
        <5> QED BY <5>2, EnterFields
      <4> QED BY <4>1, <4>2
    <3>2. Written(c)'
      BY <3>1 DEF Written
    <3>3. Alone'
      BY <2>1, <3>1 DEF BeginFinalize, NoRecrop, Alone, Others
    <3> QED BY <2>1, <3>1, <3>2, <3>3, GrowStep DEF BeginFinalize, disk
  <2>2. CASE LoadFrame(c)
    <3>1. /\ Others(c) /\ Keeps(c) /\ call'[c].n = call[c].n
          /\ call'[c].at \in {"orig", "fail"}
      BY <1>0, <2>2, Moves DEF LoadFrame
    <3>2. Written(c)'
      BY <1>0, <2>2, <3>1 DEF LoadFrame, Written
    <3>3. Alone'
      BY <2>2, <3>1, AloneStep, IdleFields DEF LoadFrame, Keeps
    <3> QED BY <2>2, <3>1, <3>2, <3>3, GrowStep DEF LoadFrame, disk
  <2>3. CASE FailDay(c)
    <3>1. Others(c) /\ call'[c] = Idle
      BY <1>0, <2>3, Moves DEF FailDay, Return
    <3>2. Alone'
      BY <2>3, <3>1, AloneStep, IdleFields DEF FailDay
    <3>3. ASSUME NEW d \in Callers, d # c PROVE call[d].at # "delete"
      <4>1. call[d].at = "delete" => call[c] = Idle
        BY <1>0, <3>3 DEF IInv, Alone, Written
      <4> QED BY <2>3, <4>1, IdleFields DEF FailDay
    <3>4. ASSUME NEW d \in Callers PROVE Written(d)'
      BY <1>0, <2>3, <3>1, <3>3, IdleFields DEF FailDay, Written, Others, disk
    <3>5. RowServable'
      BY <2>3 DEF FailDay, IInv, RowServable, row, disk
    <3> QED BY <3>2, <3>4, <3>5
  <2>4. CASE WriteOrig(c)
    <3>1. Others(c) /\ Keeps(c) /\ call'[c].n = call[c].n /\ call'[c].at = "write"
      BY <1>0, <2>4, Moves DEF WriteOrig
    <3>2. Written(c)'
      BY <1>0, <2>4, <3>1 DEF WriteOrig, Written, Keeps, File
    <3>3. Alone'
      BY <2>4, <3>1, AloneStep, IdleFields DEF WriteOrig, Keeps
    <3> QED BY <2>4, <3>1, <3>2, <3>3, GrowStep DEF WriteOrig
  <2> QED BY <1>1, <2>1, <2>2, <2>3, <2>4 DEF FinalizeDay
<1>2. ASSUME NEW c \in Callers, RecropDay(c)
      PROVE  Alone' /\ (\A d \in Callers : Written(d)') /\ RowServable'
  <2>1. CASE BeginRecrop(c)
    <3>1. Others(c) /\ call'[c].at = "load" /\ call'[c].n = 1
      <4>1. Others(c) /\ call'[c] = Enter("recrop", "load", best, NoImage)
        BY <1>0, <2>1, Moves DEF BeginRecrop
      <4> QED BY <4>1, EnterFields
    <3>2. Written(c)'
      BY <3>1 DEF Written
    <3>3. \A d \in Callers \ {c} : call'[d] = Idle
      BY <2>1, <3>1 DEF BeginRecrop, AllIdle, Others
    <3>4. Alone'
      BY <3>3, IdleFields DEF Alone
    <3> QED BY <2>1, <3>1, <3>2, <3>4, GrowStep DEF BeginRecrop, disk
  <2>2. CASE LoadOriginal(c)
    <3> DEFINE old == call[c].old
    <3>1. Others(c) /\ Written(c)'
      <4>1. CASE old \in files[4] /\ old.frame \in orig /\ Known(old)
        <5>1. Others(c) /\ call'[c] = Enter("recrop", "write", old, Rendering(old.frame))
          BY <1>0, <2>2, <4>1, Moves DEF LoadOriginal
        <5>2. call'[c].at = "write" /\ call'[c].n = 1 /\ call'[c].new = Rendering(old.frame)
          BY <5>1, EnterFields
        <5>3. call'[c].new.frame \in orig'
          BY <1>0, <2>2, <4>1, <5>2, RenderingType DEF LoadOriginal, disk, TypeOK
        <5> QED BY <5>1, <5>2, <5>3 DEF Written, File
      <4>2. CASE ~(old \in files[4] /\ old.frame \in orig /\ Known(old))
        BY <1>0, <2>2, <4>2, Moves, IdleFields DEF LoadOriginal, Return, Written
      <4> QED BY <4>1, <4>2
    <3>2. Alone'
      BY <2>2, <3>1, AloneStep, IdleFields DEF LoadOriginal
    <3> QED BY <2>2, <3>1, <3>2, GrowStep DEF LoadOriginal, disk
  <2>3. CASE DeleteOld(c)
    <3>1. /\ Others(c) /\ (call'[c] = Idle \/ (Keeps(c) /\ call'[c].at = "delete"))
          /\ call[c].op = "recrop" /\ status = "complete" /\ best # call[c].old
      BY <1>0, <2>3, Moves DEF DeleteOld, Return, Written
    <3>2. \A d \in Callers \ {c} : call'[d] = Idle
      BY <3>1 DEF IInv, Alone, Others
    <3>3. Written(c)'
      BY <2>3, <3>1, IdleFields DEF DeleteOld, Written, Keeps, row
    <3>4. \A d \in Callers : Written(d)'
      BY <3>2, <3>3, IdleFields DEF Written
    <3>5. Alone'
      BY <3>2, IdleFields DEF Alone
    <3>6. RowServable'
      <4>1. UNCHANGED <<row, orig>>
        BY <2>3 DEF DeleteOld
      <4>2. \A k \in File : best \in files[k] => best \in files'[k]
        BY <1>0, <2>3, <3>1 DEF DeleteOld, TypeOK
      <4> QED BY <4>1, <4>2 DEF IInv, RowServable, row
    <3> QED BY <3>4, <3>5, <3>6
  <2> QED BY <1>2, <2>1, <2>2, <2>3 DEF RecropDay
<1>3. ASSUME NEW c \in Callers, Publish(c)
      PROVE  Alone' /\ (\A d \in Callers : Written(d)') /\ RowServable'
  <2>1. CASE WriteFile(c)
    <3> DEFINE n == call[c].n
    <3>1. /\ Others(c) /\ Keeps(c) /\ call[c].at = "write" /\ n \in File
          /\ IF n = 4 THEN call'[c].at = "row" /\ call'[c].n = 1
                      ELSE call'[c].at = "write" /\ call'[c].n = n + 1
      BY <1>0, <2>1, Moves DEF WriteFile, TypeOK, Call
    <3>2. /\ files' = [files EXCEPT ![n] = @ \cup {call[c].new}] /\ UNCHANGED <<orig, row>>
      BY <2>1 DEF WriteFile
    <3>3. /\ \A k \in File : files[k] \subseteq files'[k]
          /\ call[c].new \in files'[n]
      BY <1>0, <3>1, <3>2 DEF TypeOK
    <3>4. Written(c)'
      <4>1. call[c].new.frame \in orig /\ \A k \in File : k < n => call[c].new \in files[k]
        BY <1>0, <3>1 DEF Written
      <4>2. \A k \in File : k <= n => call[c].new \in files'[k]
        BY <3>1, <3>3, <4>1 DEF File
      <4> QED BY <3>1, <3>2, <4>1, <4>2 DEF Written, Keeps, File
    <3>5. Alone'
      BY <3>1, AloneStep, IdleFields DEF Keeps
    <3> QED BY <3>1, <3>2, <3>3, <3>4, <3>5, GrowStep
  <2>2. CASE CompleteDay(c)
    <3>1. /\ Others(c)
          /\ \/ call'[c] = Idle
             \/ /\ Keeps(c) /\ call'[c].at = "delete"
                /\ call[c].op = "recrop" /\ call[c].old # call[c].new
      BY <1>0, <2>2, Moves DEF CompleteDay, Return
    <3>2. status' = "complete" /\ best' = call[c].new /\ UNCHANGED disk
      BY <2>2 DEF CompleteDay
    <3>3. Alone'
      BY <2>2, <3>1, AloneStep, IdleFields DEF CompleteDay, Keeps
    <3>4. ASSUME NEW d \in Callers, d # c PROVE call[d].at # "delete"
      <4>1. call[d].at = "delete" => call[c] = Idle
        BY <1>0, <3>4 DEF IInv, Alone, Written
      <4> QED BY <2>2, <4>1, IdleFields DEF CompleteDay
    <3>5. Written(c)'
      BY <3>1, <3>2, IdleFields DEF Written, Keeps
    <3>6. ASSUME NEW d \in Callers, d # c PROVE Written(d)'
      BY <1>0, <3>1, <3>2, <3>4, <3>6 DEF Written, Others, disk
    <3>7. RowServable'
      BY <1>0, <2>2, <3>2 DEF CompleteDay, Written, RowServable, disk
    <3> QED BY <3>3, <3>5, <3>6, <3>7
  <2>3. CASE CallFails(c) \/ CameraGone(c)
    <3>1. Others(c) /\ call'[c] = Idle
      BY <1>0, <2>3, Moves DEF CallFails, CameraGone, Return
    <3>2. Written(c)'
      BY <3>1, IdleFields DEF Written
    <3>3. Alone'
      BY <2>3, <3>1, AloneStep, IdleFields DEF CallFails, CameraGone
    <3> QED BY <2>3, <3>1, <3>2, <3>3, GrowStep DEF CallFails, CameraGone, disk
  <2> QED BY <1>3, <2>1, <2>2, <2>3 DEF Publish
<1>4. CASE UNCHANGED <<call, files, orig, status, best>>
  BY <1>0, <1>4 DEF IInv, Alone, Written, RowServable, row
<1>5. CASE Crash
  <2>1. \A c \in Callers : call'[c] = Idle
    BY <1>5 DEF Crash
  <2> QED BY <1>5, <2>1, IdleFields DEF Crash, IInv, Alone, Written, RowServable, row, disk
<1> QED BY <1>1, <1>2, <1>3, <1>4, <1>5, Outside

\* Whatever fails, and wherever the process dies, a complete day can be served
\* and re-cropped, provided a date is re-cropped while no other call works on it.
THEOREM DayServable == ASSUME RecropAlone PROVE Spec => []RowServable
<1>1. IInv /\ [Next]_vars => IInv'
  BY NextIInv
<1>2. IInv => RowServable
  BY DEF IInv
<1> QED BY InitIInv, <1>1, <1>2, PTL DEF Spec

-----------------------------------------------------------------------------
(* NothingBetter: FinalizeDay's choice is the best one there is *)

\* A strict order on a finite set that is not empty has a minimal element.
LEMMA Minimal ==
    ASSUME NEW S, IsFiniteSet(S), S # {}, NEW R,
           \A f \in S : <<f, f>> \notin R,
           \A f, g, h \in S : <<f, g>> \in R /\ <<g, h>> \in R => <<f, h>> \in R
    PROVE  \E f \in S : \A g \in S : <<g, f>> \notin R
<1> DEFINE Below(f) == {g \in S : <<g, f>> \in R}
           T == {Below(f) : f \in S}
<1>1. T \subseteq FiniteSubsetsOf(S) /\ T # {}
  <2>1. \A f \in S : Below(f) \in SUBSET S OBVIOUS
  <2>2. \A U \in SUBSET S : IsFiniteSet(U) BY FS_Subset
  <2> HIDE DEF Below
  <2> QED BY <2>1, <2>2 DEF FiniteSubsetsOf
<1>2. PICK b \in T : \A c \in T : <<c, b>> \notin StrictSubsetOrdering(S)
  <2> HIDE DEF T
  <2> QED BY <1>1, FS_StrictSubsetOrderingWellFounded, WFMin
<1>3. PICK f \in S : b = Below(f) BY <1>2
<1>4. ASSUME NEW g \in S, <<g, f>> \in R PROVE FALSE
  <2>1. Below(g) \subseteq Below(f) BY <1>4
  <2>2. g \in Below(f) /\ g \notin Below(g) BY <1>4
  <2>3. <<Below(g), b>> \in StrictSubsetOrdering(S)
    BY <1>3, <2>1, <2>2 DEF StrictSubsetOrdering
  <2> QED BY <1>2, <2>3
<1> QED BY <1>3, <1>4

\* A camera with an eligible frame has a candidate.
LEMMA CandidateExists ==
    ASSUME TypeOK, NEW g \in Eligible
    PROVE  \E f \in Candidates : CameraOf[f] = CameraOf[g]
<1> DEFINE S == {f \in Eligible : CameraOf[f] = CameraOf[g]}
           R == {p \in S \X S : \/ Score[p[1]] > Score[p[2]]
                                \/ Score[p[1]] = Score[p[2]] /\ p[1] < p[2]}
<1>1. IsFiniteSet(S) /\ S # {}
  <2>1. S \in SUBSET Frames BY DEF TypeOK, Eligible
  <2>2. IsFiniteSet(S) BY <2>1, FS_Subset, FrameAssumption
  <2> QED BY <2>2
<1>2. \A f \in S : f \in Nat /\ Score[f] \in Nat BY FrameAssumption DEF TypeOK, Eligible
<1>3. \A f \in S : <<f, f>> \notin R BY <1>2
<1>4. \A f, g1, h \in S : <<f, g1>> \in R /\ <<g1, h>> \in R => <<f, h>> \in R
  <2> SUFFICES ASSUME NEW f \in S, NEW g1 \in S, NEW h \in S,
                      <<f, g1>> \in R, <<g1, h>> \in R
               PROVE  <<f, h>> \in R
    OBVIOUS
  <2>1. /\ Score[f] > Score[g1] \/ (Score[f] = Score[g1] /\ f < g1)
        /\ Score[g1] > Score[h] \/ (Score[g1] = Score[h] /\ g1 < h)
    OBVIOUS
  <2>2. /\ f \in Nat /\ g1 \in Nat /\ h \in Nat
        /\ Score[f] \in Nat /\ Score[g1] \in Nat /\ Score[h] \in Nat
    BY <1>2
  <2>3. Score[f] > Score[h] \/ (Score[f] = Score[h] /\ f < h) BY <2>1, <2>2
  <2> QED BY <2>3
<1>5. PICK f \in S : \A h \in S : <<h, f>> \notin R
  <2> HIDE DEF S, R
  <2> QED BY <1>1, <1>3, <1>4, Minimal
<1>6. ASSUME NEW h \in Eligible, CameraOf[h] = CameraOf[f]
      PROVE  Score[h] < Score[f] \/ (Score[h] = Score[f] /\ f <= h)
  <2>1. h \in S BY <1>6
  <2>2. ~(Score[h] > Score[f] \/ (Score[h] = Score[f] /\ h < f)) BY <1>5, <2>1
  <2> QED BY <1>2, <2>1, <2>2
<1> QED BY <1>6 DEF Candidates

LEMMA PostType ==
    ASSUME TypeOK, NEW f \in Frames
    PROVE  Role(f) \in Roles /\ Priority(f) \in Nat
<1>1. post[CameraOf[f]] \in Post BY FrameAssumption DEF TypeOK
<1> QED BY <1>1 DEF Post, Role, Priority

\* A role with a candidate has a preferred one.
LEMMA PreferredExists ==
    ASSUME TypeOK, NEW h \in Candidates
    PROVE  Preferred(Role(h)) # {}
<1> DEFINE S == {f \in Candidates : Role(f) = Role(h)}
           R == {p \in S \X S : Priority(p[1]) < Priority(p[2])}
<1>1. S \in SUBSET Frames BY DEF Candidates, Eligible, TypeOK
<1>2. IsFiniteSet(S) /\ S # {}
  <2>1. IsFiniteSet(S) BY <1>1, FS_Subset, FrameAssumption
  <2> QED BY <2>1
<1>3. \A f \in S : Priority(f) \in Nat
  BY <1>1, PostType
<1>4. \A f \in S : <<f, f>> \notin R BY <1>3
<1>5. \A f, g, k \in S : <<f, g>> \in R /\ <<g, k>> \in R => <<f, k>> \in R
  <2> SUFFICES ASSUME NEW f \in S, NEW g \in S, NEW k \in S, <<f, g>> \in R, <<g, k>> \in R
               PROVE  <<f, k>> \in R
    OBVIOUS
  <2>1. /\ Priority(f) < Priority(g)
        /\ Priority(g) < Priority(k)
    OBVIOUS
  <2>2. Priority(f) < Priority(k) BY <1>3, <2>1
  <2> QED BY <2>2
<1>6. PICK f \in S : \A g \in S : <<g, f>> \notin R
  <2> HIDE DEF S, R
  <2> QED BY <1>2, <1>4, <1>5, Minimal
<1>7. ASSUME NEW g \in S PROVE Priority(f) <= Priority(g)
  <2>1. ~(Priority(g) < Priority(f)) BY <1>6, <1>7
  <2> QED BY <1>3, <2>1
<1> QED BY <1>7 DEF Preferred

\* No frame that may be published outranks f.
Top(f) == Role(f) # "none" /\ \A g \in Publishable : ~Outranks(g, f)

LEMMA PicksTop == ASSUME TypeOK, NEW f \in Picks PROVE Top(f)
<1> DEFINE r == Role(f)
<1>1. /\ f \in Preferred(r) /\ r \in {"publish_primary", "publish_backup"}
      /\ r # "publish_primary" => Preferred("publish_primary") = {}
  BY DEF Picks, Preferred
<1>2. /\ f \in Eligible /\ \A g \in Candidates : Role(g) = r => Priority(f) <= Priority(g)
      /\ \A g \in Eligible : CameraOf[g] = CameraOf[f] =>
            Score[g] < Score[f] \/ (Score[g] = Score[f] /\ f <= g)
  BY <1>1 DEF Preferred, Candidates
<1>3. ASSUME NEW g \in Publishable PROVE ~Outranks(g, f)
  <2>0. g \in Eligible /\ Eligible \subseteq Frames BY <1>3 DEF Publishable, Eligible, TypeOK
  <2>1. PICK h \in Candidates : CameraOf[h] = CameraOf[g] BY <2>0, CandidateExists
  <2>2. /\ Priority(f) \in Nat /\ Priority(g) \in Nat
        /\ Score[f] \in Nat /\ Score[g] \in Nat
    BY <1>2, <2>0, PostType, FrameAssumption
  <2>3. Role(h) = Role(g) /\ Priority(h) = Priority(g) BY <2>1 DEF Role, Priority
  <2>4. ~(Role(g) = "publish_primary" /\ r # "publish_primary")
    BY <1>1, <2>1, <2>3, PreferredExists
  <2>5. ~(Role(g) = r /\ Priority(g) < Priority(f))
    BY <1>2, <2>1, <2>2, <2>3
  <2>6. ~(CameraOf[g] = CameraOf[f] /\ Score[g] > Score[f])
    BY <1>2, <2>0, <2>2
  <2> QED BY <2>4, <2>5, <2>6 DEF Outranks
<1> QED BY <1>1, <1>3 DEF Top

\* Every frame that may be published has something to be picked.
LEMMA PicksExist == ASSUME TypeOK, Picks = {} PROVE Publishable = {}
<1> SUFFICES ASSUME NEW g \in Publishable PROVE FALSE
  OBVIOUS
<1>1. g \in Eligible /\ g \in Frames /\ Role(g) # "none" BY DEF Publishable, Eligible, TypeOK
<1>2. PICK h \in Candidates : CameraOf[h] = CameraOf[g] BY <1>1, CandidateExists
<1>3. Role(h) = Role(g) BY <1>2 DEF Role
<1>4. Preferred(Role(g)) # {} BY <1>2, <1>3, PreferredExists
<1>5. Role(g) \in {"publish_primary", "publish_backup"} BY <1>1, PostType DEF Roles
<1> QED BY <1>4, <1>5 DEF Picks

\* A frame stays on top while frames are only removed.
LEMMA TopStays ==
    ASSUME UNCHANGED <<admitted, post>>, rows' \subseteq rows
    PROVE  \A f : Top(f) => Top(f)'
  BY DEF Top, Outranks, Publishable, Eligible, Role, Priority

\* The frame each call is about to publish, or to render anew, is the top one,
\* unless it was picked before a change of a post or of the settings.
Ranked(c) ==
    c \notin outdated =>
        /\ \/ call[c].at \in {"orig", "write", "row"}
           \/ call[c].at = "load" /\ call[c].op = "finalize"
           => Top(call[c].new.frame)
        /\ call[c].at = "load" /\ call[c].op = "recrop" => Top(call[c].old.frame)

TopInv == /\ \A c \in Callers : Ranked(c)
          /\ status = "complete" /\ ~superseded => Top(best.frame)

LEMMA RankedStep ==
    ASSUME TopInv, NEW c \in Callers, Others(c), UNCHANGED <<rows, admitted, post>>,
           outdated \subseteq outdated' \cup {c}, Ranked(c)',
           status' = "complete" /\ ~superseded' => (UNCHANGED row \/ Top(best'.frame))
    PROVE  TopInv'
<1>1. \A f : Top(f)' <=> Top(f)
  BY DEF Top, Outranks, Publishable, Eligible, Role, Priority
<1>2. ASSUME NEW d \in Callers, d # c PROVE Ranked(d)'
  BY <1>1, <1>2 DEF TopInv, Ranked, Others
<1>3. status' = "complete" /\ ~superseded' => Top(best'.frame)
  BY DEF TopInv, row
<1>4. status' = "complete" /\ ~superseded' => Top(best.frame)'
  BY <1>1, <1>3 DEF Top, Outranks, Publishable, Eligible, Role, Priority
<1> QED BY <1>2, <1>4 DEF TopInv

LEMMA TopInit == Init => TopInv
  BY IdleFields DEF Init, TopInv, Ranked

LEMMA TopStep == ASSUME Typed, TopInv, [Next]_vars PROVE TopInv'
<1>0. TypeOK /\ \A c \in Callers : Named(c) /\ Ranked(c)
  BY DEF Typed, AllNamed, TopInv
<1>t. UNCHANGED <<rows, admitted, post>> => \A f : Top(f)' <=> Top(f)
  BY DEF Top, Outranks, Publishable, Eligible, Role, Priority
<1>1. ASSUME NEW c \in Callers, FinalizeDay(c) PROVE TopInv'
  <2>0. UNCHANGED <<rows, admitted, post>> /\ \A f : Top(f)' <=> Top(f)
    BY <1>1, <1>t, CallLeaves
  <2>1. CASE BeginFinalize(c)
    <3>1. CASE Picks = {}
      <4>1. Others(c) /\ call'[c].at = "fail"
        BY <1>0, <2>1, <3>1, Moves, EnterFields DEF BeginFinalize
      <4> QED BY <2>0, <2>1, <4>1, RankedStep DEF BeginFinalize, Ranked
    <3>2. CASE Picks # {}
      <4>1. PICK f \in Picks : call' = [call EXCEPT ![c] =
                                  Enter("finalize", "load", NoImage, Rendering(f))]
        BY <2>1, <3>2 DEF BeginFinalize
      <4>2. Others(c) /\ call'[c] = Enter("finalize", "load", NoImage, Rendering(f))
        BY <1>0, <4>1, Moves
      <4>3. /\ call'[c].op = "finalize" /\ call'[c].at = "load"
            /\ call'[c].new.frame = f
        BY <4>2, EnterFields DEF Rendering
      <4>4. Top(f) BY <1>0, PicksTop
      <4>5. Ranked(c)'
        BY <2>0, <2>1, <4>3, <4>4 DEF BeginFinalize, Ranked
      <4> QED BY <2>0, <2>1, <4>2, <4>5, RankedStep DEF BeginFinalize
    <3> QED BY <3>1, <3>2
  <2>2. CASE LoadFrame(c)
    <3>1. Others(c) /\ Keeps(c) /\ call'[c].at \in {"orig", "fail"}
      BY <1>0, <2>2, Moves DEF LoadFrame
    <3>2. Ranked(c)'
      BY <2>0, <1>0, <2>2, <3>1 DEF LoadFrame, Become, Ranked, Keeps
    <3> QED BY <2>0, <2>2, <3>1, <3>2, RankedStep DEF LoadFrame, Become
  <2>3. CASE FailDay(c)
    <3>1. Others(c) /\ call'[c] = Idle
      BY <1>0, <2>3, Moves DEF FailDay, Return
    <3>2. Ranked(c)' BY <2>0, <3>1, IdleFields DEF Ranked
    <3> QED BY <2>0, <2>3, <3>1, <3>2, RankedStep DEF FailDay, Return
  <2>4. CASE WriteOrig(c)
    <3>1. Others(c) /\ Keeps(c) /\ call'[c].at = "write"
      BY <1>0, <2>4, Moves DEF WriteOrig
    <3>2. Ranked(c)'
      BY <2>0, <1>0, <2>4, <3>1 DEF WriteOrig, Become, Ranked, Keeps
    <3> QED BY <2>0, <2>4, <3>1, <3>2, RankedStep DEF WriteOrig, Become
  <2> QED BY <1>1, <2>1, <2>2, <2>3, <2>4 DEF FinalizeDay
<1>2. ASSUME NEW c \in Callers, RecropDay(c) PROVE TopInv'
  <2>0. UNCHANGED <<rows, admitted, post>> /\ \A f : Top(f)' <=> Top(f)
    BY <1>2, <1>t, CallLeaves
  <2>1. CASE BeginRecrop(c)
    <3>1. Others(c) /\ call'[c] = Enter("recrop", "load", best, NoImage)
      BY <1>0, <2>1, Moves DEF BeginRecrop
    <3>2. call'[c].op = "recrop" /\ call'[c].at = "load" /\ call'[c].old = best
      BY <3>1, EnterFields
    <3>3. ~superseded => Top(best.frame) BY <2>1 DEF BeginRecrop, TopInv
    <3>4. Ranked(c)' BY <2>0, <2>1, <3>2, <3>3 DEF BeginRecrop, Ranked
    <3> QED BY <2>0, <2>1, <3>1, <3>4, RankedStep DEF BeginRecrop
  <2>2. CASE LoadOriginal(c)
    <3> DEFINE old == call[c].old
    <3>1. Others(c) /\ Ranked(c)'
      <4>1. CASE old \in files[4] /\ old.frame \in orig /\ Known(old)
        <5>1. Others(c) /\ call'[c] = Enter("recrop", "write", old, Rendering(old.frame))
          BY <1>0, <2>2, <4>1, Moves DEF LoadOriginal
        <5>2. call'[c].at = "write" /\ call'[c].new.frame = old.frame
          BY <5>1, EnterFields DEF Rendering
        <5>3. c \notin outdated => Top(old.frame) BY <1>0, <2>2 DEF LoadOriginal, Ranked
        <5>4. Ranked(c)' BY <2>0, <2>2, <4>1, <5>2, <5>3 DEF LoadOriginal, Ranked
        <5> QED BY <5>1, <5>4
      <4>2. CASE ~(old \in files[4] /\ old.frame \in orig /\ Known(old))
        BY <1>0, <2>2, <4>2, Moves, IdleFields DEF LoadOriginal, Return, Ranked
      <4> QED BY <4>1, <4>2
    <3> QED BY <2>0, <2>2, <3>1, RankedStep DEF LoadOriginal, Return
  <2>3. CASE DeleteOld(c)
    <3>1. Others(c) /\ (call'[c] = Idle \/ call'[c].at = "delete")
      BY <1>0, <2>3, Moves DEF DeleteOld, Return
    <3>2. Ranked(c)' BY <2>0, <3>1, IdleFields DEF Ranked
    <3> QED BY <2>0, <2>3, <3>1, <3>2, RankedStep DEF DeleteOld, Return, Step
  <2> QED BY <1>2, <2>1, <2>2, <2>3 DEF RecropDay
<1>3. ASSUME NEW c \in Callers, Publish(c) PROVE TopInv'
  <2>0. UNCHANGED <<rows, admitted, post>> /\ \A f : Top(f)' <=> Top(f)
    BY <1>3, <1>t, CallLeaves
  <2>1. CASE WriteFile(c)
    <3>1. Others(c) /\ Keeps(c) /\ call'[c].at \in {"write", "row"}
      BY <1>0, <2>1, Moves DEF WriteFile
    <3>2. Ranked(c)'
      BY <2>0, <1>0, <2>1, <3>1 DEF WriteFile, Step, Ranked, Keeps
    <3> QED BY <2>0, <2>1, <3>1, <3>2, RankedStep DEF WriteFile, Step
  <2>2. CASE CompleteDay(c)
    <3>1. Others(c) /\ (call'[c] = Idle \/ call'[c].at = "delete")
      BY <1>0, <2>2, Moves DEF CompleteDay, Return
    <3>2. Ranked(c)' BY <2>0, <3>1, IdleFields DEF Ranked
    <3>3. best' = call[c].new /\ (c \notin outdated => Top(call[c].new.frame))
      BY <1>0, <2>2 DEF CompleteDay, Ranked
    <3> QED BY <2>0, <2>2, <3>1, <3>2, <3>3, RankedStep DEF CompleteDay, Return, Become
  <2>3. CASE CallFails(c) \/ CameraGone(c)
    <3>1. Others(c) /\ call'[c] = Idle
      BY <1>0, <2>3, Moves DEF CallFails, CameraGone, Return
    <3>2. Ranked(c)' BY <2>0, <3>1, IdleFields DEF Ranked
    <3> QED BY <2>0, <2>3, <3>1, <3>2, RankedStep DEF CallFails, CameraGone, Return
  <2> QED BY <1>3, <2>1, <2>2, <2>3 DEF Publish
<1>4. CASE UNCHANGED <<call, outdated, row, admitted, post>> /\ rows' \subseteq rows
  <2>1. \A f : Top(f) => Top(f)' BY <1>4, TopStays
  <2>2. ASSUME NEW c \in Callers PROVE Ranked(c)' BY <1>0, <1>4, <2>1 DEF Ranked
  <2>3. status' = "complete" /\ ~superseded' => Top(best.frame)'
    BY <1>4, <2>1 DEF TopInv, row
  <2> QED BY <2>2, <2>3 DEF TopInv
<1>5. CASE Supersede /\ UNCHANGED <<call, status>>
  BY <1>5, IdleFields DEF Supersede, TopInv, Ranked
<1>6. ASSUME NEW cam \in Cameras, NEW to \in Crops, NEW p \in Posts[cam], EditCamera(cam, to, p)
      PROVE  TopInv'
  <2>1. CASE p = post[cam]
    <3>1. post' = post BY <1>0, <1>6, <2>1 DEF EditCamera, TypeOK
    <3> QED BY <1>4, <1>6, <2>1, <3>1 DEF EditCamera, row
  <2>2. CASE p # post[cam] BY <1>5, <1>6, <2>2 DEF EditCamera
  <2> QED BY <2>1, <2>2
<1>7. CASE Crash
  <2>1. \A c \in Callers : call'[c] = Idle BY <1>7 DEF Crash
  <2>2. \A f : Top(f)' <=> Top(f) BY <1>7, <1>t DEF Crash, conf
  <2>3. status' = "complete" /\ ~superseded' => Top(best.frame)'
    BY <1>7, <2>2 DEF Crash, TopInv, row
  <2> QED BY <2>1, <2>3, IdleFields DEF TopInv, Ranked
<1>8. CASE Operator
  BY <1>4, <1>5, <1>6, <1>8
     DEF Operator, EditSettings, DeleteCamera, DeleteFile, row, calls, conf
<1> QED BY <1>1, <1>2, <1>3, <1>4, <1>7, <1>8
        DEF Next, vars, row, calls, conf, LoseFile, Retention, SweepOrphans

\* The published frame is the best of those archived, for any number of
\* cameras, frames and overlapping calls, whatever fails or is lost, until a
\* post or the settings change after its pick.
THEOREM BestPublished == Spec => []NothingBetter
<1>1. Typed /\ [Next]_vars => Typed' BY NextType, NextNamed DEF Typed
<1>2. Typed /\ TopInv /\ [Next]_vars => TopInv' BY TopStep
<1>3. TopInv => NothingBetter BY DEF TopInv, Top, NothingBetter
<1> QED BY InitTyped, TopInit, <1>1, <1>2, <1>3, PTL DEF Spec

-----------------------------------------------------------------------------
(* NoLitter: each file on disk is the row's or some call accounts for it *)

Quiet == finalizes <= 1 /\ faults = 0 /\ crashes = 0 /\ cameras = Cameras

Making(c, i)      == call[c].at \in {"write", "row"} /\ call[c].new = i
Removing(c, k, i) == call[c].at = "delete" /\ call[c].old = i /\ call[c].n <= k

Wanted(k, i) == i = best \/ \E c \in Callers : Making(c, i) \/ Removing(c, k, i)

\* The one finalization starts from no image, a re-crop from the row's.
Source(c) ==
    /\ call[c].op = "none" => call[c].at = "idle"
    /\ call[c].at = "row" => call[c].n = 1
    /\ call[c].op = "recrop" /\ call[c].at \in {"load", "write", "row"} => call[c].old = best
    /\ call[c].op = "finalize" => finalizes > 0 /\ (finalizes <= 1 => best = NoImage)

OneFinalize ==
    /\ finalizes = 0 => best = NoImage
    /\ finalizes <= 1 => \A c, d \in Callers :
                             call[c].op = "finalize" /\ call[d].op = "finalize" => c = d

Tidy == Quiet => \A k \in File : \A i \in files[k] : Wanted(k, i)

TidyInv == (\A c \in Callers : Source(c)) /\ OneFinalize /\ Tidy

LEMMA TidyInit == Init => TidyInv
  BY IdleFields DEF Init, TidyInv, Source, OneFinalize, Tidy

LEMMA CountType == ASSUME TypeOK PROVE finalizes \in Nat /\ faults \in Nat /\ crashes \in Nat
  BY CallAssumption DEF TypeOK

\* A step of call c that leaves the row and the number of finalizations alone.
LEMMA SourceStep ==
    ASSUME TidyInv, NEW c \in Callers, Others(c), Source(c)', UNCHANGED <<best, finalizes>>,
           call'[c].op = "finalize" => call[c].op = "finalize"
    PROVE  (\A d \in Callers : Source(d)') /\ OneFinalize'
<1>1. ASSUME NEW d \in Callers, d # c PROVE Source(d)'
  BY <1>1 DEF TidyInv, Source, Others
<1>2. ASSUME NEW d \in Callers, call'[d].op = "finalize" PROVE call[d].op = "finalize"
  BY <1>2 DEF Others
<1>3. OneFinalize' BY <1>2 DEF TidyInv, OneFinalize
<1> QED BY <1>1, <1>3

\* Nor does it upset the files, when it adds none and c accounted for none.
LEMMA TidyStep ==
    ASSUME TidyInv, NEW c \in Callers, Others(c), Quiet' => Quiet,
           UNCHANGED <<best, files>>, call[c].at \notin {"write", "row", "delete"}
    PROVE  Tidy'
<1> SUFFICES ASSUME Quiet', NEW k \in File, NEW i \in files[k], i # best PROVE Wanted(k, i)'
  BY DEF Tidy, Wanted
<1>1. PICK d \in Callers : Making(d, i) \/ Removing(d, k, i) BY DEF TidyInv, Tidy, Wanted
<1>2. d # c BY <1>1 DEF Making, Removing
<1>3. call'[d] = call[d] BY <1>2 DEF Others
<1> QED BY <1>1, <1>3 DEF Wanted, Making, Removing

LEMMA WriteTidy == ASSUME IInv, TidyInv, NEW c \in Callers, WriteFile(c) PROVE TidyInv'
<1> DEFINE n == call[c].n
<1>0. TypeOK /\ Source(c) BY DEF IInv, Typed, TidyInv
<1>1. /\ Others(c) /\ Keeps(c) /\ call[c].at = "write" /\ call'[c].at \in {"write", "row"}
      /\ call'[c].at = "row" => call'[c].n = 1
  BY <1>0, Moves DEF WriteFile
<1>2. /\ files' = [files EXCEPT ![n] = @ \cup {call[c].new}]
      /\ UNCHANGED <<best, finalizes, faults, crashes, cameras>>
  BY DEF WriteFile, row, budget, conf
<1>3. Source(c)' BY <1>0, <1>1, <1>2 DEF Source, Keeps
<1>4. Tidy'
  <2> SUFFICES ASSUME Quiet, NEW k \in File, NEW i \in files'[k] PROVE Wanted(k, i)'
    BY <1>2 DEF Tidy, Quiet
  <2>1. i \in files[k] \/ i = call[c].new BY <1>0, <1>2 DEF TypeOK
  <2>2. CASE i = call[c].new BY <1>1, <2>2 DEF Wanted, Making, Keeps
  <2>3. CASE i \in files[k]
    <3>1. Wanted(k, i) BY <2>3 DEF TidyInv, Tidy
    <3>2. ASSUME NEW d \in Callers, Making(d, i) PROVE Making(d, i)'
      BY <1>1, <3>2 DEF Making, Others, Keeps
    <3>3. ASSUME NEW d \in Callers, Removing(d, k, i) PROVE Removing(d, k, i)'
      <4>1. d # c BY <1>1, <3>3 DEF Removing
      <4> QED BY <1>1, <3>3, <4>1 DEF Removing, Others
    <3> QED BY <1>2, <3>1, <3>2, <3>3 DEF Wanted
  <2> QED BY <2>1, <2>2, <2>3
<1> QED BY <1>1, <1>2, <1>3, <1>4, SourceStep DEF TidyInv, Keeps

LEMMA DeleteTidy == ASSUME IInv, TidyInv, NEW c \in Callers, DeleteOld(c) PROVE TidyInv'
<1> DEFINE n == call[c].n
<1>0. TypeOK /\ Source(c) /\ Written(c) BY DEF IInv, Typed, TidyInv
<1>1. /\ Others(c) /\ call[c].at = "delete" /\ call[c].op = "recrop" /\ n \in File
      /\ \/ n = 4 /\ call'[c] = Idle
         \/ n # 4 /\ Keeps(c) /\ call'[c].at = "delete" /\ call'[c].n = n + 1
  BY <1>0, Moves DEF DeleteOld, Return, Written, TypeOK, Call
<1>2. UNCHANGED <<best, finalizes, crashes, cameras>> BY DEF DeleteOld, row, conf
<1>3. Source(c)' BY <1>1, IdleFields DEF Source, Keeps
<1>4. call'[c].op # "finalize" BY <1>1, IdleFields DEF Keeps
<1>5. Tidy'
  <2> SUFFICES ASSUME Quiet', NEW k \in File, NEW i \in files'[k], i # best PROVE Wanted(k, i)'
    BY <1>2 DEF Tidy, Wanted
  <2>1. faults' = 0 /\ faults \in Nat BY <1>0, CountType DEF Quiet
  <2>2. faults' = faults /\ files' = [files EXCEPT ![n] = @ \ {call[c].old}]
    BY <2>1 DEF DeleteOld, Fault
  <2>3. Quiet BY <1>2, <2>2 DEF Quiet
  <2>4. i \in files[k] /\ ~(k = n /\ i = call[c].old) BY <1>0, <1>1, <2>2 DEF TypeOK
  <2>5. PICK d \in Callers : Making(d, i) \/ Removing(d, k, i)
    BY <2>3, <2>4 DEF TidyInv, Tidy, Wanted
  <2>6. d = c
    <3>1. d # c => call[d] = Idle BY <1>1 DEF IInv, Alone
    <3> QED BY <2>5, <3>1, IdleFields DEF Making, Removing
  <2>7. call[c].old = i /\ n <= k BY <1>1, <2>5, <2>6 DEF Making, Removing
  <2>8. n + 1 <= k /\ n # 4 BY <1>1, <2>4, <2>7 DEF File
  <2> QED BY <1>1, <2>7, <2>8 DEF Wanted, Removing, Keeps
<1> QED BY <1>1, <1>2, <1>3, <1>4, <1>5, SourceStep DEF TidyInv

LEMMA CompleteTidy == ASSUME IInv, TidyInv, NEW c \in Callers, CompleteDay(c) PROVE TidyInv'
<1>0. TypeOK /\ Source(c) /\ Written(c) /\ Named(c) /\ call[c].at = "row" /\ call[c] # Idle
  BY IdleFields DEF IInv, Typed, AllNamed, TidyInv, CompleteDay
<1>1. /\ Others(c) /\ best' = call[c].new
      /\ UNCHANGED <<files, finalizes, faults, crashes, cameras>>
      /\ \/ call'[c] = Idle /\ ~(call[c].op = "recrop" /\ call[c].old # call[c].new)
         \/ /\ call[c].op = "recrop" /\ Keeps(c)
            /\ call'[c].at = "delete" /\ call'[c].n = 1
  BY <1>0, Moves DEF CompleteDay, Return, Source, disk, budget, conf
<1>2. finalizes \in Nat BY <1>0, CountType
<1>3. call[c].op \in {"recrop", "finalize"} BY <1>0 DEF Source, TypeOK, Call, Op
<1>4. ASSUME NEW d \in Callers, d # c
      PROVE  /\ call[d].op # "recrop"
             /\ call[c].op = "recrop" => call[d] = Idle
             /\ finalizes <= 1 => call[d].op # "finalize"
  BY <1>0, <1>3, <1>4, IdleFields DEF IInv, Alone, TidyInv, OneFinalize
<1>5. finalizes > 0
  <2>1. CASE call[c].op = "finalize" BY <1>0, <2>1 DEF Source
  <2>2. CASE call[c].op = "recrop"
    <3>1. best \in Image BY <1>0, <2>2 DEF Source, Named
    <3>2. best # NoImage BY <3>1, FrameAssumption DEF Image, NoImage
    <3> QED BY <1>2, <3>2 DEF TidyInv, OneFinalize
  <2> QED BY <1>3, <2>1, <2>2
<1>6. ASSUME NEW d \in Callers PROVE Source(d)'
  <2>1. CASE d = c BY <1>1, <2>1, IdleFields DEF Source, Keeps
  <2>2. CASE d # c
    <3>1. call'[d] = call[d] /\ Source(d) BY <1>1, <2>2 DEF Others, TidyInv
    <3> QED BY <1>1, <1>4, <2>2, <3>1, IdleFields DEF Source
  <2> QED BY <2>1, <2>2
<1>7. OneFinalize'
  <2>1. ASSUME NEW d \in Callers, call'[d].op = "finalize" PROVE call[d].op = "finalize"
    BY <1>1, <2>1, IdleFields DEF Others, Keeps
  <2> QED BY <1>1, <1>5, <2>1 DEF TidyInv, OneFinalize
<1>8. Tidy'
  <2> SUFFICES ASSUME Quiet, NEW k \in File, NEW i \in files[k], i # best' PROVE Wanted(k, i)'
    BY <1>1 DEF Tidy, Wanted, Quiet
  <2>1. Wanted(k, i) BY DEF TidyInv, Tidy
  <2>2. i = best
    <3>1. ASSUME NEW d \in Callers, Making(d, i) \/ Removing(d, k, i) PROVE FALSE
      <4>1. d # c BY <1>0, <1>1, <3>1 DEF Making, Removing
      <4>2. call[d].op = "none" BY <1>0, <1>4, <4>1 DEF Quiet, TypeOK, Call, Op
      <4> QED BY <3>1, <4>2 DEF Making, Removing, TidyInv, Source
    <3> QED BY <2>1, <3>1 DEF Wanted
  <2>3. best # NoImage
    <3>1. i \in Image BY <1>0 DEF TypeOK
    <3> QED BY <2>2, <3>1, FrameAssumption DEF Image, NoImage
  <2>4. call[c].op = "recrop" /\ call[c].old = i
    BY <1>0, <1>3, <2>2, <2>3 DEF Source, Quiet
  <2>5. call'[c].at = "delete" /\ call'[c].n = 1 /\ call'[c].old = i
    BY <1>1, <2>4 DEF Keeps
  <2>6. Removing(c, k, i)' BY <2>5 DEF Removing, File
  <2> QED BY <2>6 DEF Wanted
<1> QED BY <1>6, <1>7, <1>8 DEF TidyInv

LEMMA FinalizeTidy == ASSUME IInv, TidyInv, NEW c \in Callers, FinalizeDay(c) PROVE TidyInv'
<1>0. TypeOK /\ Source(c) BY DEF IInv, Typed, TidyInv
<1>1. CASE BeginFinalize(c)
  <2>1. Others(c) /\ call'[c].op = "finalize" /\ call'[c].at \in {"fail", "load"}
    <3>1. CASE Picks = {}
      BY <1>0, <1>1, <3>1, Moves, EnterFields DEF BeginFinalize
    <3>2. CASE Picks # {}
      <4>1. PICK f \in Picks : call' = [call EXCEPT ![c] =
                                  Enter("finalize", "load", NoImage, Rendering(f))]
        BY <1>1, <3>2 DEF BeginFinalize
      <4>2. Others(c) /\ call'[c] = Enter("finalize", "load", NoImage, Rendering(f))
        BY <1>0, <4>1, Moves
      <4> QED BY <4>2, EnterFields
    <3> QED BY <3>1, <3>2
  <2>2. /\ finalizes' = finalizes + 1 /\ call[c] = Idle
        /\ UNCHANGED <<best, files, faults, crashes, cameras>>
    BY <1>1 DEF BeginFinalize, row, disk, conf
  <2>3. finalizes \in Nat BY <1>0, CountType
  <2>4. finalizes' <= 1 => /\ finalizes = 0 /\ best = NoImage
                           /\ \A d \in Callers : call[d].op # "finalize"
    <3> SUFFICES ASSUME finalizes' <= 1
                 PROVE  /\ finalizes = 0 /\ best = NoImage
                        /\ \A d \in Callers : call[d].op # "finalize"
      OBVIOUS
    <3>1. finalizes = 0 BY <2>2, <2>3
    <3> QED BY <3>1 DEF TidyInv, OneFinalize, Source
  <2>5. ASSUME NEW d \in Callers PROVE Source(d)'
    <3>1. CASE d = c BY <2>1, <2>2, <2>3, <2>4, <3>1 DEF Source
    <3>2. CASE d # c
      <4>1. call'[d] = call[d] /\ Source(d) BY <2>1, <3>2 DEF Others, TidyInv
      <4> QED BY <2>2, <2>3, <2>4, <4>1 DEF Source
    <3> QED BY <3>1, <3>2
  <2>6. OneFinalize' BY <2>1, <2>2, <2>3, <2>4 DEF OneFinalize, Others
  <2>7. Quiet' => Quiet BY <2>2, <2>3, <2>4 DEF Quiet
  <2>8. Tidy' BY <2>1, <2>2, <2>7, TidyStep, IdleFields
  <2> QED BY <2>5, <2>6, <2>8 DEF TidyInv
<1>2. CASE LoadFrame(c) \/ WriteOrig(c)
  <2>1. /\ Others(c) /\ Keeps(c) /\ call[c].at \in {"load", "orig"}
        /\ call'[c].at \in {"orig", "fail", "write"}
        /\ call[c].op # "recrop"
    BY <1>0, <1>2, Moves DEF LoadFrame, WriteOrig, IInv, Typed, AllNamed, Named
  <2>2. UNCHANGED <<best, files, finalizes, faults, crashes, cameras>>
    BY <1>2 DEF LoadFrame, WriteOrig, row, disk, budget, conf
  <2>3. Source(c)' BY <1>0, <2>1, <2>2 DEF Source, Keeps
  <2> QED BY <2>1, <2>2, <2>3, SourceStep, TidyStep DEF TidyInv, Keeps, Quiet
<1>3. CASE FailDay(c)
  <2>1. /\ Others(c) /\ call'[c] = Idle /\ call[c].at = "fail" /\ call[c].op = "finalize"
    BY <1>0, <1>3, Moves
       DEF FailDay, Return, IInv, Typed, AllNamed, Named, Source, TypeOK, Call, Op
  <2>2. /\ UNCHANGED <<files, finalizes, crashes, cameras>> /\ best' \in {best, NoImage}
        /\ faults' = faults \/ faults' = faults + 1
    BY <1>3 DEF FailDay, row, disk, conf, Fault
  <2>3. finalizes <= 1 => best' = best BY <1>0, <2>1, <2>2 DEF Source
  <2>4. ASSUME NEW d \in Callers, d # c, call[d].op = "recrop" PROVE FALSE
    BY <2>1, <2>4, IdleFields DEF IInv, Alone
  <2>5. ASSUME NEW d \in Callers PROVE Source(d)'
    <3>1. CASE d = c BY <2>1, <3>1, IdleFields DEF Source
    <3>2. CASE d # c
      <4>1. call'[d] = call[d] /\ Source(d) /\ call[d].op # "recrop"
        BY <2>1, <2>4, <3>2 DEF Others, TidyInv
      <4> QED BY <2>2, <2>3, <4>1 DEF Source
    <3> QED BY <3>1, <3>2
  <2>6. OneFinalize'
    <3>1. ASSUME NEW d \in Callers, call'[d].op = "finalize" PROVE call[d].op = "finalize"
      BY <2>1, <3>1, IdleFields DEF Others
    <3> QED BY <2>2, <3>1 DEF TidyInv, OneFinalize
  <2>7. Tidy'
    <3>1. CASE finalizes <= 1
      <4>1. Quiet' => Quiet BY <1>0, <2>2, CountType DEF Quiet
      <4> QED BY <2>1, <2>2, <2>3, <3>1, <4>1, TidyStep
    <3>2. CASE ~(finalizes <= 1) BY <2>2, <3>2 DEF Tidy, Quiet
    <3> QED BY <3>1, <3>2
  <2> QED BY <2>5, <2>6, <2>7 DEF TidyInv
<1> QED BY <1>1, <1>2, <1>3 DEF FinalizeDay

LEMMA BeginRecropTidy ==
    ASSUME IInv, TidyInv, NEW c \in Callers, BeginRecrop(c) \/ LoadOriginal(c)
    PROVE  TidyInv'
<1>0. TypeOK /\ Source(c) BY DEF IInv, Typed, TidyInv
<1>1. UNCHANGED <<best, files, finalizes, faults, crashes, cameras>>
  BY DEF BeginRecrop, LoadOriginal, row, disk, budget, conf
<1>2. /\ Others(c) /\ call[c].at \notin {"write", "row", "delete"}
      /\ call'[c].op # "finalize" /\ Source(c)'
  <2>1. CASE BeginRecrop(c)
    <3>1. Others(c) /\ call'[c] = Enter("recrop", "load", best, NoImage)
      BY <1>0, <2>1, Moves DEF BeginRecrop
    <3>2. call'[c].op = "recrop" /\ call'[c].at = "load" /\ call'[c].old = best
      BY <3>1, EnterFields
    <3> QED BY <1>1, <2>1, <3>1, <3>2, IdleFields DEF BeginRecrop, Source
  <2>2. CASE LoadOriginal(c)
    <3> DEFINE old == call[c].old
    <3>1. old = best BY <1>0, <2>2 DEF LoadOriginal, Source
    <3>2. CASE old \in files[4] /\ old.frame \in orig /\ Known(old)
      <4>1. Others(c) /\ call'[c] = Enter("recrop", "write", old, Rendering(old.frame))
        BY <1>0, <2>2, <3>2, Moves DEF LoadOriginal
      <4>2. call'[c].op = "recrop" /\ call'[c].at = "write" /\ call'[c].old = old
        BY <4>1, EnterFields
      <4> QED BY <1>1, <2>2, <3>1, <4>1, <4>2 DEF LoadOriginal, Source
    <3>3. CASE ~(old \in files[4] /\ old.frame \in orig /\ Known(old))
      BY <1>0, <2>2, <3>3, Moves, IdleFields DEF LoadOriginal, Return, Source
    <3> QED BY <3>2, <3>3
  <2> QED BY <2>1, <2>2
<1>3. Tidy' BY <1>1, <1>2, TidyStep DEF Quiet
<1> QED BY <1>1, <1>2, <1>3, SourceStep DEF TidyInv

LEMMA CallFailsTidy ==
    ASSUME IInv, TidyInv, NEW c \in Callers, CallFails(c) \/ CameraGone(c)
    PROVE  TidyInv'
<1>0. TypeOK /\ Named(c) BY DEF IInv, Typed, AllNamed
<1>1. Others(c) /\ call'[c] = Idle /\ UNCHANGED <<best, finalizes, cameras>>
  BY <1>0, Moves DEF CallFails, CameraGone, Return, row, conf, budget
<1>2. ~Quiet'
  <2>1. CASE CallFails(c)
    <3>1. faults' = faults + 1 BY <2>1 DEF CallFails, Fault
    <3> QED BY <1>0, <3>1, CountType DEF Quiet
  <2>2. CASE CameraGone(c)
    <3>1. call[c].new \in Image BY <1>0, <2>2 DEF CameraGone, Named
    <3>2. CameraOf[call[c].new.frame] \in Cameras \ cameras
      BY <2>2, <3>1, FrameAssumption DEF CameraGone, Known, Image
    <3> QED BY <1>1, <3>2 DEF Quiet
  <2> QED BY <2>1, <2>2
<1>3. Source(c)' BY <1>1, IdleFields DEF Source
<1> QED BY <1>1, <1>2, <1>3, SourceStep, IdleFields DEF TidyInv, Tidy

LEMMA TidyNext == ASSUME IInv, TidyInv, [Next]_vars PROVE TidyInv'
<1>0. TypeOK BY DEF IInv, Typed
<1>1. CASE \E c \in Callers : FinalizeDay(c) \/ RecropDay(c) \/ Publish(c)
  BY <1>1, FinalizeTidy, BeginRecropTidy, DeleteTidy, WriteTidy, CompleteTidy, CallFailsTidy
     DEF RecropDay, Publish
<1>2. CASE UNCHANGED <<files, best, call, finalizes, crashes>>
  <2>1. \A c \in Callers : Source(c)' BY <1>2 DEF TidyInv, Source
  <2>2. OneFinalize' BY <1>2 DEF TidyInv, OneFinalize
  <2>3. ~(\E c \in Callers : FinalizeDay(c) \/ RecropDay(c) \/ Publish(c)) /\ Quiet' => Quiet
    BY <1>0, <1>2, CountType
       DEF Quiet, Next, vars, conf, budget, Fault, Operator, EditCamera, EditSettings,
           DeleteCamera, DeleteFile, LoseFile, Retention, SweepOrphans, Crash, TypeOK
  <2>4. Quiet /\ Tidy => Tidy' BY <1>2 DEF Tidy, Wanted, Making, Removing
  <2>5. ~Quiet' => Tidy' BY DEF Tidy
  <2> QED BY <1>1, <2>1, <2>2, <2>3, <2>4, <2>5 DEF TidyInv
<1>3. CASE Crash
  <2>1. /\ UNCHANGED <<best, finalizes>> /\ crashes' = crashes + 1
        /\ \A c \in Callers : call'[c] = Idle
    BY <1>3 DEF Crash, row
  <2>2. ~Quiet' BY <1>0, <2>1, CountType DEF Quiet
  <2> QED BY <2>1, <2>2, IdleFields DEF TidyInv, Source, OneFinalize, Tidy
<1> QED BY <1>1, <1>2, <1>3, Outside

\* Re-cropping leaves nothing behind: without faults and crashes the files of
\* a date finalized once are those of its row whenever no call is under way,
\* unless a camera was deleted.
THEOREM RecropReplaces == ASSUME RecropAlone PROVE Spec => []NoLitter
<1>1. IInv /\ TidyInv /\ [Next]_vars => IInv' /\ TidyInv'
  BY NextIInv, TidyNext
<1>2. TidyInv => NoLitter
  BY IdleFields DEF TidyInv, Tidy, Quiet, Wanted, Making, Removing, NoLitter, AllIdle
<1> QED BY InitIInv, TidyInit, <1>1, <1>2, PTL DEF Spec

-----------------------------------------------------------------------------
(* KeepsImageContract: a day's calls, seen from outside *)

\* The day a re-crop works on stays complete, and its image keeps its frame.
Cropping(c) ==
    call[c].op = "recrop" /\ call[c].at \in {"load", "write", "row"} =>
        /\ status = "complete"
        /\ call[c].at # "load" => call[c].new.frame = call[c].old.frame

CropInv == \A c \in Callers : Cropping(c)

LEMMA CropInit == Init => CropInv
  BY IdleFields DEF Init, CropInv, Cropping

\* A step of call c that leaves the row alone.
LEMMA CropStep ==
    ASSUME CropInv, NEW c \in Callers, Others(c), Cropping(c)', UNCHANGED row
    PROVE  CropInv'
<1>1. ASSUME NEW d \in Callers, d # c PROVE Cropping(d)'
  BY <1>1 DEF CropInv, Cropping, Others, row
<1> QED BY <1>1 DEF CropInv

\* A call in progress that is not a re-crop is not beside one.
LEMMA NoneBeside ==
    ASSUME IInv, NEW c \in Callers, call[c] # Idle, call[c].op # "recrop"
    PROVE  \A d \in Callers : call[d].op # "recrop"
  BY DEF IInv, Alone

LEMMA CropNext == ASSUME RecropAlone, IInv, CropInv, [Next]_vars PROVE CropInv'
<1>0. TypeOK /\ \A c \in Callers : Named(c) /\ Written(c) /\ Cropping(c)
  BY DEF IInv, Typed, AllNamed, CropInv
<1>1. ASSUME NEW c \in Callers, FinalizeDay(c) PROVE CropInv'
  <2>1. CASE BeginFinalize(c)
    <3>1. Others(c) /\ call'[c].op = "finalize"
      <4>1. CASE Picks = {}
        BY <1>0, <2>1, <4>1, Moves, EnterFields DEF BeginFinalize
      <4>2. CASE Picks # {}
        <5>1. PICK f \in Picks : call' = [call EXCEPT ![c] =
                                    Enter("finalize", "load", NoImage, Rendering(f))]
          BY <2>1, <4>2 DEF BeginFinalize
        <5>2. Others(c) /\ call'[c] = Enter("finalize", "load", NoImage, Rendering(f))
          BY <1>0, <5>1, Moves
        <5> QED BY <5>2, EnterFields
      <4> QED BY <4>1, <4>2
    <3> QED BY <2>1, <3>1, CropStep DEF BeginFinalize, Cropping
  <2>2. CASE LoadFrame(c)
    <3>1. Others(c) /\ Keeps(c) /\ call[c].op = "finalize"
      BY <1>0, <2>2, Moves DEF LoadFrame
    <3> QED BY <2>2, <3>1, CropStep DEF LoadFrame, Cropping, Keeps
  <2>3. CASE FailDay(c)
    <3>1. Others(c) /\ call'[c] = Idle
      BY <1>0, <2>3, Moves DEF FailDay, Return
    <3>2. call[c] # Idle /\ call[c].op # "recrop"
      BY <1>0, <2>3, IdleFields DEF FailDay, Named
    <3> QED BY <3>1, <3>2, NoneBeside, IdleFields DEF CropInv, Cropping, Others
  <2>4. CASE WriteOrig(c)
    <3>1. Others(c) /\ Keeps(c) /\ call[c].op # "recrop"
      BY <1>0, <2>4, Moves DEF WriteOrig, Named
    <3> QED BY <2>4, <3>1, CropStep DEF WriteOrig, Cropping, Keeps
  <2> QED BY <1>1, <2>1, <2>2, <2>3, <2>4 DEF FinalizeDay
<1>2. ASSUME NEW c \in Callers, RecropDay(c) PROVE CropInv'
  <2>1. CASE BeginRecrop(c)
    <3>1. Others(c) /\ call'[c] = Enter("recrop", "load", best, NoImage)
      BY <1>0, <2>1, Moves DEF BeginRecrop
    <3>2. call'[c].at = "load" BY <3>1, EnterFields
    <3> QED BY <2>1, <3>1, <3>2, CropStep DEF BeginRecrop, Cropping, row
  <2>2. CASE LoadOriginal(c)
    <3> DEFINE old == call[c].old
    <3>1. CASE old \in files[4] /\ old.frame \in orig /\ Known(old)
      <4>1. Others(c) /\ call'[c] = Enter("recrop", "write", old, Rendering(old.frame))
        BY <1>0, <2>2, <3>1, Moves DEF LoadOriginal
      <4>2. call'[c].new = Rendering(old.frame) /\ call'[c].old = old
        BY <4>1, EnterFields
      <4>3. Rendering(old.frame).frame = old.frame
        BY <1>0, <3>1, RenderingType DEF TypeOK
      <4> QED BY <1>0, <2>2, <4>1, <4>2, <4>3, CropStep DEF LoadOriginal, Cropping, row
    <3>2. CASE ~(old \in files[4] /\ old.frame \in orig /\ Known(old))
      BY <1>0, <2>2, <3>2, Moves, IdleFields, CropStep DEF LoadOriginal, Return, Cropping
    <3> QED BY <3>1, <3>2
  <2>3. CASE DeleteOld(c)
    <3>1. Others(c) /\ (call'[c] = Idle \/ call'[c].at = "delete")
      BY <1>0, <2>3, Moves DEF DeleteOld, Return
    <3> QED BY <2>3, <3>1, IdleFields, CropStep DEF DeleteOld, Cropping
  <2> QED BY <1>2, <2>1, <2>2, <2>3 DEF RecropDay
<1>3. ASSUME NEW c \in Callers, Publish(c) PROVE CropInv'
  <2>1. CASE WriteFile(c)
    <3>1. Others(c) /\ Keeps(c) /\ call[c].at = "write"
      BY <1>0, <2>1, Moves DEF WriteFile
    <3> QED BY <1>0, <2>1, <3>1, CropStep DEF WriteFile, Cropping, Keeps, row
  <2>2. CASE CompleteDay(c)
    <3>1. Others(c) /\ (call'[c] = Idle \/ call'[c].at = "delete")
      BY <1>0, <2>2, Moves DEF CompleteDay, Return
    <3>2. status' = "complete" BY <2>2 DEF CompleteDay
    <3> QED BY <3>1, <3>2, IdleFields DEF CropInv, Cropping, Others
  <2>3. CASE CallFails(c) \/ CameraGone(c)
    <3>1. Others(c) /\ call'[c] = Idle
      BY <1>0, <2>3, Moves DEF CallFails, CameraGone, Return
    <3> QED BY <2>3, <3>1, IdleFields, CropStep DEF CallFails, CameraGone, Cropping
  <2> QED BY <1>3, <2>1, <2>2, <2>3 DEF Publish
<1>4. CASE UNCHANGED <<call, status, best>>
  BY <1>4 DEF CropInv, Cropping, row
<1>5. CASE Crash
  <2>1. \A c \in Callers : call'[c] = Idle BY <1>5 DEF Crash
  <2> QED BY <2>1, IdleFields DEF CropInv, Cropping
<1> QED BY <1>1, <1>2, <1>3, <1>4, <1>5, Outside

\* What the pages can show is what the row names.
LEMMA ShownIsBest ==
    ASSUME RowServable
    PROVE  Shown = IF status = "complete" THEN best ELSE NoImage
  BY DEF RowServable, Shown, Whole

LEMMA AskedStep ==
    ASSUME NEW c \in Callers, Others(c)
    PROVE  /\ call'[c].op = "finalize" => Asked' = Asked \cup {c}
           /\ call'[c].op # "finalize" => Asked' = Asked \ {c}
           /\ (call'[c].op = "finalize" <=> call[c].op = "finalize") => Asked' = Asked
  BY DEF Others, Asked

\* A step whose outside nothing of the contract's sees.
LEMMA Unseen ==
    ASSUME IInv, IInv', UNCHANGED <<status, best>>, Asked' = Asked
    PROVE  UNCHANGED Contract!vars
<1>1. Shown' = Shown
  <2>1. RowServable /\ RowServable' BY DEF IInv
  <2>2. Shown = IF status = "complete" THEN best ELSE NoImage BY <2>1, ShownIsBest
  <2>3. Shown' = IF status' = "complete" THEN best' ELSE NoImage BY <2>1 DEF RowServable, Shown, Whole
  <2> QED BY <2>2, <2>3
<1> QED BY <1>1 DEF Contract!vars

LEMMA FinalizeRefines ==
    ASSUME IInv, IInv', TidyInv, CropInv, NEW c \in Callers, FinalizeDay(c)
    PROVE  [Contract!Next]_(Contract!vars)
<1>0. TypeOK /\ Named(c) /\ Source(c) BY DEF IInv, Typed, AllNamed, TidyInv
<1>1. CASE BeginFinalize(c)
  <2>1. Others(c) /\ call'[c].op = "finalize"
    <3>1. CASE Picks = {}
      BY <1>0, <1>1, <3>1, Moves, EnterFields DEF BeginFinalize
    <3>2. CASE Picks # {}
      <4>1. PICK f \in Picks : call' = [call EXCEPT ![c] =
                                  Enter("finalize", "load", NoImage, Rendering(f))]
        BY <1>1, <3>2 DEF BeginFinalize
      <4>2. Others(c) /\ call'[c] = Enter("finalize", "load", NoImage, Rendering(f))
        BY <1>0, <4>1, Moves
      <4> QED BY <4>2, EnterFields
    <3> QED BY <3>1, <3>2
  <2>2. c \notin Asked BY <1>1, IdleFields DEF BeginFinalize, Asked
  <2>3. Asked' = Asked \cup {c} BY <2>1, AskedStep
  <2>4. UNCHANGED <<status, Shown>>
    BY <1>1 DEF BeginFinalize, row, disk, Shown, Whole
  <2>5. Contract!Ask(c) BY <2>2, <2>3, <2>4 DEF Contract!Ask
  <2> QED BY <2>5 DEF Contract!Next
<1>2. CASE LoadFrame(c) \/ WriteOrig(c)
  <2>1. Others(c) /\ Keeps(c) BY <1>0, <1>2, Moves DEF LoadFrame, WriteOrig
  <2>2. Asked' = Asked BY <2>1, AskedStep DEF Keeps
  <2> QED BY <1>2, <2>2, Unseen DEF LoadFrame, WriteOrig, row
<1>3. CASE FailDay(c)
  <2>1. Others(c) /\ call'[c] = Idle BY <1>0, <1>3, Moves DEF FailDay, Return
  <2>2. call[c].op = "finalize" BY <1>0, <1>3 DEF FailDay, Named, Source, TypeOK, Call, Op
  <2>3. c \in Asked /\ Asked' = Asked \ {c} BY <2>1, <2>2, IdleFields, AskedStep DEF Asked
  <2>4. CASE status' = "failed"
    <3>1. Shown' = NoImage BY <2>4 DEF Shown
    <3>2. Contract!GiveUp(c) BY <2>3, <2>4, <3>1 DEF Contract!GiveUp
    <3> QED BY <3>2 DEF Contract!Next
  <2>5. CASE UNCHANGED row
    <3>1. UNCHANGED <<status, Shown>> BY <1>3, <2>5 DEF FailDay, row, disk, Shown, Whole
    <3>2. {c} \in SUBSET Asked BY <2>3
    <3>3. Contract!Drop({c}) BY <2>3, <3>1, <3>2 DEF Contract!Drop
    <3> QED BY <3>2, <3>3 DEF Contract!Next
  <2> QED BY <1>3, <2>4, <2>5 DEF FailDay
<1> QED BY <1>1, <1>2, <1>3 DEF FinalizeDay

LEMMA RecropRefines ==
    ASSUME IInv, IInv', NEW c \in Callers, RecropDay(c)
    PROVE  [Contract!Next]_(Contract!vars)
<1>0. TypeOK /\ Written(c) BY DEF IInv, Typed
<1>1. /\ Others(c) /\ UNCHANGED row
      /\ call[c].op # "finalize" /\ call'[c].op # "finalize"
  <2>1. CASE BeginRecrop(c)
    <3>1. Others(c) /\ call'[c] = Enter("recrop", "load", best, NoImage)
      BY <1>0, <2>1, Moves DEF BeginRecrop
    <3>2. call'[c].op = "recrop" BY <3>1, EnterFields
    <3> QED BY <2>1, <3>1, <3>2, IdleFields DEF BeginRecrop
  <2>2. CASE LoadOriginal(c)
    <3> DEFINE old == call[c].old
    <3>1. CASE old \in files[4] /\ old.frame \in orig /\ Known(old)
      <4>1. Others(c) /\ call'[c] = Enter("recrop", "write", old, Rendering(old.frame))
        BY <1>0, <2>2, <3>1, Moves DEF LoadOriginal
      <4>2. call'[c].op = "recrop" BY <4>1, EnterFields
      <4> QED BY <2>2, <4>1, <4>2 DEF LoadOriginal
    <3>2. CASE ~(old \in files[4] /\ old.frame \in orig /\ Known(old))
      BY <1>0, <2>2, <3>2, Moves, IdleFields DEF LoadOriginal, Return
    <3> QED BY <3>1, <3>2
  <2>3. CASE DeleteOld(c)
    BY <1>0, <2>3, Moves, IdleFields DEF DeleteOld, Return, Keeps, Written
  <2> QED BY <2>1, <2>2, <2>3 DEF RecropDay
<1>2. Asked' = Asked BY <1>1, AskedStep
<1> QED BY <1>1, <1>2, Unseen DEF row

LEMMA PublishRefines ==
    ASSUME IInv, IInv', TidyInv, CropInv, NEW c \in Callers, Publish(c)
    PROVE  [Contract!Next]_(Contract!vars)
<1>0. TypeOK /\ Named(c) /\ Source(c) /\ Cropping(c)
  BY DEF IInv, Typed, AllNamed, TidyInv, CropInv
<1>1. CASE WriteFile(c)
  <2>1. Others(c) /\ Keeps(c) BY <1>0, <1>1, Moves DEF WriteFile
  <2>2. Asked' = Asked BY <2>1, AskedStep DEF Keeps
  <2> QED BY <1>1, <2>2, Unseen DEF WriteFile, row
<1>2. CASE CompleteDay(c)
  <2> DEFINE i == call[c].new
  <2>1. i \in Image /\ status' = "complete" /\ best' = i BY <1>0, <1>2 DEF CompleteDay, Named
  <2>2. Shown' = i
    <3>1. RowServable' BY DEF IInv
    <3> QED BY <2>1, <3>1 DEF RowServable, Shown, Whole
  <2>3. CASE call[c].op = "finalize"
    <3>1. Others(c) /\ call'[c] = Idle BY <1>0, <1>2, <2>3, Moves DEF CompleteDay, Return
    <3>2. c \in Asked /\ Asked' = Asked \ {c} BY <2>3, <3>1, IdleFields, AskedStep DEF Asked
    <3>3. Contract!Publish(c, i) BY <2>1, <2>2, <3>2 DEF Contract!Publish
    <3> QED BY <2>1, <3>3 DEF Contract!Next
  <2>4. CASE call[c].op # "finalize"
    <3>1. call[c].op = "recrop" BY <1>0, <1>2, <2>4 DEF CompleteDay, Source, TypeOK, Call, Op
    <3>2. Others(c) /\ call'[c].op # "finalize"
      BY <1>0, <1>2, <3>1, Moves, IdleFields DEF CompleteDay, Return, Keeps
    <3>3. Asked' = Asked BY <2>4, <3>2, AskedStep
    <3>4. status = "complete" /\ best = call[c].old /\ i.frame = best.frame
      BY <1>0, <1>2, <3>1 DEF CompleteDay, Source, Cropping
    <3>5. Shown = best
      <4>1. RowServable BY DEF IInv
      <4> QED BY <3>4, <4>1, ShownIsBest
    <3>6. Contract!Recrop(i) BY <2>1, <2>2, <3>3, <3>4, <3>5 DEF Contract!Recrop
    <3> QED BY <2>1, <3>6 DEF Contract!Next
  <2> QED BY <2>3, <2>4
<1>3. CASE CallFails(c) \/ CameraGone(c)
  <2>1. Others(c) /\ call'[c] = Idle BY <1>0, <1>3, Moves DEF CallFails, CameraGone, Return
  <2>2. UNCHANGED <<status, Shown>> BY <1>3 DEF CallFails, CameraGone, row, disk, Shown, Whole
  <2>3. Asked' = Asked \ {c} BY <2>1, IdleFields, AskedStep
  <2>4. PICK lost \in SUBSET Asked : lost = {c} \cap Asked OBVIOUS
  <2>5. Contract!Drop(lost) BY <2>2, <2>3, <2>4 DEF Contract!Drop
  <2> QED BY <2>5 DEF Contract!Next
<1> QED BY <1>1, <1>2, <1>3 DEF Publish

LEMMA ImageStep ==
    ASSUME IInv, IInv', TidyInv, CropInv, [Next]_vars
    PROVE  [Contract!Next]_(Contract!vars)
<1>1. CASE \E c \in Callers : FinalizeDay(c) \/ RecropDay(c) \/ Publish(c)
  BY <1>1, FinalizeRefines, RecropRefines, PublishRefines
<1>2. CASE UNCHANGED <<call, status, best>>
  <2>1. Asked' = Asked BY <1>2 DEF Asked
  <2> QED BY <1>2, <2>1, Unseen
<1>3. CASE Crash
  <2>1. Asked' = {} BY <1>3, IdleFields DEF Crash, Asked
  <2>2. UNCHANGED <<status, Shown>> BY <1>3 DEF Crash, row, disk, Shown, Whole
  <2>3. Contract!Drop(Asked) BY <2>1, <2>2 DEF Contract!Drop
  <2>4. Asked \in SUBSET Asked OBVIOUS
  <2> QED BY <2>3, <2>4 DEF Contract!Next
<1> QED BY <1>1, <1>2, <1>3, Outside

\* The pages of a date show an image whole or none: a finalization swaps it
\* once, a re-crop keeps its frame, and no failure or crash in between shows,
\* provided a date is re-cropped while no other call works on it.
THEOREM ImageKept == ASSUME RecropAlone PROVE Spec => KeepsImageContract
<1>1. Init => Contract!Init
  BY IdleFields DEF Init, Contract!Init, Asked, Shown
<1>2. IInv /\ TidyInv /\ CropInv /\ [Next]_vars => IInv' /\ TidyInv' /\ CropInv'
  BY NextIInv, TidyNext, CropNext
<1>3. IInv /\ IInv' /\ TidyInv /\ CropInv /\ [Next]_vars => [Contract!Next]_(Contract!vars)
  BY ImageStep
<1> QED BY InitIInv, TidyInit, CropInit, <1>1, <1>2, <1>3, PTL
        DEF Spec, KeepsImageContract, Contract!Spec

-----------------------------------------------------------------------------
(* ImageLostForCause: a completed day is not failed while its frames are there *)

\* What may not be published counts as barred for each finalization under way;
\* unless something has failed, one that fails the day had nothing to publish
\* at some time, or its pick was taken from it.
Barred(c) ==
    /\ call[c].at = "fail" => call[c].op = "finalize"
    /\ call[c].op = "finalize" =>
          /\ Frames \ Publishable \subseteq barred[c]
          /\ faults = 0 /\ call[c].at = "fail" =>
                barred[c] = Frames \/ call[c].new.frame \in barred[c]

BarInv == /\ faults = 0 => rows \subseteq archive
          /\ doomed \cap rows = {}
          /\ \A c \in Callers : Barred(c)

LEMMA BarInit == Init => BarInv
  BY IdleFields DEF Init, BarInv, Barred

LEMMA FaultRaises == ASSUME TypeOK, Fault PROVE faults' # 0
  BY CallAssumption DEF TypeOK, Fault

\* A step of call c; what is barred for the others stays.
LEMMA BarredStep ==
    ASSUME BarInv, NEW c \in Callers, Others(c), Barred(c)',
           UNCHANGED <<rows, admitted, post, archive, doomed>>, faults' = 0 => faults = 0,
           \A d \in Callers \ {c} : barred'[d] = barred[d]
    PROVE  BarInv'
<1>1. Publishable' = Publishable BY DEF Publishable, Eligible, Role
<1>2. ASSUME NEW d \in Callers, d # c PROVE Barred(d)'
  BY <1>1, <1>2 DEF BarInv, Barred, Others
<1> QED BY <1>2 DEF BarInv

\* Every step but those that begin a finalization, or take one's frame.
LEMMA BarredKept ==
    ASSUME BarInv, NEW c \in Callers, Others(c), call'[c].at # "fail",
           call'[c].op = "finalize" => call[c].op = "finalize" /\ barred'[c] = barred[c],
           UNCHANGED <<rows, admitted, post, archive, doomed>>, faults' = 0 => faults = 0,
           \A d \in Callers \ {c} : barred'[d] = barred[d]
    PROVE  BarInv'
<1>1. Publishable' = Publishable BY DEF Publishable, Eligible, Role
<1>2. Barred(c)' BY <1>1 DEF BarInv, Barred
<1> QED BY <1>2, BarredStep

LEMMA BarCall ==
    ASSUME Typed, BarInv, NEW c \in Callers, FinalizeDay(c) \/ RecropDay(c) \/ Publish(c)
    PROVE  BarInv'
<1>0. TypeOK /\ Named(c) /\ Barred(c) BY DEF Typed, AllNamed, BarInv
<1>1. /\ UNCHANGED <<rows, admitted, post, archive, doomed>>
      /\ Publishable' = Publishable
  BY CallLeaves DEF Publishable, Eligible, Role
<1>2. faults' = 0 => faults = 0
  BY <1>0, FaultRaises
     DEF FinalizeDay, BeginFinalize, LoadFrame, FailDay, WriteOrig, RecropDay, BeginRecrop,
         LoadOriginal, DeleteOld, Publish, WriteFile, CompleteDay, CameraGone, CallFails, budget
<1>3. CASE BeginFinalize(c)
  <2>1. barred' = [barred EXCEPT ![c] = Frames \ Publishable] /\ UNCHANGED faults
    BY <1>3 DEF BeginFinalize
  <2>2. /\ barred'[c] = Frames \ Publishable
        /\ \A d \in Callers \ {c} : barred'[d] = barred[d]
    BY <1>0, <2>1 DEF TypeOK
  <2>3. CASE Picks = {}
    <3>1. Others(c) /\ call'[c] = Enter("finalize", "fail", NoImage, NoImage)
      BY <1>0, <1>3, <2>3, Moves DEF BeginFinalize
    <3>2. call'[c].op = "finalize" BY <3>1, EnterFields
    <3>3. barred'[c] = Frames BY <1>0, <2>2, <2>3, PicksExist
    <3>4. Barred(c)' BY <3>2, <3>3 DEF Barred
    <3> QED BY <1>1, <1>2, <2>2, <3>1, <3>4, BarredStep
  <2>4. CASE Picks # {}
    <3>1. PICK f \in Picks : call' = [call EXCEPT ![c] =
                                Enter("finalize", "load", NoImage, Rendering(f))]
      BY <1>3, <2>4 DEF BeginFinalize
    <3>2. Others(c) /\ call'[c] = Enter("finalize", "load", NoImage, Rendering(f))
      BY <1>0, <3>1, Moves
    <3>3. call'[c].op = "finalize" /\ call'[c].at = "load" BY <3>2, EnterFields
    <3>4. Barred(c)' BY <1>1, <2>2, <3>3 DEF Barred
    <3> QED BY <1>1, <1>2, <2>2, <3>2, <3>4, BarredStep
  <2> QED BY <2>3, <2>4
<1>4. CASE LoadFrame(c)
  <2>1. /\ Others(c) /\ Keeps(c) /\ UNCHANGED <<barred, faults>>
        /\ call[c].op = "finalize" /\ call[c].at = "load"
        /\ call'[c].at = IF call[c].new.frame \in archive THEN "orig" ELSE "fail"
    BY <1>0, <1>4, Moves DEF LoadFrame, Become, budget
  <2>2. faults = 0 /\ call'[c].at = "fail" => call[c].new.frame \in barred[c]
    <3>1. call[c].new.frame \in Frames BY <1>0, <2>1 DEF Named, Image
    <3>2. Publishable \subseteq rows BY DEF Publishable, Eligible
    <3> QED BY <1>0, <2>1, <3>1, <3>2 DEF BarInv, Barred
  <2>3. Barred(c)' BY <1>0, <1>1, <2>1, <2>2 DEF Barred, Keeps
  <2> QED BY <1>1, <1>2, <2>1, <2>3, BarredStep
<1>5. CASE ~BeginFinalize(c) /\ ~LoadFrame(c)
  <2>1. /\ Others(c) /\ call'[c].at # "fail"
        /\ \/ call'[c] = Idle /\ barred' = [barred EXCEPT ![c] = {}]
           \/ UNCHANGED barred /\ call'[c].op \in {call[c].op, "recrop"}
    <3>1. CASE Return(c) BY <1>0, <3>1, Moves, IdleFields DEF Return
    <3>2. CASE \E s \in {"write", "delete"} : Become(c, s)
      BY <1>0, <3>2, Moves DEF Become, Keeps
    <3>3. CASE \E s \in {"write", "row", "delete"} : \E n : Step(c, s, n)
      <4>1. PICK s \in {"write", "row", "delete"} : \E n : Step(c, s, n) BY <3>3
      <4>2. Others(c) /\ Keeps(c) /\ call'[c].at = s BY <1>0, <4>1, Moves
      <4> QED BY <4>1, <4>2 DEF Step, Keeps
    <3>4. CASE BeginRecrop(c)
      <4>1. Others(c) /\ call'[c] = Enter("recrop", "load", best, NoImage) /\ UNCHANGED barred
        BY <1>0, <3>4, Moves DEF BeginRecrop
      <4>2. call'[c].op = "recrop" /\ call'[c].at = "load" BY <4>1, EnterFields
      <4> QED BY <4>1, <4>2
    <3>5. CASE LoadOriginal(c) /\ ~Return(c)
      <4> DEFINE old == call[c].old
      <4>1. /\ Others(c) /\ UNCHANGED barred
            /\ call'[c] = Enter("recrop", "write", old, Rendering(old.frame))
        BY <1>0, <3>5, Moves DEF LoadOriginal
      <4>2. call'[c].op = "recrop" /\ call'[c].at = "write" BY <4>1, EnterFields
      <4> QED BY <4>1, <4>2
    <3> QED BY <1>5, <3>1, <3>2, <3>3, <3>4, <3>5
            DEF FinalizeDay, FailDay, WriteOrig, RecropDay, DeleteOld, Publish, WriteFile,
                CompleteDay, CameraGone, CallFails
  <2>2. \A d \in Callers \ {c} : barred'[d] = barred[d] BY <1>0, <2>1 DEF TypeOK
  <2> QED BY <1>1, <1>2, <2>1, <2>2, BarredKept, IdleFields
<1> QED BY <1>3, <1>4, <1>5

\* A change of what may be published, noted for the finalizations under way.
LEMMA BarBars ==
    ASSUME TypeOK, BarInv, Bar, UNCHANGED <<call, faults>>
    PROVE  \A c \in Callers : Barred(c)'
  BY DEF TypeOK, BarInv, Bar, Barred

LEMMA BarNext == ASSUME Typed, BarInv, [Next]_vars PROVE BarInv'
<1>0. TypeOK /\ \A c \in Callers : Barred(c) BY DEF Typed, BarInv
<1>1. CASE \E c \in Callers : FinalizeDay(c) \/ RecropDay(c) \/ Publish(c)
  BY <1>1, BarCall
<1>2. CASE Bar /\ UNCHANGED <<call, rows, archive, doomed, faults>>
  BY <1>0, <1>2, BarBars DEF BarInv
<1>3. CASE Retention
  <2>1. \A c \in Callers : Barred(c)' BY <1>0, <1>3, BarBars DEF Retention, budget
  <2> QED BY <1>3, <2>1 DEF Retention, BarInv, disk
<1>4. ASSUME NEW cam \in Cameras, DeleteCamera(cam) PROVE BarInv'
  <2>1. \A c \in Callers : Barred(c)' BY <1>0, <1>4, BarBars DEF DeleteCamera
  <2> QED BY <1>4, <2>1 DEF DeleteCamera, BarInv, disk
<1>5. ASSUME NEW f \in Frames, DeleteFile(f) PROVE BarInv'
  <2>1. faults' = 0 => faults = 0 BY <1>0, <1>5, FaultRaises DEF DeleteFile
  <2>2. \A c \in Callers : Barred(c)'
    <3>1. Publishable' = Publishable BY <1>5 DEF DeleteFile, conf, Publishable, Eligible, Role
    <3> QED BY <1>0, <1>5, <2>1, <3>1 DEF DeleteFile, calls, Barred
  <2> QED BY <1>5, <2>1, <2>2 DEF DeleteFile, BarInv
<1>6. ASSUME NEW f \in Frames, LoseFile(f) PROVE BarInv'
  <2>1. faults' # 0 BY <1>0, <1>6, FaultRaises DEF LoseFile
  <2>2. Publishable' = Publishable BY <1>6 DEF LoseFile, conf, Publishable, Eligible, Role
  <2> QED BY <1>0, <1>6, <2>1, <2>2 DEF LoseFile, calls, BarInv, Barred
<1>7. CASE SweepOrphans
  <2>1. \A c \in Callers : call'[c] = Idle BY <1>7 DEF SweepOrphans, AllIdle, calls
  <2> QED BY <1>7, <2>1, IdleFields DEF SweepOrphans, BarInv, Barred
<1>8. CASE Crash
  <2>1. \A c \in Callers : call'[c] = Idle BY <1>8 DEF Crash
  <2> QED BY <1>8, <2>1, IdleFields DEF Crash, BarInv, Barred, disk
<1>9. CASE UNCHANGED vars
  <2>1. Publishable' = Publishable BY <1>9 DEF vars, conf, Publishable, Eligible, Role
  <2> QED BY <1>9, <2>1 DEF vars, conf, calls, disk, budget, BarInv, Barred
<1>10. CASE Operator
  BY <1>2, <1>4, <1>5, <1>10 DEF Operator, EditCamera, EditSettings, disk
<1> QED BY <1>1, <1>3, <1>6, <1>7, <1>8, <1>9, <1>10 DEF Next

\* Only FailDay takes a complete day back.
LEMMA LostStep ==
    ASSUME Typed, BarInv, [Next]_vars, status = "complete", status' # "complete"
    PROVE  \/ faults > 0
           \/ \E c \in Callers : /\ call[c].at = "fail" /\ call'[c] = Idle
                                 /\ {best.frame, call[c].new.frame} \cap barred[c] # {}
<1>1. PICK c \in Callers : FailDay(c)
  BY Outside
     DEF row, FinalizeDay, BeginFinalize, LoadFrame, WriteOrig, RecropDay, BeginRecrop,
         LoadOriginal, DeleteOld, Publish, WriteFile, CompleteDay, CameraGone, CallFails, Crash
<1>2. TypeOK /\ Barred(c) /\ call[c].at = "fail" BY <1>1 DEF Typed, BarInv, FailDay
<1>3. call'[c] = Idle BY <1>1, <1>2, Moves DEF FailDay, Return
<1>4. best.frame \in Frames BY DEF Typed, AllNamed, Image
<1>5. faults = 0 => best.frame \in barred[c] \/ call[c].new.frame \in barred[c]
  BY <1>2, <1>4 DEF Barred
<1>6. faults \in Nat BY <1>2, CallAssumption DEF TypeOK
<1> QED BY <1>2, <1>3, <1>5, <1>6

\* A day once published keeps its image, for any overlapping calls, edits and
\* deletions, unless something has failed, or the published frame or the pick
\* that was to replace it was withdrawn from the finalization that fails the day.
THEOREM LostForCause == Spec => ImageLostForCause
<1>1. Typed /\ [Next]_vars => Typed' BY NextType, NextNamed DEF Typed
<1>2. Typed /\ BarInv /\ [Next]_vars => BarInv' BY BarNext
<1>3. Typed /\ BarInv /\ [Next]_vars
      => [status = "complete" /\ status' # "complete" =>
             \/ faults > 0
             \/ \E c \in Callers : /\ call[c].at = "fail" /\ call'[c] = Idle
                                   /\ {best.frame, call[c].new.frame} \cap barred[c] # {}]_vars
  BY LostStep
<1> QED BY InitTyped, BarInit, <1>1, <1>2, <1>3, PTL DEF Spec, ImageLostForCause
=============================================================================
