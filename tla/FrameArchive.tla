---------------------------- MODULE FrameArchive ----------------------------
(***************************************************************************)
(* The frame archive: the files under /data/frames and the frames table.   *)
(* The capture loop writes a file and then its row, drops images it has    *)
(* already stored and stops writing when the disk is low; retention        *)
(* deletes rows; the operator deletes a camera, rows first, files later;   *)
(* and the orphan sweep of the next start removes the files that have no   *)
(* row and marks the rows that have no file. The process may crash between *)
(* any two steps and files may be lost from outside.                       *)
(*                                                                         *)
(* A frame is known by the order its path was taken in: uniquePath never   *)
(* returns the path of another file.                                       *)
(***************************************************************************)
EXTENDS Naturals, Sequences

CONSTANTS
    Cameras,        \* numbered in the order ListCameras returns them
    Images,         \* the distinct bytes a camera may serve
    Undecodable,    \* those scoreFrame cannot decode
    LastDate,       \* the modelled dates are 0..LastDate
    Keep,           \* retention.frames_days
    MaxFrames,      \* bound: the paths of one behaviour
    MaxTroubles,    \* bound: crashes, failing calls, undecodable images, lost files and
                    \* turns of the disk
    None            \* neither a camera nor an image

ASSUME ImageAssumption == Undecodable \subseteq Images /\ None \notin Images \cup Cameras
ASSUME NumberAssumption ==
    /\ Cameras \subseteq Nat
    /\ {LastDate, Keep, MaxFrames, MaxTroubles} \subseteq Nat

Date    == 0..LastDate
NoDate  == LastDate + 1
Path    == 1..MaxFrames
NoPath  == 0

\* What a path was taken for; first: the run had seen no image of the camera yet.
Meta    == [camera : Cameras, date : Date, image : Images, first : BOOLEAN]
Sample  == [camera : Cameras, image : Images] \cup {[camera |-> None, image |-> None]}
Alert   == [path : Path \cup {NoPath}, image : Images \cup {None}]
Delete  == [at : {"none", "cascade", "remove"}, camera : Cameras \cup {None}, paths : SUBSET Path]
NoSample == [camera |-> None, image |-> None]
NoAlert  == [path |-> NoPath, image |-> None]
NoDelete == [at |-> "none", camera |-> None, paths |-> {}]

Booting   == {"retain", "known", "walk", "stat"}
Windowing == {"poll", "write", "rename", "insert", "statfs", "trigger"}
Place     == {"down", "idle"} \cup Booting \cup Windowing

VARIABLES
    today, retained,    \* the clock's date; the settings key retention_last
    cameras,            \* the cameras table
    meta,               \* what each path was taken for, in the order they were taken
    rows, missing,      \* the frames table; its rows with valid = missing_file
    disk, temps,        \* the frame files; the .tmp- files
    go,                 \* the go event of each date
    full,               \* less space is free than disk_min_free_mb asks for
    pc, date, settled,  \* where the engine stands, for which date; the date finished last
    todo,               \* what the present loop has still to visit: cameras or paths
    known,              \* the sweep's snapshot of the stored paths
    fetchers,           \* RunWindow's cameras, as listed when it began
    blind,              \* those whose last stored frame it failed to look up
    seen, fetched,      \* lastSHA of each; those that yielded an image in this run
    lastPath,           \* lastFramePath of each
    lowDisk, current,   \* the run has met a low disk; the sample in hand
    delete,             \* the operator's deletion in progress
    lost, left,         \* files lost since the sweep looked; files os.Remove failed on
    over,               \* frames this run wrote since the disk became full, or statfs failed
    troubles

table  == <<cameras, meta, rows, missing>>
files  == <<disk, temps>>
run    == <<fetchers, blind, seen, fetched, lastPath, lowDisk, current>>
ghosts == <<lost, left, over>>
vars   == <<today, retained, table, files, go, full, pc, date, settled, todo, known, run,
            delete, ghosts, troubles>>

Fault == troubles < MaxTroubles /\ troubles' = troubles + 1
Sound == UNCHANGED troubles

\* Cameras, files and rows are gone through in order.
NextTodo(x) == x \in todo /\ \A y \in todo : x <= y

-----------------------------------------------------------------------------
Init ==
    /\ today = 0 /\ retained = NoDate
    /\ cameras = Cameras /\ meta = <<>>
    /\ rows = {} /\ missing = {} /\ disk = {} /\ temps = {}
    /\ go = [d \in Date |-> NoAlert]
    /\ full = FALSE
    /\ pc = "down" /\ date = 0 /\ settled = NoDate
    /\ todo = {} /\ known = {}
    /\ fetchers = {} /\ blind = {} /\ fetched = {}
    /\ seen = [c \in Cameras |-> None] /\ lastPath = [c \in Cameras |-> NoPath]
    /\ lowDisk = FALSE /\ current = NoSample
    /\ delete = NoDelete
    /\ lost = {} /\ left = {} /\ over = 0
    /\ troubles = 0

-----------------------------------------------------------------------------
(* Retention: rows only *)

Old(p, d) == meta[p].date + Keep < d

DropRows(gone) == rows' = rows \ gone /\ missing' = missing \ gone

\* Faulty: sets the marker whether or not the deletion succeeded.
RetentionMarks(d) ==
    IF retained = d
    THEN UNCHANGED <<rows, missing, retained, troubles>>
    ELSE /\ retained' = d
         /\ \/ DropRows({p \in rows : Old(p, d)}) /\ Sound
            \/ Fault /\ UNCHANGED <<rows, missing>>

\* Once a day; nothing is marked when the deletion fails.
Retention(d) ==
    IF retained = d
    THEN UNCHANGED <<rows, missing, retained, troubles>>
    ELSE \/ DropRows({p \in rows : Old(p, d)}) /\ retained' = d /\ Sound
         \/ Fault /\ UNCHANGED <<rows, missing, retained>>

TickRetention ==
    /\ pc = "idle" /\ retained # today
    /\ Retention(today)
    /\ UNCHANGED <<today, cameras, meta, files, go, full, pc, date, settled, todo, known,
                   run, delete, ghosts>>

-----------------------------------------------------------------------------
(* Reconcile's retention catch-up and orphan sweep *)

Boot ==
    /\ pc = "down"
    /\ pc' = "retain" /\ date' = today
    /\ UNCHANGED <<today, retained, table, files, go, full, settled, todo, known, run, delete,
                   ghosts, troubles>>

BootRetention ==
    /\ pc = "retain"
    /\ Retention(date)
    /\ pc' = "known"
    /\ UNCHANGED <<today, cameras, meta, files, go, full, date, settled, todo, known, run,
                   delete, ghosts>>

ListKnown ==
    /\ pc = "known"
    /\ known' = rows
    /\ todo' = disk \cup temps
    /\ left' = {}
    /\ pc' = "walk"
    /\ UNCHANGED <<today, retained, table, files, go, full, date, settled, run, delete, lost, over,
                   troubles>>

\* Faulty: leaves the temporary files alone.
SweepFramesOnly(p) ==
    /\ pc = "walk" /\ NextTodo(p)
    /\ todo' = todo \ {p}
    /\ IF p \in known \cup temps
       THEN UNCHANGED <<disk, left, troubles>>
       ELSE \/ disk' = disk \ {p} /\ UNCHANGED left /\ Sound
            \/ Fault /\ left' = left \cup {p} /\ UNCHANGED disk
    /\ UNCHANGED <<today, retained, table, temps, go, full, pc, date, settled, known, run, delete,
                   lost, over>>

\* A temporary file, or a file without a row, is removed; errors are ignored.
SweepFile(p) ==
    /\ pc = "walk" /\ NextTodo(p)
    /\ todo' = todo \ {p}
    /\ IF p \in known \ temps
       THEN UNCHANGED <<files, left, troubles>>
       ELSE \/ disk' = disk \ {p} /\ temps' = temps \ {p} /\ UNCHANGED left /\ Sound
            \/ Fault /\ left' = left \cup {p} /\ UNCHANGED files
    /\ UNCHANGED <<today, retained, table, go, full, pc, date, settled, known, run, delete,
                   lost, over>>

ListRows ==
    /\ pc = "walk" /\ todo = {}
    /\ todo' = rows
    /\ pc' = "stat"
    /\ UNCHANGED <<today, retained, table, files, go, full, date, settled, known, run, delete,
                   ghosts, troubles>>

\* A row deleted since it was listed is not marked; a failing update is ignored.
StatRow(p) ==
    /\ pc = "stat" /\ NextTodo(p)
    /\ todo' = todo \ {p}
    /\ IF p \in disk
       THEN UNCHANGED <<missing, lost, troubles>>
       ELSE \/ missing' = missing \cup ({p} \cap rows) /\ lost' = lost \ {p} /\ Sound
            \/ Fault /\ UNCHANGED <<missing, lost>>
    /\ UNCHANGED <<today, retained, cameras, meta, rows, files, go, full, pc, date, settled,
                   known, run, delete, left, over>>

BootDone ==
    /\ pc = "stat" /\ todo = {}
    /\ pc' = "idle" /\ known' = {} /\ date' = 0
    /\ UNCHANGED <<today, retained, table, files, go, full, settled, todo, run, delete,
                   ghosts, troubles>>

-----------------------------------------------------------------------------
(* RunWindow: one poll of every camera after the other *)

\* The newest ok row of a camera: PreviousFrameSHA.
Stored(c)      == {p \in rows \ missing : meta[p].camera = c}
PreviousSHA(c) == {meta[p].image : p \in {q \in Stored(c) : \A o \in Stored(c) : o <= q}}
Seed(c)        == IF PreviousSHA(c) = {} THEN None ELSE CHOOSE i \in PreviousSHA(c) : TRUE

\* Faulty: a resumed run knows nothing of the frames stored before.
BeginWindowUnseeded ==
    /\ pc = "idle" /\ settled # today
    /\ pc' = "poll" /\ date' = today
    /\ fetchers' = cameras
    /\ UNCHANGED <<blind, seen, fetched, lastPath, lowDisk, current>>
    /\ over' = 0
    /\ UNCHANGED <<today, retained, table, files, go, full, settled, todo, known, delete, lost, left,
                   troubles>>

\* A failing PreviousFrameSHA is ignored: the run knows nothing of that camera.
BeginWindow ==
    /\ pc = "idle" /\ settled # today
    /\ pc' = "poll" /\ date' = today
    /\ fetchers' = cameras
    /\ \E unread \in SUBSET cameras :
          /\ IF unread = {} THEN Sound ELSE Fault
          /\ blind' = unread
          /\ seen' = [c \in Cameras |-> IF c \in cameras \ unread THEN Seed(c) ELSE None]
    /\ UNCHANGED <<fetched, lastPath, lowDisk, current>>
    /\ over' = 0
    /\ UNCHANGED <<today, retained, table, files, go, full, settled, todo, known, delete, lost, left>>

\* The fetch fails, or yields the image the camera yielded last.
FetchNothing(c) ==
    /\ pc = "poll" /\ NextTodo(c)
    /\ todo' = todo \ {c}
    /\ UNCHANGED <<today, retained, table, files, go, full, pc, date, settled, known, run, delete,
                   ghosts, troubles>>

Fetch(c, i) ==
    /\ pc = "poll" /\ NextTodo(c)
    /\ i # seen[c]
    /\ todo' = todo \ {c}
    /\ seen' = [seen EXCEPT ![c] = i]
    /\ fetched' = fetched \cup {c}
    /\ UNCHANGED <<today, retained, cameras, rows, missing, files, go, full, date, settled, known,
                   fetchers, blind, lowDisk, delete, ghosts>>

FetchUndecodable(c, i) ==
    /\ i \in Undecodable /\ Fetch(c, i)
    /\ Fault
    /\ UNCHANGED <<pc, meta, lastPath, current>>

\* A scored image is archived, under a new path, unless the disk is low.
FetchArchived(c, i) ==
    /\ i \notin Undecodable /\ Fetch(c, i) /\ Sound
    /\ ~lowDisk /\ Len(meta) < MaxFrames
    /\ meta' = Append(meta, [camera |-> c, date |-> date, image |-> i, first |-> c \notin fetched])
    /\ lastPath' = [lastPath EXCEPT ![c] = Len(meta')]
    /\ current' = [camera |-> c, image |-> i]
    /\ pc' = "write"

FetchScoredOnly(c, i) ==
    /\ i \notin Undecodable /\ Fetch(c, i) /\ Sound
    /\ lowDisk
    /\ current' = [camera |-> c, image |-> i]
    /\ pc' = "trigger"
    /\ UNCHANGED <<meta, lastPath>>

Newest == lastPath[current.camera]

\* Faulty: the row is inserted before the file is in its place.
WriteTempRowFirst ==
    /\ pc = "write"
    /\ temps' = temps \cup {Newest}
    /\ rows' = IF current.camera \in cameras THEN rows \cup {Newest} ELSE rows
    /\ pc' = "rename"
    /\ UNCHANGED <<today, retained, cameras, meta, missing, disk, go, full, date, settled, todo,
                   known, run, delete, ghosts, troubles>>

\* writeAtomic; a failure removes the temporary file and skips the row.
WriteTemp ==
    /\ pc = "write"
    /\ \/ temps' = temps \cup {Newest} /\ pc' = "rename" /\ Sound
       \/ Fault /\ UNCHANGED temps /\ pc' = "statfs"
    /\ UNCHANGED <<today, retained, table, disk, go, full, date, settled, todo, known, run, delete,
                   ghosts>>

Rename ==
    /\ pc = "rename"
    /\ temps' = temps \ {Newest}
    /\ \/ /\ disk' = disk \cup {Newest} /\ pc' = "insert" /\ Sound
          /\ over' = IF full THEN over + 1 ELSE over
       \/ Fault /\ UNCHANGED <<disk, over>> /\ pc' = "statfs"
    /\ UNCHANGED <<today, retained, table, go, full, date, settled, todo, known, run, delete,
                   lost, left>>

\* The row of a deleted camera violates its foreign key; errors are ignored.
InsertFrame ==
    /\ pc = "insert"
    /\ \/ rows' = (IF current.camera \in cameras THEN rows \cup {Newest} ELSE rows) /\ Sound
       \/ Fault /\ UNCHANGED rows
    /\ pc' = "statfs"
    /\ UNCHANGED <<today, retained, cameras, meta, missing, files, go, full, date, settled, todo,
                   known, run, delete, ghosts>>

\* Once low the run writes no more; a failing statfs is ignored.
CheckDisk ==
    /\ pc = "statfs"
    /\ \/ lowDisk' = full /\ UNCHANGED over /\ Sound
       \/ Fault /\ over' = 0 /\ UNCHANGED lowDisk
    /\ pc' = "trigger"
    /\ UNCHANGED <<today, retained, table, files, go, full, date, settled, todo, known, fetchers, blind,
                   seen, fetched, lastPath, current, delete, lost, left>>

Quiet ==
    /\ pc = "trigger"
    /\ pc' = "poll" /\ current' = NoSample
    /\ UNCHANGED <<today, retained, table, files, go, full, date, settled, todo, known, fetchers, blind,
                   seen, fetched, lastPath, lowDisk, delete, ghosts, troubles>>

\* Faulty: shows the camera's last file even when this image was not written.
GoLastFile ==
    /\ pc = "trigger" /\ go[date] = NoAlert
    /\ go' = [go EXCEPT ![date] = [path |-> Newest, image |-> current.image]]
    /\ pc' = "poll" /\ current' = NoSample
    /\ UNCHANGED <<today, retained, table, files, full, date, settled, todo, known, fetchers, blind,
                   seen, fetched, lastPath, lowDisk, delete, ghosts, troubles>>

\* The trigger fires, on its first time of the date, with the frame just written.
Go ==
    /\ pc = "trigger" /\ go[date] = NoAlert
    /\ go' = [go EXCEPT ![date] = [path  |-> IF lowDisk THEN NoPath ELSE Newest,
                                   image |-> current.image]]
    /\ pc' = "poll" /\ current' = NoSample
    /\ UNCHANGED <<today, retained, table, files, full, date, settled, todo, known, fetchers, blind,
                   seen, fetched, lastPath, lowDisk, delete, ghosts, troubles>>

\* Faulty: every poll looks at the disk afresh.
NextPollResumes ==
    /\ pc = "poll" /\ todo = {} /\ fetchers # {}
    /\ todo' = fetchers /\ lowDisk' = FALSE
    /\ UNCHANGED <<today, retained, table, files, go, full, pc, date, settled, known, fetchers, blind,
                   seen, fetched, lastPath, current, delete, ghosts, troubles>>

NextPoll ==
    /\ pc = "poll" /\ todo = {} /\ fetchers # {}
    /\ todo' = fetchers
    /\ UNCHANGED <<today, retained, table, files, go, full, pc, date, settled, known, run, delete,
                   ghosts, troubles>>

Forget ==
    /\ fetchers' = {} /\ blind' = {} /\ fetched' = {}
    /\ seen' = [c \in Cameras |-> None] /\ lastPath' = [c \in Cameras |-> NoPath]
    /\ lowDisk' = FALSE /\ current' = NoSample
    /\ date' = 0

EndWindow ==
    /\ pc = "poll" /\ todo = {}
    /\ pc' = "idle" /\ settled' = date
    /\ Forget /\ over' = 0
    /\ UNCHANGED <<today, retained, table, files, go, full, todo, known, delete, lost, left,
                   troubles>>

-----------------------------------------------------------------------------
(* The operator deletes a camera *)

DeleteBegin(c) ==
    /\ pc # "down" /\ delete = NoDelete
    /\ c \in cameras
    /\ delete' = [at |-> "cascade", camera |-> c, paths |-> {p \in rows : meta[p].camera = c}]
    /\ UNCHANGED <<today, retained, table, files, go, full, pc, date, settled, todo, known, run,
                   ghosts, troubles>>

\* The files that are still to be removed, until none is.
Rest(paths) == IF paths = {} THEN NoDelete
               ELSE [at |-> "remove", camera |-> None, paths |-> paths]

\* One transaction; when it fails no file is touched.
DeleteCascade ==
    /\ delete.at = "cascade"
    /\ \/ /\ DropRows({p \in rows : meta[p].camera = delete.camera})
          /\ cameras' = cameras \ {delete.camera}
          /\ delete' = Rest(delete.paths) /\ Sound
       \/ Fault /\ delete' = NoDelete /\ UNCHANGED <<cameras, rows, missing>>
    /\ UNCHANGED <<today, retained, meta, files, go, full, pc, date, settled, todo, known, run,
                   ghosts>>

DeleteFile(p) ==
    /\ delete.at = "remove" /\ p \in delete.paths
    /\ delete' = Rest(delete.paths \ {p})
    /\ \/ disk' = disk \ {p} /\ UNCHANGED left /\ Sound
       \/ Fault /\ left' = left \cup {p} /\ UNCHANGED disk
    /\ UNCHANGED <<today, retained, table, temps, go, full, pc, date, settled, todo, known, run,
                   lost, over>>

-----------------------------------------------------------------------------
(* The environment *)

\* The window closes well before midnight.
NextDate ==
    /\ pc \notin Windowing /\ today < LastDate
    /\ today' = today + 1
    /\ UNCHANGED <<retained, table, files, go, full, pc, date, settled, todo, known, run, delete,
                   ghosts, troubles>>

\* The free space is looked at within a window only.
DiskTurns ==
    /\ pc \in Windowing
    /\ Fault
    /\ full' = ~full /\ over' = 0
    /\ UNCHANGED <<today, retained, table, files, go, pc, date, settled, todo, known, run, delete,
                   lost, left>>

LoseFile(p) ==
    /\ p \in disk \cap rows
    /\ Fault
    /\ disk' = disk \ {p} /\ lost' = lost \cup {p}
    /\ UNCHANGED <<today, retained, table, temps, go, full, pc, date, settled, todo, known, run,
                   delete, left, over>>

Crash ==
    /\ pc # "down"
    /\ Fault
    /\ pc' = "down" /\ todo' = {} /\ known' = {} /\ delete' = NoDelete
    /\ Forget /\ over' = 0
    /\ UNCHANGED <<today, retained, table, files, go, full, settled, lost, left>>

-----------------------------------------------------------------------------
Sweep   == \/ Boot \/ BootRetention \/ ListKnown \/ ListRows \/ BootDone
           \/ \E p \in Path : SweepFile(p) \/ StatRow(p)

Capture == \/ BeginWindow \/ NextPoll \/ EndWindow
           \/ \E c \in Cameras : \/ FetchNothing(c)
                                 \/ \E i \in Images : \/ FetchUndecodable(c, i)
                                                      \/ FetchArchived(c, i)
                                                      \/ FetchScoredOnly(c, i)
           \/ WriteTemp \/ Rename \/ InsertFrame \/ CheckDisk \/ Quiet \/ Go

Admin   == \/ \E c \in Cameras : DeleteBegin(c)
           \/ DeleteCascade
           \/ \E p \in Path : DeleteFile(p)

Environment == NextDate \/ DiskTurns \/ Crash \/ \E p \in Path : LoseFile(p)

Next == Sweep \/ TickRetention \/ Capture \/ Admin \/ Environment
Spec == Init /\ [][Next]_vars

-----------------------------------------------------------------------------
(* Properties *)

\* Types.
TypeOK ==
    /\ today \in Date /\ retained \in Date \cup {NoDate} /\ settled \in Date \cup {NoDate}
    /\ cameras \subseteq Cameras
    /\ meta \in Seq(Meta) /\ Len(meta) <= MaxFrames
    /\ rows \subseteq DOMAIN meta /\ missing \subseteq rows
    /\ disk \subseteq DOMAIN meta /\ temps \subseteq DOMAIN meta
    /\ go \in [Date -> Alert] /\ full \in BOOLEAN
    /\ pc \in Place /\ date \in Date
    /\ todo \subseteq Path \cup Cameras /\ known \subseteq Path
    /\ fetchers \subseteq Cameras /\ blind \subseteq fetchers /\ fetched \subseteq fetchers
    /\ seen \in [Cameras -> Images \cup {None}] /\ lastPath \in [Cameras -> Path \cup {NoPath}]
    /\ lowDisk \in BOOLEAN /\ current \in Sample
    /\ delete \in Delete
    /\ lost \subseteq Path /\ left \subseteq Path /\ over \in Nat
    /\ troubles \in 0..MaxTroubles

\* A row that is not marked missing has its file, whatever crashed, failed or
\* was deleted, unless the file was lost from outside since the last sweep:
\* the file is written before the row and removed after it.
RowHasFile == rows \ missing \subseteq disk \cup lost

\* Once the sweep has walked the frames, what crashes, failed inserts,
\* retention and deletions left behind is gone: a file without a row is one
\* that the deletion in progress has yet to remove or that could not be removed.
SweptClean == pc = "stat" => (disk \ rows) \cup temps \subseteq delete.paths \cup left

\* The marker of today's retention means that no row is past the limit.
RetentionKept == retained = today => \A p \in rows : ~Old(p, today)

\* A resumed run archives the camera's last stored frame again only when it
\* failed to look that frame up: the error is ignored and the run starts unseeded.
NoRearchive ==
    [][\A p \in rows' \ rows : meta[p].first =>
          \/ meta[p].image \notin PreviousSHA(meta[p].camera)
          \/ meta[p].camera \in blind]_vars

\* While the disk is low a run writes one frame at most, the one after which
\* it notices; a statfs that fails postpones it by a frame.
PausesWhenLow == over <= 1

\* The image of a GO is the frame that fired it, never an older one.
GoShowsTheFrame ==
    \A d \in Date : go[d].path # NoPath => /\ meta[go[d].path].image = go[d].image
                                           /\ meta[go[d].path].date = d
=============================================================================
