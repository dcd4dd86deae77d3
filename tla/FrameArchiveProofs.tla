------------------------- MODULE FrameArchiveProofs -------------------------
(***************************************************************************)
(* Theorems about FrameArchive, for every set of cameras and images, every *)
(* number of dates, frames and troubles: types, that a row has its file,   *)
(* that the orphan sweep leaves nothing behind but what it could not       *)
(* remove or a deletion in progress is about to; and, from a second        *)
(* invariant beside the first (RunInv), the retention marker, the pause on *)
(* a low disk, the picture of a GO and the seeding of a resumed run.       *)
(***************************************************************************)
EXTENDS FrameArchive, TLAPS

Writing == {"write", "rename", "insert"}
Shot    == [camera : Cameras, image : Images]

\* A poll visits the cameras listed when the window began, and has a sample in
\* hand from the fetch to the trigger.
Polled ==
    /\ pc \in {"down", "idle", "retain", "known"} => todo = {}
    /\ pc \in Windowing => todo \subseteq fetchers
    /\ pc \notin Windowing => fetched = {}
    /\ pc \in Windowing \ {"poll"} => current \in Shot

\* The path being written has no row and is on no list of files to delete, and
\* no file has both names.
Fresh ==
    /\ temps \cap rows = {}
    /\ pc \in Writing => Newest \in DOMAIN meta /\ Newest \notin rows \cup delete.paths
    /\ pc = "insert" => Newest \in disk \ temps

\* What a deletion is about to remove has lost its row.
Doomed ==
    /\ delete.paths \subseteq DOMAIN meta
    /\ delete.at = "cascade" => \A p \in delete.paths : meta[p].camera = delete.camera
    /\ delete.at = "remove" => delete.paths \cap rows = {}

\* Nothing inserts rows while the sweep compares them with the files.
Listed == pc = "walk" => rows \subseteq known

\* A deletion begun since the process started has all of its camera's rows, and
\* the sweep knows of each.
Deleting ==
    /\ pc = "down" => delete = NoDelete
    /\ pc \in Booting /\ delete.at = "cascade" =>
           \A p \in rows : meta[p].camera = delete.camera => p \in delete.paths
    /\ pc \in {"walk", "stat"} /\ delete.at = "cascade" => delete.paths \cap known \subseteq rows

\* What the walk has been past is known, or could not be removed.
Swept ==
    /\ pc = "walk" => temps \subseteq todo \cup left /\ disk \subseteq todo \cup known \cup left
    /\ pc = "stat" => temps \subseteq left /\ disk \subseteq known \cup left
    /\ pc \in {"walk", "stat"} => known \cap disk \subseteq rows \cup delete.paths \cup left

Safe == Polled /\ Fresh /\ Doomed /\ Listed /\ Deleting /\ Swept /\ RowHasFile
IInv == TypeOK /\ Safe

-----------------------------------------------------------------------------
(* Types *)

LEMMA FaultType == ASSUME TypeOK, Fault PROVE troubles' \in 0..MaxTroubles
BY NumberAssumption DEF TypeOK, Fault

LEMMA SoundType == ASSUME TypeOK, Sound PROVE troubles' \in 0..MaxTroubles
BY DEF TypeOK, Sound

LEMMA PathType == ASSUME TypeOK PROVE DOMAIN meta \subseteq Path
BY NumberAssumption DEF TypeOK, Path

LEMMA RetentionType ==
    ASSUME TypeOK, NEW d \in Date, Retention(d)
    PROVE  /\ rows' \subseteq rows /\ missing' \subseteq rows'
           /\ rows' \ missing' \subseteq rows \ missing
           /\ retained' \in Date \cup {NoDate}
           /\ troubles' \in 0..MaxTroubles
BY FaultType, SoundType DEF TypeOK, Retention, DropRows, Sound

LEMMA SeedType == ASSUME TypeOK, NEW c \in Cameras PROVE Seed(c) \in Images \cup {None}
<1>1. \A p \in DOMAIN meta : meta[p] \in Meta BY DEF TypeOK
<1>2. \A p \in DOMAIN meta : meta[p].image \in Images BY <1>1 DEF Meta
<1>3. {q \in Stored(c) : \A o \in Stored(c) : o <= q} \subseteq DOMAIN meta BY DEF TypeOK, Stored
<1>4. PreviousSHA(c) \subseteq Images BY <1>2, <1>3 DEF PreviousSHA
<1> QED BY <1>4 DEF Seed

LEMMA RestType == ASSUME NEW paths \in SUBSET Path
                  PROVE  /\ Rest(paths) \in Delete /\ Rest(paths).paths = paths
                         /\ Rest(paths).at # "cascade"
BY DEF Rest, Delete, NoDelete

LEMMA InitInv == Init => IInv
<1> SUFFICES ASSUME Init PROVE IInv OBVIOUS
<1> USE DEF Init
<1>1. today \in Date /\ retained \in Date \cup {NoDate} /\ settled \in Date \cup {NoDate} /\ date \in Date
  BY NumberAssumption DEF Date, NoDate
<1>2. meta \in Seq(Meta) /\ Len(meta) <= MaxFrames BY NumberAssumption
<1>3. go \in [Date -> Alert] BY DEF Alert, NoAlert
<1>4. seen \in [Cameras -> Images \cup {None}] /\ lastPath \in [Cameras -> Path \cup {NoPath}]
  OBVIOUS
<1>5. current \in Sample /\ delete \in Delete BY DEF Sample, NoSample, Delete, NoDelete
<1>6. troubles \in 0..MaxTroubles BY NumberAssumption
<1>7. TypeOK BY <1>1, <1>2, <1>3, <1>4, <1>5, <1>6 DEF TypeOK, Place
<1>8. Safe
  BY DEF Safe, Polled, Windowing, Fresh, Writing, Doomed, NoDelete, Listed, Deleting, Booting, Swept, RowHasFile
<1> QED BY <1>7, <1>8 DEF IInv

LEMMA ForgetType ==
    ASSUME Forget
    PROVE  /\ fetchers' = {} /\ blind' = {} /\ fetched' = {} /\ date' = 0 /\ lowDisk' = FALSE
           /\ seen' \in [Cameras -> Images \cup {None}]
           /\ lastPath' \in [Cameras -> Path \cup {NoPath}]
           /\ current' \in Sample
BY DEF Forget, Sample, NoSample

-----------------------------------------------------------------------------
(* Steps that leave the files, or all but the clock and the disk, alone *)

\* A step that at most drops rows or temporary files, and neither writes nor
\* sweeps afterwards.
LEMMA Aside ==
    ASSUME IInv, Polled', UNCHANGED <<meta, disk, lost, delete>>,
           rows' \subseteq rows, rows' \ missing' \subseteq rows \ missing, temps' \subseteq temps,
           pc' \notin Writing \cup {"walk", "stat", "down"},
           pc' \in Booting => pc \in Booting \/ delete = NoDelete
    PROVE  Safe'
<1> USE DEF IInv, Safe
<1>1. Fresh' BY DEF Fresh, Writing
<1>2. Doomed' BY DEF Doomed
<1>3. Listed' /\ Swept' BY DEF Listed, Swept
<1>4. Deleting' BY DEF Deleting, Booting, NoDelete
<1>5. RowHasFile' BY DEF RowHasFile
<1> QED BY <1>1, <1>2, <1>3, <1>4, <1>5

LEMMA ClockInv == ASSUME IInv, NextDate \/ DiskTurns PROVE IInv'
<1> USE DEF IInv, table, files, run, ghosts
<1>1. TypeOK'
  <2>1. CASE NextDate BY <2>1, NumberAssumption DEF NextDate, TypeOK, Date, NoDate
  <2>2. CASE DiskTurns
    <3>1. troubles' \in 0..MaxTroubles BY <2>2, FaultType DEF DiskTurns
    <3>2. full' \in BOOLEAN /\ over' \in Nat BY <2>2 DEF DiskTurns, TypeOK
    <3> QED BY <2>2, <3>1, <3>2 DEF DiskTurns, TypeOK
  <2> QED BY <2>1, <2>2
<1>2. Safe'
  BY DEF NextDate, DiskTurns, Safe, Polled, Fresh, Newest, Doomed, Listed, Deleting, Swept, RowHasFile
<1> QED BY <1>1, <1>2

LEMMA RetentionInv == ASSUME IInv, TickRetention \/ BootRetention PROVE IInv'
<1> USE DEF IInv, files, run, ghosts
<1>1. PICK d \in Date : Retention(d) BY DEF TickRetention, BootRetention, TypeOK
<1>2. /\ rows' \subseteq rows /\ missing' \subseteq rows'
      /\ rows' \ missing' \subseteq rows \ missing
      /\ retained' \in Date \cup {NoDate} /\ troubles' \in 0..MaxTroubles
  BY <1>1, RetentionType
<1>3. TypeOK' BY <1>2 DEF TickRetention, BootRetention, TypeOK, Place, Booting
<1>4. Polled' BY DEF TickRetention, BootRetention, Safe, Polled, Windowing
<1>5. Safe' BY <1>2, <1>4, Aside DEF TickRetention, BootRetention, Writing, Booting
<1> QED BY <1>3, <1>5

\* Of the window's steps, those that write neither a file nor a row.
LEMMA WindowInv ==
    ASSUME IInv, BeginWindow \/ NextPoll \/ EndWindow \/ CheckDisk \/ Quiet \/ Go
    PROVE  IInv'
<1> USE DEF IInv, table, files, run, ghosts
<1>1. TypeOK'
  <2>1. CASE BeginWindow
    <3>1. seen' \in [Cameras -> Images \cup {None}] BY <2>1, SeedType DEF BeginWindow
    <3>3. blind' \subseteq fetchers' BY <2>1 DEF BeginWindow
    <3>4. troubles' \in 0..MaxTroubles BY <2>1, FaultType, SoundType DEF BeginWindow
    <3>2. fetched' \subseteq fetchers' BY <2>1 DEF BeginWindow, Safe, Polled, Windowing
    <3> QED BY <2>1, <3>1, <3>2, <3>3, <3>4 DEF BeginWindow, TypeOK, Place, Windowing
  <2>2. CASE NextPoll BY <2>2 DEF NextPoll, TypeOK
  <2>3. CASE EndWindow
    <3>1. 0 \in Date BY NumberAssumption DEF Date
    <3> QED BY <2>3, <3>1, ForgetType DEF EndWindow, TypeOK, Place
  <2>4. CASE CheckDisk
    <3>1. troubles' \in 0..MaxTroubles /\ lowDisk' \in BOOLEAN /\ over' \in Nat
      BY <2>4, FaultType, SoundType DEF CheckDisk, TypeOK
    <3> QED BY <2>4, <3>1 DEF CheckDisk, TypeOK, Place, Windowing
  <2>5. CASE Quiet BY <2>5 DEF Quiet, TypeOK, Place, Windowing, Sample, NoSample
  <2>6. CASE Go
    <3>1. current \in Shot BY <2>6 DEF Go, Safe, Polled, Windowing
    <3>2. Newest \in Path \cup {NoPath} /\ current.image \in Images BY <3>1 DEF TypeOK, Newest, Shot
    <3>3. go' \in [Date -> Alert] BY <2>6, <3>2 DEF Go, TypeOK, Alert
    <3> QED BY <2>6, <3>3 DEF Go, TypeOK, Place, Windowing, Sample, NoSample
  <2> QED BY <2>1, <2>2, <2>3, <2>4, <2>5, <2>6
<1>2. Polled'
  BY DEF BeginWindow, NextPoll, EndWindow, Forget, CheckDisk, Quiet, Go, Safe, Polled, Windowing
<1>3. Safe'
  BY <1>2, Aside DEF BeginWindow, NextPoll, EndWindow, CheckDisk, Quiet, Go, Writing, Booting
<1> QED BY <1>1, <1>3

-----------------------------------------------------------------------------
(* A frame: the fetch, the file, the row *)

LEMMA FetchNothingInv == ASSUME IInv, NEW c \in Cameras, FetchNothing(c) PROVE IInv'
<1> USE DEF IInv, table, files, run, ghosts, FetchNothing
<1>1. TypeOK' BY DEF TypeOK
<1>2. Polled' BY DEF Safe, Polled, Windowing
<1>3. Safe' BY <1>2, Aside DEF Writing, Booting
<1> QED BY <1>1, <1>3

LEMMA FetchInv ==
    ASSUME IInv, NEW c \in Cameras, NEW i \in Images,
           FetchUndecodable(c, i) \/ FetchScoredOnly(c, i)
    PROVE  IInv'
<1> USE DEF IInv, table, files, run, ghosts
<1>1. c \in fetchers BY DEF FetchUndecodable, FetchScoredOnly, Fetch, NextTodo, Safe, Polled, Windowing
<1>2. TypeOK'
  <2>1. troubles' \in 0..MaxTroubles
    BY FaultType, SoundType DEF FetchUndecodable, FetchScoredOnly, TypeOK
  <2>2. seen' \in [Cameras -> Images \cup {None}] /\ fetched' \subseteq fetchers'
    BY <1>1 DEF FetchUndecodable, FetchScoredOnly, Fetch, TypeOK
  <2>3. current' \in Sample
    BY DEF FetchUndecodable, FetchScoredOnly, TypeOK, Sample
  <2> QED
    BY <2>1, <2>2, <2>3
       DEF FetchUndecodable, FetchScoredOnly, Fetch, TypeOK, Place, Windowing
<1>3. Polled'
  BY <1>1 DEF FetchUndecodable, FetchScoredOnly, Fetch, Safe, Polled, Windowing, Shot
<1>4. Safe'
  BY <1>3, Aside DEF FetchUndecodable, FetchScoredOnly, Fetch, Writing, Booting
<1> QED BY <1>2, <1>4

\* A new path is the next one: no row, file or deletion has it.
LEMMA FetchArchivedInv ==
    ASSUME IInv, NEW c \in Cameras, NEW i \in Images, FetchArchived(c, i)
    PROVE  IInv'
<1> USE DEF IInv, run, ghosts, files
<1>1. c \in fetchers BY DEF FetchArchived, Fetch, NextTodo, Safe, Polled, Windowing
<1> DEFINE m == [camera |-> c, date |-> date, image |-> i, first |-> c \notin fetched]
<1>2. m \in Meta BY DEF Meta, TypeOK
<1>3. /\ meta' \in Seq(Meta) /\ Len(meta') = Len(meta) + 1
      /\ DOMAIN meta' = DOMAIN meta \cup {Len(meta')} /\ Len(meta') \notin DOMAIN meta
      /\ \A p \in DOMAIN meta : meta'[p] = meta[p]
  BY <1>2 DEF FetchArchived, TypeOK
<1>4. Len(meta') <= MaxFrames /\ Len(meta') \in Path
  BY <1>3, NumberAssumption DEF FetchArchived, TypeOK, Path
<1>5. /\ lastPath' \in [Cameras -> Path \cup {NoPath}] /\ Newest' = Len(meta')
      /\ current' \in Shot
  BY <1>4 DEF FetchArchived, TypeOK, Newest, Shot
<1>6. TypeOK'
  <2>1. seen' \in [Cameras -> Images \cup {None}] /\ fetched' \subseteq fetchers'
    BY <1>1 DEF FetchArchived, Fetch, TypeOK
  <2>2. current' \in Sample BY <1>5 DEF Shot, Sample
  <2>3. troubles' \in 0..MaxTroubles BY DEF FetchArchived, Sound, TypeOK
  <2> QED
    BY <2>1, <2>2, <2>3, <1>3, <1>4, <1>5
       DEF FetchArchived, Fetch, TypeOK, Place, Windowing
<1>7. Polled' BY <1>5 DEF FetchArchived, Fetch, Safe, Polled, Windowing
<1>8. Fresh' BY <1>3, <1>5 DEF FetchArchived, Fetch, Safe, Fresh, Writing, Doomed, TypeOK
<1>9. Doomed' BY <1>3 DEF FetchArchived, Fetch, Safe, Doomed, TypeOK
<1>10. Listed' /\ Deleting' /\ Swept'
  BY DEF FetchArchived, Fetch, Safe, Listed, Deleting, Swept, Booting
<1>11. RowHasFile' BY DEF FetchArchived, Fetch, Safe, RowHasFile
<1> QED BY <1>6, <1>7, <1>8, <1>9, <1>10, <1>11 DEF Safe

LEMMA WriteInv == ASSUME IInv, WriteTemp \/ Rename \/ InsertFrame PROVE IInv'
<1> USE DEF IInv, table, files, run, ghosts
<1>1. /\ current \in Shot
      /\ Newest \in DOMAIN meta /\ Newest \notin rows \cup delete.paths
      /\ pc \in Writing
  BY DEF WriteTemp, Rename, InsertFrame, Safe, Polled, Fresh, Windowing, Writing
<1>2. TypeOK'
  <2>1. troubles' \in 0..MaxTroubles
    BY FaultType, SoundType DEF WriteTemp, Rename, InsertFrame
  <2>2. over' \in Nat BY DEF WriteTemp, Rename, InsertFrame, TypeOK
  <2> QED BY <1>1, <2>1, <2>2 DEF WriteTemp, Rename, InsertFrame, TypeOK, Place, Windowing
<1>3. Polled' BY <1>1 DEF WriteTemp, Rename, InsertFrame, Safe, Polled, Windowing
<1>4. Newest' = Newest BY DEF WriteTemp, Rename, InsertFrame, Newest
<1>5. Fresh'
  BY <1>1, <1>4 DEF WriteTemp, Rename, InsertFrame, Safe, Fresh, Writing
<1>6. Doomed' BY <1>1 DEF WriteTemp, Rename, InsertFrame, Safe, Doomed
<1>7. Listed' /\ Deleting' /\ Swept'
  BY <1>1 DEF WriteTemp, Rename, InsertFrame, Safe, Listed, Deleting, Swept, Booting
\* A row is inserted for a file that is in its place.
<1>8. RowHasFile' BY DEF WriteTemp, Rename, InsertFrame, Safe, Fresh, RowHasFile
<1> QED BY <1>2, <1>3, <1>5, <1>6, <1>7, <1>8 DEF Safe

-----------------------------------------------------------------------------
(* The sweep *)

LEMMA BootInv == ASSUME IInv, Boot \/ BootDone PROVE IInv'
<1> USE DEF IInv, table, files, run, ghosts
<1>1. 0 \in Date BY NumberAssumption DEF Date
<1>2. TypeOK' BY <1>1 DEF Boot, BootDone, TypeOK, Place, Booting
<1>3. Polled' BY DEF Boot, BootDone, Safe, Polled, Windowing
<1>4. pc' \in Booting => pc \in Booting \/ delete = NoDelete
  BY DEF Boot, BootDone, Safe, Deleting, Booting
<1>5. Safe' BY <1>3, <1>4, Aside DEF Boot, BootDone, Writing, Booting
<1> QED BY <1>2, <1>5

LEMMA ListInv == ASSUME IInv, ListKnown \/ ListRows PROVE IInv'
<1> USE DEF IInv, table, files, run, ghosts
<1>1. TypeOK' BY PathType DEF ListKnown, ListRows, TypeOK, Place, Booting
<1>2. Polled' BY DEF ListKnown, ListRows, Safe, Polled, Windowing
<1>3. Fresh' /\ Doomed' BY DEF ListKnown, ListRows, Safe, Fresh, Writing, Doomed
<1>4. Listed' BY DEF ListKnown, ListRows, Safe, Listed
<1>5. Deleting' BY DEF ListKnown, ListRows, Safe, Deleting, Booting
<1>6. Swept' BY DEF ListKnown, ListRows, Safe, Swept
<1>7. RowHasFile' BY DEF ListKnown, ListRows, Safe, RowHasFile
<1> QED BY <1>1, <1>2, <1>3, <1>4, <1>5, <1>6, <1>7 DEF Safe

\* A file that is removed has no row: the snapshot has every row there is.
LEMMA SweepFileInv == ASSUME IInv, NEW p \in Path, SweepFile(p) PROVE IInv'
<1> USE DEF IInv, files, SweepFile
<1>1. disk' \subseteq disk /\ temps' \subseteq temps /\ disk \ disk' \subseteq {p}
  OBVIOUS
<1>2. disk' = disk \/ p \notin rows BY DEF Safe, Fresh, Listed
<1>3. TypeOK'
  <2>1. troubles' \in 0..MaxTroubles BY FaultType, SoundType DEF TypeOK
  <2>2. left' \subseteq Path BY DEF TypeOK
  <2> QED BY <1>1, <2>1, <2>2 DEF table, run, TypeOK
<1>4. Polled' BY DEF run, Safe, Polled, Windowing
<1>5. Fresh' /\ Doomed' BY DEF table, run, Safe, Fresh, Writing, Doomed
<1>6. Listed' /\ Deleting' BY DEF table, Safe, Listed, Deleting, Booting
<1>7. Swept' BY <1>1 DEF table, Safe, Swept
<1>8. RowHasFile' BY <1>1, <1>2 DEF table, Safe, RowHasFile
<1> QED BY <1>3, <1>4, <1>5, <1>6, <1>7, <1>8 DEF Safe

LEMMA StatRowInv == ASSUME IInv, NEW p \in Path, StatRow(p) PROVE IInv'
<1> USE DEF IInv, files, run, StatRow
<1>1. TypeOK'
  <2>1. troubles' \in 0..MaxTroubles BY FaultType, SoundType DEF TypeOK
  <2> QED BY <2>1 DEF TypeOK
<1>2. Polled' BY DEF Safe, Polled, Windowing
<1>3. Fresh' /\ Doomed' BY DEF Safe, Fresh, Writing, Doomed
<1>4. Listed' /\ Deleting' /\ Swept' BY DEF Safe, Listed, Deleting, Booting, Swept
<1>5. RowHasFile' BY DEF Safe, RowHasFile
<1> QED BY <1>1, <1>2, <1>3, <1>4, <1>5 DEF Safe

-----------------------------------------------------------------------------
(* The operator and the environment *)

LEMMA DeleteBeginInv == ASSUME IInv, NEW c \in Cameras, DeleteBegin(c) PROVE IInv'
<1> USE DEF IInv, table, files, run, ghosts, DeleteBegin
<1> DEFINE gone == {p \in rows : meta[p].camera = c}
<1>1. delete' = [at |-> "cascade", camera |-> c, paths |-> gone] /\ gone \subseteq Path
  BY PathType DEF TypeOK
<1>2. TypeOK' BY <1>1 DEF TypeOK, Delete
<1>3. Polled' BY DEF Safe, Polled, Windowing
<1>4. Fresh' BY <1>1 DEF Safe, Fresh, Writing, Newest
<1>5. Doomed' BY <1>1 DEF Doomed, TypeOK
<1>6. Listed' /\ RowHasFile' BY DEF Safe, Listed, RowHasFile
<1>7. Deleting' BY <1>1 DEF Deleting
<1>8. Swept' BY <1>1 DEF Safe, Swept, NoDelete
<1> QED BY <1>2, <1>3, <1>4, <1>5, <1>6, <1>7, <1>8 DEF Safe

\* Rows go before files; a transaction that fails forgets the list of files.
LEMMA DeleteCascadeInv == ASSUME IInv, DeleteCascade PROVE IInv'
<1> USE DEF IInv, files, run, ghosts
<1>1. CASE /\ DropRows({p \in rows : meta[p].camera = delete.camera})
           /\ cameras' = cameras \ {delete.camera}
           /\ delete' = Rest(delete.paths) /\ Sound
  <2> USE DEF DropRows
  <2>1. delete.paths \in SUBSET Path BY DEF TypeOK, Delete
  <2>2. /\ delete' \in Delete /\ delete'.paths = delete.paths /\ delete'.at # "cascade"
    BY <1>1, <2>1, RestType
  <2>3. delete.paths \cap rows' = {} BY <1>1 DEF DeleteCascade, Safe, Doomed
  <2>4. TypeOK' BY <1>1, <2>2 DEF DeleteCascade, TypeOK, Sound
  <2>5. Polled' BY DEF DeleteCascade, Safe, Polled, Windowing
  <2>6. Fresh' BY <1>1, <2>2 DEF DeleteCascade, Safe, Fresh, Writing, Newest
  <2>7. Doomed' BY <2>2, <2>3 DEF DeleteCascade, Safe, Doomed
  <2>8. Listed' /\ RowHasFile' BY <1>1 DEF DeleteCascade, Safe, Listed, RowHasFile
  <2>9. Deleting' BY <2>2 DEF DeleteCascade, Safe, Deleting, NoDelete
  <2>10. Swept' BY <1>1, <2>2 DEF DeleteCascade, Safe, Deleting, Swept, Booting
  <2> QED BY <2>4, <2>5, <2>6, <2>7, <2>8, <2>9, <2>10 DEF Safe
<1>2. CASE Fault /\ delete' = NoDelete /\ UNCHANGED <<cameras, rows, missing>>
  <2>1. TypeOK' BY <1>2, FaultType DEF DeleteCascade, TypeOK, Delete, NoDelete
  <2>2. Polled' BY DEF DeleteCascade, Safe, Polled, Windowing
  <2>3. Fresh' /\ Doomed'
    BY <1>2 DEF DeleteCascade, Safe, Fresh, Writing, Newest, Doomed, NoDelete
  <2>4. Listed' /\ RowHasFile' BY <1>2 DEF DeleteCascade, Safe, Listed, RowHasFile
  <2>5. Deleting' BY <1>2 DEF DeleteCascade, Deleting, NoDelete
  <2>6. Swept' BY <1>2 DEF DeleteCascade, Safe, Deleting, Swept, NoDelete
  <2> QED BY <2>1, <2>2, <2>3, <2>4, <2>5, <2>6 DEF Safe
<1> QED BY <1>1, <1>2 DEF DeleteCascade

LEMMA DeleteFileInv == ASSUME IInv, NEW p \in Path, DeleteFile(p) PROVE IInv'
<1> USE DEF IInv, table, run, DeleteFile
<1>1. delete.paths \ {p} \in SUBSET Path BY DEF TypeOK, Delete
<1>2. /\ delete' \in Delete /\ delete'.paths = delete.paths \ {p} /\ delete'.at # "cascade"
  BY <1>1, RestType
<1>3. disk' \subseteq disk /\ disk \ disk' \subseteq {p} /\ p \notin disk' \ left'
  OBVIOUS
<1>4. p \notin rows /\ p \in DOMAIN meta BY DEF Safe, Doomed
<1>5. TypeOK'
  <2>1. troubles' \in 0..MaxTroubles BY FaultType, SoundType
  <2>2. left' \subseteq Path BY DEF TypeOK
  <2> QED BY <1>2, <1>3, <2>1, <2>2 DEF TypeOK
<1>6. Polled' BY DEF Safe, Polled, Windowing
<1>7. Fresh'
  BY <1>2, <1>3 DEF Safe, Fresh, Writing, Newest
<1>8. Doomed' BY <1>2 DEF Safe, Doomed
<1>9. Listed' /\ RowHasFile' BY <1>3, <1>4 DEF Safe, Listed, RowHasFile
<1>10. Deleting' BY <1>2 DEF Safe, Deleting, NoDelete
<1>11. Swept' BY <1>2, <1>3 DEF Safe, Swept
<1> QED BY <1>5, <1>6, <1>7, <1>8, <1>9, <1>10, <1>11 DEF Safe

LEMMA TroubleInv == ASSUME IInv, Crash \/ (\E p \in Path : LoseFile(p)) PROVE IInv'
<1> USE DEF IInv
<1>1. CASE Crash
  <2> USE <1>1 DEF Crash, table, files
  <2>1. 0 \in Date /\ troubles' \in 0..MaxTroubles BY NumberAssumption, FaultType DEF Date
  <2>2. TypeOK' BY <2>1, ForgetType DEF TypeOK, Place, Delete, NoDelete
  <2>3. Polled' BY ForgetType DEF Polled, Windowing
  <2>4. Fresh' /\ Doomed' BY DEF Safe, Fresh, Writing, Doomed, NoDelete
  <2>5. Listed' /\ Deleting' /\ Swept' BY DEF Listed, Deleting, Booting, Swept
  <2>6. RowHasFile' BY DEF Safe, RowHasFile
  <2> QED BY <2>2, <2>3, <2>4, <2>5, <2>6 DEF Safe
<1>2. CASE \E p \in Path : LoseFile(p)
  <2>1. PICK p \in Path : LoseFile(p) BY <1>2
  <2> USE <2>1 DEF LoseFile, table, run
  <2>2. TypeOK' BY FaultType DEF TypeOK
  <2>3. Polled' BY DEF Safe, Polled, Windowing
  <2>4. Fresh' /\ Doomed' BY DEF Safe, Fresh, Writing, Newest, Doomed
  <2>5. Listed' /\ Deleting' /\ Swept' BY DEF Safe, Listed, Deleting, Booting, Swept
  <2>6. RowHasFile' BY DEF Safe, RowHasFile
  <2> QED BY <2>2, <2>3, <2>4, <2>5, <2>6 DEF Safe
<1> QED BY <1>1, <1>2

-----------------------------------------------------------------------------
LEMMA StepInv == ASSUME IInv, [Next]_vars PROVE IInv'
<1>1. CASE Sweep
  <2>1. CASE Boot \/ BootDone BY <2>1, BootInv
  <2>2. CASE BootRetention BY <2>2, RetentionInv
  <2>3. CASE ListKnown \/ ListRows BY <2>3, ListInv
  <2>4. CASE \E p \in Path : SweepFile(p) \/ StatRow(p) BY <2>4, SweepFileInv, StatRowInv
  <2> QED BY <1>1, <2>1, <2>2, <2>3, <2>4 DEF Sweep
<1>2. CASE TickRetention BY <1>2, RetentionInv
<1>3. CASE Capture
  <2>1. CASE BeginWindow \/ NextPoll \/ EndWindow \/ CheckDisk \/ Quiet \/ Go BY <2>1, WindowInv
  <2>2. CASE \E c \in Cameras : FetchNothing(c)
    BY <2>2, FetchNothingInv
  <2>3. CASE \E c \in Cameras : \E i \in Images : \/ FetchUndecodable(c, i)
                                                \/ FetchArchived(c, i)
                                                \/ FetchScoredOnly(c, i)
    BY <2>3, FetchInv, FetchArchivedInv
  <2>4. CASE WriteTemp \/ Rename \/ InsertFrame BY <2>4, WriteInv
  <2> QED BY <1>3, <2>1, <2>2, <2>3, <2>4 DEF Capture
<1>4. CASE Admin BY <1>4, DeleteBeginInv, DeleteCascadeInv, DeleteFileInv DEF Admin
<1>5. CASE Environment BY <1>5, ClockInv, TroubleInv DEF Environment
<1>6. CASE UNCHANGED vars
  BY <1>6 DEF vars, table, files, run, ghosts, IInv, TypeOK, Safe, Polled, Fresh, Newest, Doomed,
              Listed, Deleting, Swept, RowHasFile
<1> QED BY <1>1, <1>2, <1>3, <1>4, <1>5, <1>6 DEF Next

LEMMA Inductive == Spec => []IInv
BY InitInv, StepInv, PTL DEF Spec

\* Every variable stays within its type: rows, files and deletions name paths
\* that were taken, and the row of a missing file is a row.
THEOREM TypeCorrect == Spec => []TypeOK
BY Inductive, PTL DEF IInv

\* Whatever crashes, fails or is deleted, at every step between the renames,
\* inserts and removals, a row that is not marked missing has its file unless
\* the file was lost from outside since the last sweep.
THEOREM RowsHaveFiles == Spec => []RowHasFile
BY Inductive, PTL DEF IInv, Safe

\* After its walk the sweep has left no temporary file and no file without a
\* row, but what it could not remove and what a deletion has still to remove.
THEOREM SweepComplete == Spec => []SweptClean
<1>1. IInv => SweptClean BY DEF IInv, Safe, Swept, SweptClean
<1> QED BY <1>1, Inductive, PTL

-----------------------------------------------------------------------------
(* The retention marker, the pause on a low disk, the picture of a GO and  *)
(* the seeding of a resumed run.                                           *)

\* The window belongs to the present date, and no marker is ahead of the clock.
Dated ==
    /\ pc \in Windowing => date = today
    /\ date <= today
    /\ retained # NoDate => retained <= today
    /\ RetentionKept

\* The frame written to a full disk is the one after which the run looks.
Paused ==
    /\ pc \in Writing => ~lowDisk
    /\ over <= 1
    /\ over = 1 => full /\ (pc \in {"insert", "statfs"} \/ lowDisk)

\* The frame in hand, while it is being written and until a low disk is met,
\* is the newest path; the picture of a GO stays where it is.
Archived == pc \in Writing \cup {"statfs"} \/ (pc = "trigger" /\ ~lowDisk)
Pictured ==
    /\ Archived => /\ Newest \in DOMAIN meta
                   /\ meta[Newest].camera = current.camera
                   /\ meta[Newest].image = current.image
                   /\ meta[Newest].date = date
    /\ \A d \in Date : go[d].path # NoPath => go[d].path \in DOMAIN meta
    /\ GoShowsTheFrame

\* A camera the run has no image of yet, and whose newest stored frame it has
\* looked up, is compared with that frame.
Seeded ==
    /\ pc \in Windowing =>
           \A c \in fetchers \ (fetched \cup blind) : PreviousSHA(c) \subseteq {seen[c]}
    /\ pc \in Writing => current.camera \in fetched
    /\ pc \in Writing /\ meta[Newest].first /\ current.camera \notin blind =>
           meta[Newest].image \notin PreviousSHA(current.camera)

RunInv == Dated /\ Paused /\ Pictured /\ Seeded

-----------------------------------------------------------------------------
LEMMA Numbers == /\ Date \subseteq Nat /\ Path \subseteq Nat /\ NoPath \notin Path
                 /\ Keep \in Nat /\ NoDate \notin Date
<1>1. LastDate \in Nat /\ MaxFrames \in Nat /\ Keep \in Nat BY NumberAssumption
<1>2. Date \subseteq Nat BY <1>1 DEF Date
<1>3. NoDate \notin Date BY <1>1 DEF Date, NoDate
<1>4. Path \subseteq Nat /\ NoPath \notin Path BY <1>1 DEF Path, NoPath
<1> QED BY <1>1, <1>2, <1>3, <1>4

LEMMA MetaType == ASSUME TypeOK, NEW p \in DOMAIN meta
                  PROVE  /\ meta[p].camera \in Cameras /\ meta[p].image \in Images
                         /\ meta[p].date \in Date
<1>1. meta[p] \in Meta BY DEF TypeOK
<1> QED BY <1>1 DEF Meta

\* The frame PreviousFrameSHA finds is the one with the greatest number.
LEMMA OnePrevious ==
    ASSUME TypeOK, NEW c \in Cameras PROVE PreviousSHA(c) \subseteq {Seed(c)}
<1>1. Stored(c) \subseteq Nat BY PathType, Numbers DEF TypeOK, Stored
<1>2. \A p, q \in Stored(c) :
         (\A o \in Stored(c) : o <= p) /\ (\A o \in Stored(c) : o <= q) => p = q
  BY <1>1
<1>3. \A i, j \in PreviousSHA(c) : i = j BY <1>2 DEF PreviousSHA
<1> QED BY <1>3 DEF Seed

\* A transaction that drops all the rows of a camera, or none, leaves every
\* other camera the newest frame it had.
LEMMA DropKeepsPrevious ==
    ASSUME NEW k, NEW c, meta' = meta, DropRows({p \in rows : meta[p].camera = k})
    PROVE  PreviousSHA(c)' \subseteq PreviousSHA(c)
<1>1. CASE c = k
  <2>1. Stored(c)' = {} BY <1>1 DEF Stored, DropRows
  <2> QED BY <2>1 DEF PreviousSHA
<1>2. CASE c # k
  <2>1. Stored(c)' = Stored(c) BY <1>2 DEF Stored, DropRows
  <2> QED BY <2>1 DEF PreviousSHA
<1> QED BY <1>1, <1>2

LEMMA RunInit == Init => RunInv
<1> SUFFICES ASSUME Init PROVE RunInv OBVIOUS
<1> USE DEF Init, Windowing, Writing
<1>1. Dated BY NumberAssumption DEF Dated, RetentionKept, NoDate
<1>2. Paused BY DEF Paused
<1>3. Pictured BY DEF Pictured, Archived, GoShowsTheFrame, NoAlert
<1>4. Seeded BY DEF Seeded
<1> QED BY <1>1, <1>2, <1>3, <1>4 DEF RunInv

-----------------------------------------------------------------------------
(* Steps after which no window is open *)

LEMMA Outside ==
    ASSUME RunInv, Dated', pc' \notin Windowing, UNCHANGED <<meta, go>>,
           over' = 0 \/ (UNCHANGED <<over, full, lowDisk>> /\ pc \notin Windowing)
    PROVE  RunInv'
<1> USE DEF RunInv, Windowing, Writing
<1>1. Paused' BY DEF Paused
<1>2. Pictured' BY DEF Pictured, Archived, GoShowsTheFrame
<1>3. Seeded' BY DEF Seeded
<1> QED BY <1>1, <1>2, <1>3

LEMMA RetentionRun == ASSUME IInv, RunInv, TickRetention \/ BootRetention PROVE RunInv'
<1> USE DEF IInv, files, run, ghosts
<1>1. PICK d \in Date : /\ Retention(d) /\ d <= today
                        /\ UNCHANGED <<today, date, meta>>
  BY Numbers DEF TickRetention, BootRetention, TypeOK, RunInv, Dated
<1>2. rows' \subseteq rows BY <1>1, RetentionType
<1>3. retained' # NoDate => retained' <= today
  BY <1>1, Numbers DEF RunInv, Dated, Retention
<1>4. RetentionKept'
  BY <1>1, <1>2, Numbers DEF RunInv, Dated, RetentionKept, Retention, DropRows, Old
<1>5. pc' \notin Windowing BY DEF TickRetention, BootRetention, Windowing
<1>6. Dated' BY <1>1, <1>3, <1>4, <1>5 DEF RunInv, Dated
<1> QED BY <1>5, <1>6, Outside DEF TickRetention, BootRetention, Windowing

LEMMA SweepRun ==
    ASSUME IInv, RunInv,
           \/ Boot \/ ListKnown \/ ListRows \/ BootDone
           \/ \E p \in Path : SweepFile(p) \/ StatRow(p)
    PROVE  RunInv'
<1> USE DEF table, files, run, ghosts
<1>1. /\ UNCHANGED <<today, retained, meta, rows, go, over, full, lowDisk>>
      /\ date' \in {date, today, 0} /\ pc' \notin Windowing /\ pc \notin Windowing
  BY DEF Boot, ListKnown, ListRows, BootDone, SweepFile, StatRow, Windowing
<1>2. date' <= today BY <1>1, Numbers DEF IInv, TypeOK, RunInv, Dated
<1>3. Dated' BY <1>1, <1>2 DEF RunInv, Dated, RetentionKept, Old
<1> QED BY <1>1, <1>3, Outside

LEMMA LeaveRun == ASSUME IInv, RunInv, EndWindow \/ Crash PROVE RunInv'
<1> USE DEF table, files
<1>1. /\ UNCHANGED <<today, retained, meta, rows, go>> /\ over' = 0 /\ date' = 0
      /\ pc' \notin Windowing
  BY DEF EndWindow, Crash, Forget, Windowing
<1>2. Dated' BY <1>1, Numbers DEF IInv, TypeOK, RunInv, Dated, RetentionKept, Old
<1> QED BY <1>1, <1>2, Outside

-----------------------------------------------------------------------------
(* Steps at any time *)

\* The operator's steps and the loss of a file: at most a camera's rows go.
LEMMA AdminRun == ASSUME IInv, RunInv, Admin \/ (\E p \in Path : LoseFile(p)) PROVE RunInv'
<1> USE DEF table, files, run, ghosts
<1>1. /\ UNCHANGED <<today, retained, meta, go, full, pc, date, fetchers, blind, seen, fetched,
                     lastPath, lowDisk, current, over>>
      /\ UNCHANGED <<rows, missing>> \/ DropRows({p \in rows : meta[p].camera = delete.camera})
  BY DEF Admin, DeleteBegin, DeleteCascade, DeleteFile, LoseFile
<1>2. rows' \subseteq rows BY <1>1 DEF DropRows
<1>3. \A c : PreviousSHA(c)' \subseteq PreviousSHA(c)
  <2>1. CASE UNCHANGED <<rows, missing>> BY <1>1, <2>1 DEF PreviousSHA, Stored
  <2>2. CASE DropRows({p \in rows : meta[p].camera = delete.camera})
    BY <1>1, <2>2, DropKeepsPrevious
  <2> QED BY <1>1, <2>1, <2>2
<1>4. Dated' BY <1>1, <1>2 DEF RunInv, Dated, RetentionKept, Old
<1>5. Paused' BY <1>1 DEF RunInv, Paused
<1>6. Pictured' BY <1>1 DEF RunInv, Pictured, Archived, Newest, GoShowsTheFrame
<1>7. Seeded' BY <1>1, <1>3 DEF RunInv, Seeded, Newest
<1> QED BY <1>4, <1>5, <1>6, <1>7 DEF RunInv

\* The marker is of an earlier date as soon as the date changes.
LEMMA ClockRun == ASSUME IInv, RunInv, NextDate \/ DiskTurns PROVE RunInv'
<1> USE DEF table, files, run, ghosts
<1>1. Dated'
  <2>1. CASE NextDate
    <3>1. /\ today' = today + 1 /\ today \in Nat /\ date' \in Nat
          /\ retained' # NoDate => retained' \in Nat
          /\ today' # NoDate
      BY <2>1, Numbers, NumberAssumption DEF NextDate, IInv, TypeOK, NoDate
    <3>2. (retained' # NoDate => retained' <= today) /\ date' <= today /\ pc' \notin Windowing
      BY <2>1 DEF NextDate, RunInv, Dated
    <3>3. retained' # today' BY <3>1, <3>2
    <3> QED BY <3>1, <3>2, <3>3 DEF Dated, RetentionKept
  <2>2. CASE DiskTurns BY <2>2 DEF DiskTurns, RunInv, Dated, RetentionKept, Old
  <2> QED BY <2>1, <2>2
<1>2. Paused' BY DEF NextDate, DiskTurns, RunInv, Paused
<1>3. Pictured' /\ Seeded'
  BY DEF NextDate, DiskTurns, RunInv, Pictured, Archived, Newest, GoShowsTheFrame, Seeded,
         PreviousSHA, Stored
<1> QED BY <1>1, <1>2, <1>3 DEF RunInv

-----------------------------------------------------------------------------
(* Steps of the window *)

\* A run that begins, late or resumed, takes each camera's newest frame, unless
\* it fails to read it, for the last one it saw.
LEMMA BeginRun == ASSUME IInv, RunInv, BeginWindow PROVE RunInv'
<1> USE DEF BeginWindow, table, files
<1>1. Dated' BY Numbers DEF IInv, TypeOK, RunInv, Dated, RetentionKept, Old
<1>2. Paused' BY DEF Paused, Writing
<1>3. Pictured' BY DEF RunInv, Pictured, Archived, Writing, GoShowsTheFrame
<1>4. Seeded'
  <2>1. \A c \in fetchers' \ blind' : c \in Cameras /\ seen'[c] = Seed(c) BY DEF IInv, TypeOK
  <2>2. \A c \in fetchers' \ blind' : PreviousSHA(c)' \subseteq {seen'[c]}
    BY <2>1, OnePrevious DEF IInv, PreviousSHA, Stored
  <2> QED BY <2>2 DEF Seeded, Writing
<1> QED BY <1>1, <1>2, <1>3, <1>4 DEF RunInv

LEMMA PollRun ==
    ASSUME IInv, RunInv, NextPoll \/ Quiet \/ (\E c \in Cameras : FetchNothing(c))
    PROVE  RunInv'
<1> USE DEF table, files, run, ghosts
<1>1. /\ UNCHANGED <<today, retained, meta, rows, missing, go, full, date, fetchers, blind, seen,
                     fetched, lowDisk, over>>
      /\ pc \in {"poll", "trigger"} /\ pc' = "poll"
  BY DEF NextPoll, Quiet, FetchNothing
<1>2. Dated' BY <1>1 DEF RunInv, Dated, Windowing, RetentionKept, Old
<1>3. Paused' BY <1>1 DEF RunInv, Paused, Writing
<1>4. Pictured' BY <1>1 DEF RunInv, Pictured, Archived, Writing, GoShowsTheFrame
<1>5. Seeded' BY <1>1 DEF RunInv, Seeded, Windowing, Writing, PreviousSHA, Stored
<1> QED BY <1>2, <1>3, <1>4, <1>5 DEF RunInv

LEMMA ScoreRun ==
    ASSUME IInv, RunInv, NEW c \in Cameras, NEW i \in Images,
           FetchUndecodable(c, i) \/ FetchScoredOnly(c, i)
    PROVE  RunInv'
<1> USE DEF files, ghosts, FetchUndecodable, FetchScoredOnly, Fetch
<1>1. Dated' BY DEF RunInv, Dated, Windowing, RetentionKept, Old
<1>2. Paused' BY DEF RunInv, Paused, Writing
<1>3. Pictured' BY DEF RunInv, Pictured, Archived, Writing, GoShowsTheFrame
<1>4. Seeded'
  <2>1. \A b \in fetchers' \ fetched' : b \in fetchers \ fetched /\ b # c BY DEF IInv, TypeOK
  <2>2. \A b \in fetchers' \ fetched' : seen'[b] = seen[b] BY <2>1 DEF IInv, TypeOK
  <2>3. \A b : PreviousSHA(b)' = PreviousSHA(b) BY DEF PreviousSHA, Stored
  <2> QED BY <2>1, <2>2, <2>3 DEF RunInv, Seeded, Windowing, Writing
<1> QED BY <1>1, <1>2, <1>3, <1>4 DEF RunInv

\* The first image a run takes from a camera differs from the stored one.
LEMMA ArchiveRun ==
    ASSUME IInv, RunInv, NEW c \in Cameras, NEW i \in Images, FetchArchived(c, i)
    PROVE  RunInv'
<1> USE DEF files, ghosts, FetchArchived, Fetch
<1> DEFINE m == [camera |-> c, date |-> date, image |-> i, first |-> c \notin fetched]
<1>1. /\ Newest' = Len(meta') /\ Newest' \in DOMAIN meta' /\ meta'[Newest'] = m
      /\ \A p \in DOMAIN meta : p \in DOMAIN meta' /\ meta'[p] = meta[p]
  <2>1. m \in Meta BY DEF IInv, TypeOK, Meta
  <2>2. /\ Len(meta') = Len(meta) + 1 /\ Len(meta') \in DOMAIN meta'
        /\ meta'[Len(meta')] = m
        /\ \A p \in DOMAIN meta : p \in DOMAIN meta' /\ meta'[p] = meta[p]
    BY <2>1 DEF IInv, TypeOK
  <2>3. Newest' = Len(meta') BY DEF IInv, TypeOK, Newest
  <2> QED BY <2>2, <2>3
<1>2. rows \subseteq DOMAIN meta BY DEF IInv, TypeOK
<1>3. \A b : PreviousSHA(b)' = PreviousSHA(b)
  <2>1. \A b : Stored(b)' = Stored(b) BY <1>1, <1>2 DEF Stored
  <2>2. \A b : Stored(b) \subseteq DOMAIN meta BY <1>2 DEF Stored
  <2> QED BY <1>1, <2>1, <2>2 DEF PreviousSHA
<1>4. Dated' BY <1>1, <1>2 DEF RunInv, Dated, Windowing, RetentionKept, Old
<1>5. Paused' BY DEF RunInv, Paused, Writing
<1>6. Pictured'
  <2>1. GoShowsTheFrame' /\ \A d \in Date : go'[d].path # NoPath => go'[d].path \in DOMAIN meta'
    BY <1>1 DEF RunInv, Pictured, GoShowsTheFrame
  <2> QED BY <1>1, <2>1 DEF Pictured
<1>7. Seeded'
  <2>1. \A b \in fetchers' \ fetched' : b \in fetchers \ fetched /\ b # c BY DEF IInv, TypeOK
  <2>2. \A b \in fetchers' \ fetched' : seen'[b] = seen[b] BY <2>1 DEF IInv, TypeOK
  <2>3. c \in fetchers BY DEF IInv, Safe, Polled, Windowing, NextTodo
  <2>4. c \notin fetched \cup blind => i \notin PreviousSHA(c) BY <2>3 DEF RunInv, Seeded, Windowing
  <2>5. \A b \in fetchers' \ (fetched' \cup blind') : PreviousSHA(b)' \subseteq {seen'[b]}
    BY <1>3, <2>1, <2>2 DEF RunInv, Seeded, Windowing
  <2>6. /\ meta'[Newest'].first = (c \notin fetched) /\ meta'[Newest'].image = i
        /\ current'.camera = c /\ blind' = blind
    BY <1>1
  <2>7. (PreviousSHA(current.camera))' = PreviousSHA(c)' BY <2>6 DEF PreviousSHA, Stored
  <2>8. c \in fetched' OBVIOUS
  <2> QED BY <1>3, <2>4, <2>5, <2>6, <2>7, <2>8 DEF Seeded
<1> QED BY <1>4, <1>5, <1>6, <1>7 DEF RunInv

LEMMA WriteRun == ASSUME IInv, RunInv, WriteTemp \/ Rename PROVE RunInv'
<1> USE DEF table, files, run, ghosts
<1>1. UNCHANGED <<today, retained, meta, rows, missing, go, full, date, fetchers, blind, seen,
                  fetched, lastPath, lowDisk, current>>
  BY DEF WriteTemp, Rename
<1>2. /\ pc \in {"write", "rename"} /\ pc' \in {"rename", "insert", "statfs"}
      /\ over' # over => over' = over + 1 /\ full /\ pc' = "insert"
  BY DEF WriteTemp, Rename
<1>3. Dated' BY <1>1, <1>2 DEF RunInv, Dated, Windowing, RetentionKept, Old
\* Nothing has been written since the disk became full: the run would be paused.
<1>4. over = 0 BY <1>2 DEF IInv, TypeOK, RunInv, Paused, Writing
<1>5. Paused' BY <1>1, <1>2, <1>4 DEF RunInv, Paused, Writing
<1>6. Pictured'
  BY <1>1, <1>2 DEF RunInv, Pictured, Archived, Writing, Newest, GoShowsTheFrame
<1>7. Seeded'
  BY <1>1, <1>2 DEF RunInv, Seeded, Windowing, Writing, Newest, PreviousSHA, Stored
<1> QED BY <1>3, <1>5, <1>6, <1>7 DEF RunInv

\* The new row is of the present date and of a camera the run has fetched.
LEMMA InsertRun == ASSUME IInv, RunInv, InsertFrame PROVE RunInv'
<1> USE DEF InsertFrame, files, run, ghosts
<1>1. rows' \subseteq rows \cup {Newest} /\ meta[Newest].date = today
  BY DEF RunInv, Dated, Windowing, Pictured, Archived, Writing
<1>2. Dated'
  <2>1. ~Old(Newest, today) BY <1>1, Numbers DEF Old, IInv, TypeOK
  <2> QED BY <1>1, <2>1 DEF RunInv, Dated, Windowing, RetentionKept, Old
<1>3. Paused' BY DEF RunInv, Paused, Writing
<1>4. Pictured' BY DEF RunInv, Pictured, Archived, Writing, Newest, GoShowsTheFrame
<1>5. Seeded'
  <2>1. current.camera \in fetched /\ meta[Newest].camera = current.camera
    BY DEF RunInv, Pictured, Archived, Writing, Seeded
  <2>2. \A c : c # current.camera => Stored(c)' = Stored(c) BY <1>1, <2>1 DEF Stored
  <2>3. \A c \in fetchers \ fetched : PreviousSHA(c)' = PreviousSHA(c)
    BY <2>1, <2>2 DEF PreviousSHA
  <2> QED BY <2>3 DEF RunInv, Seeded, Windowing, Writing
<1> QED BY <1>2, <1>3, <1>4, <1>5 DEF RunInv

LEMMA LookRun == ASSUME IInv, RunInv, CheckDisk PROVE RunInv'
<1> USE DEF CheckDisk, table, files
<1>1. Dated' BY DEF RunInv, Dated, Windowing, RetentionKept, Old
<1>2. Paused' BY DEF RunInv, Paused, Writing
<1>3. Pictured' BY DEF RunInv, Pictured, Archived, Newest, GoShowsTheFrame
<1>4. Seeded' BY DEF RunInv, Seeded, Windowing, Writing, PreviousSHA, Stored
<1> QED BY <1>1, <1>2, <1>3, <1>4 DEF RunInv

\* While the run is not paused the newest path is the frame that fired.
LEMMA GoRun == ASSUME IInv, RunInv, Go PROVE RunInv'
<1> USE DEF Go, table, files, ghosts
<1>1. Dated' /\ Paused'
  BY DEF RunInv, Dated, Windowing, RetentionKept, Old, Paused, Writing
<1>2. Pictured'
  <2>1. ~lowDisk => /\ Newest \in DOMAIN meta /\ meta[Newest].image = current.image
                    /\ meta[Newest].date = date
    BY DEF RunInv, Pictured, Archived
  <2>2. \A d \in Date : go'[d].path # NoPath =>
           /\ go'[d].path \in DOMAIN meta /\ meta[go'[d].path].image = go'[d].image
           /\ meta[go'[d].path].date = d
    <3> SUFFICES ASSUME NEW d \in Date, go'[d].path # NoPath
                 PROVE  /\ go'[d].path \in DOMAIN meta /\ meta[go'[d].path].image = go'[d].image
                        /\ meta[go'[d].path].date = d
      OBVIOUS
    <3>1. CASE d = date BY <2>1, <3>1 DEF IInv, TypeOK
    <3>2. CASE d # date BY <3>2 DEF IInv, TypeOK, RunInv, Pictured, GoShowsTheFrame
    <3> QED BY <3>1, <3>2
  <2> QED BY <2>2 DEF Pictured, Archived, Writing, GoShowsTheFrame
<1>3. Seeded' BY DEF RunInv, Seeded, Windowing, Writing, PreviousSHA, Stored
<1> QED BY <1>1, <1>2, <1>3 DEF RunInv

LEMMA CaptureRun == ASSUME IInv, RunInv, Capture PROVE RunInv'
<1>1. CASE BeginWindow \/ EndWindow BY <1>1, BeginRun, LeaveRun
<1>2. CASE NextPoll \/ Quiet \/ (\E c \in Cameras : FetchNothing(c)) BY <1>2, PollRun
<1>3. CASE \E c \in Cameras : \E i \in Images : \/ FetchUndecodable(c, i)
                                              \/ FetchArchived(c, i)
                                              \/ FetchScoredOnly(c, i)
  BY <1>3, ScoreRun, ArchiveRun
<1>4. CASE WriteTemp \/ Rename \/ InsertFrame BY <1>4, WriteRun, InsertRun
<1>5. CASE CheckDisk \/ Go BY <1>5, LookRun, GoRun
<1> QED BY <1>1, <1>2, <1>3, <1>4, <1>5 DEF Capture

LEMMA RunStep == ASSUME IInv, RunInv, [Next]_vars PROVE RunInv'
<1>1. CASE Sweep
  <2>1. CASE BootRetention BY <2>1, RetentionRun
  <2>2. CASE \/ Boot \/ ListKnown \/ ListRows \/ BootDone
             \/ \E p \in Path : SweepFile(p) \/ StatRow(p)
    BY <2>2, SweepRun
  <2> QED BY <1>1, <2>1, <2>2 DEF Sweep
<1>2. CASE TickRetention BY <1>2, RetentionRun
<1>3. CASE Capture BY <1>3, CaptureRun
<1>4. CASE Admin \/ (\E p \in Path : LoseFile(p)) BY <1>4, AdminRun
<1>5. CASE NextDate \/ DiskTurns BY <1>5, ClockRun
<1>6. CASE Crash BY <1>6, LeaveRun
<1>7. CASE UNCHANGED vars
  BY <1>7 DEF vars, table, files, run, ghosts, RunInv, Dated, RetentionKept, Old, Paused, Pictured,
              Archived, Newest, GoShowsTheFrame, Seeded, PreviousSHA, Stored
<1> QED BY <1>1, <1>2, <1>3, <1>4, <1>5, <1>6, <1>7 DEF Next, Environment

LEMMA RunInductive == Spec => [](IInv /\ RunInv)
BY RunInit, RunStep, Inductive, PTL DEF Spec

-----------------------------------------------------------------------------
\* Once the marker of retention names the present date no row is past the
\* limit, and none is added: a frame is of the date its window opened on.
THEOREM RetentionHolds == Spec => []RetentionKept
<1>1. RunInv => RetentionKept BY DEF RunInv, Dated
<1> QED BY <1>1, RunInductive, PTL

\* Between a turn of the disk to full and the end of the run one frame is
\* written at most, unless statfs fails.
THEOREM PauseHolds == Spec => []PausesWhenLow
<1>1. RunInv => PausesWhenLow BY DEF RunInv, Paused, PausesWhenLow
<1> QED BY <1>1, RunInductive, PTL

\* The picture sent with a GO is the frame whose score fired it.
THEOREM PictureHolds == Spec => []GoShowsTheFrame
<1>1. RunInv => GoShowsTheFrame BY DEF RunInv, Pictured
<1> QED BY <1>1, RunInductive, PTL

\* The first frame a run stores of a camera is not the one stored last, whatever
\* was deleted, lost or crashed since, unless the run failed to look that up.
THEOREM NoFrameTwice == Spec => NoRearchive
<1>1. ASSUME IInv, RunInv, [Next]_vars
      PROVE  [\A p \in rows' \ rows : meta[p].first =>
                 \/ meta[p].image \notin PreviousSHA(meta[p].camera)
                 \/ meta[p].camera \in blind]_vars
  <2>1. CASE InsertFrame
    <3>1. rows' \subseteq rows \cup {Newest} BY <2>1 DEF InsertFrame
    <3>2. /\ meta[Newest].camera = current.camera
          /\ meta[Newest].first => \/ meta[Newest].image \notin PreviousSHA(current.camera)
                                   \/ current.camera \in blind
      BY <1>1, <2>1 DEF InsertFrame, RunInv, Pictured, Archived, Seeded, Writing
    <3> QED BY <3>1, <3>2
  <2>2. rows' \subseteq rows \/ InsertFrame
    <3> USE DEF table, files
    <3>1. CASE Sweep \/ TickRetention \/ Environment
      BY <1>1, <3>1, RetentionType
         DEF Sweep, Boot, ListKnown, ListRows, BootDone, SweepFile, StatRow, BootRetention,
             TickRetention, IInv, TypeOK, Environment, NextDate, DiskTurns, Crash, LoseFile
    <3>2. CASE Admin BY <3>2 DEF Admin, DeleteBegin, DeleteCascade, DeleteFile, DropRows
    <3>3. CASE Capture
      BY <3>3 DEF Capture, BeginWindow, NextPoll, EndWindow, FetchNothing, FetchUndecodable,
                  FetchArchived, FetchScoredOnly, Fetch, WriteTemp, Rename, CheckDisk, Quiet, Go
    <3>4. CASE UNCHANGED vars BY <3>4 DEF vars
    <3> QED BY <1>1, <3>1, <3>2, <3>3, <3>4 DEF Next
  <2> QED BY <2>1, <2>2
<1> QED BY <1>1, RunInductive, PTL DEF Spec, NoRearchive
=============================================================================
