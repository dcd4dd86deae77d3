# westward in TLA+

Specifications, model-checking runs and machine-checked proofs for westward,
the sunset alert service in this repository: an engine that wakes at a few
times of the day, captures webcam frames around sunset, fires one GO alert,
publishes the best frame of the day, and repairs after a crash whatever the
last process left behind. Everything durable lives in one SQLite file
(`internal/store`, one connection) and one directory tree; everything else is
lost when the process dies. That split is what most of the modules are about.

1. The system and its parts
2. What is modelled, module by module
3. Runs: bounds, fairness, what each shows
4. Proofs
5. Where the code and what is written about it differ
6. Not modelled, and the plan

Run a check with `tlc -config X.cfg M`, a proof with `tlapm M.tla`.
`PROJECT.json` maps each definition to the lines it stands for.

## 1. The system and its parts

| part | source | state | operations |
|---|---|---|---|
| daily schedule | `engine/engine.go` Run, nextEvent, tick | the timer; slot markers `*_last` in the settings table; files under `backups/` | plan, sleep, tick; slots for backup, retention, forecast, heads-up, window |
| capture window | `engine/engine.go` RunWindow | `capture_runs`, `days`, per-camera lastSHA and trigger, lowDisk | insert run, upsert day, poll cameras, write file, insert row, fire GO, finish |
| reconciliation | `engine/reconcile.go` | none of its own | backfill missed days, mark interrupted runs, finalize stuck days, retention, orphan sweep |
| publication | `engine/engine.go` FinalizeDay, `engine/recrop.go` | `days.best_*`, files under `best/` and `best/orig/` | pick, write original, image, thumbnails, sidecar, complete the row; re-crop, delete the old files |
| frame archive | `engine/engine.go`, `engine/fsutil.go`, `engine/reconcile.go`, `webadmin/admin.go` | `frames` rows, files under `frames/` | write-then-insert, retention, camera deletion, sweep |
| GO trigger | `engine/trigger.go` | sliding samples, `fired` | append, evaluate |
| alerts | `engine/alerts.go`, `store` | `alert_events`, `alert_deliveries`, the notifier map | latch, queue, drain, mark, reload, test |
| notifiers | `notify/notify.go` | none | a Send of no, one or two requests, classified as sent, transient or permanent |
| camera sources | `source/http.go`, `source/nyctmc.go` | a limiter per source; back-off and 404 count per camera id | fetch, from the capture loop and from the admin's previews |
| forecasts | `forecast/forecast.go` | observations (append-only) | fetch, score, select |
| store | `store/*.go`, `migrations/` | the SQLite file | single statements and a few transactions |
| admin pages | `webadmin/admin.go` | the documents they edit (notifiers, settings, camera rows, password), and the copies the service runs on | forms, refinalize, recrop, delete, test alert |
| sign-in | `server/server.go`, `server/session.go`, `webadmin/admin.go` | failed attempts per address, sessions, both in memory | guard, login, logout |
| public pages | `webpublic/gallery.go` | none | read-only gallery |
| clock, health, config, ulid, solar, score | the packages of those names | a heartbeat; a fake clock in tests | pure functions mostly |

How they interact. `Engine.Run` is one goroutine that calls Reconcile once and
then alternates between a timer and `tick`; RunWindow and FinalizeDay are
called from it and block it. The alert worker is a second goroutine that sees
the engine only through the alert tables. The admin handlers run on goroutines
of their own and call FinalizeDay, RecropDay, Reload and the store directly,
without a lock that would order them with the engine or with each other. The
previews fetch through the limiters of the camera sources. The program that
wires these parts together is not among the repository's sources; where a
start-up order matters (LoadNotifierDefs, HookAuth, Reconcile) the modules take
the one the packages and their tests imply. The single connection
makes each store statement or transaction atomic, and nothing larger.

What is hard about it:

* every handler is a sequence of durable steps, and the process can die
  between any two (a `docker compose` deployment restarts it,
  `docker-compose.yaml:5`, `restart: unless-stopped`);
* the engine reads the clock once and acts for a while: deadlines pass, dates
  change and windows close under it;
* FinalizeDay, RecropDay, cameraDelete and notifierSave overlap with the
  engine and with each other;
* requests are lost or accepted with their answer lost, and retried;
* files and rows change at different times and have to agree again;
* dates have 23, 24 or 25 hours, and a slot that failed has to be made up for
  within its date;
* the forms write whole documents back that were read a few calls before.

What makes each part correct: *days* - one row per date, settled once, every
date accounted for, no window cut short by a crash; *publication* - a complete
day names files that exist and the right frame, and loses it only for a cause;
*archive* - a row has its file, a file without a row does not outlive the next
start, no image twice; *trigger* - no GO on an outlier or on a sky that no
longer brightens, a GO on a real sunset; *alerts* - one event per key, every
queued delivery concluded, "sent" means received, duplicates only for a cause;
*daily slots* - no slot slept through on any date, each done once, a marker that
tells the truth; *sources* - requests apart, no request begun in a back-off, no
caller stuck; *admin* - a save that loses nothing it did not overlap with, a
service that runs on what is stored; *sign-in* - a throttle that bounds failures
and ends, sessions that last. The hazards behind them are listed with their
lines in `PROJECT.json`.

## 2. What is modelled, module by module

### DayContract, DayLifecycle (daily schedule, window, reconciliation)

`DayContract` says what the `days` table promises: a date gets its row once, as
capturing when the clock has reached it or as missed when it is past, only a
date with a row is settled, and a settled day is never anything but complete or
failed again.

`DayLifecycle` is the engine. `pc` is where its goroutine stands: `Boot...`
actions are Reconcile's statements one by one, `Plan`/`Wake` are nextEvent and
the timer, `TickSlots`/`TickDecide` are tick (which reads the clock into `date`
and `seen` and decides on those), `InsertRun` to `Finish` are RunWindow,
`Read`/`Commit` are the two halves of FinalizeDay: it reads the frame rows
first and updates the days row much later. `call` holds the FinalizeDay calls
in progress, the engine's and the operator's. `Tick` is the clock; it may move
between any two steps of the engine, `MaxLag` instants at most between two
waits. `Crash` forgets everything local, `Cancel` is the context's end, and
`Fault` a store call or disk that fails. Frames are known by the instant they
were stored at; which of them is published is PublishedDay's subject, whether
one can be is decided here (the archive cutoff).

### AlertContract, AlertDelivery (alerts, what Drain sees of the notifiers)

`AlertContract` is the alert tables: one event per key, created with all its
deliveries at once, each delivery concluded once and then left alone.
`AlertDelivery` has the emitters (a trigger per camera, the heads-up slot, the
test alert), the settings' notifier definitions and the manager's map and id
list, which Reload replaces while a drain may be running (`Configured` is the
map before or after: Drain reads it without the lock), and the worker: `Drain`
reads the pending rows, `Send` is one call of a notifier's Send with what it
comes to: one request and its classified answer, a second one without the image
(ntfy), or no request at all (`Refused`: Pushover without its variables or with
an image that does not fit); `Mark` is the update. `sends` counts the calls,
`received` what the outside world accepted.

### Trigger (GO trigger)

Samples of score and gap arrive; `Evaluate` is the conjunction of the code's
gates on three medians: the last three samples, the first five (the baseline)
and the three before the last three. A median is told by counting: at most
half of the window below it, more than half not above it, which is what sorting
and taking the middle returns. `NewTrigger`, `NextSample` and `TriggerSpec` are
one window's trigger from its start. The ratio is a fraction, so that all
arithmetic is on integers, and time is counted in half intervals, so that a gap
can be exactly two intervals or a little more.

### DailySlots (the fixed slots of tick, nextEvent's calendar)

The clock is absolute and `Midnight` says when a date begins, so that dates may
differ in length while nextEvent adds `DayLength` to today's plan to reach
tomorrow's. `Plan` and `Wake` are nextEvent and the start of tick; `Check(k)` is
the test of slot k's time and marker; `Create`, `Vacuum`, `Prune`, `BackupMark`
are Backup and its marker, `Retention` its deletion and marker (and Reconcile's
catch-up, reached by `Restart` and `BootCheck`), `ForecastFirst`, `ForecastSecond`
and `ForecastMark` the forecast round, `HeadsUpMark` and `SendHeadsUp` the heads-up,
whose marker comes first. A failing call fails the heads-up but for one: when
the selected provider has no observation, the error of looking the other's up is
dropped (`engine.go:659`) and the heads-up given up as if there were none
(`Spoiled`, the outcome "unread"). The timer's extra second inside a window or after
yesterday's plan is less than an instant. The capture window is one stay in
`capture`; DayLifecycle has its inside. `planned`, `serving`, `heads` and `glitch`
are history: when nextEvent last read the clock, whether the rest of today is
in the engine's hands, what became of a date's heads-up, whether a marker was lost.

### CameraSource (limiter, back-off, 404 count)

A caller is `idle`, in the `queue` for the limiter's mutex, in the `sleep` it
takes with the mutex held, or has `sent` its request. `Begin` is NYCTMC.Fetch's
test of the back-off and the reading of the clock that HTTP.Fetch passes to Wait
before it stands in line; `Lock` computes the sleep from that reading, `Leave`
notes the time and lets the request go, `Cancel` is the caller's context ending
in the sleep; `Frame`, `Limited`, `Missing` and `Failed` are the answers. The
limiter is per source, the back-off and the count per camera id, so that sources
built for one id share them. Nothing survives the process, so one life of it is
modelled.

### AdminConfig (the documents behind the forms)

Four documents, each a function from its parts to values: the notifiers, the
settings, a camera's row, the password's hash. A handler is its store calls in
order: `Read` the whole, `Write` the form over it, and for the notifiers and the
password tell the running service (`Reread` is HookAuth's second read, `Bind`
the assignment of Auth.Verify or Reload of the manager's map). `ReadFails` and
`WriteFails` follow each handler's own error paths. `settled`, `alone` and
`missed` are history: which documents were last changed by a handler that met no
other one and no failure, and what others stored since a handler read.

### SignIn (guard, login, logout, throttle, sessions)

The requests of one address. `Arrive` and `Refuse` are TooManyFailures, `Deny`
and `RecordFailure` the failed check and its record, two critical sections with
a slow password check between; `Admit` is the rest of the guard, in which the
CSRF token may still be wrong; `Create` sweeps the expired sessions and adds
one, `Revoke` is the logout. A failure and a session are the ticks they still
count; failures are numbered, so that those that count are a set and their
order, which the code never looks at, is left out. `Restart` empties both.

### ImageContract, PublishedDay (FinalizeDay's pick, the files of FinalizeDay and RecropDay)

`ImageContract` says what a date's published image promises: the pages show it
whole or not at all, only a call asked to finalize the date may publish one or
take it away, once, when it concludes, a re-crop shows the same frame under
another crop, and no other step shows. In `PublishedDay` the image shown is the
one the row names, if all four of its files and its original are on disk (`Shown`).

One date after its window. An image is a frame and a crop: the published file
names contain the hash of the bytes, which that pair determines. `call` is the
place of each goroutine inside FinalizeDay or RecropDay: it loads, writes the
original, then the image, two thumbnails and the sidecar one at a time, then
the row, and RecropDay deletes what it has replaced. Ties between cameras of one
role and priority are decided by Go's map order: the model takes any.

What a finalization chooses from is not its own. `post` is a camera's role,
eligibility and priority, `admitted` the frames the cutoff and the darkness floor
let pass: the operator changes them between and during the calls (`EditCamera`,
with the crop; `EditSettings`), deletes a camera with its rows in one transaction
and their files one by one after it (`DeleteCamera`, `DeleteFile`), and frame rows
and files disappear through retention, the sweep and from outside. A row that
names a deleted camera breaks a foreign key (`Known`, `CameraGone`). FinalizeDay's
reads of the settings, the cameras and the frame rows are one step, and so are the
listing and the transaction of cameraDelete, which FrameArchive takes apart. The
history is `barred` (what was not publishable at some time of each
finalization), `outdated` and `superseded` (the calls, and the row, whose frame
was picked before the last change of a post or of the settings).

`RecropAlone` is a constant: TRUE restricts the operators to
re-cropping a date while nothing else works on it.

### FrameArchive (frame files and rows)

A frame is known by its path, numbered in the order uniquePath handed them out.
The capture loop polls the cameras of the snapshot it took at its start
(`fetchers`), compares with `seen` (lastSHA, seeded from the newest ok row
unless that read fails, which is ignored, `engine.go:297`), writes a temporary
file, renames it, inserts the row (which fails, unnoticed, for a deleted camera:
foreign key), looks at the free space and may fire the GO. The operator's
deletion of a camera is three kinds of step: list the paths, one transaction,
remove the files one by one. `Boot...`, `ListKnown`, `SweepFile`, `ListRows`,
`StatRow` are retention and sweepOrphanFrames. The history variables are `lost`
and `left` (files lost from outside, files os.Remove failed on), `blind` (the
cameras whose seed could not be read), `fetched`, and `over` (frames written
since the disk became full). The end of a window is left open; so is whether the
trigger fires.

How they fit together: DayLifecycle's `frames` is the archive's rows reduced to
publishable instants, its `EndFinalize` is PublishedDay's whole write sequence
reduced to its outcome; Trigger decides the `Go` of FrameArchive and the `Fire`
of AlertDelivery, which starts where TryInsertEvent does. DailySlots' `capture`
is DayLifecycle's RunWindow, its `SendHeadsUp` the HeadsUp of AlertDelivery, its
retention FrameArchive's. AdminConfig's `Bind` of the notifiers is the Reload of
AlertDelivery, which has one save at a time and a drain beside it; AdminConfig has two
saves and no drain. FrameArchive's Fetch is a whole Fetch of CameraSource.

The detailed modules name their abstract one: `DayLifecycle!Contract` is
`INSTANCE DayContract`, `AlertDelivery!Contract` is `INSTANCE AlertContract`, with
the tables of the one for the variables of the other, and `KeepsContract`
is the refinement; `PublishedDay!Contract` is `INSTANCE ImageContract` over the
calls in progress, the row's status and `Shown`, and `KeepsImageContract` the
refinement. All three are checked by TLC and proved.

## 3. Runs

| run | module, cfg | result | about |
|---|---|---|---|
| day_lifecycle | MCDayLifecycle, day_lifecycle.cfg | holds | seven properties, three of them temporal |
| day_stop | day_stop.cfg | violated | finding 1 |
| alerts | MCAlertDelivery, alerts.cfg | holds | one recipient, every kind of trouble once |
| alerts_fanout | alerts_fanout.cfg | holds | two recipients, reloads under a drain |
| trigger | MCTrigger, trigger.cfg | holds | all sequences of up to eight samples |
| published | MCPublishedDay, published.cfg | holds | two cameras, three frames, two calls at a time |
| recrop_race | recrop_race.cfg | violated | finding 2 |
| frames | MCFrameArchive, frames.cfg | holds | two cameras, two dates, two troubles |
| slots | MCDailySlots, slots.cfg | holds | three dates of 25, 23 and 24 hours |
| sources | MCCameraSource, sources.cfg | holds | three callers at two sources of one camera id |
| admin | MCAdminConfig, admin.cfg | holds | two handlers on four documents |
| signin | MCSignIn, signin.cfg | holds | two requests at a time |

**day_lifecycle.** Dates 0 and 1, five instants each: 0 is the daily plan, 1 the
retention slot, 2 and 3 the window, 4 the evening; the archive cutoff is 2,
inside the window, so that a frame can be stored too late to be published. Two
crashes, one graceful stop, one failing call, an operator who refinalizes date 0
at any moment, retention of zero days. Two dates are enough for every relation
the code has between dates (today, before today, the next plan); two crashes for
a crash during the repair of a crash. Shows: a capturing day always has a run
and a missed day no frame (`StatusExplained`), complete means published in time
(`PublishedInTime`), only a stop or the operator settles a day early
(`EarlyFinalNeedsStop`), the timer never skips a window (`NeverOversleeps`), a
completed day is left alone (`CompletedStays`), the table keeps its contract
(`KeepsContract`), and a day a starting process finds stuck gets settled
(`EndedDaySettles`).

**alerts, alerts_fanout.** `alerts` has one camera, one recipient, three
attempts and one crash, one lost answer, one failing call and one edit of the
notifiers: "sent" means received, duplicates and attempts are bounded by their
causes, every delivery is concluded. `alerts_fanout` has two recipients, of
which one is not yet defined, and the test alert: what Drain read stays true of
each delivery until it gets there (`BatchFresh`), no delivery is given up
without a call of its notifier's Send but for an edit (`UnsentForCause`), and
the contract. One of each trouble, because the bounds in the properties count
them; two recipients, because a drain that is busy with one meets the change at
the next.

**trigger.** Scores below, at and above the threshold, gaps of exactly two
intervals and of more, eight samples: evaluation begins at five, the three
windows differ from six on, and at eight the recent and the prior window no
longer touch the baseline's first two samples. `NoOutlierFires`: two of the three
newest frames concur; `StillRising`: the sky still brightens;
`SunsetFires`: an undisturbed rise does fire.

**published.** A primary with two frames and a backup with one; two
finalizations, one crash, one failure at any step, a re-crop whenever nothing
else works on the date, retention at any moment. Two edits of any kind: the
primary withdrawn or reinstated, a crop, the cutoff moved before the primary's
best frame, a camera deleted. Two edits let the first decide the pick and the
second fall under the call or before a refinalize; three frames are enough for a
better frame of the same camera, and for another camera to fall back on. The
goroutines are alike (symmetry). Two cameras of one role are left to the proof.
`RowServable`: a complete day has every file its row names. `NothingBetter`: the
published frame is the one the rules name, unless a post or the settings have
changed since it was picked. `NoLitter`: after one finalization and any
re-crops, none of which failed, and no camera deleted, only the published
rendering has files. `KeepsImageContract`: the refinement; four files, a row and
up to four removals are one change of what the pages show, at the row's update.
`ImageLostForCause`: a completed day is failed only after something has failed,
or by a finalization that had the published frame, or the one it had picked
itself, withdrawn before or under it: by retention, by the deletion of its
camera, by its camera's post or by the settings. `recrop_race` lifts
`RecropAlone`.

**frames.** Two cameras, two decodable images and one that is not, two paths,
two dates with a retention of zero days, and two troubles in all, of any kind: a
crash, a failing call or lookup, a lost file, the disk filling or emptying, an
undecodable image. Two paths are a stored frame and the one being stored; two
dates let the first become old. The two decodable images are interchangeable
(symmetry). `RowHasFile`: an ok row has its file, whatever crashed, failed or
was deleted. `SweptClean`: after the walk of the sweep a file without a row is
one a deletion in progress has yet to remove or that could not be removed.
`RetentionKept`: today's marker means that no row is past the limit.
`NoRearchive`: a resumed run does not archive the last stored frame again,
unless it failed to look that frame up. `PausesWhenLow`: a low disk costs a run
one more frame. `GoShowsTheFrame`: a GO's image is the frame that fired it.

**slots.** Dates of 16, 12 and 14 instants stand for 25, 23 and 24 hours, the
time changing between the plan and the backup slot; seven slots a date, two
backups kept, both providers, either one selected; one crash, one failing
step, and one instant of lag. Three dates are one of each length with each of
the others beside it, and more than the backups kept; one crash or failure is
enough to leave a slot half done, and the date's later ticks to make up for it.
`SlotsNotSlept`: the timer fires no later than the next retention, forecast,
heads-up or window start, of this date or the next. `DayServed`: a date that
ends in the engine's hands has all four markers, whatever failed before the
last plan. `RestorePointKept`: the backup marker names a date whose complete
backup, or a later one, is on disk, although unfinished files count among those
kept. `HeadsUpOnce`: one heads-up a date, after the forecast round; it does without the
selected provider's observation only if that never comes, and without any only
if none comes or the other provider's cannot be looked up.

**sources.** The capture loop and two previews, two sources of one camera id;
an interval of 3, a timeout of 2, a back-off of 6 to 8 ticks, three fetches
begun by tick 8. Three callers are one that holds the limiter, one in line with
an old reading of the clock and one that is cancelled or uses the other source.
`RequestsSpaced`, `BackoffHeld` (a request that leaves in a
back-off was asked for before the answer that set it) and `FetchReturns`.

**admin.** Two handlers, three edits, one failing call, one restart; two parts a
document and two values, and a static notifier. Two handlers overlap at every
pair of their steps, and a third edit comes after both. `SavesOnlyItsOwn`: what
a save changes beyond its form was stored by others between its read and its
write. `LiveFollowsStore`: after a change that met no other and no failure the
service runs on what is stored, whatever overlapping changes had left behind.

**signin.** Two requests, two tokens, a limit of two failures in two ticks, a
session of three. `AttemptsBounded`: the failures counted exceed the limit by
one for each request in flight at most. `LockoutEnds`: a throttled address is let in
again, however often it tries. `SessionsKept`: a session ends by its own time,
its own logout or a restart.

**Deadlock** is checked in `signin` only. In the other runs a behaviour ends when
its horizon and its bounds are used up, and an engine asleep at the last date
waits for an instant that is not modelled.

**Fairness** (only where a property needs it). `DayLifecycle!FairSpec`: the
engine's goroutine runs and the container is restarted (weak fairness of
`Engine`, whose first step is Boot), the clock moves (`Tick`), a handler that
has begun finishes (`RefinalizeCommit`). `AlertDelivery!FairSpec`: the worker's
ticker keeps firing (`Worker`), the container is restarted (`Boot`), a save that
began reloads (`Reload`). `CameraSource!Spec`: time passes, sleeps end, a request
ends at its timeout at the latest (weak fairness), and each caller in line gets
a free mutex in the end (strong fairness of `Lock`: Go's mutex goes over to
handing itself on after a waiter's millisecond). `SignIn!FairSpec`: time passes; no
request need be made or finish. Nothing is assumed of crashes, of the operator or of
the network; faults are bounded.

## 4. Proofs

The proofs are for every value of the constants that satisfies the named
assumptions: any number of dates, cameras, recipients, crashes and faults.

**DayLifecycleProofs.** `TypeCorrect`, `DaysExplained`, `NoCrashCutsWindow`,
`ImplementsContract`, `Punctual`, `WakesInTime`, `CompletedLeftAlone`,
`OnlyStopsCut`. The invariant that is inductive is `IInv`, the conjunction of
`TypeOK` with: `OwnRun` (inside the window the run of its date is running),
`NoFuture` (nothing refers to a date the clock has not reached), `CallsMatch`
(who is in FinalizeDay, and about which date), `CutInv` (a capturing day without
a running run has ended, or a stop or the operator is to blame; hence so is
every finalization under way), `RowFirst` (frames are stored only once the day
has its row) and `CapturingHasRun`. `NoCrashCutsWindow` needs `CutInv` because
the decision to finalize and the settling are far apart, with a list of days in
between. The refinement maps each step to a step of DayContract or to a stutter;
only BootBackfill, StartDay and the three commits are steps. `Punctual` adds
that the finalizations under way, too, name a frame stored by the cutoff;
`WakesInTime` shows that a timer just set is due before every window still to
come and that the clock does not change that; `CompletedLeftAlone` that what the
engine is about to settle is not completed, unless by the operator.
`OnlyStopsCut` delimits finding 1: with `MaxStops = 0` the property the run
day_stop violates holds for any crashes, faults, restarts and operators. It adds
`RunsEnd` (a run is closed, or about to be, only when its window is over or
after a stop, and each day on Reconcile's list has a run), so that a day whose
runs are all closed is one whose window is over.

**AlertDeliveryProofs.** `TypeCorrect`, `DrainReadsFresh`, `SentIsTrue`,
`DuplicatesBounded`, `RequestsBounded`, `ImplementsContract`, `GivenUpForCause`. The
inductive invariant is `TypeOK`, `BatchFresh`, `SentWasReceived`, `QueueInv` (rows exist
only for events, the attempt in hand is recorded as what it was) and `Counted`,
which bounds the calls of Send by attempts recorded plus the one in hand plus the
causes for losing one. `GivenUpForCause` (`UnsentForCause`) adds `Unedited`: until
the first edit the settings, the manager and the queue agree on the notifiers,
and the attempt in hand is a call of Send.

**PublishedDayProofs.** `TypeCorrect`, `DayServable`, `BestPublished`,
`RecropReplaces`, `ImageKept`, `LostForCause`. `DayServable`: assuming
`RecropAlone`, `RowServable` always holds. The invariant adds `Alone` (a re-crop
in progress is the only call), and `Written` (a call that has come to file n has
written the files before it, and its own frame's original). Without
`RecropAlone` the theorem is false: finding 2. `BestPublished` (`NothingBetter`)
needs no such assumption: what FinalizeDay picks is outranked by no publishable
frame (`PicksTop`), which stays true while rows are only removed (`TopStays`),
and a change of a post or of the settings makes every running call `outdated`
and the row `superseded`; all other calls carry a frame picked so (`Ranked`).
That a camera with a frame has a candidate, and a role with a candidate a
preferred one, rests on `Minimal`: a strict order on a finite set has a minimal
element, which follows from the library's theorem that strict inclusion of
finite sets is well founded. `RecropReplaces` (`NoLitter`, again under
`RecropAlone`) accounts for each file on disk (`Tidy`): it is the row's, or some
call is making or removing it. `ImageKept`, under `RecropAlone` too, is the
refinement of ImageContract: before the row's update no file the row names is
touched, at it the new image is whole (`Written`), and after it only files the
row does not name are removed; `CropInv` keeps a re-crop's frame that of the
row. `LostForCause` (`ImageLostForCause`) needs no `RecropAlone`: its invariant
`BarInv` says that while nothing has failed every row has its file (files
awaiting removal have no row), that what is not publishable is barred for each
running finalization, and that one on its way to fail the day either found
nothing publishable, so that all is barred, or had its own pick barred under it.
That a finalization which finds something publishable also picks something is
`PicksExist`. It holds for any posts, any settings and any number of edits and
deletions.

**FrameArchiveProofs.** All seven properties of the run `frames`: `TypeCorrect`,
`RowsHaveFiles`, `SweepComplete`, `RetentionHolds`, `PauseHolds`,
`PictureHolds`, `NoFrameTwice`. The first invariant, `Safe`, is about files and
rows: `Polled` (a poll visits the window's cameras), `Fresh` (the path being
written has no row and is on no deletion's list, and has its file before its row
is inserted), `Doomed` (a deletion removes files whose rows are gone), `Listed`
(nothing inserts rows while the sweep compares: the sweep's snapshot has them
all, so what it removes has none), `Deleting` (a deletion that started beside
the sweep lists every row the cascade will drop; it is what keeps `SweptClean`
true when the cascade commits after the walk) and `Swept` (the files the walk
has passed are known or could not be removed). The second, `RunInv`, is about a
run: `Dated`, `Paused` (over a full disk only the frame just renamed is
unnoticed), `Pictured` (the frame in hand is the newest path until a low disk is
met) and `Seeded` (a camera not yet heard from and not `blind` is compared with
its newest stored frame, which no camera deletion can turn into an older one).

**DailySlotsProofs.** `TypeCorrect`, `NoSlotSlept`, `RestorePoint`,
`HeadsUpGuard`, `DaysAreServed`, for any calendar and any slots in the order
`SlotAssumption` names. `NoSlotSlept` rests on `Calendar` (the clock is within
the date) and on `ChangeAssumption`: a time change is shorter than the time from
the plan to retention, which is what makes "plus 24 hours" early enough.
`RestorePoint` adds `Ordered` (no marker names a date to come) and `Making`
(when files are removed the newest one is the date's own complete backup, which
then stays until its marker is set): whatever unfinished files crowd out, a
removal comes after a success. `HeadsUpGuard` adds `Informed` (unless a marker
was lost, a heads-up follows its date's round and marker, and a round goes on
only for a date whose heads-up is still to come), so that what the heads-up does
not find will not come; `Decided` is what follows of each outcome, a failed
lookup of the other provider's observation ("unread") included. `DaysAreServed`
(`DayServed`) adds `Served`: while nothing has failed since nextEvent was
called, tick leaves no due slot behind, and as long as some slot is not done
there is a tick to come by the window's end. It needs `LagAssumption`: a tick's
own steps take less time than the heads-up slot leaves before the window's end,
and the window's end before midnight.

**CameraProofs.** Of CameraSource: `TypeCorrect`, `OneAtATime`, `Polite`,
`BackoffKept`. The invariant is `TypeOK` with `Spaced` (a sleeper holds its
source's mutex, and its sleep ends no earlier than an interval after the last
request), `Sent` (a request left no later than the limiter's last note and is
not past its timeout), `Checked` (a caller in line read the clock outside the
back-off or before the answer that set it) and `OneOutstanding` (no source has
two requests to answer). `TimeAssumption` says that the timeout is shorter than
the interval, as the NYCTMC adapter sets them. Of Trigger: `SamplesCorrect`,
`OutliersIgnored`, `RiseNeeded`, `BrightSkyFires`, for any scores, gaps,
thresholds and number of samples. They rest on `MedianSplits`: an odd window of
any length has a median, one of its scores with at most half of the others on
either side. Hence a median at or above a level puts two of three samples there,
a median under a level three of five, and the other way round.

**AdminConfigProofs.** `TypeCorrect`, `LiveCurrent`, `NothingUndone`, for any
number of handlers, parts and values. The invariant adds `Solitary` (a handler
that met no other one is the only one on its document), `Current` (its copy is
what is stored) and `Agreed` (what a handler's copy and the stored document
differ in was stored by others since).

**SignInProofs.** `TypeCorrect`, `ThrottleBounds`, `SessionsLast`. TooManyFailures and
RecordFailure lock for one call each, so the bound is kept by nobody in
particular; the invariant is `Budget`: the failures that count, together with
the requests let through and not yet judged, are at most the limit and the number of
clients. A request is let in only while the failures are within the limit, and
moves from the one count to the other when its failure is recorded.

Model-checked only: the liveness properties `EndedDaySettles`,
`DeliveriesConclude`, `FetchReturns` and `LockoutEnds`. Each needs fairness, hence
ENABLED, which the prover does not reason about. Every other property of a
passing run is proved.

## 5. Where the code and what is written about it differ

1. **A graceful stop inside the window ends the day** (day_stop). ctx.Done marks the
   run interrupted (`engine.go:393-395`); the next start takes "capturing, no
   running run" for a window that is over (`reconcile.go:103-107`), finalizes,
   and the rest of the sunset is not captured. `OnlyStopsCut` proves that it is
   the only way for Reconcile to do so.
2. **Overlapping re-crops lose the published files** (recrop_race). Re-crops that
   run alone are proved harmless (`DayServable`, `ImageKept`).

Met while modelling, read off the code, with no run of their own:

* Days. If the window ends between MarkInterruptedRuns and the first nextEvent,
  the day stays capturing until another restart (`engine.go:235-245` looks at today's
  row only). Refinalizing a completed day is not idempotent, although
  `admin.go:845-846` says so: once retention has removed the date's frame rows, the
  camera been deleted or made ineligible, or the cutoff or the floor moved past
  what was published, FinalizeDay may find nothing to pick and fails the day
  (`engine.go:474-482`), while its files are still on disk. So does one whose pick
  goes, with its camera, between the choice and the reading of its file, whatever
  else could be published. The dashboard offers the button for other days only;
  the route takes any date. `LostForCause` proves that there is no other way to
  lose an image but a failure.
* Ignored errors. A failing read of the last stored hash (`engine.go:297`) lets a
  resumed run archive that frame again. A failing read of the other provider's
  observation (`engine.go:659`) gives the heads-up up for want of one, although it
  may be stored, and the marker is already set.
* Trigger. The gap before the newest sample is not tested: the loop of
  `trigger.go:63-70` starts one sample too early.
* Alerts. `alerts.go:46-48` promises a back-off of 5s/20s/80s; every drain attempts
  every pending row. A GO whose event cannot be stored is not tried again
  (`engine.go:371`).
* Slots. The backup has no candidate in nextEvent: it runs with retention at
  03:30, not at 02:30 as the repository's `README.md:98` and `engine.go:170` say.
  On a date of 25 hours the timer set for "tomorrow" fires at 23:05 and the
  engine then wakes every second until midnight; on one of 23 hours it
  fires at 01:05. After a restart in the evening the heads-up goes out late,
  after sunset even. When the window starts more than 40 minutes before sunset
  the engine is inside RunWindow at both times, and the forecast and the heads-up
  come after the window. Unfinished backups count among the seven kept.
* Forecasts. An answer with an empty `cloud_cover_mid` and other arrays filled
  passes the length test and panics (`forecast.go:225-228`); the round is not yet marked, so the
  restarted process asks again.
* Sources. The limiter's sleep is measured from a reading of the clock taken
  before the wait in line (`http.go:150`), so callers in line wait longer than
  the interval. A second refusal backs off for twice what is *left* of the first
  back-off, which is mostly nothing (`nyctmc.go:126`). "Two consecutive
  404s" are not reset by other failures, and every preview of the DOT map
  shares one id. ErrStale is looked at nowhere, although the repository's
  `README.md:70-71` says that two 404s mark the camera stale.
* Frames. Retention deletes rows only and the files stay until the sweep of the
  next start (`engine.go:552-570`); a GO in the round that notices the low disk
  carries no image although its frame was stored (`engine.go:354-366`);
  lastSHA advances before a frame is written, so a frame whose write failed is
  not tried again while the camera serves the same bytes (`engine.go:333`).
* Admin. The first save of a notifier drops those of the static configuration,
  and deleting the last one brings them back at the next start
  (`internal/engine/alerts.go:178-192`); a save after a failed read drops the others. Two overlapping
  password changes can leave the service at the older hash, and a failing read in
  HookAuth at the environment's password, until the next change or start.
  cameraSave writes back the stale streak it read. Sessions survive a change of
  the password. The engine's loop replaces its settings while FinalizeDay and
  RecropDay, called by a handler, read them (`engine.go:68-76`).
* Health. livez asks for a heartbeat within 60 seconds (`server.go:108`); the loop
  beats once a turn and sleeps for hours.

## 6. Not modelled, and the plan

Left out for good: pixel arithmetic and scoring, solar times, JPEG handling, the
forecast heuristic, HTML, request bodies, string redaction: data a model checker
cannot enumerate, or no state. The window and the cutoff they yield are
constants here. Schema migration runs once before anything else. The public
pages only read; what they rely on is `RowServable`. The settings' revision
number is written and compared by nobody. The labels of the frames and the
cached list of the DOT cameras are single statements that nothing else depends
on. A failing solar computation (no sunset at extreme latitudes) is left out of
the engine's modules. The fake clock serves the tests. Power loss (SQLite runs
with synchronous=NORMAL, directories are not synced) is outside the crash model:
a crash is the process's.

Left to do, most useful first:

1. One composition of AdminConfig's saves and AlertDelivery's drain.
2. DayLifecycle's outcome as an implementation of ImageContract as well: it
   knows a published frame's instant, not its files, so today only
   PublishedDay refines it.
