---------------------------- MODULE DayLifecycle ----------------------------
(***************************************************************************)
(* The engine's daily schedule and the two tables it is recorded in:       *)
(* Engine.Run's loop (plan, sleep, tick), the capture window RunWindow     *)
(* runs, FinalizeDay, and Reconcile, which repairs at startup whatever the *)
(* last process left behind. The process may crash between any two steps   *)
(* and restart at any later time, may be stopped gracefully (ctx           *)
(* cancelled), and an operator may call FinalizeDay from the admin pages   *)
(* at any moment of the engine's work.                                     *)
(*                                                                         *)
(* Time is a date and an instant within the date. The clock moves on its   *)
(* own, between any two steps of the engine: a slow step sees a later      *)
(* clock than the step that decided to take it. MaxLag bounds how late the *)
(* engine may be in all between two waits.                                 *)
(***************************************************************************)
EXTENDS Naturals

CONSTANTS
    LastDay,        \* the modelled dates are 0..LastDay; date 0 is install_date
    DayLen,         \* the instants of a date are 0..DayLen-1
    PlanAt,         \* the daily-plan slot, 00:05
    RetentionAt,    \* the retention slot, 03:30
    Slots,          \* every fixed slot of a date the engine wakes for
    WStart, WEnd,   \* the capture window, [WStart, WEnd)
    Cutoff,         \* last instant an archived frame may bear (archive cutoff)
    Keep,           \* retention.frames_days
    AdminDates,     \* the dates the operator refinalizes
    MaxCrashes, MaxStops, MaxFaults,    \* bounds on the faults of one behaviour
    MaxLag          \* how many instants late the engine's own steps may be

Day     == 0..LastDay
Instant == 0..(DayLen - 1)

ASSUME HorizonAssumption == LastDay \in Nat /\ DayLen \in Nat \ {0}
ASSUME SlotAssumption == /\ Slots \subseteq Instant
                         /\ {PlanAt, RetentionAt} \subseteq Slots
ASSUME WindowAssumption == /\ WStart \in Instant /\ WEnd \in Instant
                           /\ PlanAt <= WStart /\ WStart < WEnd
                           /\ Cutoff \in Instant /\ Keep \in Nat
ASSUME BoundAssumption == /\ MaxCrashes \in Nat /\ MaxStops \in Nat
                          /\ MaxFaults \in Nat /\ MaxLag \in Nat
                          /\ AdminDates \subseteq Day

Final   == {"complete", "failed"}
Status  == {"none", "capturing", "missed"} \cup Final
NoFrame == DayLen + 1
Frame   == 0..DayLen        \* a frame is known by the instant it was stored at
Caller  == {"engine", "admin"}
NoCall  == [date |-> LastDay + 1, pick |-> NoFrame]
Call    == [date : Day, pick : Frame \cup {NoFrame}] \cup {NoCall}
NoDate  == LastDay + 1
NoWake  == [day |-> 0, tod |-> 0]

\* Where Engine.Run stands. Booting is Reconcile, Windowing is RunWindow.
Booting   == {"backfill", "mark", "list", "scan", "bootRead", "bootCommit"}
Windowing == {"upsert", "fetchers", "loop", "capture", "nap", "finish"}
Looping   == {"plan", "sleep", "slots", "decide", "insert", "read", "commit"}
Place     == {"down"} \cup Booting \cup Windowing \cup Looping

VARIABLES
    day, tod,       \* the clock: today's date, the instant within it
    lag,            \* instants passed while the engine had a step to take
    status,         \* days.status
    best,           \* the frame days.best_path publishes, NoFrame when NULL
    frames,         \* the frame rows of each date FinalizeDay may publish: bright
                    \* enough, of a camera that publishes
    running,        \* how many capture_runs rows of a date have status running
    closed,         \* how many have status finished or interrupted
    retained,       \* the settings key retention_last
    pc,             \* where the engine stands
    date, seen,     \* tick's date and time of day, or Reconcile's today
    todo,           \* the dates Reconcile has still to look at
    wake,           \* when the timer being waited for fires
    call,           \* the FinalizeDay call of each caller in progress
    ctxDone,        \* the context has been cancelled
    crashes, stops, faults

clock   == <<day, tod, lag>>
days    == <<status, best>>
rows    == <<running, closed>>
durable == <<days, frames, rows, retained>>
local   == <<date, seen, todo, wake>>
budget  == <<crashes, stops, faults>>
vars    == <<clock, durable, pc, local, call, ctxDone, budget>>

\* A call of the store or of the network fails.
Fault == faults < MaxFaults /\ faults' = faults + 1

-----------------------------------------------------------------------------
\* How far the clock is into date d: before d it reads 0, after d DayLen.
At(d) == IF day < d THEN 0 ELSE IF day = d THEN tod ELSE DayLen

Ended(d)   == At(d) >= WEnd
Reached(w) == day > w.day \/ (day = w.day /\ tod >= w.tod)

\* Faulty: forgets the archive cutoff.
EligibleAny(d) == frames[d]

Eligible(d) == {t \in frames[d] : t <= Cutoff}

\* Retention drops the frame rows of the dates before the cutoff.
Retain(today) == frames' = [d \in Day |-> IF d + Keep < today THEN {} ELSE frames[d]]

\* Once a day; the deletion may fail, or the marker's update after it.
Retention(today) ==
    IF retained = today
    THEN UNCHANGED <<frames, retained, faults>>
    ELSE \/ Retain(today) /\ retained' = today /\ UNCHANGED faults
         \/ Fault /\ UNCHANGED retained /\ (Retain(today) \/ UNCHANGED frames)

BackfillMissedDays(today) ==
    status' = [d \in Day |-> IF d < today /\ status[d] = "none"
                             THEN "missed" ELSE status[d]]

MarkInterruptedRuns ==
    LET over(d) == At(d) > WEnd
    IN  /\ running' = [d \in Day |-> IF over(d) THEN 0 ELSE running[d]]
        /\ closed'  = [d \in Day |-> IF over(d) THEN closed[d] + running[d] ELSE closed[d]]

CloseRun(d) ==
    /\ running' = [running EXCEPT ![d] = @ - 1]
    /\ closed'  = [closed EXCEPT ![d] = @ + 1]

\* Faulty: Reconcile settles every capturing day it finds.
HasRunningRunNever(d) == FALSE

HasRunningRun(d) == running[d] > 0

UpsertDayStart(d) ==
    status' = [status EXCEPT ![d] = IF @ = "none" THEN "capturing" ELSE @]

\* Faulty: inserts the row of a date that has none.
CompleteDayUpsert(d, outcome, frame) ==
    /\ status' = [status EXCEPT ![d] = outcome]
    /\ best'   = [best EXCEPT ![d] = frame]

CompleteDay(d, outcome, frame) ==
    IF status[d] = "none"
    THEN UNCHANGED days
    ELSE /\ status' = [status EXCEPT ![d] = outcome]
         /\ best'   = [best EXCEPT ![d] = frame]

-----------------------------------------------------------------------------
Init ==
    /\ day = 0 /\ tod = 0 /\ lag = 0
    /\ status = [d \in Day |-> "none"]
    /\ best = [d \in Day |-> NoFrame]
    /\ frames = [d \in Day |-> {}]
    /\ running = [d \in Day |-> 0] /\ closed = [d \in Day |-> 0]
    /\ retained = NoDate
    /\ pc = "down"
    /\ date = 0 /\ seen = 0 /\ todo = {} /\ wake = NoWake
    /\ call = [c \in Caller |-> NoCall]
    /\ ctxDone = FALSE
    /\ crashes = 0 /\ stops = 0 /\ faults = 0

\* The engine has nothing to do before the clock moves on.
Idle == pc = "down" \/ (pc \in {"sleep", "nap"} /\ ~Reached(wake))

Tick ==
    /\ IF Idle THEN lag' = 0 ELSE lag < MaxLag /\ lag' = lag + 1
    /\ \/ tod + 1 < DayLen /\ tod' = tod + 1 /\ UNCHANGED day
       \/ tod + 1 = DayLen /\ day < LastDay /\ day' = day + 1 /\ tod' = 0
    /\ UNCHANGED <<durable, pc, local, call, ctxDone, budget>>

-----------------------------------------------------------------------------
(* Engine.Run up to its loop: Reconcile. An error in it ends the process, *)
(* which is a crash at that step.                                         *)

Boot ==
    /\ pc = "down"
    /\ pc' = "backfill"
    /\ date' = day
    /\ UNCHANGED <<clock, durable, seen, todo, wake, call, ctxDone, budget>>

BootBackfill ==
    /\ pc = "backfill"
    /\ BackfillMissedDays(date)
    /\ pc' = "mark"
    /\ UNCHANGED <<clock, best, frames, rows, retained, local, call, ctxDone, budget>>

BootMark ==
    /\ pc = "mark"
    /\ MarkInterruptedRuns
    /\ pc' = "list"
    /\ UNCHANGED <<clock, days, frames, retained, local, call, ctxDone, budget>>

\* Faulty: lists the days in the state the schema starts with.
BootListScheduled ==
    /\ pc = "list"
    /\ todo' = {d \in Day : status[d] = "scheduled"}
    /\ pc' = "scan"
    /\ UNCHANGED <<clock, durable, date, seen, wake, call, ctxDone, budget>>

BootList ==
    /\ pc = "list"
    /\ todo' = {d \in Day : status[d] = "capturing"}
    /\ pc' = "scan"
    /\ UNCHANGED <<clock, durable, date, seen, wake, call, ctxDone, budget>>

NextTodo(d) == d \in todo /\ \A e \in todo : d <= e

\* A capturing day with a running run is left to the tick loop.
BootSkip(d) ==
    /\ pc = "scan" /\ NextTodo(d)
    /\ HasRunningRun(d)
    /\ todo' = todo \ {d}
    /\ UNCHANGED <<clock, durable, pc, date, seen, wake, call, ctxDone, budget>>

BootFinalize(d) ==
    /\ pc = "scan" /\ NextTodo(d)
    /\ ~HasRunningRun(d)
    /\ pc' = "bootRead"
    /\ UNCHANGED <<clock, durable, local, call, ctxDone, budget>>

BootRetention ==
    /\ pc = "scan" /\ todo = {}
    /\ Retention(date)
    /\ pc' = "plan"
    /\ UNCHANGED <<clock, days, rows, local, call, ctxDone, crashes, stops>>

-----------------------------------------------------------------------------
(* FinalizeDay: reads the frame rows first, settles the day much later *)

Picks(d) == IF Eligible(d) = {} THEN {NoFrame} ELSE Eligible(d)

BeginFinalize(c, d) ==
    \E p \in Picks(d) : call' = [call EXCEPT ![c] = [date |-> d, pick |-> p]]

\* Nothing to publish, published, the picked file unreadable, or an error
\* before the row was touched.
EndFinalize(c) ==
    LET d == call[c].date
        p == call[c].pick
    IN  /\ call' = [call EXCEPT ![c] = NoCall]
        /\ \/ /\ CompleteDay(d, IF p = NoFrame THEN "failed" ELSE "complete", p)
              /\ UNCHANGED faults
           \/ /\ Fault
              /\ \/ p # NoFrame /\ CompleteDay(d, "failed", NoFrame)
                 \/ UNCHANGED days

BootRead(d) ==
    /\ pc = "bootRead" /\ NextTodo(d)
    /\ BeginFinalize("engine", d)
    /\ pc' = "bootCommit"
    /\ UNCHANGED <<clock, durable, local, ctxDone, budget>>

BootCommit ==
    /\ pc = "bootCommit"
    /\ EndFinalize("engine")
    /\ todo' = todo \ {call["engine"].date}
    /\ pc' = "scan"
    /\ UNCHANGED <<clock, frames, rows, retained, date, seen, wake, ctxDone, crashes, stops>>

Read ==
    /\ pc = "read"
    /\ BeginFinalize("engine", date)
    /\ pc' = "commit"
    /\ UNCHANGED <<clock, durable, local, ctxDone, budget>>

Commit ==
    /\ pc = "commit"
    /\ EndFinalize("engine")
    /\ pc' = "plan"
    /\ UNCHANGED <<clock, frames, rows, retained, local, ctxDone, crashes, stops>>

-----------------------------------------------------------------------------
(* Engine.Run's loop: nextEvent, the timer, tick *)

Upcoming == {t \in Slots \cup {WStart, WEnd} : t > tod}

\* Inside the window at once; else the next slot of today; else tomorrow's plan.
\* Faulty: knows the future slots only, so a boot inside the window sleeps on.
NextEventFutureOnly ==
    IF Upcoming # {}
    THEN {[day |-> day, tod |-> t] : t \in {u \in Upcoming : \A v \in Upcoming : u <= v}}
    ELSE {[day |-> day + 1, tod |-> PlanAt]}

NextEvent ==
    IF WStart <= tod /\ tod < WEnd
    THEN {[day |-> day, tod |-> tod]}
    ELSE IF Upcoming # {}
         THEN {[day |-> day, tod |-> t] : t \in {u \in Upcoming : \A v \in Upcoming : u <= v}}
         ELSE {[day |-> day + 1, tod |-> PlanAt]}

Plan ==
    /\ pc = "plan"
    /\ wake' \in NextEvent
    /\ pc' = "sleep"
    /\ UNCHANGED <<clock, durable, date, seen, todo, call, ctxDone, budget>>

Wake ==
    /\ pc = "sleep" /\ Reached(wake) /\ ~ctxDone
    /\ pc' = "slots"
    /\ wake' = NoWake
    /\ UNCHANGED <<clock, durable, date, seen, todo, call, ctxDone, budget>>

\* tick reads the clock once and keeps what it read over its slower slots.
TickSlots ==
    /\ pc = "slots"
    /\ date' = day /\ seen' = tod
    /\ IF tod >= RetentionAt THEN Retention(day) ELSE UNCHANGED <<frames, retained, faults>>
    /\ pc' = "decide"
    /\ UNCHANGED <<clock, days, rows, todo, wake, call, ctxDone, crashes, stops>>

\* Faulty: starts the day without its run row.
TickDecideNoRun ==
    /\ pc = "decide"
    /\ pc' = IF WStart <= seen /\ seen < WEnd
             THEN IF status[date] \in Final THEN "plan" ELSE "upsert"
             ELSE IF seen >= WEnd /\ status[date] = "capturing" THEN "read" ELSE "plan"
    /\ seen' = 0
    /\ UNCHANGED <<clock, durable, date, todo, wake, call, ctxDone, budget>>

\* Faulty: runs the window of a date that is already settled.
TickDecideAgain ==
    /\ pc = "decide"
    /\ pc' = IF WStart <= seen /\ seen < WEnd
             THEN "insert"
             ELSE IF seen >= WEnd /\ status[date] = "capturing" THEN "read" ELSE "plan"
    /\ seen' = 0
    /\ UNCHANGED <<clock, durable, date, todo, wake, call, ctxDone, budget>>

TickDecide ==
    /\ pc = "decide"
    /\ pc' = IF WStart <= seen /\ seen < WEnd
             THEN IF status[date] \in Final THEN "plan" ELSE "insert"
             ELSE IF seen >= WEnd /\ status[date] = "capturing" THEN "read" ELSE "plan"
    /\ seen' = 0
    /\ UNCHANGED <<clock, durable, date, todo, wake, call, ctxDone, budget>>

-----------------------------------------------------------------------------
(* RunWindow *)

InsertRun ==
    /\ pc = "insert"
    /\ running' = [running EXCEPT ![date] = @ + 1]
    /\ pc' = "upsert"
    /\ UNCHANGED <<clock, days, frames, closed, retained, local, call, ctxDone, budget>>

StartDay ==
    /\ pc = "upsert"
    /\ UpsertDayStart(date)
    /\ pc' = "fetchers"
    /\ UNCHANGED <<clock, best, frames, rows, retained, local, call, ctxDone, budget>>

Fetchers ==
    /\ pc = "fetchers"
    /\ pc' = "loop"
    /\ UNCHANGED <<clock, durable, local, call, ctxDone, budget>>

\* RunWindow returns at once: its run row stays running, its day capturing.
FetchersFail ==
    /\ pc = "fetchers"
    /\ \/ ctxDone /\ UNCHANGED faults
       \/ Fault
    /\ pc' = "plan"
    /\ UNCHANGED <<clock, durable, local, call, ctxDone, crashes, stops>>

\* A store call of tick or RunWindow fails: tick returns the error, Run logs it.
TickFails ==
    /\ pc \in {"decide", "insert", "upsert", "finish"}
    /\ Fault
    /\ pc' = "plan"
    /\ seen' = 0
    /\ UNCHANGED <<clock, durable, date, todo, wake, call, ctxDone, crashes, stops>>

LoopTop ==
    /\ pc = "loop"
    /\ pc' = IF Ended(date) \/ ctxDone THEN "finish" ELSE "capture"
    /\ UNCHANGED <<clock, durable, local, call, ctxDone, budget>>

\* One round of the cameras: a scored frame is stored, or none is (fetch
\* failed, duplicate, low disk); then the sleep of one interval.
Capture ==
    /\ pc = "capture"
    /\ \/ frames' = [frames EXCEPT ![date] = @ \cup {At(date)}]
       \/ UNCHANGED frames
    /\ IF Ended(date)
       THEN pc' = "finish" /\ UNCHANGED wake
       ELSE pc' = "nap" /\ wake' = [day |-> date, tod |-> At(date) + 1]
    /\ UNCHANGED <<clock, days, rows, retained, date, seen, todo, call, ctxDone, budget>>

NapOver ==
    /\ pc = "nap" /\ Reached(wake) /\ ~ctxDone
    /\ pc' = "loop"
    /\ wake' = NoWake
    /\ UNCHANGED <<clock, durable, date, seen, todo, call, ctxDone, budget>>

Finish ==
    /\ pc = "finish"
    /\ CloseRun(date)
    /\ pc' = "read"
    /\ UNCHANGED <<clock, days, frames, retained, local, call, ctxDone, budget>>

-----------------------------------------------------------------------------
(* The process goes away *)

GoDown ==
    /\ pc' = "down"
    /\ date' = 0 /\ seen' = 0 /\ todo' = {} /\ wake' = NoWake
    /\ call' = [c \in Caller |-> NoCall]
    /\ ctxDone' = FALSE

Crash ==
    /\ pc # "down"
    /\ crashes < MaxCrashes /\ crashes' = crashes + 1
    /\ GoDown
    /\ UNCHANGED <<clock, durable, stops, faults>>

Cancel ==
    /\ pc # "down" /\ ~ctxDone
    /\ stops < MaxStops /\ stops' = stops + 1
    /\ ctxDone' = TRUE
    /\ UNCHANGED <<clock, durable, pc, local, call, crashes, faults>>

ReturnAsleep ==
    /\ pc = "sleep" /\ ctxDone
    /\ GoDown
    /\ UNCHANGED <<clock, durable, budget>>

\* ctx.Done in the window's sleep: the run is marked interrupted (an error is
\* ignored), the day left capturing.
ReturnMidWindow ==
    /\ pc = "nap" /\ ctxDone
    /\ \/ CloseRun(date) /\ UNCHANGED faults
       \/ Fault /\ UNCHANGED rows
    /\ GoDown
    /\ UNCHANGED <<clock, days, frames, retained, crashes, stops>>

-----------------------------------------------------------------------------
(* The admin handler refinalize *)

Refinalize(d) ==
    /\ pc # "down" /\ call["admin"] = NoCall
    /\ d \in AdminDates /\ d <= day
    /\ BeginFinalize("admin", d)
    /\ UNCHANGED <<clock, durable, pc, local, ctxDone, budget>>

RefinalizeCommit ==
    /\ call["admin"] # NoCall
    /\ EndFinalize("admin")
    /\ UNCHANGED <<clock, frames, rows, retained, pc, local, ctxDone, crashes, stops>>

-----------------------------------------------------------------------------
Reconcile == \/ Boot \/ BootBackfill \/ BootMark \/ BootList \/ BootRetention
             \/ \E d \in Day : BootSkip(d) \/ BootFinalize(d) \/ BootRead(d)
             \/ BootCommit

RunLoop == Plan \/ Wake \/ TickSlots \/ TickDecide \/ Read \/ Commit

RunWindow == InsertRun \/ StartDay \/ Fetchers \/ FetchersFail \/ TickFails
             \/ LoopTop \/ Capture \/ NapOver \/ Finish

Exit == ReturnAsleep \/ ReturnMidWindow

Engine == Reconcile \/ RunLoop \/ RunWindow \/ Exit

Admin == RefinalizeCommit \/ \E d \in Day : Refinalize(d)

Next == Tick \/ Engine \/ Crash \/ Cancel \/ Admin

Spec == Init /\ [][Next]_vars

\* The scheduler runs every goroutine, the clock moves, the container is restarted.
FairSpec == Spec /\ WF_vars(Engine) /\ WF_vars(Tick) /\ WF_vars(RefinalizeCommit)

-----------------------------------------------------------------------------
(* Properties *)

\* Every variable keeps its type; no run row is closed twice (running would
\* go below zero).
TypeOK ==
    /\ day \in Day /\ tod \in Instant /\ lag \in 0..MaxLag
    /\ status \in [Day -> Status]
    /\ best \in [Day -> Frame \cup {NoFrame}]
    /\ frames \in [Day -> SUBSET Frame]
    /\ running \in [Day -> Nat] /\ closed \in [Day -> Nat]
    /\ retained \in Day \cup {NoDate}
    /\ pc \in Place
    /\ date \in Day /\ seen \in Instant
    /\ todo \subseteq Day
    /\ wake \in [day : 0..(LastDay + 1), tod : 0..DayLen]
    /\ call \in [Caller -> Call]
    /\ ctxDone \in BOOLEAN
    /\ crashes \in 0..MaxCrashes /\ stops \in 0..MaxStops /\ faults \in 0..MaxFaults

\* Whatever step the process died in, Reconcile and tick find the run that
\* explains a capturing day.
CapturingHasRun ==
    \A d \in Day : status[d] = "capturing" => running[d] + closed[d] > 0

\* A day recorded as missed ("no capture") has no stored frame.
MissedHasNoFrames ==
    \A d \in Day : status[d] = "missed" => frames[d] = {}

\* The days table agrees with the runs and the frames whenever the process may
\* die: a capturing day has a run row, and nothing captured is written off.
StatusExplained == CapturingHasRun /\ MissedHasNoFrames

\* A day is published exactly with a frame, and never with one that was
\* fetched after the archive cutoff, however late the capture loop ran.
PublishedInTime ==
    \A d \in Day : /\ status[d] = "complete" <=> best[d] # NoFrame
                   /\ best[d] # NoFrame => best[d] <= Cutoff

\* Only a graceful stop, or the operator, can settle a day before its window
\* is over: no crash at any step, and no restart at any time, cuts a window short.
EarlyFinalNeedsStop ==
    \A d \in Day : status[d] \in Final /\ ~Ended(d) => stops > 0 \/ d \in AdminDates

\* The engine never sleeps through the start of a window, nor sleeps at all
\* inside one it has just woken in: its timer is due by the window's start,
\* or by now when the window has started.
NeverOversleeps ==
    pc = "sleep" =>
        \A d \in Day : d >= day /\ ~Ended(d) =>
            \/ wake.day < d
            \/ wake.day = d /\ (wake.tod <= WStart \/ wake.tod <= At(d))

\* Nothing but the operator touches a completed day: no restart, no second
\* window, no late finalization changes its status or its image.
CompletedStays ==
    [][\A d \in Day \ AdminDates :
            status[d] = "complete" => status'[d] = "complete" /\ best'[d] = best[d]]_vars

\* The days table keeps its contract.
Contract == INSTANCE DayContract WITH LastDay <- LastDay, day <- day, status <- status
KeepsContract == Contract!Spec

\* A day whose window is over and that a starting process finds capturing gets
\* settled, once the file system works, however often the process dies on the way.
EndedDaySettles ==
    \A d \in Day :
        (pc = "mark" /\ status[d] = "capturing" /\ At(d) > WEnd /\ faults = MaxFaults)
            ~> (status[d] \in Final)

\* reconcile.go:103-107: what Reconcile settles is a window that has ended.
ReconcileSettlesEnded ==
    [][\A d \in Day : pc = "scan" /\ pc' = "bootRead" /\ NextTodo(d) => Ended(d)]_vars
=============================================================================
