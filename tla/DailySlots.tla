----------------------------- MODULE DailySlots -----------------------------
(***************************************************************************)
(* The fixed slots of a day in Engine.Run's loop: the nightly backup and   *)
(* its pruning, retention, the forecast round and the heads-up, each done  *)
(* once a date by a marker in the settings table, and nextEvent's timer,   *)
(* on dates of different lengths: time changes make days of 23 and 25      *)
(* hours, while nextEvent adds 24 hours to today's plan to reach tomorrow. *)
(*                                                                         *)
(* The clock is absolute; a date begins at its Midnight. It moves while    *)
(* the engine sleeps or captures, and at most MaxLag instants in all while *)
(* the engine has a step to take. The process may die between any two      *)
(* steps and start again later. DayLifecycle models the window itself.     *)
(***************************************************************************)
EXTENDS Integers, Sequences

CONSTANTS
    LastDay,        \* the modelled dates are 0..LastDay
    Midnight,       \* when a date begins; Midnight[LastDay + 1] ends the model
    Slot,           \* when a slot of a date is due
    DayLength,      \* what nextEvent takes a day for: 24 hours
    Keep,           \* backups kept (7)
    Usable,         \* the forecast providers that are configured, with their key
    Comparison,     \* forecast.comparison_enabled
    Selections,     \* the values of forecast.provider considered
    MaxCrashes, MaxFaults, MaxLag   \* bounds on one behaviour

Day       == 0..LastDay
Marked    == {"backup", "retention", "forecast", "headsup"}
Slots     == Marked \cup {"plan", "start", "end"}
Providers == {"openmeteo", "sunsethue"}
Backup    == [of : Day, whole : BOOLEAN]

\* Where Engine.Run stands. A marked slot is checked under its own name.
Place == Marked \cup {"down", "boot", "bootRetention", "plan", "sleep", "create", "vacuum",
                      "prune", "backupMark", "delete", "first", "second", "forecastMark",
                      "headsupMark", "send", "window", "capture"}

ASSUME BoundAssumption == /\ LastDay \in Nat /\ Keep \in Nat \ {0} /\ DayLength \in Nat \ {0}
                          /\ MaxCrashes \in Nat /\ MaxFaults \in Nat /\ MaxLag \in Nat
ASSUME ProviderAssumption == /\ Usable \subseteq Providers /\ Selections \subseteq Providers
                             /\ Comparison \in BOOLEAN
ASSUME MidnightAssumption ==
    /\ Midnight \in [0..(LastDay + 1) -> Nat] /\ Midnight[0] = 0
    /\ \A c, d \in 0..(LastDay + 1) : c < d => Midnight[c] < Midnight[d]
\* The slots are within their date, in this order: the window starts less
\* than 35 minutes before sunset, as it does by default.
ASSUME SlotAssumption ==
    /\ Slot \in [Slots -> [Day -> Nat]]
    /\ \A d \in Day : /\ Midnight[d] <= Slot["plan"][d]
                      /\ Slot["plan"][d] <= Slot["backup"][d]
                      /\ Slot["backup"][d] <= Slot["retention"][d]
                      /\ Slot["retention"][d] < Slot["forecast"][d]
                      /\ Slot["forecast"][d] <= Slot["headsup"][d]
                      /\ Slot["headsup"][d] <= Slot["start"][d]
                      /\ Slot["start"][d] < Slot["end"][d]
                      /\ Slot["end"][d] < Midnight[d + 1]
\* The steps of a date take less than the time from the heads-up slot to the
\* window's end, and than the time from there to midnight.
ASSUME LagAssumption ==
    \A d \in Day : /\ Slot["headsup"][d] + MaxLag <= Slot["end"][d]
                  /\ Slot["end"][d] + MaxLag < Midnight[d + 1]
\* A time change is shorter than the time from the plan slot to retention's.
ASSUME ChangeAssumption ==
    \A d \in Day : d + 1 \in Day => Slot["plan"][d] + DayLength <= Slot["retention"][d + 1]

VARIABLES
    now, day,       \* the clock, and the date it is
    lag,            \* instants passed while the engine had a step to take
    pc,             \* where the engine stands
    wake,           \* when its timer fires
    seen, date,     \* the time and the date tick read, or Reconcile's today
    last,           \* the settings backup_last, retention_last, ..., -1 if unset
    backups,        \* the files of the backup directory, oldest first
    obs,            \* the providers with a stored observation, by date
    selected,       \* the setting forecast.provider
    planned,        \* history: the time nextEvent last read
    serving,        \* history: the rest of today is in the engine's hands
    heads,          \* history: what became of the heads-up of a date, the provider if
                    \* sent, "skipped" or "unread" if given up for want of an observation
    glitch,         \* history: a marker was not stored or not read
    crashes, faults

clock   == <<now, day, lag>>
read    == <<seen, date>>
durable == <<last, backups, obs>>
trouble == <<serving, glitch, faults>>
fixed   == <<clock, wake, read, selected, planned, crashes>>   \* by a step of tick
vars    == <<fixed, pc, durable, heads, trouble>>

Fault == faults < MaxFaults /\ faults' = faults + 1 /\ serving' = FALSE

-----------------------------------------------------------------------------
(* The loop and the timer *)

\* Faulty: forgets the heads-up.
CandidatesFewer == {"plan", "forecast", "start", "end", "retention"}

\* The slots nextEvent knows; the backup has none of its own.
Candidates == {"plan", "forecast", "headsup", "start", "end", "retention"}

Ahead    == {t \in {Slot[k][day] : k \in Candidates} : t > now}
Tomorrow == Slot["plan"][day] + DayLength

\* nextEvent: at once within the window; else the next candidate of today;
\* else a day's length after today's plan. When that has passed already Run
\* waits a second, which is less than an instant.
NextEvent ==
    IF Slot["start"][day] <= now /\ now < Slot["end"][day] THEN {now}
    ELSE IF Ahead # {} THEN {t \in Ahead : \A u \in Ahead : t <= u}
    ELSE {IF Tomorrow > now THEN Tomorrow ELSE now}

Plan ==
    /\ pc = "plan" /\ pc' = "sleep"
    /\ wake' \in NextEvent
    /\ planned' = now
    /\ serving' = (serving \/ now < Slot["end"][day])
    /\ UNCHANGED <<clock, read, durable, selected, heads, glitch, crashes, faults>>

\* tick reads the clock once.
Wake ==
    /\ pc = "sleep" /\ now >= wake /\ pc' = "backup"
    /\ seen' = now /\ date' = day
    /\ UNCHANGED <<clock, wake, durable, selected, planned, heads, trouble, crashes>>

\* Faulty: a slot runs only in the instant it is for.
DueExactly(k) == seen = Slot[k][date]

Due(k) == seen >= Slot[k][date]

After == [backup |-> "retention", retention |-> "forecast", forecast |-> "headsup",
          headsup |-> "window"]
Body  == [backup |-> "create", retention |-> "delete", forecast |-> "first",
          headsup |-> "headsupMark"]

\* A slot is run when it is due and its marker does not name the date, or
\* cannot be read.
Check(k) ==
    /\ pc = k
    /\ \/ /\ pc' = IF Due(k) /\ last[k] # date THEN Body[k] ELSE After[k]
          /\ UNCHANGED trouble
       \/ Due(k) /\ last[k] = date /\ Fault /\ glitch' = TRUE /\ pc' = Body[k]
    /\ UNCHANGED <<fixed, durable, heads>>

\* SetSettingRaw, whose error is ignored.
Mark(k) == \/ last' = [last EXCEPT ![k] = date] /\ UNCHANGED trouble
           \/ Fault /\ glitch' = TRUE /\ UNCHANGED last

-----------------------------------------------------------------------------
(* Backup *)

\* VACUUM INTO creates its file, then completes it, or fails at either.
Create ==
    /\ pc = "create"
    /\ \/ /\ backups' = Append(backups, [of |-> date, whole |-> FALSE])
          /\ pc' = "vacuum" /\ UNCHANGED trouble
       \/ Fault /\ pc' = "retention" /\ UNCHANGED <<backups, glitch>>
    /\ UNCHANGED <<fixed, last, obs, heads>>

Vacuum ==
    /\ pc = "vacuum"
    /\ \/ /\ backups' = [i \in 1..Len(backups) |->
                         IF i = Len(backups) THEN [of |-> date, whole |-> TRUE] ELSE backups[i]]
          /\ pc' = "prune" /\ UNCHANGED trouble
       \/ Fault /\ pc' = "retention" /\ UNCHANGED <<backups, glitch>>
    /\ UNCHANGED <<fixed, last, obs, heads>>

\* Faulty: the wrong end of the sorted names.
NewestOldest == SubSeq(backups, 1, IF Len(backups) < Keep THEN Len(backups) ELSE Keep)

\* The last Keep names, whether their files are whole or not.
Newest == SubSeq(backups, IF Len(backups) < Keep THEN 1 ELSE Len(backups) - Keep + 1,
                 Len(backups))

\* Removes the others, unless the directory cannot be listed or a removal fails.
Prune ==
    /\ pc = "prune"
    /\ \/ backups' = Newest /\ pc' = "backupMark" /\ UNCHANGED trouble
       \/ Fault /\ pc' \in {"backupMark", "retention"} /\ UNCHANGED <<backups, glitch>>
    /\ UNCHANGED <<fixed, last, obs, heads>>

BackupMark ==
    /\ pc = "backupMark" /\ pc' = "retention"
    /\ Mark("backup")
    /\ UNCHANGED <<fixed, backups, obs, heads>>

-----------------------------------------------------------------------------
(* Retention, in tick and in Reconcile *)

\* The marker is set unless the deletion fails.
Retention ==
    /\ \/ pc = "delete" /\ pc' = "forecast"
       \/ pc = "bootRetention" /\ pc' = "plan"
    /\ Mark("retention") \/ (Fault /\ UNCHANGED <<last, glitch>>)
    /\ UNCHANGED <<fixed, backups, obs, heads>>

-----------------------------------------------------------------------------
(* The forecast round and the heads-up *)

\* What fetchForecasts asks first and second, "none" where that is nil.
OpenMeteo == IF "openmeteo" \in Usable THEN "openmeteo" ELSE "none"
SunsetHue == IF "sunsethue" \in Usable THEN "sunsethue" ELSE "none"
First  == IF selected = "sunsethue" /\ SunsetHue # "none" THEN SunsetHue ELSE OpenMeteo
Second == IF selected = "sunsethue" THEN OpenMeteo
          ELSE IF Comparison THEN SunsetHue ELSE "none"

\* SunsetForecast answers and its observation is stored, or something fails.
Fetch(p) ==
    /\ \/ obs' = [obs EXCEPT ![date] = @ \cup ({p} \ {"none"})]
       \/ UNCHANGED obs
    /\ UNCHANGED <<fixed, last, backups, heads, trouble>>

ForecastFirst  == pc = "first" /\ pc' = "second" /\ Fetch(First)
ForecastSecond == pc = "second" /\ pc' = "forecastMark" /\ Fetch(Second)

\* Faulty: a round without any answer is not marked, to be tried again.
ForecastMarkAnswered ==
    /\ pc = "forecastMark" /\ pc' = "headsup"
    /\ IF obs[date] = {} THEN UNCHANGED <<last, trouble>> ELSE Mark("forecast")
    /\ UNCHANGED <<fixed, backups, obs, heads>>

\* The round is done for the date whatever came of it.
ForecastMark ==
    /\ pc = "forecastMark" /\ pc' = "headsup"
    /\ Mark("forecast")
    /\ UNCHANGED <<fixed, backups, obs, heads>>

HeadsUpMark ==
    /\ pc = "headsupMark" /\ pc' = "send"
    /\ Mark("headsup")
    /\ UNCHANGED <<fixed, backups, obs, heads>>

\* The provider sendHeadsUp gates on: the selected one, else the other.
Gate == IF selected \in obs[date] THEN selected
        ELSE IF obs[date] # {} THEN CHOOSE p \in obs[date] : TRUE ELSE "skipped"

\* What a failing call makes of it. The lookup of the selected provider, or
\* HeadsUp itself, fails it; that of the other one, made when the selected one
\* has none, is ignored and taken for no observation.
Spoiled == {"failed"} \cup (IF selected \in obs[date] THEN {} ELSE {"unread"})

\* sendHeadsUp; whether the quality reaches the floor is left open.
SendHeadsUp ==
    /\ pc = "send" /\ pc' = "window"
    /\ \E outcome \in {Gate} \cup Spoiled :
          /\ heads' = [heads EXCEPT ![date] = IF @ = "none" THEN outcome ELSE "again"]
          /\ IF outcome = Gate THEN UNCHANGED trouble ELSE Fault /\ UNCHANGED glitch
    /\ UNCHANGED <<fixed, durable>>

-----------------------------------------------------------------------------
(* The window, and the process *)

\* RunWindow lasts until the window's end; a window already settled does not.
Window ==
    /\ pc = "window"
    /\ pc' \in IF Slot["start"][date] <= seen /\ seen < Slot["end"][date]
               THEN {"capture", "plan"} ELSE {"plan"}
    /\ UNCHANGED <<fixed, durable, heads, trouble>>

WindowEnd ==
    /\ pc = "capture" /\ now >= Slot["end"][date] /\ pc' = "plan"
    /\ UNCHANGED <<fixed, durable, heads, trouble>>

Crash ==
    /\ pc # "down" /\ crashes < MaxCrashes
    /\ crashes' = crashes + 1
    /\ pc' = "down" /\ wake' = 0 /\ seen' = 0 /\ date' = 0 /\ planned' = 0
    /\ serving' = FALSE
    /\ UNCHANGED <<clock, durable, selected, heads, glitch, faults>>

\* Reconcile reads today before its repairs.
Restart ==
    /\ pc = "down" /\ pc' = "boot"
    /\ seen' = now /\ date' = day
    /\ UNCHANGED <<clock, wake, durable, selected, planned, heads, trouble, crashes>>

BootCheck ==
    /\ pc = "boot"
    /\ \/ /\ pc' = IF last["retention"] # date THEN "bootRetention" ELSE "plan"
          /\ UNCHANGED trouble
       \/ Fault /\ glitch' = TRUE /\ pc' = "bootRetention"
    /\ UNCHANGED <<fixed, durable, heads>>

-----------------------------------------------------------------------------
Waiting == \/ pc = "down"
           \/ pc = "sleep" /\ now < wake
           \/ pc = "capture" /\ now < Slot["end"][date]

Tick ==
    /\ now + 1 < Midnight[LastDay + 1]
    /\ now' = now + 1
    /\ IF Waiting THEN UNCHANGED lag ELSE lag < MaxLag /\ lag' = lag + 1
    /\ IF now + 1 = Midnight[day + 1]
       THEN day' = day + 1 /\ serving' = (pc = "sleep")
       ELSE UNCHANGED <<day, serving>>
    /\ UNCHANGED <<pc, wake, read, durable, selected, planned, heads, glitch, crashes, faults>>

Init ==
    /\ now = 0 /\ day = 0 /\ lag = 0
    /\ pc = "down" /\ wake = 0 /\ seen = 0 /\ date = 0
    /\ last = [k \in Marked |-> -1] /\ backups = << >> /\ obs = [d \in Day |-> {}]
    /\ selected \in Selections
    /\ planned = 0 /\ serving = FALSE /\ glitch = FALSE
    /\ heads = [d \in Day |-> "none"]
    /\ crashes = 0 /\ faults = 0

Next ==
    \/ Tick \/ Crash \/ Restart \/ BootCheck
    \/ Plan \/ Wake \/ (\E k \in Marked : Check(k))
    \/ Create \/ Vacuum \/ Prune \/ BackupMark \/ Retention
    \/ ForecastFirst \/ ForecastSecond \/ ForecastMark
    \/ HeadsUpMark \/ SendHeadsUp \/ Window \/ WindowEnd

Spec == Init /\ [][Next]_vars

-----------------------------------------------------------------------------
(* Properties *)

\* Every variable keeps its type; a marker holds a date or nothing.
TypeOK ==
    /\ now \in Nat /\ day \in Day /\ lag \in 0..MaxLag
    /\ pc \in Place /\ wake \in Nat /\ seen \in Nat /\ date \in Day
    /\ last \in [Marked -> {-1} \cup Day] /\ backups \in Seq(Backup)
    /\ obs \in [Day -> SUBSET Providers] /\ selected \in Providers
    /\ planned \in Nat /\ serving \in BOOLEAN /\ glitch \in BOOLEAN
    /\ heads \in [Day -> Providers \cup {"none", "skipped", "unread", "again", "failed"}]
    /\ crashes \in 0..MaxCrashes /\ faults \in 0..MaxFaults

\* Whenever nextEvent set the timer, on a date of any length and at any time
\* of it, the timer fires no later than the next retention, forecast or
\* heads-up slot or window start, of that date or of a later one.
SlotsNotSlept ==
    pc = "sleep" =>
        \A d \in Day, k \in {"retention", "forecast", "headsup", "start"} :
            planned < Slot[k][d] => wake <= Slot[k][d]

\* A date that ends in the engine's hands has had its backup, its retention,
\* its forecast round and its heads-up: once nextEvent has been called before
\* the window's end, and unless a step fails or the process dies after that,
\* what an earlier failure, crash or late start left undone is made up for.
DayServed ==
    [][day' # day /\ serving => \A k \in Marked : last[k] = day]_vars

\* backup_last tells the truth: a complete backup of that date or a later one
\* is on disk, although the unfinished files that crashes and failures leave
\* are counted among those that are kept.
RestorePointKept ==
    last["backup"] # -1 =>
        \E i \in 1..Len(backups) : backups[i].whole /\ backups[i].of >= last["backup"]

\* The one heads-up of a date is not wasted. Provided the markers are stored
\* and read, sendHeadsUp runs once a date at most, whatever crashes; it gives
\* up for want of an observation only if the date never gets one, or if it
\* fails to look the other provider's up; and it does without the selected
\* provider's, falling back or giving up, only if that never comes.
HeadsUpOnce ==
    ~glitch =>
        \A d \in Day : /\ heads[d] # "again"
                       /\ (heads[d] = "skipped" => obs[d] = {})
                       /\ (heads[d] \in {"unread"} \cup (Providers \ {selected}) =>
                              selected \notin obs[d])

=============================================================================
