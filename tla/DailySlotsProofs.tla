-------------------------- MODULE DailySlotsProofs --------------------------
(***************************************************************************)
(* The daily slots on calendars of any length, with any slots that keep    *)
(* the assumptions of DailySlots, and any number of crashes and failures:  *)
(* no slot is slept through, no marker lies, and no date that ends in the  *)
(* engine's hands lacks any of what it was due.                            *)
(***************************************************************************)
EXTENDS DailySlots, SequenceTheorems, TLAPS

LEMMA SlotType == \A k \in Slots, d \in Day : Slot[k][d] \in Nat
  BY SlotAssumption

LEMMA DayType == 0 \in Day /\ \A d \in Day : d \in Nat
  BY BoundAssumption DEF Day

LEMMA MidnightType == \A d \in Day : Midnight[d] \in Nat /\ Midnight[d + 1] \in Nat
  BY MidnightAssumption, BoundAssumption DEF Day

\* Midnights come in the order of their dates.
LEMMA MidnightOrder ==
    \A c, d \in 0..(LastDay + 1) : c <= d => Midnight[c] <= Midnight[d] /\ Midnight[c] \in Nat
<1> SUFFICES ASSUME NEW c \in 0..(LastDay + 1), NEW d \in 0..(LastDay + 1), c <= d
             PROVE  Midnight[c] <= Midnight[d] /\ Midnight[c] \in Nat
  OBVIOUS
<1>1. Midnight[c] \in Nat /\ Midnight[d] \in Nat BY MidnightAssumption
<1>2. CASE c = d BY <1>1, <1>2
<1>3. CASE c < d
  <2>1. Midnight[c] < Midnight[d] BY <1>3, MidnightAssumption
  <2> QED BY <1>1, <2>1
<1> QED BY <1>2, <1>3, BoundAssumption

LEMMA NextEventType == TypeOK => NextEvent \subseteq Nat
  BY SlotType, BoundAssumption DEF TypeOK, NextEvent, Ahead, Tomorrow, Candidates, Slots, Marked

LEMMA NewestType ==
    ASSUME backups \in Seq(Backup)
    PROVE  Newest \in Seq(Backup)
<1>1. CASE Len(backups) < Keep
  BY <1>1 DEF Newest
<1>2. CASE ~(Len(backups) < Keep)
  BY <1>2, BoundAssumption DEF Newest
<1> QED BY <1>1, <1>2

LEMMA InitType == Init => TypeOK
  BY BoundAssumption, ProviderAssumption DEF Init, TypeOK, Place, Day

\* A step of tick touches no clock; it may fail, or lose a marker.
LEMMA TroubleType ==
    ASSUME TypeOK, UNCHANGED trouble \/ (Fault /\ glitch' \in BOOLEAN)
    PROVE  serving' \in BOOLEAN /\ glitch' \in BOOLEAN /\ faults' \in 0..MaxFaults
<1>1. CASE UNCHANGED trouble
  BY <1>1 DEF TypeOK, trouble
<1>2. CASE Fault /\ glitch' \in BOOLEAN
  <2>1. serving' = FALSE /\ faults' \in 0..MaxFaults
    BY <1>2, BoundAssumption DEF TypeOK, Fault
  <2> QED BY <1>2, <2>1
<1> QED BY <1>1, <1>2

LEMMA MarkType ==
    ASSUME TypeOK, NEW k \in Marked, Mark(k)
    PROVE  /\ last' \in [Marked -> {-1} \cup Day]
           /\ UNCHANGED trouble \/ (Fault /\ glitch' \in BOOLEAN)
<1>1. last' \in [Marked -> {-1} \cup Day]
  BY DEF TypeOK, Mark
<1>2. UNCHANGED trouble \/ (Fault /\ glitch' \in BOOLEAN)
  BY DEF Mark
<1> QED BY <1>1, <1>2

LEMMA StepType ==
    ASSUME TypeOK, UNCHANGED fixed, pc' \in Place,
           last' \in [Marked -> {-1} \cup Day], backups' \in Seq(Backup),
           obs' \in [Day -> SUBSET Providers],
           heads' \in [Day -> Providers \cup {"none", "skipped", "unread", "again", "failed"}],
           UNCHANGED trouble \/ (Fault /\ glitch' \in BOOLEAN)
    PROVE  TypeOK'
  BY TroubleType DEF TypeOK, fixed, clock, read

\* Every step of tick, and of Reconcile's retention, keeps the types.
TickStep == \/ BootCheck \/ (\E k \in Marked : Check(k))
            \/ Create \/ Vacuum \/ Prune \/ BackupMark \/ Retention
            \/ ForecastFirst \/ ForecastSecond \/ ForecastMark
            \/ HeadsUpMark \/ SendHeadsUp \/ Window \/ WindowEnd

LEMMA TickStepType == TypeOK /\ TickStep => TypeOK'
<1> SUFFICES ASSUME TypeOK, TickStep PROVE TypeOK'
  OBVIOUS
<1>0. /\ last \in [Marked -> {-1} \cup Day] /\ backups \in Seq(Backup)
      /\ obs \in [Day -> SUBSET Providers]
      /\ heads \in [Day -> Providers \cup {"none", "skipped", "unread", "again", "failed"}]
      /\ glitch \in BOOLEAN /\ date \in Day
  BY DEF TypeOK
<1>1. CASE BootCheck \/ \E k \in Marked : Check(k)
  <2>1. pc' \in Place /\ UNCHANGED <<fixed, durable, heads>>
    BY <1>1 DEF BootCheck, Check, Place, Body, After, Marked
  <2>2. UNCHANGED trouble \/ (Fault /\ glitch' \in BOOLEAN)
    BY <1>1 DEF BootCheck, Check
  <2> QED BY <1>0, <2>1, <2>2, StepType DEF durable
<1>2. CASE Create
  <2>1. pc' \in Place /\ UNCHANGED <<fixed, last, obs, heads>> /\ backups' \in Seq(Backup)
    <3>1. [of |-> date, whole |-> FALSE] \in Backup
      BY <1>0 DEF Backup
    <3>2. Append(backups, [of |-> date, whole |-> FALSE]) \in Seq(Backup)
      BY <1>0, <3>1
    <3> QED BY <1>0, <1>2, <3>2 DEF Create, Place, Marked
  <2>2. UNCHANGED trouble \/ (Fault /\ glitch' \in BOOLEAN)
    BY <1>0, <1>2 DEF Create
  <2> QED BY <1>0, <2>1, <2>2, StepType
<1>3. CASE Vacuum
  <2> DEFINE new == [of |-> date, whole |-> TRUE]
             done == [i \in 1..Len(backups) |-> IF i = Len(backups) THEN new ELSE backups[i]]
  <2>1. done \in Seq(Backup)
    <3>1. new \in Backup
      BY <1>0 DEF Backup
    <3>2. Len(backups) \in Nat /\ \A i \in 1..Len(backups) : backups[i] \in Backup
      BY <1>0, LenProperties
    <3> HIDE DEF new
    <3>3. done \in [1..Len(backups) -> Backup]
      BY <3>1, <3>2
    <3> QED BY <3>2, <3>3, SeqDef
  <2>2. pc' \in Place /\ UNCHANGED <<fixed, last, obs, heads>> /\ backups' \in Seq(Backup)
    BY <1>0, <1>3, <2>1 DEF Vacuum, Place, Marked
  <2>3. UNCHANGED trouble \/ (Fault /\ glitch' \in BOOLEAN)
    BY <1>0, <1>3 DEF Vacuum
  <2> QED BY <1>0, <2>2, <2>3, StepType
<1>4. CASE Prune
  <2>1. pc' \in Place /\ UNCHANGED <<fixed, last, obs, heads>> /\ backups' \in Seq(Backup)
    BY <1>0, <1>4, NewestType DEF Prune, Place, Marked
  <2>2. UNCHANGED trouble \/ (Fault /\ glitch' \in BOOLEAN)
    BY <1>0, <1>4 DEF Prune
  <2> QED BY <1>0, <2>1, <2>2, StepType
<1>5. CASE BackupMark \/ ForecastMark \/ HeadsUpMark
  <2>1. PICK k \in Marked : Mark(k)
    BY <1>5 DEF BackupMark, ForecastMark, HeadsUpMark, Marked
  <2>2. pc' \in Place /\ UNCHANGED <<fixed, backups, obs, heads>>
    BY <1>5 DEF BackupMark, ForecastMark, HeadsUpMark, Place, Marked
  <2> QED BY <1>0, <2>1, <2>2, MarkType, StepType
<1>6. CASE Retention
  <2>1. pc' \in Place /\ UNCHANGED <<fixed, backups, obs, heads>>
    BY <1>6 DEF Retention, Place, Marked
  <2>2. CASE Mark("retention")
    BY <1>0, <2>1, <2>2, MarkType, StepType DEF Marked
  <2>3. CASE Fault /\ UNCHANGED <<last, glitch>>
    BY <1>0, <2>1, <2>3, StepType
  <2> QED BY <1>6, <2>2, <2>3 DEF Retention
<1>7. CASE ForecastFirst \/ ForecastSecond
  <2>1. First \in Providers \cup {"none"} /\ Second \in Providers \cup {"none"}
    BY DEF First, Second, OpenMeteo, SunsetHue, Providers
  <2>2. PICK p \in Providers \cup {"none"} : Fetch(p)
    BY <1>7, <2>1 DEF ForecastFirst, ForecastSecond
  <2>3. obs' \in [Day -> SUBSET Providers] /\ UNCHANGED <<fixed, last, backups, heads, trouble>>
    BY <1>0, <2>2 DEF Fetch
  <2>4. pc' \in Place
    BY <1>7 DEF ForecastFirst, ForecastSecond, Place
  <2> QED BY <1>0, <2>3, <2>4, StepType
<1>8. CASE SendHeadsUp
  <2>1. Gate \in Providers \cup {"skipped"}
    BY <1>0 DEF Gate
  <2>2. heads' \in [Day -> Providers \cup {"none", "skipped", "unread", "again", "failed"}]
    BY <1>0, <1>8, <2>1 DEF SendHeadsUp, Spoiled
  <2>3. UNCHANGED trouble \/ (Fault /\ glitch' \in BOOLEAN)
    BY <1>0, <1>8 DEF SendHeadsUp
  <2>4. pc' \in Place /\ UNCHANGED <<fixed, durable>>
    BY <1>8 DEF SendHeadsUp, Place
  <2> QED BY <1>0, <2>2, <2>3, <2>4, StepType DEF durable
<1>9. CASE Window \/ WindowEnd
  <2>1. pc' \in Place /\ UNCHANGED <<fixed, durable, heads, trouble>>
    BY <1>9 DEF Window, WindowEnd, Place
  <2> QED BY <1>0, <2>1, StepType DEF durable
<1> QED
  BY <1>1, <1>2, <1>3, <1>4, <1>5, <1>6, <1>7, <1>8, <1>9 DEF TickStep

LEMMA NextType == TypeOK /\ [Next]_vars => TypeOK'
<1> SUFFICES ASSUME TypeOK, [Next]_vars PROVE TypeOK'
  OBVIOUS
<1>1. CASE Tick
  <2>1. day' \in Day /\ now' \in Nat /\ lag' \in 0..MaxLag
    BY <1>1, BoundAssumption, MidnightAssumption DEF TypeOK, Tick, Day
  <2>2. serving' \in BOOLEAN
    BY <1>1 DEF TypeOK, Tick
  <2> QED BY <1>1, <2>1, <2>2 DEF TypeOK, Tick, read, durable
<1>2. CASE Crash
  <2>1. crashes' \in 0..MaxCrashes /\ date' \in Day
    BY <1>2, BoundAssumption DEF TypeOK, Crash, Day
  <2> QED BY <1>2, <2>1 DEF TypeOK, Crash, Place, clock, durable
<1>3. CASE Restart \/ Wake
  BY <1>3 DEF TypeOK, Restart, Wake, Place, Marked, clock, read, durable, trouble
<1>4. CASE Plan
  <2>1. wake' \in Nat /\ serving' \in BOOLEAN
    BY <1>4, NextEventType DEF TypeOK, Plan
  <2> QED BY <1>4, <2>1 DEF TypeOK, Plan, Place, clock, read, durable
<1>5. CASE UNCHANGED vars
  BY <1>5 DEF TypeOK, vars, fixed, clock, read, durable, trouble
<1> QED
  BY <1>1, <1>2, <1>3, <1>4, <1>5, TickStepType DEF Next, TickStep

\* Types hold for every calendar and whatever fails.
THEOREM TypeCorrect == Spec => []TypeOK
  BY InitType, NextType, PTL DEF Spec

-----------------------------------------------------------------------------
(* The timer *)

\* The clock shows the date it is in.
Calendar == Midnight[day] <= now /\ now < Midnight[day + 1]

LEMMA CalendarHolds ==
    /\ Init => Calendar
    /\ TypeOK /\ Calendar /\ [Next]_vars => Calendar'
<1>1. Init => Calendar
  BY MidnightAssumption, BoundAssumption DEF Init, Calendar
<1>2. ASSUME TypeOK, Calendar, [Next]_vars PROVE Calendar'
  <2>1. CASE Tick
    <3>1. now \in Nat /\ day \in Day /\ Midnight[day] \in Nat /\ Midnight[day + 1] \in Nat
      BY <1>2, MidnightType DEF TypeOK
    <3>2. CASE now + 1 = Midnight[day + 1]
      <4>1. day + 1 \in Day /\ day' = day + 1 /\ now' = now + 1
        BY <1>2, <2>1, <3>1, <3>2, MidnightAssumption, BoundAssumption DEF Tick, Day
      <4>2. Midnight[day + 1] < Midnight[day + 1 + 1] /\ Midnight[day + 1 + 1] \in Nat
        BY <4>1, MidnightAssumption, BoundAssumption DEF Day
      <4> QED BY <3>1, <3>2, <4>1, <4>2 DEF Calendar
    <3>3. CASE now + 1 # Midnight[day + 1]
      BY <1>2, <2>1, <3>1, <3>3 DEF Calendar, Tick
    <3> QED BY <3>2, <3>3
  <2>2. CASE UNCHANGED <<now, day>>
    BY <1>2, <2>2 DEF Calendar
  <2> QED
    BY <1>2, <2>1, <2>2 DEF Next, Crash, Restart, BootCheck, Plan, Wake, Check, Create, Vacuum,
       Prune, BackupMark, Retention, ForecastFirst, ForecastSecond, Fetch, ForecastMark,
       HeadsUpMark, SendHeadsUp, Window, WindowEnd, vars, fixed, clock
<1> QED BY <1>1, <1>2

Watched == {"retention", "forecast", "headsup", "start"}

\* What nextEvent returns is no later than any watched slot ahead of it.
LEMMA NextEventEarly ==
    ASSUME TypeOK, Calendar, NEW t \in NextEvent,
           NEW d \in Day, NEW k \in Watched, now < Slot[k][d]
    PROVE  t <= Slot[k][d]
<1> USE DEF Watched
<1>0. /\ k \in Slots /\ k \in Candidates /\ k # "plan" /\ d \in Nat /\ day \in Day /\ day \in Nat
      /\ now \in Nat
  BY DEF Slots, Marked, Candidates, TypeOK, Day
<1>1. /\ Midnight[d] \in Nat /\ Midnight[d + 1] \in Nat
      /\ Midnight[day] \in Nat /\ Midnight[day + 1] \in Nat
  BY <1>0, MidnightType
<1>2. \A j \in Slots, c \in Day : Slot[j][c] \in Nat
  BY SlotType
<1>3. \A c \in Day : /\ Slot["retention"][c] <= Slot[k][c] /\ Slot[k][c] < Midnight[c + 1]
                      /\ \A j \in Candidates : Midnight[c] <= Slot[j][c] /\ Slot[j][c] < Midnight[c + 1]
  <2> SUFFICES ASSUME NEW c \in Day
               PROVE  /\ Slot["retention"][c] <= Slot[k][c] /\ Slot[k][c] < Midnight[c + 1]
                      /\ \A j \in Candidates : Midnight[c] <= Slot[j][c] /\ Slot[j][c] < Midnight[c + 1]
    OBVIOUS
  <2>1. /\ Slot["plan"][c] \in Nat /\ Slot["backup"][c] \in Nat /\ Slot["retention"][c] \in Nat
        /\ Slot["forecast"][c] \in Nat /\ Slot["headsup"][c] \in Nat
        /\ Slot["start"][c] \in Nat /\ Slot["end"][c] \in Nat
    BY <1>2 DEF Slots, Marked
  <2>2. Midnight[c] \in Nat /\ Midnight[c + 1] \in Nat BY MidnightType
  <2>3. /\ Midnight[c] <= Slot["plan"][c] /\ Slot["plan"][c] <= Slot["backup"][c]
        /\ Slot["backup"][c] <= Slot["retention"][c] /\ Slot["retention"][c] < Slot["forecast"][c]
        /\ Slot["forecast"][c] <= Slot["headsup"][c] /\ Slot["headsup"][c] <= Slot["start"][c]
        /\ Slot["start"][c] < Slot["end"][c] /\ Slot["end"][c] < Midnight[c + 1]
    BY SlotAssumption
  <2> QED BY <2>1, <2>2, <2>3 DEF Candidates
<1>4. ~(d < day)
  <2>1. CASE d < day
    <3>1. d + 1 \in 0..(LastDay + 1) /\ day \in 0..(LastDay + 1) /\ d + 1 <= day
      BY <1>0, <2>1, BoundAssumption DEF Day
    <3>2. Midnight[d + 1] <= Midnight[day] BY <3>1, MidnightOrder
    <3> QED BY <1>0, <1>1, <1>2, <1>3, <3>2 DEF Calendar
  <2> QED BY <2>1
<1>5. CASE t = now
  BY <1>0, <1>2, <1>5
<1>6. CASE t \in Ahead /\ \A u \in Ahead : t <= u
  <2>1. CASE d = day
    BY <1>0, <1>6, <2>1 DEF Ahead
  <2>2. CASE day < d
    <3>1. Midnight[day + 1] <= Midnight[d]
      <4>1. day + 1 \in 0..(LastDay + 1) /\ d \in 0..(LastDay + 1) /\ day + 1 <= d
        BY <1>0, <2>2, BoundAssumption DEF Day
      <4> QED BY <4>1, MidnightOrder
    <3>2. PICK j \in Candidates : t = Slot[j][day]
      BY <1>6 DEF Ahead
    <3>3. j \in Slots
      BY DEF Candidates, Slots, Marked
    <3> QED BY <1>0, <1>1, <1>2, <1>3, <3>1, <3>2, <3>3
  <2> QED BY <1>0, <1>4, <2>1, <2>2
<1>7. CASE t = Tomorrow /\ Ahead = {}
  <2>1. d # day
    BY <1>0, <1>7 DEF Ahead
  <2>2. day + 1 \in Day /\ Tomorrow <= Slot["retention"][day + 1]
    BY <1>0, <1>4, <2>1, ChangeAssumption, BoundAssumption DEF Day, Tomorrow
  <2>3. CASE d = day + 1
    BY <1>0, <1>2, <1>3, <1>7, <2>2, <2>3, BoundAssumption DEF Tomorrow, Slots, Marked
  <2>4. CASE day + 1 < d
    <3>1. Midnight[day + 2] <= Midnight[d] /\ Midnight[day + 2] \in Nat
      <4>1. day + 2 \in 0..(LastDay + 1) /\ d \in 0..(LastDay + 1) /\ day + 2 <= d
        BY <1>0, <2>4, BoundAssumption DEF Day
      <4> QED BY <4>1, MidnightOrder
    <3>2. Slot["retention"][day + 1] < Midnight[day + 2]
      BY <1>0, <1>3, <2>2 DEF Candidates
    <3>3. Slot["retention"][day + 1] \in Nat /\ Slot["plan"][day] \in Nat /\ DayLength \in Nat
      BY <1>0, <1>2, <2>2, BoundAssumption DEF Slots, Marked
    <3> QED BY <1>0, <1>1, <1>2, <1>3, <1>7, <2>2, <3>1, <3>2, <3>3 DEF Candidates, Tomorrow
  <2> QED BY <1>0, <1>4, <2>1, <2>3, <2>4
<1> QED BY <1>5, <1>6, <1>7 DEF NextEvent

LEMMA TimerStep == TypeOK /\ Calendar /\ SlotsNotSlept /\ [Next]_vars => SlotsNotSlept'
<1> SUFFICES ASSUME TypeOK, Calendar, SlotsNotSlept, [Next]_vars PROVE SlotsNotSlept'
  OBVIOUS
<1>1. CASE Plan
  BY <1>1, NextEventEarly DEF Plan, SlotsNotSlept, Watched
<1>2. CASE UNCHANGED <<pc, wake, planned>>
  BY <1>2 DEF SlotsNotSlept
<1>3. CASE pc' # "sleep"
  BY <1>3 DEF SlotsNotSlept
<1>4. ASSUME NEW k \in Marked, Check(k) PROVE pc' # "sleep"
  BY <1>4 DEF Check, Body, After, Marked
<1> QED
  BY <1>1, <1>2, <1>3, <1>4 DEF Next, Tick, Crash, Restart, BootCheck, Wake, Create, Vacuum,
     Prune, BackupMark, Retention, ForecastFirst, ForecastSecond, ForecastMark,
     HeadsUpMark, SendHeadsUp, Window, WindowEnd, vars, fixed

\* On every calendar whose time changes are shorter than the time from the plan
\* slot to retention's, and from wherever nextEvent is called, no slot is slept
\* through.
THEOREM NoSlotSlept == Spec => []SlotsNotSlept
<1>1. Init => SlotsNotSlept
  BY DEF Init, SlotsNotSlept
<1> QED BY <1>1, CalendarHolds, TimerStep, TypeCorrect, PTL DEF Spec

-----------------------------------------------------------------------------
(* Markers *)

InTick == Place \ {"down", "plan", "sleep"}

\* No marker names a date to come, for tick and Reconcile not even one after
\* the date they have read.
Ordered == /\ date <= day /\ \A k \in Marked : last[k] <= day
           /\ pc \in InTick => \A k \in Marked : last[k] <= date

LEMMA MarkOrdered ==
    ASSUME TypeOK, Ordered, pc \in InTick, NEW k \in Marked,
           Mark(k) \/ UNCHANGED last, UNCHANGED <<day, date>>
    PROVE  Ordered'
<1>1. \A j \in Marked : last'[j] <= date
  BY DEF Ordered, Mark, TypeOK, Day
<1>2. date \in Nat /\ day \in Nat /\ \A j \in Marked : last[j] \in Int /\ last'[j] \in Int
  BY DEF TypeOK, Mark, Day
<1> QED BY <1>1, <1>2 DEF Ordered

LEMMA OrderedStep == TypeOK /\ Ordered /\ [Next]_vars => Ordered'
<1> SUFFICES ASSUME TypeOK, Ordered, [Next]_vars PROVE Ordered'
  OBVIOUS
<1>0. date \in Nat /\ day \in Nat /\ \A k \in Marked : last[k] \in Int
  BY DEF TypeOK, Day
<1>1. CASE Tick
  BY <1>0, <1>1 DEF Ordered, Tick, read, durable
<1>2. CASE Wake \/ Restart
  BY <1>0, <1>2 DEF Ordered, Wake, Restart, clock, durable
<1>3. CASE Crash
  BY <1>0, <1>3, DayType DEF Ordered, Crash, InTick, clock, durable, TypeOK, Day
<1>4. CASE Plan
  BY <1>4 DEF Ordered, Plan, InTick, clock, read, durable
<1>5. CASE TickStep
  <2>1. UNCHANGED <<day, date>> /\ pc \in InTick
    BY <1>5 DEF TickStep, BootCheck, Check, Create, Vacuum, Prune, BackupMark, Retention,
       ForecastFirst, ForecastSecond, Fetch, ForecastMark, HeadsUpMark, SendHeadsUp,
       Window, WindowEnd, fixed, clock, read, InTick, Place, Marked
  <2>2. UNCHANGED last \/ \E k \in Marked : Mark(k)
    BY <1>5 DEF TickStep, BootCheck, Check, Create, Vacuum, Prune, BackupMark, Retention,
       ForecastFirst, ForecastSecond, Fetch, ForecastMark, HeadsUpMark, SendHeadsUp,
       Window, WindowEnd, durable, Marked
  <2> QED BY <2>1, <2>2, MarkOrdered DEF Marked
<1>6. CASE UNCHANGED vars
  BY <1>6 DEF Ordered, vars, fixed, clock, read, durable
<1> QED
  BY <1>1, <1>2, <1>3, <1>4, <1>5, <1>6 DEF Next, TickStep

LEMMA OrderedInit == Init => Ordered
  BY DEF Init, Ordered, InTick

-----------------------------------------------------------------------------
(* Backups *)

\* The file being made is the last, and it is whole before any is removed.
Making ==
    /\ pc = "vacuum" => Len(backups) > 0
    /\ pc \in {"prune", "backupMark"} => /\ Len(backups) > 0
                                         /\ backups[Len(backups)].whole
                                         /\ backups[Len(backups)].of = date

LEMMA NewestLast ==
    ASSUME backups \in Seq(Backup), Len(backups) > 0
    PROVE  Len(Newest) > 0 /\ Newest[Len(Newest)] = backups[Len(backups)]
<1>1. CASE Len(backups) < Keep
  BY <1>1 DEF Newest
<1>2. CASE ~(Len(backups) < Keep)
  BY <1>2, BoundAssumption DEF Newest
<1> QED BY <1>1, <1>2

LEMMA RestoreStep ==
    TypeOK /\ Ordered /\ Making /\ RestorePointKept /\ [Next]_vars
      => Making' /\ RestorePointKept'
<1> SUFFICES ASSUME TypeOK, Ordered, Making, RestorePointKept, [Next]_vars
             PROVE  Making' /\ RestorePointKept'
  OBVIOUS
<1>0. /\ backups \in Seq(Backup) /\ Len(backups) \in Nat /\ date \in Nat
      /\ \A i \in 1..Len(backups) : backups[i].of \in Nat
      /\ \A k \in Marked : last[k] \in Int
      /\ "backup" \in Marked
  <2>1. backups \in Seq(Backup) /\ "backup" \in Marked
    BY DEF TypeOK, Marked
  <2>2. Len(backups) \in Nat /\ \A i \in 1..Len(backups) : backups[i] \in Backup
    BY <2>1, LenProperties
  <2>3. date \in Nat /\ \A k \in Marked : last[k] \in Int
    BY DEF TypeOK, Day
  <2> QED BY <2>1, <2>2, <2>3 DEF Backup, Day
<1>1. CASE Create
  <2>1. CASE backups' = Append(backups, [of |-> date, whole |-> FALSE]) /\ pc' = "vacuum"
    BY <1>0, <1>1, <2>1 DEF Create, Making, RestorePointKept
  <2>2. CASE UNCHANGED backups /\ pc' = "retention"
    BY <1>0, <1>1, <2>2 DEF Create, Making, RestorePointKept
  <2> QED BY <1>1, <2>1, <2>2 DEF Create
<1>2. CASE Vacuum
  <2>1. CASE UNCHANGED backups /\ pc' = "retention"
    BY <1>0, <1>2, <2>1 DEF Vacuum, Making, RestorePointKept
  <2>2. CASE pc' = "prune" /\ backups' = [i \in 1..Len(backups) |->
                  IF i = Len(backups) THEN [of |-> date, whole |-> TRUE] ELSE backups[i]]
    <3>1. Len(backups) > 0 /\ last["backup"] <= date
      BY <1>0, <1>2 DEF Vacuum, Making, Ordered, InTick, Place
    <3>2. /\ Len(backups') = Len(backups) /\ backups'[Len(backups)] = [of |-> date, whole |-> TRUE]
          /\ date' = date /\ last' = last
      BY <1>0, <1>2, <2>2, <3>1 DEF Vacuum, fixed, read
    <3>3. /\ Len(backups') \in 1..Len(backups')
          /\ backups'[Len(backups')].of = date /\ date >= last'["backup"]
      BY <1>0, <3>1, <3>2
    <3>4. backups'[Len(backups')].whole
      BY <3>2
    <3>5. Making'
      BY <2>2, <3>2, <3>3, <3>4 DEF Making
    <3>6. RestorePointKept'
      BY <3>3, <3>4 DEF RestorePointKept
    <3> QED BY <3>5, <3>6
  <2> QED BY <1>2, <2>1, <2>2 DEF Vacuum
<1>3. CASE Prune
  <2>1. /\ Len(backups) > 0 /\ backups[Len(backups)].whole /\ backups[Len(backups)].of = date
        /\ last["backup"] <= date /\ date' = date /\ last' = last
    BY <1>0, <1>3 DEF Prune, Making, Ordered, InTick, Place, fixed, read
  <2>2. CASE UNCHANGED backups
    <3>1. Making'
      BY <2>1, <2>2 DEF Making
    <3>2. RestorePointKept'
      BY <2>1, <2>2 DEF RestorePointKept
    <3> QED BY <3>1, <3>2
  <2>3. CASE backups' = Newest /\ pc' = "backupMark"
    <3>1. Len(backups') > 0 /\ backups'[Len(backups')] = backups[Len(backups)] /\ Len(backups') \in Nat
      BY <1>0, <2>1, <2>3, NewestLast, NewestType, LenProperties
    <3>2. Making'
      BY <2>1, <2>3, <3>1 DEF Making
    <3>3. Len(backups') \in 1..Len(backups') /\ backups'[Len(backups')].of >= last'["backup"]
      BY <1>0, <2>1, <3>1
    <3>4. RestorePointKept'
      BY <2>1, <3>1, <3>3 DEF RestorePointKept
    <3> QED BY <3>2, <3>4
  <2> QED BY <1>3, <2>2, <2>3 DEF Prune
<1>4. CASE BackupMark
  <2>1. last'["backup"] \in {date, last["backup"]} /\ pc' = "retention" /\ UNCHANGED backups
    BY <1>0, <1>4 DEF BackupMark, Mark, TypeOK
  <2>2. Len(backups) > 0 /\ backups[Len(backups)].whole /\ backups[Len(backups)].of = date
    BY <1>4 DEF BackupMark, Making
  <2> QED BY <1>0, <2>1, <2>2 DEF Making, RestorePointKept
<1>5. CASE UNCHANGED <<backups, last>> /\ (pc' \notin {"vacuum", "prune", "backupMark"}
                                          \/ UNCHANGED <<pc, date>>)
  BY <1>5 DEF Making, RestorePointKept
<1>6. CASE UNCHANGED backups /\ last'["backup"] = last["backup"]
           /\ pc' \notin {"vacuum", "prune", "backupMark"}
  BY <1>6 DEF Making, RestorePointKept
<1>7. CASE Retention \/ ForecastMark \/ HeadsUpMark
  BY <1>6, <1>7 DEF Retention, ForecastMark, HeadsUpMark, Mark, TypeOK, Marked
<1>8. ASSUME NEW k \in Marked, Check(k)
      PROVE  UNCHANGED <<backups, last>> /\ pc' \notin {"vacuum", "prune", "backupMark"}
  BY <1>8 DEF Check, Body, After, Marked, durable
<1>9. CASE \/ Tick \/ Crash \/ Restart \/ BootCheck \/ Plan \/ Wake \/ ForecastFirst
           \/ ForecastSecond \/ SendHeadsUp \/ Window \/ WindowEnd \/ UNCHANGED vars
  BY <1>5, <1>9 DEF Tick, Crash, Restart, BootCheck, Plan, Wake, ForecastFirst, ForecastSecond,
     Fetch, SendHeadsUp, Window, WindowEnd, vars, fixed, read, durable
<1> QED
  BY <1>1, <1>2, <1>3, <1>4, <1>5, <1>7, <1>8, <1>9 DEF Next

\* A complete backup as new as the marker says is on disk at all times, however
\* many unfinished files crashes and failures leave among those kept.
THEOREM RestorePoint == Spec => []RestorePointKept
<1>1. Init => Making /\ RestorePointKept
  BY DEF Init, Making, RestorePointKept, Marked
<1> QED BY <1>1, OrderedInit, OrderedStep, RestoreStep, TypeCorrect, PTL DEF Spec

-----------------------------------------------------------------------------
(* The heads-up *)

\* While no marker is lost: a heads-up follows its date's round and marker, and
\* a round goes on only for a date whose heads-up is still to come.
Informed ==
    /\ \A d \in Day : heads[d] # "none" => d <= last["forecast"] /\ d <= last["headsup"]
    /\ pc \in {"first", "second", "forecastMark"} => last["forecast"] # date
    /\ pc = "headsup" /\ Due("headsup") => last["forecast"] = date
    /\ pc \in {"headsupMark", "send"} => last["forecast"] = date /\ heads[date] = "none"
    /\ pc = "send" => last["headsup"] = date

Decided == \A d \in Day : /\ heads[d] # "again"
                         /\ (heads[d] = "skipped" => obs[d] = {})
                         /\ (heads[d] \in {"unread"} \cup (Providers \ {selected}) =>
                                selected \notin obs[d])

LEMMA GateDecides ==
    ASSUME TypeOK
    PROVE  /\ Gate \notin {"none", "again", "unread"}
           /\ Gate = "skipped" => obs[date] = {}
           /\ Gate \in Providers \ {selected} => selected \notin obs[date]
<1>1. obs[date] \subseteq Providers /\ selected \in Providers
  BY DEF TypeOK
<1>2. CASE selected \in obs[date]
  BY <1>1, <1>2 DEF Gate, Providers
<1>3. CASE selected \notin obs[date] /\ obs[date] # {}
  <2>1. Gate \in obs[date]
    BY <1>3 DEF Gate
  <2> QED BY <1>1, <1>3, <2>1 DEF Providers
<1>4. CASE obs[date] = {}
  BY <1>4 DEF Gate, Providers
<1> QED BY <1>2, <1>3, <1>4

LEMMA InformedStep ==
    ASSUME TypeOK, Ordered, Informed, Decided, [Next]_vars, ~glitch'
    PROVE  Informed' /\ Decided'
<1>0. /\ date \in Day /\ date \in Nat /\ \A d \in Day : d \in Nat
      /\ last["forecast"] \in Int /\ last["headsup"] \in Int
      /\ {"forecast", "headsup", "backup", "retention"} \subseteq Marked
  BY DayType DEF TypeOK, Marked, Day
<1>1. pc \in InTick => last["forecast"] <= date /\ last["headsup"] <= date
  BY <1>0 DEF Ordered
<1>2. CASE Check("forecast")
  <2>1. UNCHANGED <<date, seen, last, heads, obs, selected>> /\ pc' \in {"first", "headsup"}
    BY <1>2 DEF Check, Body, After, fixed, read, durable
  <2>2. pc' = "first" => last["forecast"] # date
    BY <1>2 DEF Check, Body, After
  <2>3. pc' = "headsup" => ~Due("forecast") \/ last["forecast"] = date
    BY <1>2 DEF Check, Body, After
  <2>4. Due("headsup") => Due("forecast")
    <3>1. Slot["forecast"][date] <= Slot["headsup"][date]
      BY <1>0, SlotAssumption
    <3>2. Slot["forecast"][date] \in Nat /\ Slot["headsup"][date] \in Nat /\ seen \in Nat
      BY <1>0, SlotType DEF Slots, TypeOK
    <3> QED BY <3>1, <3>2 DEF Due
  <2> QED BY <2>1, <2>2, <2>3, <2>4 DEF Informed, Decided, Due
<1>3. CASE Check("headsup")
  <2>1. UNCHANGED <<date, seen, last, heads, obs, selected>> /\ pc' \in {"headsupMark", "window"}
    BY <1>3 DEF Check, Body, After, fixed, read, durable
  <2>2. pc' = "headsupMark" => Due("headsup") /\ last["headsup"] # date
    BY <1>3 DEF Check, Body, After
  <2>3. pc = "headsup" /\ last["headsup"] <= date
    BY <1>1, <1>3 DEF Check, InTick, Place, Marked
  <2>4. pc' = "headsupMark" => last["forecast"] = date /\ heads[date] = "none"
    BY <1>0, <2>2, <2>3 DEF Informed
  <2> QED BY <2>1, <2>4 DEF Informed, Decided
<1>4. CASE ForecastFirst \/ ForecastSecond
  <2>1. /\ UNCHANGED <<date, seen, last, heads, selected>>
        /\ pc \in {"first", "second"} /\ pc' \in {"second", "forecastMark"}
        /\ \A d \in Day : d # date => obs'[d] = obs[d]
    BY <1>4 DEF ForecastFirst, ForecastSecond, Fetch, fixed, read, TypeOK
  <2>2. last["forecast"] <= date
    BY <1>1, <2>1 DEF InTick, Place
  <2>3. heads[date] = "none"
    BY <1>0, <2>1, <2>2 DEF Informed
  <2>4. Informed'
    BY <2>1 DEF Informed
  <2>5. Decided'
    BY <2>1, <2>3 DEF Decided, Providers
  <2> QED BY <2>4, <2>5
<1>5. CASE ForecastMark
  <2>1. /\ UNCHANGED <<date, heads, obs, selected>> /\ pc' = "headsup" /\ last["forecast"] <= date
        /\ last'["forecast"] = date /\ last'["headsup"] = last["headsup"]
    BY <1>0, <1>1, <1>5 DEF ForecastMark, Mark, fixed, read, TypeOK, InTick, Place
  <2>2. \A d \in Day : heads'[d] # "none" => d <= last'["forecast"] /\ d <= last'["headsup"]
    BY <1>0, <2>1 DEF Informed
  <2> QED BY <2>1, <2>2 DEF Informed, Decided
<1>6. CASE HeadsUpMark
  <2>1. /\ UNCHANGED <<date, heads, obs, selected>> /\ pc = "headsupMark" /\ pc' = "send"
        /\ last["headsup"] <= date
        /\ last'["headsup"] = date /\ last'["forecast"] = last["forecast"]
    BY <1>0, <1>1, <1>6 DEF HeadsUpMark, Mark, fixed, read, TypeOK, InTick, Place
  <2>2. \A d \in Day : heads'[d] # "none" => d <= last'["forecast"] /\ d <= last'["headsup"]
    BY <1>0, <2>1 DEF Informed
  <2> QED BY <2>1, <2>2 DEF Informed, Decided
<1>7. CASE SendHeadsUp
  <2>1. /\ UNCHANGED <<date, last, obs, selected>> /\ pc = "send" /\ pc' = "window"
        /\ heads[date] = "none" /\ last["forecast"] = date /\ last["headsup"] = date
        /\ \A d \in Day : d # date => heads'[d] = heads[d]
        /\ heads'[date] \in {Gate} \cup Spoiled
    BY <1>0, <1>7 DEF SendHeadsUp, Informed, fixed, read, durable, TypeOK
  <2>2. Informed'
    BY <1>0, <2>1 DEF Informed
  <2>3. Decided'
    BY <2>1, GateDecides DEF Decided, Providers, Spoiled
  <2> QED BY <2>2, <2>3
<1>8. CASE BackupMark \/ Retention
  BY <1>0, <1>8 DEF BackupMark, Retention, Mark, Informed, Decided, fixed, read, TypeOK
<1>9. CASE Check("backup") \/ Check("retention")
  BY <1>9 DEF Check, Body, After, Informed, Decided, fixed, read, durable
<1>10. CASE \/ Tick \/ Crash \/ Restart \/ BootCheck \/ Plan \/ Wake \/ Create \/ Vacuum
            \/ Prune \/ Window \/ WindowEnd
  BY <1>10 DEF Tick, Crash, Restart, BootCheck, Plan, Wake, Create, Vacuum, Prune, Window,
     WindowEnd, fixed, read, durable, Informed, Decided, Due
<1>11. CASE UNCHANGED vars
  BY <1>11 DEF vars, fixed, read, durable, Informed, Decided, Due
<1> QED
  BY <1>2, <1>3, <1>4, <1>5, <1>6, <1>7, <1>8, <1>9, <1>10, <1>11 DEF Next, Marked

\* For every choice of providers: while the markers are stored and read, the
\* heads-up of a date is looked at once at most, after its forecast round, and
\* falls back or gives up only if what it lacks never comes, the other provider's
\* observation excepted when its lookup fails.
THEOREM HeadsUpGuard == Spec => []HeadsUpOnce
<1> DEFINE Inv == ~glitch => Informed /\ Decided
<1>1. Init => Inv
  BY DEF Init, Informed, Decided, Providers
<1>2. TypeOK /\ Ordered /\ Inv /\ [Next]_vars => Inv'
  <2> SUFFICES ASSUME TypeOK, Ordered, Inv, [Next]_vars, ~glitch'
               PROVE  (Informed /\ Decided)'
    OBVIOUS
  <2>1. ~glitch
    BY DEF Next, Tick, Crash, Restart, BootCheck, Plan, Wake, Check, Create, Vacuum, Prune,
       BackupMark, Retention, ForecastFirst, ForecastSecond, Fetch, ForecastMark, HeadsUpMark,
       SendHeadsUp, Window, WindowEnd, Mark, vars, trouble
  <2> QED BY <2>1, InformedStep
<1>3. Inv => HeadsUpOnce
  BY DEF HeadsUpOnce, Decided
<1> QED BY <1>1, <1>2, <1>3, OrderedInit, OrderedStep, TypeCorrect, PTL DEF Spec

-----------------------------------------------------------------------------
(* A date in the engine's hands *)

AfterHeadsUp   == {"send", "window", "capture"}
AfterForecast  == {"headsup", "headsupMark"} \cup AfterHeadsUp
AfterRetention == {"forecast", "first", "second", "forecastMark"} \cup AfterForecast
AfterBackup    == {"retention", "delete"} \cup AfterRetention

\* Where tick stands once it is past the slot.
Passed == [backup |-> AfterBackup, retention |-> AfterRetention,
           forecast |-> AfterForecast, headsup |-> AfterHeadsUp]

AllDone == \A k \in Marked : last[k] = day

End     == Slot["end"][day]
HeadsUp == Slot["headsup"][day]

\* While nothing has failed since nextEvent: tick leaves no due slot behind, and
\* until all are done there is a tick to come at the window's end at the latest.
Served == serving =>
    /\ pc \notin {"down", "boot", "bootRetention"}
    /\ pc \in InTick => date = day /\ (pc # "capture" => now <= seen + lag)
    /\ pc = "capture" => seen >= Slot["start"][date]
    /\ \A k \in Marked : pc \in Passed[k] /\ Due(k) => last[k] = date
    /\ AllDone \/ /\ now <= End + lag
                  /\ pc = "sleep" => wake <= End
                  /\ pc = "plan" => now < HeadsUp + lag

\* nextEvent's view of the clock is not ahead of it.
Read == planned <= now

LEMMA ReadStep == TypeOK /\ Read /\ [Next]_vars => Read'
<1> SUFFICES ASSUME TypeOK, Read, [Next]_vars PROVE Read'
  OBVIOUS
<1>0. now \in Nat /\ planned \in Nat BY DEF TypeOK
<1>1. CASE Tick BY <1>0, <1>1 DEF Tick, Read
<1>2. CASE Plan BY <1>0, <1>2 DEF Plan, Read, clock
<1>3. CASE Crash BY <1>0, <1>3 DEF Crash, Read, clock
<1>4. CASE UNCHANGED <<now, planned>> BY <1>4 DEF Read
<1> QED
  BY <1>1, <1>2, <1>3, <1>4 DEF Next, Restart, BootCheck, Wake, Check, Create, Vacuum,
     Prune, BackupMark, Retention, ForecastFirst, ForecastSecond, Fetch, ForecastMark,
     HeadsUpMark, SendHeadsUp, Window, WindowEnd, vars, fixed, clock

LEMMA EndType ==
    ASSUME TypeOK
    PROVE  /\ End \in Nat /\ now \in Nat /\ lag \in Nat /\ lag <= MaxLag /\ MaxLag \in Nat
           /\ seen \in Nat /\ wake \in Nat /\ day \in Nat /\ Midnight[day + 1] \in Nat
           /\ Slot["headsup"][day] \in Nat /\ Slot["start"][day] \in Nat
           /\ Slot["headsup"][day] <= Slot["start"][day] /\ Slot["start"][day] < End
           /\ Slot["headsup"][day] + MaxLag <= End /\ End + MaxLag < Midnight[day + 1]
<1>1. day \in Day /\ day \in Nat /\ {"headsup", "start", "end"} \subseteq Slots
  BY DayType DEF TypeOK, Slots, Marked
<1>2. lag \in Nat /\ lag <= MaxLag /\ MaxLag \in Nat BY BoundAssumption DEF TypeOK
<1>3. now \in Nat /\ seen \in Nat /\ wake \in Nat BY DEF TypeOK
<1>4. /\ Slot["headsup"][day] \in Nat /\ Slot["start"][day] \in Nat /\ End \in Nat
      /\ Midnight[day + 1] \in Nat
  BY <1>1, SlotType, MidnightType DEF End
<1> QED BY <1>1, <1>2, <1>3, <1>4, SlotAssumption, LagAssumption DEF End

\* Once the heads-up is due, every slot is.
LEMMA DueAll == ASSUME TypeOK, Due("headsup"), NEW k \in Marked PROVE Due(k)
<1>1. date \in Day BY DEF TypeOK
<1>2. Slot[k][date] <= Slot["headsup"][date]
  BY <1>1, SlotAssumption, SlotType DEF Marked, Slots
<1>3. Slot[k][date] \in Nat /\ Slot["headsup"][date] \in Nat /\ seen \in Nat
  BY <1>1, SlotType DEF Marked, Slots, TypeOK
<1> QED BY <1>2, <1>3 DEF Due

\* A tick that is past the heads-up has done all, or has time left.
LEMMA Through ==
    ASSUME TypeOK, Served, serving, pc \in {"window", "capture"}
    PROVE  AllDone \/ now < HeadsUp + lag
<1>0. /\ date = day /\ pc \in InTick
      /\ pc # "capture" => now <= seen + lag
      /\ pc = "capture" => seen >= Slot["start"][date]
      /\ \A k \in Marked : Due(k) => last[k] = date
  BY DEF Served, InTick, Place, Passed, Marked, AfterBackup, AfterRetention, AfterForecast,
         AfterHeadsUp
<1>1. CASE Due("headsup") BY <1>0, <1>1, DueAll DEF AllDone
<1>2. CASE ~Due("headsup")
  <2>1. seen < Slot["headsup"][day] BY <1>0, <1>2, EndType DEF Due
  <2>2. pc # "capture" BY <1>0, <2>1, EndType
  <2> QED BY <1>0, <2>1, <2>2, EndType DEF HeadsUp
<1> QED BY <1>1, <1>2

\* Plan, with the date's end ahead, sets the timer to it or to something earlier.
LEMMA PlanEnd == ASSUME TypeOK, NEW t \in NextEvent, now < End PROVE t <= End
<1>1. now \in Nat /\ End \in Nat BY EndType
<1>2. End \in Ahead BY DEF Ahead, Candidates, End
<1> QED BY <1>1, <1>2 DEF NextEvent, End

LEMMA ServedWithin ==
    ASSUME TypeOK, Served, serving, UNCHANGED fixed, serving' = serving,
           pc \in InTick, pc' \in InTick \cup {"plan"},
           pc' \notin {"boot", "bootRetention"},
           pc' = "capture" => pc = "capture" \/ seen >= Slot["start"][date],
           pc' = "plan" => AllDone \/ now < HeadsUp + lag,
           pc = "capture" => pc' \in {"capture", "plan"},
           \A k \in Marked : last'[k] = last[k] \/ last'[k] = date,
           \A k \in Marked : pc' \in Passed[k] /\ Due(k) => pc \in Passed[k] \/ last'[k] = date
    PROVE  Served'
<1>0. /\ date = day /\ date' = date /\ day' = day /\ now' = now /\ lag' = lag
      /\ seen' = seen /\ wake' = wake /\ pc # "sleep" /\ pc' # "sleep" /\ pc' # "down"
  BY DEF Served, fixed, clock, read, InTick, Place
<1>1. AllDone => AllDone' BY <1>0 DEF AllDone
<1>2. End' = End /\ HeadsUp' = HeadsUp /\ \A k \in Marked : Due(k)' <=> Due(k)
  BY <1>0 DEF End, HeadsUp, Due
<1>3. ASSUME NEW k \in Marked, pc' \in Passed[k], Due(k) PROVE last'[k] = date
  BY <1>3 DEF Served
<1>4. pc' \in InTick /\ pc' # "capture" => now' <= seen' + lag'
  <2>1. pc' # "plan" \/ pc' \notin InTick BY DEF InTick
  <2>2. pc' \in InTick /\ pc' # "capture" => pc # "capture" BY <2>1
  <2> QED BY <1>0, <2>2 DEF Served
<1>5. AllDone' \/ (now' <= End' + lag' /\ (pc' = "plan" => now' < HeadsUp' + lag'))
  BY <1>0, <1>1, <1>2 DEF Served
<1>6. pc' = "capture" => seen' >= Slot["start"][date'] BY <1>0 DEF Served
<1> QED BY <1>0, <1>2, <1>3, <1>4, <1>5, <1>6 DEF Served, Place

\* A step of tick that ends with the date still in hand did not fail.
LEMMA TickStepKind ==
    ASSUME TickStep, serving'
    PROVE  UNCHANGED trouble
<1>1. ~Fault BY DEF Fault
<1> QED BY <1>1 DEF TickStep, BootCheck, Check, Create, Vacuum, Prune, BackupMark, Retention,
       ForecastFirst, ForecastSecond, Fetch, ForecastMark, HeadsUpMark, SendHeadsUp,
       Window, WindowEnd, Mark

LEMMA ServedTickStep == ASSUME TypeOK, Served, TickStep PROVE Served'
<1> SUFFICES ASSUME serving' PROVE Served'
  BY DEF Served
<1>0. /\ serving' = serving /\ UNCHANGED trouble /\ serving /\ ~Fault
  BY TickStepKind DEF Fault, trouble
<1>1. /\ pc \notin {"down", "boot", "bootRetention"} /\ pc \in InTick /\ UNCHANGED fixed
  BY <1>0 DEF Served, TickStep, BootCheck, Check, Create, Vacuum, Prune, BackupMark, Retention,
       ForecastFirst, ForecastSecond, Fetch, ForecastMark, HeadsUpMark, SendHeadsUp,
       Window, WindowEnd, InTick, Place, Marked
<1>2. \A k \in Marked : Mark(k) => last' = [last EXCEPT ![k] = date]
  BY <1>0 DEF Mark
<1>3. last \in [Marked -> {-1} \cup Day] /\ {"backup", "retention", "forecast", "headsup"} = Marked
  BY DEF TypeOK, Marked
<1> DEFINE Kept(k) == last'[k] = last[k] \/ last'[k] = date
           Left(k) == pc' \in Passed[k] /\ Due(k) => pc \in Passed[k] \/ last'[k] = date
<1> USE DEF Passed, AfterBackup, AfterRetention, AfterForecast, AfterHeadsUp
<1>4. ASSUME NEW j \in Marked, Check(j)
      PROVE  pc' \in InTick /\ pc' \notin {"boot", "bootRetention", "capture", "plan"} /\ pc # "capture"
             /\ \A k \in Marked : Kept(k) /\ Left(k)
  <2>1. pc = j /\ UNCHANGED last
        /\ pc' = IF Due(j) /\ last[j] # date THEN Body[j] ELSE After[j]
    BY <1>0, <1>4 DEF Check, durable
  <2> QED BY <1>3, <2>1 DEF Body, After, InTick, Place, Marked
<1>5. CASE Create \/ Vacuum \/ Prune \/ ForecastFirst \/ ForecastSecond \/ SendHeadsUp
  <2>1. /\ UNCHANGED last /\ pc # "capture" /\ pc' \in InTick
        /\ pc' \notin {"boot", "bootRetention", "capture", "plan"}
    BY <1>0, <1>5 DEF Create, Vacuum, Prune, ForecastFirst, ForecastSecond, Fetch, SendHeadsUp,
       InTick, Place, Marked, durable
  <2>2. \A k \in Marked : Left(k)
    BY <1>0, <1>5 DEF Create, Vacuum, Prune, ForecastFirst, ForecastSecond, SendHeadsUp, Marked
  <2> QED BY <1>0, <1>1, <2>1, <2>2, ServedWithin
<1>6. CASE BackupMark \/ Retention \/ ForecastMark \/ HeadsUpMark
  <2>1. PICK j \in Marked :
            /\ last' = [last EXCEPT ![j] = date]
            /\ \/ j = "backup" /\ pc = "backupMark" /\ pc' = "retention"
               \/ j = "retention" /\ pc = "delete" /\ pc' = "forecast"
               \/ j = "forecast" /\ pc = "forecastMark" /\ pc' = "headsup"
               \/ j = "headsup" /\ pc = "headsupMark" /\ pc' = "send"
    BY <1>0, <1>1, <1>2, <1>3, <1>6 DEF BackupMark, Retention, ForecastMark, HeadsUpMark
  <2>2. \A k \in Marked : Kept(k) BY <1>3, <2>1
  <2>3. last'[j] = date BY <1>3, <2>1
  <2>4. \A k \in Marked : Left(k) BY <2>1, <2>3 DEF Marked
  <2>5. /\ pc # "capture" /\ pc' \in InTick
        /\ pc' \notin {"boot", "bootRetention", "capture", "plan"}
    BY <2>1 DEF InTick, Place, Marked
  <2> QED BY <1>0, <1>1, <2>2, <2>4, <2>5, ServedWithin
<1>7. CASE Window \/ WindowEnd
  <2>1. /\ UNCHANGED last /\ pc \in {"window", "capture"} /\ pc' \in {"capture", "plan"}
        /\ pc = "capture" => pc' = "plan"
        /\ pc' = "capture" => seen >= Slot["start"][date]
    BY <1>7, EndType DEF Window, WindowEnd, durable
  <2>2. pc' \in InTick \cup {"plan"} /\ pc' \notin {"boot", "bootRetention"}
    BY <2>1 DEF InTick, Place
  <2>3. pc' = "plan" => AllDone \/ now < HeadsUp + lag BY <1>0, <2>1, Through
  <2>4. \A k \in Marked : Left(k) BY <2>1 DEF Marked
  <2> QED BY <1>0, <1>1, <2>1, <2>2, <2>3, <2>4, ServedWithin
<1>8. CASE \E k \in Marked : Check(k)
  BY <1>0, <1>1, <1>4, <1>8, ServedWithin
<1>9. ~BootCheck BY <1>1 DEF BootCheck
<1> QED BY <1>5, <1>6, <1>7, <1>8, <1>9 DEF TickStep

LEMMA ServedTick ==
    ASSUME TypeOK, Calendar, SlotsNotSlept, Read, Served, Tick
    PROVE  /\ Served'
           /\ day' # day /\ serving => \A k \in Marked : last[k] = day
<1>0. /\ now' = now + 1 /\ UNCHANGED <<pc, wake, seen, date, last, planned>>
      /\ IF Waiting THEN lag' = lag ELSE lag < MaxLag /\ lag' = lag + 1
  BY DEF Tick, read, durable
<1>1. ASSUME serving, ~AllDone PROVE now + 1 <= End + lag'
  <2>1. CASE Waiting
    <3>1. now < End
      <4>1. CASE pc = "sleep" /\ now < wake BY <1>1, <4>1, EndType DEF Served
      <4>2. CASE pc = "capture" /\ now < Slot["end"][date]
        BY <1>1, <4>2 DEF Served, InTick, Place, End
      <4> QED BY <1>1, <2>1, <4>1, <4>2 DEF Waiting, Served
    <3> QED BY <1>0, <2>1, <3>1, EndType
  <2>2. CASE ~Waiting BY <1>0, <1>1, <2>2, EndType DEF Served
  <2> QED BY <2>1, <2>2
<1>2. lag' <= MaxLag /\ lag' \in Nat BY <1>0, EndType
<1>3. CASE now + 1 = Midnight[day + 1]
  <2>1. day' = day + 1 /\ serving' = (pc = "sleep") BY <1>3 DEF Tick
  <2>2. serving => AllDone BY <1>1, <1>2, <1>3, EndType
  <2>3. ASSUME serving' PROVE Served'
    <3>1. day' \in Day
      BY <1>3, <2>1, MidnightAssumption, BoundAssumption DEF Tick, TypeOK, Day
    <3>2. /\ Midnight[day'] = now' /\ Midnight[day'] <= Slot["start"][day']
          /\ Slot["start"][day'] \in Nat /\ Slot["end"][day'] \in Nat
          /\ Slot["start"][day'] < Slot["end"][day']
      <4>1. /\ Midnight[day'] <= Slot["plan"][day']
            /\ Slot["plan"][day'] <= Slot["backup"][day']
            /\ Slot["backup"][day'] <= Slot["retention"][day']
            /\ Slot["retention"][day'] < Slot["forecast"][day']
            /\ Slot["forecast"][day'] <= Slot["headsup"][day']
            /\ Slot["headsup"][day'] <= Slot["start"][day']
            /\ Slot["start"][day'] < Slot["end"][day']
        BY <3>1, SlotAssumption
      <4>2. \A k \in Slots : Slot[k][day'] \in Nat BY <3>1, SlotType
      <4>3. Midnight[day'] \in Nat BY <3>1, MidnightType
      <4> QED BY <1>0, <1>3, <2>1, <4>1, <4>2, <4>3 DEF Slots, Marked
    <3>3. pc = "sleep" BY <2>1, <2>3
    <3>4. wake <= Slot["start"][day']
      <4>1. planned < Slot["start"][day']
        BY <1>0, <3>2, EndType DEF Read, TypeOK
      <4> QED BY <3>1, <3>3, <4>1 DEF SlotsNotSlept
    <3>5. wake' <= End' /\ now' <= End' + lag'
      BY <1>0, <1>2, <3>2, <3>4, EndType DEF End
    <3>6. pc' = "sleep" /\ pc' \notin InTick /\ \A k \in Marked : pc' \notin Passed[k]
      BY <1>0, <3>3 DEF InTick, Passed, AfterBackup, AfterRetention, AfterForecast,
         AfterHeadsUp, Marked
    <3> QED BY <3>5, <3>6 DEF Served
  <2> QED BY <2>2, <2>3 DEF AllDone, Served
<1>4. CASE now + 1 # Midnight[day + 1]
  <2>1. day' = day /\ serving' = serving BY <1>4 DEF Tick
  <2>2. ASSUME serving PROVE Served'
    <3>1. /\ AllDone' <=> AllDone
          /\ End' = End /\ HeadsUp' = HeadsUp /\ \A k \in Marked : Due(k)' <=> Due(k)
      BY <1>0, <2>1 DEF AllDone, End, HeadsUp, Due
    <3>2. pc' = "sleep" => AllDone \/ wake' <= End BY <1>0, <2>2 DEF Served
    <3>3. pc' = "plan" => AllDone \/ now' < HeadsUp + lag'
      <4>1. pc = "plan" => ~Waiting BY DEF Waiting
      <4> QED BY <1>0, <2>2, <4>1, EndType DEF Served, HeadsUp
    <3>4. pc \in InTick /\ pc # "capture" => now' <= seen + lag'
      <4>1. pc \in InTick /\ pc # "capture" => ~Waiting
        BY DEF Waiting, InTick, Place
      <4> QED BY <1>0, <2>2, <4>1, EndType DEF Served
    <3> QED BY <1>0, <1>1, <2>1, <2>2, <3>1, <3>2, <3>3, <3>4 DEF Served
  <2> QED BY <2>1, <2>2 DEF Served
<1> QED BY <1>3, <1>4

LEMMA ServedStep ==
    ASSUME TypeOK, Calendar, SlotsNotSlept, Read, Served, [Next]_vars
    PROVE  /\ Served'
           /\ day' # day /\ serving => \A k \in Marked : last[k] = day
<1>1. CASE Tick BY <1>1, ServedTick
<1>2. CASE TickStep
  <2>1. day' = day
    BY <1>2 DEF TickStep, BootCheck, Check, Create, Vacuum, Prune, BackupMark, Retention,
       ForecastFirst, ForecastSecond, Fetch, ForecastMark, HeadsUpMark, SendHeadsUp,
       Window, WindowEnd, fixed, clock
  <2> QED BY <1>2, <2>1, ServedTickStep
<1>3. CASE Crash BY <1>3 DEF Crash, Served, clock
<1>4. CASE Restart BY <1>4 DEF Restart, Served, clock, trouble
<1>5. CASE Wake
  <2>1. /\ pc = "sleep" /\ pc' = "backup" /\ seen' = now /\ date' = day
        /\ UNCHANGED <<now, day, lag, last, serving>>
    BY <1>5 DEF Wake, clock, durable, trouble
  <2>2. \A k \in Marked : pc' \notin Passed[k]
    BY <2>1 DEF Passed, AfterBackup, AfterRetention, AfterForecast, AfterHeadsUp, Marked
  <2>3. now' <= seen' + lag' BY <2>1, EndType
  <2>4. (AllDone' <=> AllDone) /\ End' = End BY <2>1 DEF AllDone, End
  <2> QED BY <2>1, <2>2, <2>3, <2>4 DEF Served
<1>6. CASE Plan
  <2>1. /\ pc = "plan" /\ pc' = "sleep" /\ wake' \in NextEvent
        /\ serving' = (serving \/ now < End)
        /\ UNCHANGED <<now, day, lag, last>>
    BY <1>6 DEF Plan, clock, durable, End
  <2>2. pc' \notin InTick /\ \A k \in Marked : pc' \notin Passed[k]
    BY <2>1 DEF InTick, Passed, AfterBackup, AfterRetention, AfterForecast, AfterHeadsUp, Marked
  <2>3. (AllDone' <=> AllDone) /\ End' = End BY <2>1 DEF AllDone, End
  <2>4. serving' => AllDone \/ now < End
    <3>1. HeadsUp + lag <= End BY EndType DEF HeadsUp
    <3>2. HeadsUp + lag \in Nat BY EndType DEF HeadsUp
    <3> SUFFICES ASSUME serving', ~(now < End) PROVE AllDone OBVIOUS
    <3>3. serving BY <2>1
    <3>4. AllDone \/ now < HeadsUp + lag BY <2>1, <3>3 DEF Served
    <3>5. ~(now < HeadsUp + lag) BY <3>1, <3>2, EndType
    <3> QED BY <3>4, <3>5
  <2>5. now < End => wake' <= End /\ now' <= End + lag' BY <2>1, PlanEnd, EndType
  <2> QED BY <2>1, <2>2, <2>3, <2>4, <2>5 DEF Served
<1>7. CASE UNCHANGED vars
  BY <1>7 DEF vars, fixed, clock, read, durable, trouble, Served, AllDone, End, HeadsUp, Due
<1> QED BY <1>1, <1>2, <1>3, <1>4, <1>5, <1>6, <1>7 DEF Next, TickStep

\* On every calendar: a date that ends in the engine's hands has had all it was
\* due, provided a tick's steps take less time than the slots leave them.
THEOREM DaysAreServed == Spec => DayServed
<1>1. Init => Read /\ Served
  BY DEF Init, Read, Served
<1>2. TypeOK /\ Calendar /\ SlotsNotSlept /\ Read /\ Served /\ [Next]_vars
        => /\ Read' /\ Served'
           /\ [day' # day /\ serving => \A k \in Marked : last[k] = day]_vars
  BY ReadStep, ServedStep
<1> QED
  BY <1>1, <1>2, CalendarHolds, TypeCorrect, NoSlotSlept, PTL DEF Spec, DayServed
=============================================================================
