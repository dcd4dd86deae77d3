------------------------- MODULE DayLifecycleProofs -------------------------
(***************************************************************************)
(* Theorems about DayLifecycle, for every horizon, every layout of the     *)
(* day, every set of operator calls and every number of faults.            *)
(***************************************************************************)
EXTENDS DayLifecycle, TLAPS

\* A run row of the window's own is running from InsertRun to Finish.
OwnRun == pc \in Windowing => running[date] > 0

\* No step looks at a date the clock has not reached.
NoFuture ==
    /\ date <= day
    /\ pc = "decide" /\ date = day => seen <= tod
    /\ \A d \in Day : status[d] # "none" => d <= day
    /\ \A c \in Caller : call[c] # NoCall => call[c].date <= day

\* Who is finalizing what.
CallsMatch ==
    /\ call["engine"] # NoCall <=> pc \in {"commit", "bootCommit"}
    /\ call["admin"] # NoCall => call["admin"].date \in AdminDates
    /\ pc \notin Booting => todo = {}
    /\ \A d \in todo : /\ status[d] # "none"
                       /\ status[d] = "capturing" \/ d \in AdminDates

\* A day may be settled early.
MayCut(d) == Ended(d) \/ stops > 0 \/ d \in AdminDates

\* A capturing day has lost its running run only when its window is over or
\* the engine was stopped; so whatever finalization is under way is due.
CutInv ==
    /\ ctxDone => stops > 0
    /\ \A d \in Day : status[d] = "capturing" /\ running[d] = 0 => MayCut(d)
    /\ pc \in {"finish", "read"} => MayCut(date)
    /\ pc = "bootRead" => \A d \in todo : NextTodo(d) => MayCut(d)
    /\ pc \in {"commit", "bootCommit"} => MayCut(call["engine"].date)
    /\ \A d \in Day : status[d] \in Final => MayCut(d)

\* Frames are stored only for a date that has its row.
RowFirst ==
    /\ \A d \in Day : status[d] = "missed" => d < day
    /\ pc \in {"decide", "insert"} \cup Windowing => status[date] # "missed"
    /\ pc \in Windowing \ {"upsert"} => status[date] # "none"
    /\ \A d \in Day : status[d] \in {"none", "missed"} => frames[d] = {}

IInv == TypeOK /\ OwnRun /\ NoFuture /\ CallsMatch /\ CutInv /\ RowFirst /\ CapturingHasRun
-----------------------------------------------------------------------------

\* How far the clock is into a date is an instant, or past the last one.
LEMMA AtType == ASSUME TypeOK, NEW d \in Day
                PROVE  At(d) \in 0..DayLen
BY HorizonAssumption DEF TypeOK, At, Day, Instant

\* A step of the clock goes to the next instant of the date or to the next date.
LEMMA ClockMoves ==
    ASSUME TypeOK, Tick
    PROVE  /\ day \in Nat /\ day' \in Day /\ tod \in Nat /\ tod' \in Instant
           /\ \/ day' = day /\ tod' = tod + 1
              \/ day' = day + 1 /\ tod' = 0
<1>1. day \in Day /\ tod \in Instant BY DEF TypeOK
<1>2. CASE tod + 1 < DayLen /\ tod' = tod + 1 /\ UNCHANGED day
  BY <1>1, <1>2, HorizonAssumption DEF Day, Instant
<1>3. CASE tod + 1 = DayLen /\ day < LastDay /\ day' = day + 1 /\ tod' = 0
  BY <1>1, <1>3, HorizonAssumption DEF Day, Instant
<1> QED BY <1>2, <1>3 DEF Tick

\* The clock only moves forward: a window that is over stays over.
LEMMA EndedStays == ASSUME TypeOK, Tick, NEW d \in Day
                    PROVE  Ended(d) => Ended(d)'
<1>1. d \in Nat /\ DayLen \in Nat /\ WEnd \in Nat /\ WEnd < DayLen
  BY HorizonAssumption, WindowAssumption DEF Day, Instant
<1>2. CASE day' = day /\ tod' = tod + 1
  BY <1>1, <1>2, ClockMoves DEF At, Ended
<1>3. CASE day' = day + 1 /\ tod' = 0
  <2>1. CASE day < d BY <1>1, <1>3, <2>1, WindowAssumption DEF At, Ended, Instant
  <2>2. CASE ~(day < d)
    <3>1. day' > d BY <1>1, <1>3, <2>2, ClockMoves
    <3>2. At(d)' = DayLen BY <1>1, <1>3, <3>1, ClockMoves DEF At
    <3> QED BY <1>1, <3>2 DEF Ended
  <2> QED BY <2>1, <2>2
<1> QED BY <1>2, <1>3, ClockMoves

LEMMA InitInv == Init => IInv
<1> SUFFICES ASSUME Init PROVE IInv OBVIOUS
<1> USE HorizonAssumption, BoundAssumption, WindowAssumption DEF Init
<1>1. TypeOK
  <2>1. day \in Day /\ tod \in Instant /\ lag \in 0..MaxLag BY DEF Day, Instant
  <2>2. status \in [Day -> Status] BY DEF Status
  <2>3. best \in [Day -> Frame \cup {NoFrame}] BY DEF NoFrame
  <2>4. frames \in [Day -> SUBSET Frame] OBVIOUS
  <2>5. call \in [Caller -> Call] BY DEF Call
  <2>6. pc \in Place BY DEF Place
  <2>7. wake \in [day : 0..(LastDay + 1), tod : 0..DayLen] BY DEF NoWake
  <2>8. date \in Day /\ seen \in Instant BY DEF Day, Instant
  <2>9. retained \in Day \cup {NoDate} /\ todo \subseteq Day OBVIOUS
  <2>10. running \in [Day -> Nat] /\ closed \in [Day -> Nat] OBVIOUS
  <2>11. crashes \in 0..MaxCrashes /\ stops \in 0..MaxStops /\ faults \in 0..MaxFaults OBVIOUS
  <2>12. ctxDone \in BOOLEAN OBVIOUS
  <2> QED BY <2>1, <2>2, <2>3, <2>4, <2>5, <2>6, <2>7, <2>8, <2>9, <2>10, <2>11, <2>12 DEF TypeOK
<1>2. OwnRun BY DEF OwnRun, Windowing
<1>3. NoFuture BY DEF NoFuture, Day, NoWake
<1>4. CallsMatch BY DEF CallsMatch, Caller, Booting
<1>5. CutInv BY DEF CutInv, Final
<1>6. RowFirst BY DEF RowFirst, Windowing
<1>7. CapturingHasRun BY DEF CapturingHasRun
<1> QED BY <1>1, <1>2, <1>3, <1>4, <1>5, <1>6, <1>7 DEF IInv

LEMMA TickInv == ASSUME IInv, Tick PROVE IInv'
<1> USE HorizonAssumption, WindowAssumption, BoundAssumption DEF clock, durable, days, rows, local, budget
<1>1. TypeOK'
  <2>1. day' \in Day /\ tod' \in Instant BY ClockMoves DEF IInv
  <2>3. lag' \in 0..MaxLag
    <3>1. CASE Idle BY <3>1 DEF Tick
    <3>2. CASE ~Idle BY <3>2 DEF IInv, TypeOK, Tick
    <3> QED BY <3>1, <3>2
  <2>2. UNCHANGED <<durable, pc, local, call, ctxDone, budget>> BY DEF Tick
  <2> QED BY <2>1, <2>2, <2>3 DEF IInv, TypeOK
<1>2. /\ day \in Nat /\ day' \in Nat /\ tod \in Nat /\ tod' \in Nat /\ day <= day'
      /\ day' = day => tod <= tod'
  BY ClockMoves DEF IInv, Day, Instant
<1>3. \A d \in Day : Ended(d) => Ended(d)' BY EndedStays DEF IInv
<1>4. UNCHANGED <<durable, pc, local, call, ctxDone, budget>> BY DEF Tick
<1>5. OwnRun' BY <1>4 DEF IInv, OwnRun
<1>6. NoFuture'
  <2>1. date \in Nat /\ seen \in Nat /\ date <= day BY DEF IInv, TypeOK, NoFuture, Day, Instant
  <2>2. date' <= day' BY <1>2, <1>4, <2>1
  <2>3. (pc = "decide" /\ date = day => seen <= tod)' 
    <3> SUFFICES ASSUME pc = "decide", date = day' PROVE seen <= tod' BY <1>4
    <3>1. day' = day BY <1>2, <2>1
    <3>2. seen <= tod BY <3>1 DEF IInv, NoFuture
    <3> QED BY <1>2, <2>1, <3>1, <3>2
  <2>4. \A d \in Day : status'[d] # "none" => d <= day'
    <3> TAKE d \in Day
    <3>1. status[d] # "none" => d <= day BY DEF IInv, NoFuture
    <3>2. d \in Nat BY DEF Day
    <3> QED BY <1>2, <1>4, <3>1, <3>2
  <2>5. \A c \in Caller : call'[c] # NoCall => call'[c].date <= day'
    <3> TAKE c \in Caller
    <3>1. call[c] # NoCall => call[c].date \in Nat /\ call[c].date <= day
      BY DEF IInv, TypeOK, NoFuture, Call, Day
    <3> QED BY <1>2, <1>4, <3>1
  <2> QED BY <2>2, <2>3, <2>4, <2>5 DEF NoFuture
<1>7. CallsMatch' BY <1>4 DEF IInv, CallsMatch, Tick
<1>8. CutInv'
  <2>1. \A d \in Day : MayCut(d) => MayCut(d)' BY <1>3, <1>4 DEF MayCut
  <2>2. pc \in {"commit", "bootCommit"} => call["engine"].date \in Day
    BY DEF IInv, TypeOK, CallsMatch, Caller, Call
  <2> QED BY <1>4, <2>1, <2>2 DEF IInv, TypeOK, CutInv, NextTodo
<1>9. RowFirst' BY <1>1, <1>2, <1>4 DEF IInv, TypeOK, RowFirst, Day
<1>10. CapturingHasRun' BY <1>4 DEF IInv, CapturingHasRun
<1> QED BY <1>1, <1>5, <1>6, <1>7, <1>8, <1>9, <1>10 DEF IInv

LEMMA FaultType == ASSUME TypeOK, Fault PROVE faults' \in 0..MaxFaults
BY BoundAssumption DEF TypeOK, Fault

\* Retention leaves every date the frames it had, or none.
LEMMA RetentionFrame ==
    ASSUME TypeOK, NEW today \in Day, Retention(today)
    PROVE  /\ frames' \in [Day -> SUBSET Frame] /\ retained' \in Day \cup {NoDate}
           /\ faults' \in 0..MaxFaults
           /\ \A d \in Day : frames[d] = {} => frames'[d] = {}
<1>1. CASE UNCHANGED <<frames, retained, faults>> BY <1>1 DEF TypeOK
<1>2. CASE Retain(today) /\ retained' = today /\ UNCHANGED faults BY <1>2 DEF TypeOK, Retain
<1>3. CASE Fault /\ UNCHANGED retained /\ (Retain(today) \/ UNCHANGED frames)
  BY <1>3, FaultType DEF TypeOK, Retain
<1> QED BY <1>1, <1>2, <1>3 DEF Retention

\* What the first half of FinalizeDay does to the calls in progress.
LEMMA BeginCall ==
    ASSUME TypeOK, NEW c \in Caller, NEW d \in Day, BeginFinalize(c, d)
    PROVE  /\ call' \in [Caller -> Call]
           /\ call'[c] # NoCall /\ call'[c].date = d
           /\ \A o \in Caller : o # c => call'[o] = call[o]
<1> USE HorizonAssumption DEF TypeOK
<1>1. PICK p \in Picks(d) : call' = [call EXCEPT ![c] = [date |-> d, pick |-> p]]
  BY DEF BeginFinalize
<1>2. p \in Frame \cup {NoFrame} BY <1>1 DEF Picks, Eligible
<1>3. [date |-> d, pick |-> p] \in Call BY <1>2 DEF Call
<1>4. [date |-> d, pick |-> p] # NoCall BY DEF NoCall, Day
<1> QED BY <1>1, <1>3, <1>4

\* What the second half does to the days: the called date, if it has a row, is
\* settled or left alone, and no other date is touched.
LEMMA EndCall ==
    ASSUME TypeOK, NEW c \in Caller, call[c] # NoCall, EndFinalize(c)
    PROVE  /\ call[c].date \in Day
           /\ call' \in [Caller -> Call] /\ call'[c] = NoCall
           /\ \A o \in Caller : o # c => call'[o] = call[o]
           /\ status' \in [Day -> Status] /\ best' \in [Day -> Frame \cup {NoFrame}]
           /\ faults' \in 0..MaxFaults
           /\ \A d \in Day : d # call[c].date => status'[d] = status[d]
           /\ status' = status \/ (/\ status[call[c].date] # "none"
                                   /\ \E o \in Final : status' = [status EXCEPT ![call[c].date] = o])
<1> USE HorizonAssumption, BoundAssumption DEF TypeOK
<1> DEFINE d == call[c].date
           p == call[c].pick
<1>1. d \in Day /\ p \in Frame \cup {NoFrame} BY DEF Call
<1>2. call' = [call EXCEPT ![c] = NoCall] /\ NoCall \in Call BY DEF EndFinalize, Call
<1>3. \/ UNCHANGED days
      \/ CompleteDay(d, "failed", NoFrame)
      \/ CompleteDay(d, "complete", p)
  BY DEF EndFinalize
<1>4. \/ UNCHANGED days
      \/ /\ status[d] # "none"
         /\ \E o \in Final : status' = [status EXCEPT ![d] = o]
         /\ \E f \in Frame \cup {NoFrame} : best' = [best EXCEPT ![d] = f]
  BY <1>1, <1>3 DEF CompleteDay, Final
<1>5. faults' \in 0..MaxFaults BY FaultType DEF EndFinalize, TypeOK
<1>6. status' \in [Day -> Status] /\ best' \in [Day -> Frame \cup {NoFrame}]
  BY <1>1, <1>4 DEF days, Status
<1> QED BY <1>1, <1>2, <1>4, <1>5, <1>6 DEF days

\* Whether a day may be settled depends on the clock and the stops alone.
LEMMA CutFrame ==
    ASSUME UNCHANGED <<day, tod, stops>>
    PROVE  \A d \in Day : MayCut(d)' <=> MayCut(d)
BY DEF MayCut, Ended, At

\* The engine's call in progress is about a date of the horizon.
LEMMA EngineCall == ASSUME TypeOK, CallsMatch, pc \in {"commit", "bootCommit"}
                    PROVE  call["engine"].date \in Day
BY DEF TypeOK, CallsMatch, Caller, Call

\* What is left of a process that went away.
LEMMA DownType ==
    ASSUME GoDown
    PROVE  /\ pc' = "down" /\ date' \in Day /\ seen' \in Instant /\ todo' = {}
           /\ date' = 0 /\ ctxDone' = FALSE
           /\ wake' \in [day : 0..(LastDay + 1), tod : 0..DayLen]
           /\ call' \in [Caller -> Call]
           /\ \A c \in Caller : call'[c] = NoCall
BY HorizonAssumption DEF GoDown, Day, Instant, NoWake, Call

-----------------------------------------------------------------------------
(* Every action preserves the invariant *)

LEMMA BootInv == ASSUME IInv, Boot PROVE IInv'
<1> USE HorizonAssumption, WindowAssumption, BoundAssumption
    DEF IInv, TypeOK, Boot, Day, clock, durable, days, rows, local, budget
<1>1. TypeOK' BY DEF Place, Booting, Windowing, Looping
<1>2. OwnRun' BY DEF OwnRun, Windowing
<1>3. NoFuture' BY DEF NoFuture, CallsMatch, Caller, NoCall, Day
<1>4. CallsMatch' BY DEF CallsMatch, Booting, Caller, NoCall
<1>5. CutInv' BY CutFrame DEF CutInv, CallsMatch, OwnRun, Windowing, NextTodo, Final, Caller
<1>6. RowFirst' BY DEF RowFirst, NoFuture, Windowing, Day
<1>7. CapturingHasRun' BY DEF CapturingHasRun
<1> QED BY <1>1, <1>2, <1>3, <1>4, <1>5, <1>6, <1>7

LEMMA BootBackfillInv == ASSUME IInv, BootBackfill PROVE IInv'
<1> USE HorizonAssumption, WindowAssumption, BoundAssumption
    DEF IInv, TypeOK, BootBackfill, BackfillMissedDays, Status, clock, durable, days, rows, local, budget
<1>1. TypeOK' BY DEF Place, Booting, Windowing, Looping
<1>2. OwnRun' BY DEF OwnRun, Windowing
<1>3. NoFuture' BY DEF NoFuture, CallsMatch, Caller, NoCall, Day
<1>4. CallsMatch' BY DEF CallsMatch, Booting, Caller, NoCall
<1>5. CutInv' BY CutFrame DEF CutInv, CallsMatch, OwnRun, Windowing, NextTodo, Final, Caller
<1>6. RowFirst' BY DEF RowFirst, NoFuture, Windowing, Day
<1>7. CapturingHasRun' BY DEF CapturingHasRun
<1> QED BY <1>1, <1>2, <1>3, <1>4, <1>5, <1>6, <1>7

LEMMA BootMarkInv == ASSUME IInv, BootMark PROVE IInv'
<1> USE HorizonAssumption, WindowAssumption, BoundAssumption
    DEF IInv, TypeOK, BootMark, MarkInterruptedRuns, clock, durable, days, rows, local, budget
<1>1. TypeOK'
  <2>1. running' \in [Day -> Nat] /\ closed' \in [Day -> Nat] BY DEF MarkInterruptedRuns
  <2> QED BY <2>1 DEF Place, Booting
<1>2. OwnRun' BY DEF OwnRun, Windowing
<1>3. NoFuture' BY DEF NoFuture, CallsMatch, Caller, NoCall, Day
<1>4. CallsMatch' BY DEF CallsMatch, Booting, Caller, NoCall
<1>5. CutInv'
  <2>1. \A d \in Day : running'[d] = 0 => running[d] = 0 \/ Ended(d)
    BY AtType DEF MarkInterruptedRuns, Ended, Instant
  <2>2. \A d \in Day : Ended(d) => MayCut(d) BY DEF MayCut
  <2> QED BY <2>1, <2>2, CutFrame DEF CutInv
<1>6. RowFirst' BY DEF RowFirst, NoFuture, Windowing, Day
<1>7. CapturingHasRun' BY DEF CapturingHasRun
<1> QED BY <1>1, <1>2, <1>3, <1>4, <1>5, <1>6, <1>7

LEMMA BootListInv == ASSUME IInv, BootList PROVE IInv'
<1> USE HorizonAssumption, WindowAssumption, BoundAssumption
    DEF IInv, TypeOK, BootList, clock, durable, days, rows, local, budget
<1>1. TypeOK' BY DEF Place, Booting, Windowing, Looping
<1>2. OwnRun' BY DEF OwnRun, Windowing
<1>3. NoFuture' BY DEF NoFuture, CallsMatch, Caller, NoCall, Day
<1>4. CallsMatch' BY DEF CallsMatch, Booting, Caller, NoCall
<1>5. CutInv' BY CutFrame DEF CutInv, CallsMatch, OwnRun, Windowing, NextTodo, Final, Caller
<1>6. RowFirst' BY DEF RowFirst, NoFuture, Windowing, Day
<1>7. CapturingHasRun' BY DEF CapturingHasRun
<1> QED BY <1>1, <1>2, <1>3, <1>4, <1>5, <1>6, <1>7

LEMMA BootSkipInv == ASSUME IInv, NEW d \in Day, BootSkip(d) PROVE IInv'
<1> USE HorizonAssumption, WindowAssumption, BoundAssumption
    DEF IInv, TypeOK, BootSkip, clock, durable, days, rows, local, budget
<1>1. TypeOK' BY DEF Place, Booting, Windowing, Looping
<1>2. OwnRun' BY DEF OwnRun, Windowing
<1>3. NoFuture' BY DEF NoFuture, CallsMatch, Caller, NoCall, Day
<1>4. CallsMatch' BY DEF CallsMatch, Booting, Caller, NoCall
<1>5. CutInv' BY CutFrame DEF CutInv, CallsMatch, OwnRun, Windowing, NextTodo, Final, Caller
<1>6. RowFirst' BY DEF RowFirst, NoFuture, Windowing, Day
<1>7. CapturingHasRun' BY DEF CapturingHasRun
<1> QED BY <1>1, <1>2, <1>3, <1>4, <1>5, <1>6, <1>7

LEMMA BootFinalizeInv == ASSUME IInv, NEW d \in Day, BootFinalize(d) PROVE IInv'
<1> USE HorizonAssumption, WindowAssumption, BoundAssumption
    DEF IInv, TypeOK, BootFinalize, HasRunningRun, clock, durable, days, rows, local, budget
<1>1. TypeOK' BY DEF Place, Booting, Windowing, Looping
<1>2. OwnRun' BY DEF OwnRun, Windowing
<1>3. NoFuture' BY DEF NoFuture, CallsMatch, Caller, NoCall, Day
<1>4. CallsMatch' BY DEF CallsMatch, Booting, Caller, NoCall
<1>5. CutInv'
  <2>1. MayCut(d) BY DEF CutInv, CallsMatch, MayCut, NextTodo
  <2>2. \A e \in Day : NextTodo(e) => e = d BY DEF NextTodo, Day
  <2> QED BY <2>1, <2>2, CutFrame DEF CutInv, NextTodo
<1>6. RowFirst' BY DEF RowFirst, NoFuture, Windowing, Day
<1>7. CapturingHasRun' BY DEF CapturingHasRun
<1> QED BY <1>1, <1>2, <1>3, <1>4, <1>5, <1>6, <1>7

LEMMA BootReadInv == ASSUME IInv, NEW d \in Day, BootRead(d) PROVE IInv'
<1> USE HorizonAssumption, WindowAssumption, BoundAssumption
    DEF IInv, TypeOK, BootRead, clock, durable, days, rows, local, budget
<1>a. /\ call' \in [Caller -> Call]
      /\ call'["engine"] # NoCall /\ call'["engine"].date = d
      /\ \A o \in Caller : o # "engine" => call'[o] = call[o]
  BY BeginCall DEF Caller
<1>1. TypeOK' BY <1>a DEF Place, Booting, Windowing, Looping
<1>2. OwnRun' BY <1>a DEF OwnRun, Windowing
<1>3. NoFuture'
  <2>1. d <= day
    <3>1. d \in todo BY DEF NextTodo
    <3>2. status[d] # "none" BY <3>1 DEF CallsMatch
    <3> QED BY <3>2 DEF NoFuture
  <2>2. \A c \in Caller : c = "engine" \/ c = "admin" BY DEF Caller
  <2>3. call'["admin"] = call["admin"] BY <1>a DEF Caller
  <2> QED BY <1>a, <2>1, <2>2, <2>3 DEF NoFuture, Caller
<1>4. CallsMatch' BY <1>a DEF CallsMatch, Booting, Caller, NoCall
<1>5. CutInv' BY <1>a, CutFrame DEF CutInv, CallsMatch, OwnRun, Windowing, NextTodo, Final, Caller
<1>6. RowFirst' BY <1>a DEF RowFirst, NoFuture, Windowing, Day
<1>7. CapturingHasRun' BY <1>a DEF CapturingHasRun
<1> QED BY <1>1, <1>2, <1>3, <1>4, <1>5, <1>6, <1>7

LEMMA BootCommitInv == ASSUME IInv, BootCommit PROVE IInv'
<1> USE HorizonAssumption, WindowAssumption, BoundAssumption
    DEF IInv, TypeOK, BootCommit, clock, durable, days, rows, local, budget
<1> DEFINE d == call["engine"].date
<1>a. /\ d \in Day
      /\ call' \in [Caller -> Call] /\ call'["engine"] = NoCall
      /\ \A o \in Caller : o # "engine" => call'[o] = call[o]
      /\ status' \in [Day -> Status] /\ best' \in [Day -> Frame \cup {NoFrame}]
      /\ faults' \in 0..MaxFaults
      /\ \A e \in Day : e # d => status'[e] = status[e]
      /\ status' = status \/ (/\ status[d] # "none"
                              /\ \E o \in Final : status' = [status EXCEPT ![d] = o])
  BY EndCall DEF Caller, CallsMatch
<1>b. status'[d] = status[d] \/ (status[d] # "none" /\ status'[d] \in Final)
  BY <1>a
<1> HIDE DEF d
<1>1. TypeOK' BY <1>a, <1>b DEF Place, Booting, Windowing, Looping
<1>2. OwnRun' BY <1>a, <1>b DEF OwnRun, Windowing
<1>3. NoFuture' BY <1>a, <1>b DEF NoFuture, CallsMatch, Caller, NoCall, Day
<1>4. CallsMatch'
  <2>1. pc' = "scan" /\ todo' = todo \ {d} /\ call'["admin"] = call["admin"]
    BY <1>a DEF d, Caller
  <2>2. \A e \in todo' : status'[e] = status[e] BY <1>a, <2>1
  <2> QED BY <1>a, <2>1, <2>2 DEF CallsMatch, Booting, Caller
<1>5. CutInv'
  <2>1. MayCut(d) BY DEF d, CutInv, CallsMatch, MayCut, Caller
  <2>2. \A e \in Day : /\ status'[e] \in Final => MayCut(e)
                       /\ status'[e] = "capturing" => status[e] = "capturing"
    BY <1>a, <1>b, <2>1 DEF CutInv, Final
  <2> QED BY <2>2, CutFrame DEF CutInv
<1>6. RowFirst' BY <1>a, <1>b DEF RowFirst, NoFuture, Windowing, Day, Final
<1>7. CapturingHasRun' BY <1>a, <1>b DEF CapturingHasRun, Final
<1> QED BY <1>1, <1>2, <1>3, <1>4, <1>5, <1>6, <1>7

LEMMA BootRetentionInv == ASSUME IInv, BootRetention PROVE IInv'
<1> USE HorizonAssumption, WindowAssumption, BoundAssumption
    DEF IInv, TypeOK, BootRetention, clock, durable, days, rows, local, budget
<1>0. /\ frames' \in [Day -> SUBSET Frame] /\ retained' \in Day \cup {NoDate}
      /\ faults' \in 0..MaxFaults
      /\ \A d \in Day : frames[d] = {} => frames'[d] = {}
  BY RetentionFrame
<1>1. TypeOK' BY <1>0 DEF Place, Booting, Windowing, Looping
<1>2. OwnRun' BY DEF OwnRun, Windowing
<1>3. NoFuture' BY DEF NoFuture, CallsMatch, Caller, NoCall, Day
<1>4. CallsMatch' BY DEF CallsMatch, Booting, Caller, NoCall
<1>5. CutInv' BY CutFrame DEF CutInv, CallsMatch, OwnRun, Windowing, NextTodo, Final, Caller
<1>6. RowFirst' BY <1>0 DEF RowFirst, NoFuture, Windowing, Day
<1>7. CapturingHasRun' BY DEF CapturingHasRun
<1> QED BY <1>1, <1>2, <1>3, <1>4, <1>5, <1>6, <1>7

LEMMA ReadInv == ASSUME IInv, Read PROVE IInv'
<1> USE HorizonAssumption, WindowAssumption, BoundAssumption
    DEF IInv, TypeOK, Read, clock, durable, days, rows, local, budget
<1>a. /\ call' \in [Caller -> Call]
      /\ call'["engine"] # NoCall /\ call'["engine"].date = date
      /\ \A o \in Caller : o # "engine" => call'[o] = call[o]
  BY BeginCall DEF Caller
<1>1. TypeOK' BY <1>a DEF Place, Booting, Windowing, Looping
<1>2. OwnRun' BY <1>a DEF OwnRun, Windowing
<1>3. NoFuture' BY <1>a DEF NoFuture, CallsMatch, Caller, NoCall, Day
<1>4. CallsMatch' BY <1>a DEF CallsMatch, Booting, Caller, NoCall
<1>5. CutInv' BY <1>a, CutFrame DEF CutInv, CallsMatch, OwnRun, Windowing, NextTodo, Final, Caller
<1>6. RowFirst' BY <1>a DEF RowFirst, NoFuture, Windowing, Day
<1>7. CapturingHasRun' BY <1>a DEF CapturingHasRun
<1> QED BY <1>1, <1>2, <1>3, <1>4, <1>5, <1>6, <1>7

LEMMA CommitInv == ASSUME IInv, Commit PROVE IInv'
<1> USE HorizonAssumption, WindowAssumption, BoundAssumption
    DEF IInv, TypeOK, Commit, clock, durable, days, rows, local, budget
<1> DEFINE d == call["engine"].date
<1>a. /\ d \in Day
      /\ call' \in [Caller -> Call] /\ call'["engine"] = NoCall
      /\ \A o \in Caller : o # "engine" => call'[o] = call[o]
      /\ status' \in [Day -> Status] /\ best' \in [Day -> Frame \cup {NoFrame}]
      /\ faults' \in 0..MaxFaults
      /\ \A e \in Day : e # d => status'[e] = status[e]
      /\ status' = status \/ (/\ status[d] # "none"
                              /\ \E o \in Final : status' = [status EXCEPT ![d] = o])
  BY EndCall DEF Caller, CallsMatch
<1>b. status'[d] = status[d] \/ (status[d] # "none" /\ status'[d] \in Final)
  BY <1>a
<1> HIDE DEF d
<1>1. TypeOK' BY <1>a, <1>b DEF Place, Booting, Windowing, Looping
<1>2. OwnRun' BY <1>a, <1>b DEF OwnRun, Windowing
<1>3. NoFuture' BY <1>a, <1>b DEF NoFuture, CallsMatch, Caller, NoCall, Day
<1>4. CallsMatch'
  <2>1. pc' \in {"plan", "scan"} /\ call'["admin"] = call["admin"]
    BY <1>a DEF Caller
  <2> QED BY <1>a, <1>b, <2>1 DEF CallsMatch, Booting, Caller
<1>5. CutInv'
  <2>1. MayCut(d) BY DEF d, CutInv, CallsMatch, MayCut, Caller
  <2>2. \A e \in Day : /\ status'[e] \in Final => MayCut(e)
                       /\ status'[e] = "capturing" => status[e] = "capturing"
    BY <1>a, <1>b, <2>1 DEF CutInv, Final
  <2> QED BY <2>2, CutFrame DEF CutInv
<1>6. RowFirst' BY <1>a, <1>b DEF RowFirst, NoFuture, Windowing, Day, Final
<1>7. CapturingHasRun' BY <1>a, <1>b DEF CapturingHasRun, Final
<1> QED BY <1>1, <1>2, <1>3, <1>4, <1>5, <1>6, <1>7

LEMMA PlanInv == ASSUME IInv, Plan PROVE IInv'
<1> USE HorizonAssumption, WindowAssumption, BoundAssumption
    DEF IInv, TypeOK, Plan, clock, durable, days, rows, local, budget
<1>1. TypeOK'
  <2>1. \A t \in Upcoming : t \in 0..DayLen BY SlotAssumption DEF Upcoming, Instant
  <2>2. PlanAt \in 0..DayLen
    <3>1. PlanAt \in Slots /\ Slots \subseteq Instant BY SlotAssumption
    <3> QED BY <3>1 DEF Instant
  <2>3. wake' \in [day : 0..(LastDay + 1), tod : 0..DayLen]
    <3>1. \/ wake' = [day |-> day, tod |-> tod]
          \/ \E t \in Upcoming : wake' = [day |-> day, tod |-> t]
          \/ wake' = [day |-> day + 1, tod |-> PlanAt]
      BY DEF NextEvent
    <3> HIDE DEF Plan
    <3> QED BY <2>1, <2>2, <3>1 DEF Day, Instant
  <2> QED BY <2>3 DEF Place, Looping
<1>2. OwnRun' BY DEF OwnRun, Windowing
<1>3. NoFuture' BY DEF NoFuture, CallsMatch, Caller, NoCall, Day
<1>4. CallsMatch' BY DEF CallsMatch, Booting, Caller, NoCall
<1>5. CutInv' BY CutFrame DEF CutInv, CallsMatch, OwnRun, Windowing, NextTodo, Final, Caller
<1>6. RowFirst' BY DEF RowFirst, NoFuture, Windowing, Day
<1>7. CapturingHasRun' BY DEF CapturingHasRun
<1> QED BY <1>1, <1>2, <1>3, <1>4, <1>5, <1>6, <1>7

LEMMA WakeInv == ASSUME IInv, Wake PROVE IInv'
<1> USE HorizonAssumption, WindowAssumption, BoundAssumption
    DEF IInv, TypeOK, Wake, NoWake, clock, durable, days, rows, local, budget
<1>1. TypeOK' BY DEF Place, Booting, Windowing, Looping
<1>2. OwnRun' BY DEF OwnRun, Windowing
<1>3. NoFuture' BY DEF NoFuture, CallsMatch, Caller, NoCall, Day
<1>4. CallsMatch' BY DEF CallsMatch, Booting, Caller, NoCall
<1>5. CutInv' BY CutFrame DEF CutInv, CallsMatch, OwnRun, Windowing, NextTodo, Final, Caller
<1>6. RowFirst' BY DEF RowFirst, NoFuture, Windowing, Day
<1>7. CapturingHasRun' BY DEF CapturingHasRun
<1> QED BY <1>1, <1>2, <1>3, <1>4, <1>5, <1>6, <1>7

LEMMA TickSlotsInv == ASSUME IInv, TickSlots PROVE IInv'
<1> USE HorizonAssumption, WindowAssumption, BoundAssumption
    DEF IInv, TypeOK, TickSlots, clock, durable, days, rows, local, budget
<1>0. /\ frames' \in [Day -> SUBSET Frame] /\ retained' \in Day \cup {NoDate}
      /\ faults' \in 0..MaxFaults
      /\ \A d \in Day : frames[d] = {} => frames'[d] = {}
  BY RetentionFrame
<1>1. TypeOK' BY <1>0 DEF Place, Looping
<1>2. OwnRun' BY DEF OwnRun, Windowing
<1>3. NoFuture' BY DEF NoFuture, Caller, Instant, Day
<1>4. CallsMatch' BY DEF CallsMatch, Booting, Caller, NoCall
<1>5. CutInv' BY CutFrame DEF CutInv, CallsMatch, OwnRun, Windowing, NextTodo, Final, Caller
<1>6. RowFirst'
  <2>1. status[day] # "missed" BY DEF RowFirst, Day
  <2> QED BY <1>0, <2>1 DEF RowFirst, Windowing
<1>7. CapturingHasRun' BY DEF CapturingHasRun
<1> QED BY <1>1, <1>2, <1>3, <1>4, <1>5, <1>6, <1>7

LEMMA TickDecideInv == ASSUME IInv, TickDecide PROVE IInv'
<1> USE HorizonAssumption, WindowAssumption, BoundAssumption
    DEF IInv, TypeOK, TickDecide, clock, durable, days, rows, local, budget
<1>1. TypeOK'
  <2>1. pc' \in Place BY DEF Place, Looping
  <2>2. seen' \in Instant BY DEF Instant
  <2> QED BY <2>1, <2>2
<1>2. OwnRun' BY DEF OwnRun, Windowing
<1>3. NoFuture' BY DEF NoFuture, CallsMatch, Caller, NoCall, Day
<1>4. CallsMatch' BY DEF CallsMatch, Booting, Caller, NoCall
<1>5. CutInv'
  <2>1. pc' = "read" => seen >= WEnd OBVIOUS
  <2>2. seen >= WEnd => Ended(date) BY DEF Ended, At, NoFuture, Instant, Day
  <2>3. pc' = "read" => MayCut(date) BY <2>1, <2>2 DEF MayCut
  <2>4. pc' \in {"read", "insert", "plan"} OBVIOUS
  <2> QED BY <2>3, <2>4, CutFrame DEF CutInv
<1>6. RowFirst' BY DEF RowFirst, NoFuture, Windowing, Day
<1>7. CapturingHasRun' BY DEF CapturingHasRun
<1> QED BY <1>1, <1>2, <1>3, <1>4, <1>5, <1>6, <1>7

LEMMA InsertRunInv == ASSUME IInv, InsertRun PROVE IInv'
<1> USE HorizonAssumption, WindowAssumption, BoundAssumption
    DEF IInv, TypeOK, InsertRun, clock, durable, days, rows, local, budget
<1>1. TypeOK' BY DEF Place, Booting, Windowing, Looping
<1>2. OwnRun' BY DEF OwnRun, Windowing
<1>3. NoFuture' BY DEF NoFuture, CallsMatch, Caller, NoCall, Day
<1>4. CallsMatch' BY DEF CallsMatch, Booting, Caller, NoCall
<1>5. CutInv' BY CutFrame DEF CutInv, CallsMatch, OwnRun, Windowing, NextTodo, Final, Caller
<1>6. RowFirst' BY DEF RowFirst, NoFuture, Windowing, Day
<1>7. CapturingHasRun' BY DEF CapturingHasRun
<1> QED BY <1>1, <1>2, <1>3, <1>4, <1>5, <1>6, <1>7

LEMMA StartDayInv == ASSUME IInv, StartDay PROVE IInv'
<1> USE HorizonAssumption, WindowAssumption, BoundAssumption
    DEF IInv, TypeOK, StartDay, UpsertDayStart, clock, durable, days, rows, local, budget
<1>1. TypeOK'
  <2>1. status' \in [Day -> Status] BY DEF Status
  <2> QED BY <2>1 DEF Place, Windowing
<1>2. OwnRun' BY DEF OwnRun, Windowing
<1>3. NoFuture' BY DEF NoFuture, CallsMatch, Caller, NoCall, Day
<1>4. CallsMatch' BY DEF CallsMatch, Booting, Caller, NoCall
<1>5. CutInv' BY CutFrame DEF CutInv, CallsMatch, OwnRun, Windowing, NextTodo, Final, Caller
<1>6. RowFirst' BY DEF RowFirst, NoFuture, Windowing, Day
<1>7. CapturingHasRun' BY DEF CapturingHasRun, OwnRun, Windowing
<1> QED BY <1>1, <1>2, <1>3, <1>4, <1>5, <1>6, <1>7

LEMMA FetchersInv == ASSUME IInv, Fetchers PROVE IInv'
<1> USE HorizonAssumption, WindowAssumption, BoundAssumption
    DEF IInv, TypeOK, Fetchers, clock, durable, days, rows, local, budget
<1>1. TypeOK' BY DEF Place, Booting, Windowing, Looping
<1>2. OwnRun' BY DEF OwnRun, Windowing
<1>3. NoFuture' BY DEF NoFuture, CallsMatch, Caller, NoCall, Day
<1>4. CallsMatch' BY DEF CallsMatch, Booting, Caller, NoCall
<1>5. CutInv' BY CutFrame DEF CutInv, CallsMatch, OwnRun, Windowing, NextTodo, Final, Caller
<1>6. RowFirst' BY DEF RowFirst, NoFuture, Windowing, Day
<1>7. CapturingHasRun' BY DEF CapturingHasRun
<1> QED BY <1>1, <1>2, <1>3, <1>4, <1>5, <1>6, <1>7

LEMMA FetchersFailInv == ASSUME IInv, FetchersFail PROVE IInv'
<1> USE HorizonAssumption, WindowAssumption, BoundAssumption
    DEF IInv, TypeOK, FetchersFail, clock, durable, days, rows, local, budget
<1>0. faults' \in 0..MaxFaults BY FaultType
<1>1. TypeOK' BY <1>0 DEF Place, Booting, Windowing, Looping
<1>2. OwnRun' BY DEF OwnRun, Windowing
<1>3. NoFuture' BY DEF NoFuture, CallsMatch, Caller, NoCall, Day
<1>4. CallsMatch' BY DEF CallsMatch, Booting, Caller, NoCall
<1>5. CutInv' BY CutFrame DEF CutInv, CallsMatch, OwnRun, Windowing, NextTodo, Final, Caller
<1>6. RowFirst' BY DEF RowFirst, NoFuture, Windowing, Day
<1>7. CapturingHasRun' BY DEF CapturingHasRun
<1> QED BY <1>1, <1>2, <1>3, <1>4, <1>5, <1>6, <1>7

LEMMA TickFailsInv == ASSUME IInv, TickFails PROVE IInv'
<1> USE HorizonAssumption, WindowAssumption, BoundAssumption
    DEF IInv, TypeOK, TickFails, clock, durable, days, rows, local, budget
<1>0. faults' \in 0..MaxFaults BY FaultType
<1>1. TypeOK' BY <1>0 DEF Place, Booting, Windowing, Looping, Instant
<1>2. OwnRun' BY DEF OwnRun, Windowing
<1>3. NoFuture' BY DEF NoFuture, CallsMatch, Caller, NoCall, Day
<1>4. CallsMatch' BY DEF CallsMatch, Booting, Caller, NoCall
<1>5. CutInv' BY CutFrame DEF CutInv, CallsMatch, OwnRun, Windowing, NextTodo, Final, Caller
<1>6. RowFirst' BY DEF RowFirst, NoFuture, Windowing, Day
<1>7. CapturingHasRun' BY DEF CapturingHasRun
<1> QED BY <1>1, <1>2, <1>3, <1>4, <1>5, <1>6, <1>7

LEMMA LoopTopInv == ASSUME IInv, LoopTop PROVE IInv'
<1> USE HorizonAssumption, WindowAssumption, BoundAssumption
    DEF IInv, TypeOK, LoopTop, clock, durable, days, rows, local, budget
<1>1. TypeOK' BY DEF Place, Booting, Windowing, Looping
<1>2. OwnRun' BY DEF OwnRun, Windowing
<1>3. NoFuture' BY DEF NoFuture, CallsMatch, Caller, NoCall, Day
<1>4. CallsMatch' BY DEF CallsMatch, Booting, Caller, NoCall
<1>5. CutInv'
  <2>1. pc' = "finish" => MayCut(date) BY DEF MayCut, CutInv
  <2>2. pc' \in {"finish", "capture"} OBVIOUS
  <2> QED BY <2>1, <2>2, CutFrame DEF CutInv
<1>6. RowFirst' BY DEF RowFirst, NoFuture, Windowing, Day
<1>7. CapturingHasRun' BY DEF CapturingHasRun
<1> QED BY <1>1, <1>2, <1>3, <1>4, <1>5, <1>6, <1>7

LEMMA CaptureInv == ASSUME IInv, Capture PROVE IInv'
<1> USE HorizonAssumption, WindowAssumption, BoundAssumption
    DEF IInv, TypeOK, Capture, clock, durable, days, rows, local, budget
<1>1. TypeOK'
  <2>1. At(date) \in Frame BY AtType DEF Frame
  <2>2. frames' \in [Day -> SUBSET Frame] BY <2>1
  <2>3. wake' \in [day : 0..(LastDay + 1), tod : 0..DayLen]
    <3>1. CASE Ended(date) BY <3>1
    <3>2. CASE ~Ended(date)
      <4>1. At(date) + 1 \in 0..DayLen BY <2>1, <3>2 DEF Ended, Frame, Instant
      <4> QED BY <3>2, <4>1 DEF Day
    <3> QED BY <3>1, <3>2
  <2>4. pc' \in Place
    <3>1. CASE Ended(date) BY <3>1 DEF Place, Windowing
    <3>2. CASE ~Ended(date) BY <3>2 DEF Place, Windowing
    <3> QED BY <3>1, <3>2
  <2> QED BY <2>2, <2>3, <2>4
<1>2. OwnRun' BY DEF OwnRun, Windowing
<1>3. NoFuture' BY DEF NoFuture, CallsMatch, Caller, NoCall, Day
<1>4. CallsMatch' BY DEF CallsMatch, Booting, Caller, NoCall
<1>5. CutInv'
  <2>1. pc' = "finish" => MayCut(date) BY DEF MayCut
  <2>2. pc' \in {"finish", "nap"} OBVIOUS
  <2> QED BY <2>1, <2>2, CutFrame DEF CutInv
<1>6. RowFirst' BY DEF RowFirst, NoFuture, Windowing, Day
<1>7. CapturingHasRun' BY DEF CapturingHasRun
<1> QED BY <1>1, <1>2, <1>3, <1>4, <1>5, <1>6, <1>7

LEMMA NapOverInv == ASSUME IInv, NapOver PROVE IInv'
<1> USE HorizonAssumption, WindowAssumption, BoundAssumption
    DEF IInv, TypeOK, NapOver, NoWake, clock, durable, days, rows, local, budget
<1>1. TypeOK' BY DEF Place, Booting, Windowing, Looping
<1>2. OwnRun' BY DEF OwnRun, Windowing
<1>3. NoFuture' BY DEF NoFuture, CallsMatch, Caller, NoCall, Day
<1>4. CallsMatch' BY DEF CallsMatch, Booting, Caller, NoCall
<1>5. CutInv' BY CutFrame DEF CutInv, CallsMatch, OwnRun, Windowing, NextTodo, Final, Caller
<1>6. RowFirst' BY DEF RowFirst, NoFuture, Windowing, Day
<1>7. CapturingHasRun' BY DEF CapturingHasRun
<1> QED BY <1>1, <1>2, <1>3, <1>4, <1>5, <1>6, <1>7

LEMMA FinishInv == ASSUME IInv, Finish PROVE IInv'
<1> USE HorizonAssumption, WindowAssumption, BoundAssumption
    DEF IInv, TypeOK, Finish, CloseRun, clock, durable, days, rows, local, budget
<1>1. TypeOK' BY DEF OwnRun, Place, Looping, Windowing
<1>2. OwnRun' BY DEF OwnRun, Windowing
<1>3. NoFuture' BY DEF NoFuture, CallsMatch, Caller, NoCall, Day
<1>4. CallsMatch' BY DEF CallsMatch, Booting, Caller, NoCall
<1>5. CutInv' BY CutFrame DEF CutInv, CallsMatch, OwnRun, Windowing, NextTodo, Final, Caller
<1>6. RowFirst' BY DEF RowFirst, NoFuture, Windowing, Day
<1>7. CapturingHasRun' BY DEF CapturingHasRun
<1> QED BY <1>1, <1>2, <1>3, <1>4, <1>5, <1>6, <1>7

LEMMA CrashInv == ASSUME IInv, Crash PROVE IInv'
<1> USE HorizonAssumption, WindowAssumption, BoundAssumption
    DEF IInv, TypeOK, Crash, clock, durable, days, rows, local, budget
<1>1. TypeOK' BY DownType DEF Place
<1>2. OwnRun' BY DownType DEF OwnRun, Windowing
<1>3. NoFuture' BY DownType DEF NoFuture, Day
<1>4. CallsMatch' BY DownType DEF CallsMatch, Caller
<1>5. CutInv' BY DownType, CutFrame DEF CutInv
<1>6. RowFirst' BY DownType DEF RowFirst, Windowing
<1>7. CapturingHasRun' BY DEF CapturingHasRun
<1> QED BY <1>1, <1>2, <1>3, <1>4, <1>5, <1>6, <1>7

LEMMA CancelInv == ASSUME IInv, Cancel PROVE IInv'
<1> USE HorizonAssumption, WindowAssumption, BoundAssumption
    DEF IInv, TypeOK, Cancel, clock, durable, days, rows, local, budget
<1>1. TypeOK' BY DEF Place, Booting, Windowing, Looping
<1>2. OwnRun' BY DEF OwnRun, Windowing
<1>3. NoFuture' BY DEF NoFuture, CallsMatch, Caller, NoCall, Day
<1>4. CallsMatch' BY DEF CallsMatch, Booting, Caller, NoCall
<1>5. CutInv'
  <2>1. \A d \in Day : MayCut(d)' BY DEF MayCut
  <2> QED BY <2>1 DEF CutInv, CallsMatch, Caller, Call, NoFuture, NoCall
<1>6. RowFirst' BY DEF RowFirst, NoFuture, Windowing, Day
<1>7. CapturingHasRun' BY DEF CapturingHasRun
<1> QED BY <1>1, <1>2, <1>3, <1>4, <1>5, <1>6, <1>7

LEMMA ReturnAsleepInv == ASSUME IInv, ReturnAsleep PROVE IInv'
<1> USE HorizonAssumption, WindowAssumption, BoundAssumption
    DEF IInv, TypeOK, ReturnAsleep, clock, durable, days, rows, local, budget
<1>1. TypeOK' BY DownType DEF Place
<1>2. OwnRun' BY DownType DEF OwnRun, Windowing
<1>3. NoFuture' BY DownType DEF NoFuture, Day
<1>4. CallsMatch' BY DownType DEF CallsMatch, Caller
<1>5. CutInv' BY DownType, CutFrame DEF CutInv
<1>6. RowFirst' BY DownType DEF RowFirst, Windowing
<1>7. CapturingHasRun' BY DEF CapturingHasRun
<1> QED BY <1>1, <1>2, <1>3, <1>4, <1>5, <1>6, <1>7

LEMMA ReturnMidWindowInv == ASSUME IInv, ReturnMidWindow PROVE IInv'
<1> USE HorizonAssumption, WindowAssumption, BoundAssumption
    DEF IInv, TypeOK, ReturnMidWindow, clock, durable, days, rows, local, budget
<1>0. faults' \in 0..MaxFaults BY FaultType
<1>1. TypeOK' BY <1>0, DownType DEF Place, CloseRun, OwnRun, Windowing
<1>2. OwnRun' BY DownType DEF OwnRun, Windowing
<1>3. NoFuture' BY DownType DEF NoFuture, Day
<1>4. CallsMatch' BY DownType DEF CallsMatch, Caller
<1>5. CutInv'
  <2>1. \A d \in Day : MayCut(d)' BY DEF CutInv, MayCut
  <2> QED BY <2>1, DownType DEF CutInv
<1>6. RowFirst' BY DownType DEF RowFirst, Windowing
<1>7. CapturingHasRun' BY DEF CapturingHasRun, CloseRun, OwnRun, Windowing
<1> QED BY <1>1, <1>2, <1>3, <1>4, <1>5, <1>6, <1>7

LEMMA RefinalizeInv == ASSUME IInv, NEW d \in Day, Refinalize(d) PROVE IInv'
<1> USE HorizonAssumption, WindowAssumption, BoundAssumption
    DEF IInv, TypeOK, Refinalize, clock, durable, days, rows, local, budget
<1>a. /\ call' \in [Caller -> Call]
      /\ call'["admin"] # NoCall /\ call'["admin"].date = d
      /\ \A o \in Caller : o # "admin" => call'[o] = call[o]
  BY BeginCall DEF Caller
<1>1. TypeOK' BY <1>a DEF Place, Booting, Windowing, Looping
<1>2. OwnRun' BY <1>a DEF OwnRun, Windowing
<1>3. NoFuture' BY <1>a DEF NoFuture, CallsMatch, Caller, NoCall, Day
<1>4. CallsMatch' BY <1>a DEF CallsMatch, Booting, Caller, NoCall
<1>5. CutInv'
  <2>1. pc \in {"commit", "bootCommit"} => call["engine"].date \in Day BY EngineCall
  <2>2. call'["engine"] = call["engine"] BY <1>a DEF Caller
  <2> QED BY <2>1, <2>2, CutFrame DEF CutInv, NextTodo
<1>6. RowFirst' BY <1>a DEF RowFirst, NoFuture, Windowing, Day
<1>7. CapturingHasRun' BY <1>a DEF CapturingHasRun
<1> QED BY <1>1, <1>2, <1>3, <1>4, <1>5, <1>6, <1>7

LEMMA RefinalizeCommitInv == ASSUME IInv, RefinalizeCommit PROVE IInv'
<1> USE HorizonAssumption, WindowAssumption, BoundAssumption
    DEF IInv, TypeOK, RefinalizeCommit, clock, durable, days, rows, local, budget
<1> DEFINE d == call["admin"].date
<1>a. /\ d \in Day
      /\ call' \in [Caller -> Call] /\ call'["admin"] = NoCall
      /\ \A o \in Caller : o # "admin" => call'[o] = call[o]
      /\ status' \in [Day -> Status] /\ best' \in [Day -> Frame \cup {NoFrame}]
      /\ faults' \in 0..MaxFaults
      /\ \A e \in Day : e # d => status'[e] = status[e]
      /\ status' = status \/ (/\ status[d] # "none"
                              /\ \E o \in Final : status' = [status EXCEPT ![d] = o])
  BY EndCall DEF Caller, CallsMatch
<1>b. status'[d] = status[d] \/ (status[d] # "none" /\ status'[d] \in Final)
  BY <1>a
<1> HIDE DEF d
<1>1. TypeOK' BY <1>a, <1>b DEF Place, Booting, Windowing, Looping
<1>2. OwnRun' BY <1>a, <1>b DEF OwnRun, Windowing
<1>3. NoFuture' BY <1>a, <1>b DEF NoFuture, CallsMatch, Caller, NoCall, Day
<1>4. CallsMatch'
  <2>1. d \in AdminDates BY DEF d, CallsMatch, Caller
  <2>2. call'["engine"] = call["engine"] BY <1>a DEF Caller
  <2>3. \A e \in todo : status'[e] # "none" /\ (status'[e] = "capturing" \/ e \in AdminDates)
    <3> TAKE e \in todo
    <3>1. status[e] # "none" /\ (status[e] = "capturing" \/ e \in AdminDates) BY DEF CallsMatch
    <3>2. CASE e = d BY <3>1, <3>2, <1>b, <2>1 DEF Final
    <3>3. CASE e # d BY <3>1, <3>3, <1>a
    <3> QED BY <3>2, <3>3
  <2> QED BY <1>a, <2>2, <2>3 DEF CallsMatch, Caller
<1>5. CutInv'
  <2>1. MayCut(d) BY DEF d, CutInv, CallsMatch, MayCut, Caller
  <2>2. \A e \in Day : /\ status'[e] \in Final => MayCut(e)
                       /\ status'[e] = "capturing" => status[e] = "capturing"
    BY <1>a, <1>b, <2>1 DEF CutInv, Final
  <2>3. pc \in {"commit", "bootCommit"} => call["engine"].date \in Day BY EngineCall
  <2>4. call'["engine"] = call["engine"] BY <1>a DEF Caller
  <2> QED BY <2>2, <2>3, <2>4, CutFrame DEF CutInv, NextTodo
<1>6. RowFirst' BY <1>a, <1>b DEF RowFirst, NoFuture, Windowing, Day, Final
<1>7. CapturingHasRun' BY <1>a, <1>b DEF CapturingHasRun, Final
<1> QED BY <1>1, <1>2, <1>3, <1>4, <1>5, <1>6, <1>7
-----------------------------------------------------------------------------
LEMMA NextInv == ASSUME IInv, [Next]_vars PROVE IInv'
<1>1. CASE Tick BY <1>1, TickInv
<1>2. CASE Reconcile
  BY <1>2, BootInv, BootBackfillInv, BootMarkInv, BootListInv, BootRetentionInv, BootSkipInv,
     BootFinalizeInv, BootReadInv, BootCommitInv DEF Reconcile
<1>3. CASE RunLoop
  BY <1>3, PlanInv, WakeInv, TickSlotsInv, TickDecideInv, ReadInv, CommitInv DEF RunLoop
<1>4. CASE RunWindow
  BY <1>4, InsertRunInv, StartDayInv, FetchersInv, FetchersFailInv, TickFailsInv, LoopTopInv, CaptureInv,
     NapOverInv, FinishInv DEF RunWindow
<1>5. CASE Exit BY <1>5, ReturnAsleepInv, ReturnMidWindowInv DEF Exit
<1>6. CASE Crash BY <1>6, CrashInv
<1>7. CASE Cancel BY <1>7, CancelInv
<1>8. CASE Admin BY <1>8, RefinalizeInv, RefinalizeCommitInv DEF Admin
<1>9. CASE UNCHANGED vars
  BY <1>9 DEF IInv, TypeOK, OwnRun, NoFuture, CallsMatch, CutInv, MayCut, Ended, At, NextTodo,
     RowFirst, CapturingHasRun, vars, clock, durable, days, rows, local, budget
<1> QED BY <1>1, <1>2, <1>3, <1>4, <1>5, <1>6, <1>7, <1>8, <1>9 DEF Next, Engine

LEMMA Invariance == Spec => []IInv
<1>1. Init => IInv BY InitInv
<1>2. IInv /\ [Next]_vars => IInv' BY NextInv
<1> QED BY <1>1, <1>2, PTL DEF Spec

\* Type correctness: in particular a run row is never closed that was not
\* running, by the window (SetRunStatus) or by Reconcile (MarkInterruptedRuns).
THEOREM TypeCorrect == Spec => []TypeOK
<1>1. IInv => TypeOK BY DEF IInv
<1> QED BY <1>1, Invariance, PTL

\* Wherever the process dies, a capturing day has its run row, and a missed day
\* no stored frame.
THEOREM DaysExplained == Spec => []StatusExplained
<1>1. IInv => StatusExplained
  BY DEF IInv, RowFirst, MissedHasNoFrames, StatusExplained
<1> QED BY <1>1, Invariance, PTL

\* No number of crashes and restarts settles a day before its window is over.
THEOREM NoCrashCutsWindow == Spec => []EarlyFinalNeedsStop
<1>1. IInv => EarlyFinalNeedsStop BY DEF IInv, CutInv, MayCut, EarlyFinalNeedsStop
<1> QED BY <1>1, Invariance, PTL

-----------------------------------------------------------------------------
(* The engine implements the contract of the days table *)

LEMMA EndRefines ==
    ASSUME TypeOK, NoFuture, NEW c \in Caller, call[c] # NoCall, EndFinalize(c), UNCHANGED day
    PROVE  [Contract!Next]_(Contract!vars)
<1>1. status' = status \/ (/\ status[call[c].date] # "none"
                           /\ \E o \in Final : status' = [status EXCEPT ![call[c].date] = o])
  BY EndCall
<1>2. call[c].date \in Day /\ call[c].date <= day BY EndCall DEF NoFuture
<1>3. CASE status' = status BY <1>3 DEF Contract!vars
<1>4. CASE /\ status[call[c].date] # "none"
           /\ \E o \in Final : status' = [status EXCEPT ![call[c].date] = o]
  <2>1. PICK o \in Final : status' = [status EXCEPT ![call[c].date] = o] BY <1>4
  <2>2. Contract!Settle(call[c].date, o)
    BY <1>2, <1>4, <2>1 DEF Contract!Settle, Contract!Final, Contract!Day, Final, Day
  <2> QED BY <1>2, <2>2 DEF Contract!Next, Contract!Final, Contract!Day, Final, Day
<1> QED BY <1>1, <1>3, <1>4

LEMMA StepRefines == ASSUME IInv, [Next]_vars PROVE [Contract!Next]_(Contract!vars)
<1> USE DEF IInv, clock, durable, days, rows, local, budget
<1>1. CASE Tick
  <2>1. UNCHANGED status BY <1>1 DEF Tick
  <2>2. CASE UNCHANGED day BY <2>1, <2>2 DEF Contract!vars
  <2>3. CASE day < LastDay /\ day' = day + 1
    BY <2>1, <2>3 DEF Contract!Next, Contract!NextDay
  <2> QED BY <1>1, <2>2, <2>3 DEF Tick
<1>2. CASE BootBackfill
  <2>1. date \in Day /\ date <= day BY DEF TypeOK, NoFuture
  <2>2. Contract!RecordMissed(date)
    BY <1>2, <2>1 DEF BootBackfill, BackfillMissedDays, Contract!RecordMissed, Contract!Day, Day
  <2> QED BY <2>1, <2>2 DEF Contract!Next, Contract!Day, Day
<1>3. CASE StartDay
  <2>1. date \in Day /\ date <= day BY DEF TypeOK, NoFuture
  <2>2. CASE status[date] = "none"
    <3>1. Contract!Start(date)
      BY <1>3, <2>1, <2>2 DEF StartDay, UpsertDayStart, TypeOK, Contract!Start, Contract!Day, Day
    <3> QED BY <2>1, <3>1 DEF Contract!Next, Contract!Day, Day
  <2>3. CASE status[date] # "none"
    BY <1>3, <2>1, <2>3 DEF StartDay, UpsertDayStart, TypeOK, Contract!vars
  <2> QED BY <2>2, <2>3
<1>4. CASE BootCommit \/ Commit
  <2>1. call["engine"] # NoCall BY <1>4 DEF BootCommit, Commit, CallsMatch
  <2> QED BY <1>4, <2>1, EndRefines DEF BootCommit, Commit, Caller
<1>5. CASE RefinalizeCommit BY <1>5, EndRefines DEF RefinalizeCommit, Caller
<1>6. CASE UNCHANGED <<day, status>> BY <1>6 DEF Contract!vars
<1>7. Reconcile \/ RunLoop \/ RunWindow \/ Exit \/ Crash \/ Cancel \/ Admin \/ UNCHANGED vars
        => \/ BootBackfill \/ StartDay \/ BootCommit \/ Commit \/ RefinalizeCommit
           \/ UNCHANGED <<day, status>>
  <2>1. Reconcile => BootBackfill \/ BootCommit \/ UNCHANGED <<day, status>>
    BY DEF Reconcile, Boot, BootMark, BootList, BootRetention, BootSkip, BootFinalize, BootRead
  <2>2. RunLoop => Commit \/ UNCHANGED <<day, status>>
    BY DEF RunLoop, Plan, Wake, TickSlots, TickDecide, Read
  <2>3. RunWindow => StartDay \/ UNCHANGED <<day, status>>
    BY DEF RunWindow, InsertRun, Fetchers, FetchersFail, TickFails, LoopTop, Capture, NapOver, Finish
  <2>4. Exit \/ Crash \/ Cancel => UNCHANGED <<day, status>>
    BY DEF Exit, ReturnAsleep, ReturnMidWindow, Crash, Cancel
  <2>5. Admin => RefinalizeCommit \/ UNCHANGED <<day, status>> BY DEF Admin, Refinalize
  <2> QED BY <2>1, <2>2, <2>3, <2>4, <2>5 DEF vars
<1> QED BY <1>1, <1>2, <1>3, <1>4, <1>5, <1>6, <1>7 DEF Next, Engine

\* The rows of the days table change only as DayContract lets them: a settled
\* day stays settled, and only a date that has a row is settled.
THEOREM ImplementsContract == Spec => KeepsContract
<1>1. Init => Contract!Init BY DEF Init, Contract!Init, Contract!Day, Day
<1>2. IInv /\ [Next]_vars => [Contract!Next]_(Contract!vars) BY StepRefines
<1> QED BY <1>1, <1>2, Invariance, PTL DEF Spec, KeepsContract, Contract!Spec
-----------------------------------------------------------------------------
(* What is published, what stays, and the timer: on top of IInv *)

\* What a finalization under way is about to publish is in time.
InTime == /\ PublishedInTime
          /\ \A c \in Caller : call[c].pick # NoFrame => call[c].pick <= Cutoff

LEMMA InTimeInit == Init => InTime
BY DEF Init, InTime, PublishedInTime, NoCall

\* FinalizeDay picks an eligible frame or none.
LEMMA PickInTime ==
    ASSUME TypeOK, InTime, NEW c \in Caller, NEW d \in Day, BeginFinalize(c, d),
           UNCHANGED days
    PROVE  InTime'
<1>1. PICK p \in Picks(d) : call' = [call EXCEPT ![c] = [date |-> d, pick |-> p]]
  BY DEF BeginFinalize
<1>2. p # NoFrame => p <= Cutoff BY DEF Picks, Eligible
<1>3. \A b \in Caller : call'[b].pick # NoFrame => call'[b].pick <= Cutoff
  BY <1>1, <1>2 DEF InTime, TypeOK
<1> QED BY <1>3 DEF InTime, PublishedInTime, days

\* It publishes what it picked, and completes the day with it.
LEMMA EndInTime ==
    ASSUME TypeOK, InTime, NEW c \in Caller, call[c] # NoCall, EndFinalize(c)
    PROVE  InTime'
<1> DEFINE d == call[c].date
           p == call[c].pick
<1>1. d \in Day BY EndCall
<1>2. call' = [call EXCEPT ![c] = NoCall] BY DEF EndFinalize
<1>3. \A b \in Caller : call'[b].pick # NoFrame => call'[b].pick <= Cutoff
  BY <1>2 DEF InTime, TypeOK, NoCall
<1>4. \/ UNCHANGED days
      \/ /\ status' = [status EXCEPT ![d] = IF p = NoFrame THEN "failed" ELSE "complete"]
         /\ best' = [best EXCEPT ![d] = p]
      \/ /\ status' = [status EXCEPT ![d] = "failed"]
         /\ best' = [best EXCEPT ![d] = NoFrame]
  BY DEF EndFinalize, CompleteDay
<1>5. p # NoFrame => p <= Cutoff BY DEF InTime
<1> HIDE DEF d, p
<1>6. PublishedInTime' BY <1>1, <1>4, <1>5 DEF InTime, PublishedInTime, TypeOK, days
<1> QED BY <1>3, <1>6 DEF InTime

LEMMA InTimeStep == IInv /\ InTime /\ [Next]_vars => InTime'
<1> SUFFICES ASSUME IInv, InTime, [Next]_vars PROVE InTime'
  OBVIOUS
<1>0. TypeOK BY DEF IInv
<1>1. CASE BootBackfill \/ StartDay
  <2>1. UNCHANGED <<best, call>> BY <1>1 DEF BootBackfill, StartDay
  <2>2. \A d \in Day : status'[d] = "complete" <=> status[d] = "complete"
    BY <1>0, <1>1 DEF BootBackfill, BackfillMissedDays, StartDay, UpsertDayStart, TypeOK
  <2> QED BY <2>1, <2>2 DEF InTime, PublishedInTime
<1>2. CASE Read \/ \E d \in Day : BootRead(d) \/ Refinalize(d)
  BY <1>0, <1>2, PickInTime DEF Read, BootRead, Refinalize, TypeOK, Caller, durable
<1>3. CASE BootCommit \/ Commit \/ RefinalizeCommit
  <2>1. BootCommit \/ Commit => call["engine"] # NoCall
    BY DEF BootCommit, Commit, IInv, CallsMatch
  <2> QED BY <1>0, <1>3, <2>1, EndInTime DEF BootCommit, Commit, RefinalizeCommit, Caller
<1>4. CASE UNCHANGED <<days, call>>
  BY <1>4 DEF InTime, PublishedInTime, days
<1>5. CASE GoDown /\ UNCHANGED days
  BY <1>5 DEF InTime, PublishedInTime, days, GoDown, NoCall
<1>6. \/ BootBackfill \/ StartDay \/ Read \/ (\E d \in Day : BootRead(d) \/ Refinalize(d))
      \/ BootCommit \/ Commit \/ RefinalizeCommit
      \/ UNCHANGED <<days, call>> \/ (GoDown /\ UNCHANGED days)
  <2>1. CASE Tick \/ Cancel \/ UNCHANGED vars
    BY <2>1 DEF Tick, Cancel, vars, durable
  <2>2. CASE Reconcile
    BY <2>2 DEF Reconcile, Boot, BootMark, BootList, BootRetention, BootSkip, BootFinalize, durable
  <2>3. CASE RunLoop
    BY <2>3 DEF RunLoop, Plan, Wake, TickSlots, TickDecide, durable
  <2>4. CASE RunWindow
    BY <2>4 DEF RunWindow, InsertRun, Fetchers, FetchersFail, TickFails, LoopTop, Capture, NapOver,
                Finish, durable
  <2>5. CASE Exit \/ Crash
    BY <2>5 DEF Exit, ReturnAsleep, ReturnMidWindow, Crash, durable
  <2>6. CASE Admin
    BY <2>6 DEF Admin
  <2> QED BY <2>1, <2>2, <2>3, <2>4, <2>5, <2>6 DEF Next, Engine
<1> QED BY <1>1, <1>2, <1>3, <1>4, <1>5, <1>6

\* A day is published exactly with a frame, stored by the archive's cutoff, with
\* any number of dates, frames, crashes, faults and operators' calls.
THEOREM Punctual == Spec => []PublishedInTime
<1>1. InTime => PublishedInTime BY DEF InTime
<1> QED BY <1>1, InTimeInit, InTimeStep, Invariance, PTL DEF Spec

\* The timer, just set, is due by the start of every window still to come.
LEMMA PlanDue ==
    ASSUME TypeOK, Plan, NEW d \in Day, d >= day, ~Ended(d)
    PROVE  \/ wake'.day < d
           \/ wake'.day = d /\ (wake'.tod <= WStart \/ wake'.tod <= At(d))
<1> USE HorizonAssumption, WindowAssumption DEF Instant
<1>0. day \in Nat /\ tod \in Nat /\ d \in Nat BY DEF TypeOK, Day
<1>1. day \in Nat /\ tod \in Nat /\ d \in Nat /\ WStart \in Nat /\ WEnd \in Nat /\ PlanAt \in Nat
  <2>1. PlanAt \in Instant /\ WStart \in Instant /\ WEnd \in Instant
    BY SlotAssumption DEF Instant
  <2> QED BY <1>0, <2>1
<1>2. d = day => tod < WEnd BY <1>1 DEF Ended, At
<1>3. CASE WStart <= tod /\ tod < WEnd
  <2>1. wake' = [day |-> day, tod |-> tod] BY <1>3 DEF Plan, NextEvent
  <2> QED BY <1>1, <2>1 DEF At
<1>4. CASE ~(WStart <= tod /\ tod < WEnd) /\ Upcoming # {}
  <2>1. PICK t \in Upcoming : /\ wake' = [day |-> day, tod |-> t]
                              /\ \A v \in Upcoming : t <= v
    BY <1>4 DEF Plan, NextEvent
  <2>2. d = day => WStart \in Upcoming BY <1>1, <1>2, <1>4 DEF Upcoming
  <2> QED BY <1>1, <2>1, <2>2
<1>5. CASE ~(WStart <= tod /\ tod < WEnd) /\ Upcoming = {}
  <2>1. wake' = [day |-> day + 1, tod |-> PlanAt] BY <1>5 DEF Plan, NextEvent
  <2>2. d # day BY <1>1, <1>2, <1>5 DEF Upcoming
  <2> QED BY <1>1, <2>1, <2>2
<1> QED BY <1>3, <1>4, <1>5

LEMMA AwakeStep == TypeOK /\ NeverOversleeps /\ [Next]_vars => NeverOversleeps'
<1> SUFFICES ASSUME TypeOK, NeverOversleeps, [Next]_vars PROVE NeverOversleeps'
  OBVIOUS
<1>1. CASE Tick
  <2>1. pc' = pc /\ wake' = wake BY <1>1 DEF Tick, local
  <2>2. ASSUME NEW d \in Day, d >= day', ~Ended(d)'
        PROVE  d >= day /\ ~Ended(d) /\ At(d) <= At(d)'
    <3>1. day \in Nat /\ day' \in Nat /\ tod \in Nat /\ tod' \in Nat /\ d \in Nat
          /\ At(d) \in Nat /\ At(d)' \in Nat /\ WEnd \in Nat
      BY <1>1, ClockMoves, AtType, HorizonAssumption, WindowAssumption
         DEF Day, Instant, At
    <3>2. At(d) <= At(d)'
      <4>1. CASE day' = day /\ tod' = tod + 1
        <5>1. CASE d = day
          <6>1. At(d) = tod /\ At(d)' = tod + 1
            BY <3>1, <4>1, <5>1 DEF At
          <6> QED BY <3>1, <6>1
        <5>2. CASE d > day
          <6>1. At(d) = 0 BY <3>1, <5>2 DEF At
          <6> QED BY <3>1, <6>1
        <5> QED BY <2>2, <3>1, <4>1, <5>1, <5>2
      <4>2. CASE day' = day + 1 /\ tod' = 0
        <5>1. d > day BY <2>2, <3>1, <4>2
        <5>2. At(d) = 0 BY <3>1, <5>1 DEF At
        <5> QED BY <3>1, <5>2
      <4> QED BY <1>1, <4>1, <4>2, ClockMoves
    <3>3. d >= day BY <1>1, <2>2, <3>1, ClockMoves
    <3>4. ~(At(d)' >= WEnd) BY <2>2 DEF Ended
    <3>5. ~(At(d) >= WEnd) BY <3>1, <3>2, <3>4
    <3> QED BY <3>2, <3>3, <3>5 DEF Ended
  <2>3. \A d \in Day : At(d) \in Nat /\ At(d)' \in Nat
    BY <1>1, ClockMoves, AtType, HorizonAssumption DEF At, Instant
  <2>4. wake.tod \in Nat BY HorizonAssumption DEF TypeOK
  <2> QED BY <2>1, <2>2, <2>3, <2>4 DEF NeverOversleeps
<1>2. CASE Plan
  BY <1>2, PlanDue DEF NeverOversleeps, Plan, clock, Ended, At
<1>3. CASE UNCHANGED <<clock, pc, wake>>
  BY <1>3 DEF NeverOversleeps, clock, Ended, At
<1>4. CASE pc' # "sleep"
  BY <1>4 DEF NeverOversleeps
<1>5. Tick \/ Plan \/ UNCHANGED <<clock, pc, wake>> \/ pc' # "sleep"
  <2>1. CASE Cancel \/ Crash \/ Exit \/ UNCHANGED vars
    BY <2>1 DEF Cancel, Crash, Exit, ReturnAsleep, ReturnMidWindow, GoDown, vars, local
  <2>2. CASE Reconcile
    BY <2>2 DEF Reconcile, Boot, BootBackfill, BootMark, BootList, BootRetention, BootSkip,
                BootFinalize, BootRead, BootCommit, local
  <2>3. CASE RunLoop
    BY <2>3 DEF RunLoop, Wake, TickSlots, TickDecide, Read, Commit
  <2>4. CASE RunWindow
    BY <2>4 DEF RunWindow, InsertRun, StartDay, Fetchers, FetchersFail, TickFails, LoopTop, Capture,
                NapOver, Finish
  <2>5. CASE Admin
    BY <2>5 DEF Admin, Refinalize, RefinalizeCommit, local
  <2>6. CASE Tick BY <2>6
  <2> QED BY <2>1, <2>2, <2>3, <2>4, <2>5, <2>6 DEF Next, Engine
<1> QED BY <1>1, <1>2, <1>3, <1>4, <1>5

\* The engine is awake when a window begins and while it lasts, whatever the
\* slots, the horizon and the faults.
THEOREM WakesInTime == Spec => []NeverOversleeps
<1>1. Init => NeverOversleeps BY DEF Init, NeverOversleeps
<1> QED BY <1>1, AwakeStep, TypeCorrect, PTL DEF Spec

-----------------------------------------------------------------------------
(* Completed days *)

\* What the engine is about to capture or to settle is not settled yet, unless
\* the operator has had a hand in it.
Pending(d) == status[d] = "capturing" \/ d \in AdminDates

OnlyOpen ==
    /\ pc \in {"insert", "upsert"} => Pending(date) \/ status[date] = "none"
    /\ pc \in (Windowing \ {"upsert"}) \cup {"read"} => Pending(date)
    /\ pc \in {"commit", "bootCommit"} => Pending(call["engine"].date)

\* Only the operator's calls and the engine's commits settle a row, and those
\* a pending one.
LEMMA EndPending ==
    ASSUME TypeOK, NEW c \in Caller, call[c] # NoCall, EndFinalize(c), Pending(call[c].date)
    PROVE  \A d \in Day \ AdminDates :
              /\ status[d] # "capturing" => status'[d] = status[d] /\ best'[d] = best[d]
              /\ d # call[c].date => status'[d] = status[d]
<1>1. call[c].date \in Day BY EndCall
<1> QED BY <1>1 DEF TypeOK, EndFinalize, CompleteDay, Pending, days

LEMMA OpenStep ==
    IInv /\ OnlyOpen /\ [Next]_vars
      => /\ OnlyOpen'
         /\ \A d \in Day \ AdminDates :
                status[d] = "complete" => status'[d] = "complete" /\ best'[d] = best[d]
<1> SUFFICES ASSUME IInv, OnlyOpen, [Next]_vars
             PROVE  /\ OnlyOpen'
                    /\ \A d \in Day \ AdminDates :
                           status[d] = "complete" => status'[d] = "complete" /\ best'[d] = best[d]
  OBVIOUS
<1> USE DEF IInv, durable, days, local
<1>0. TypeOK /\ date \in Day BY DEF TypeOK
<1>1. CASE BootBackfill
  BY <1>0, <1>1 DEF BootBackfill, BackfillMissedDays, TypeOK, OnlyOpen, Windowing
<1>2. CASE StartDay
  BY <1>0, <1>2 DEF StartDay, UpsertDayStart, TypeOK, OnlyOpen, Windowing, Pending
<1>3. ASSUME NEW d \in Day, BootRead(d) PROVE OnlyOpen' /\ UNCHANGED days
  <2>1. d \in todo /\ Pending(d) BY <1>3 DEF BootRead, NextTodo, CallsMatch, Pending
  <2>2. call'["engine"].date = d
    BY <1>3, BeginCall DEF BootRead, BeginFinalize, Caller, TypeOK
  <2> QED BY <1>3, <2>1, <2>2 DEF BootRead, OnlyOpen, Pending, Windowing
<1>4. CASE Read
  <2>1. call'["engine"].date = date
    BY <1>0, <1>4 DEF Read, BeginFinalize, Caller, TypeOK
  <2> QED BY <1>4, <2>1 DEF Read, OnlyOpen, Pending, Windowing
<1>5. CASE BootCommit \/ Commit
  <2>1. call["engine"] # NoCall /\ Pending(call["engine"].date)
    BY <1>5 DEF BootCommit, Commit, CallsMatch, OnlyOpen
  <2>2. \A d \in Day \ AdminDates : status[d] # "capturing" => status'[d] = status[d] /\ best'[d] = best[d]
    BY <1>0, <1>5, <2>1, EndPending DEF BootCommit, Commit, Caller
  <2>3. pc' \in {"scan", "plan"} BY <1>5 DEF BootCommit, Commit
  <2> QED BY <2>2, <2>3 DEF OnlyOpen, Windowing
<1>6. CASE RefinalizeCommit
  <2>1. call["admin"] # NoCall /\ call["admin"].date \in AdminDates
    BY <1>6 DEF RefinalizeCommit, CallsMatch
  <2>2. \A d \in Day \ AdminDates : status'[d] = status[d] /\ best'[d] = best[d]
    BY <1>0, <1>6, <2>1, EndCall DEF RefinalizeCommit, Caller, EndFinalize, CompleteDay, TypeOK
  <2>3. call'["engine"] = call["engine"] /\ pc' = pc /\ date' = date
    BY <1>6 DEF RefinalizeCommit, EndFinalize, Caller, TypeOK
  <2>4. pc \in {"commit", "bootCommit"} => call["engine"].date \in Day BY EngineCall
  <2> QED BY <1>0, <2>2, <2>3, <2>4 DEF OnlyOpen, Pending
<1>7. ASSUME NEW d \in Day, Refinalize(d) PROVE OnlyOpen' /\ UNCHANGED days
  BY <1>7 DEF Refinalize, BeginFinalize, Caller, TypeOK, OnlyOpen, Pending
<1>8. CASE TickDecide
  BY <1>8 DEF TickDecide, OnlyOpen, Pending, Windowing, RowFirst, TypeOK, Status, Final
<1>9. CASE \/ Tick \/ Exit \/ Crash \/ Cancel \/ UNCHANGED vars
           \/ Boot \/ BootMark \/ BootList \/ BootRetention
           \/ (\E d \in Day : BootSkip(d) \/ BootFinalize(d))
           \/ Plan \/ Wake \/ TickSlots
  BY <1>9 DEF Tick, Exit, ReturnAsleep, ReturnMidWindow, Crash, GoDown, Cancel, vars, Boot, BootMark,
     BootList, BootRetention, BootSkip, BootFinalize, Plan, Wake, TickSlots, OnlyOpen, Pending, Windowing
<1>10. CASE InsertRun \/ Fetchers \/ FetchersFail \/ TickFails \/ LoopTop \/ Capture \/ NapOver \/ Finish
  BY <1>10 DEF InsertRun, Fetchers, FetchersFail, TickFails, LoopTop, Capture, NapOver, Finish,
     OnlyOpen, Pending, Windowing
<1> QED
  BY <1>1, <1>2, <1>3, <1>4, <1>5, <1>6, <1>7, <1>8, <1>9, <1>10
     DEF Next, Engine, Reconcile, RunLoop, RunWindow, Admin

\* Nothing but the operator touches a completed day, for any horizon and faults.
THEOREM CompletedLeftAlone == Spec => CompletedStays
<1>1. Init => OnlyOpen BY DEF Init, OnlyOpen, Windowing
<1>2. IInv /\ OnlyOpen /\ [Next]_vars
        => OnlyOpen' /\ [\A d \in Day \ AdminDates :
             status[d] = "complete" => status'[d] = "complete" /\ best'[d] = best[d]]_vars
  BY OpenStep
<1> QED BY <1>1, <1>2, Invariance, PTL DEF Spec, CompletedStays

-----------------------------------------------------------------------------
(* What Reconcile settles, when the process is never stopped gracefully *)

Over(d) == Ended(d) \/ stops > 0

\* A run is closed by its own window's end, by the mark of a later process, or
\* by a stop; and a day listed as capturing keeps the runs it has.
RunsEnd ==
    /\ pc = "finish" => Over(date)
    /\ \A d \in Day : closed[d] > 0 => Over(d)
    /\ \A d \in todo : running[d] + closed[d] > 0

LEMMA OverStays == ASSUME IInv, [Next]_vars, NEW d \in Day, Over(d) PROVE Over(d)'
<1>1. CASE Tick BY <1>1, EndedStays DEF IInv, Over, Tick, budget
<1>2. CASE UNCHANGED clock
  <2>1. Ended(d) => Ended(d)' BY <1>2 DEF Ended, At, clock
  <2>2. stops > 0 => stops' > 0
    BY DEF IInv, TypeOK, Next, vars, budget, Engine, Reconcile, RunLoop, RunWindow, Exit, Admin,
       Tick, Boot, BootBackfill, BootMark, BootList, BootRetention, BootSkip, BootFinalize,
       BootRead, BootCommit, Plan, Wake, TickSlots, TickDecide, Read, Commit, InsertRun, StartDay,
       Fetchers, FetchersFail, TickFails, LoopTop, Capture, NapOver, Finish, ReturnAsleep,
       ReturnMidWindow, Crash, Cancel, Refinalize, RefinalizeCommit
  <2> QED BY <2>1, <2>2 DEF Over
<1> QED
  BY <1>1, <1>2
     DEF Next, vars, clock, Engine, Reconcile, RunLoop, RunWindow, Exit, Admin,
       Boot, BootBackfill, BootMark, BootList, BootRetention, BootSkip, BootFinalize,
       BootRead, BootCommit, Plan, Wake, TickSlots, TickDecide, Read, Commit, InsertRun, StartDay,
       Fetchers, FetchersFail, TickFails, LoopTop, Capture, NapOver, Finish, ReturnAsleep,
       ReturnMidWindow, Crash, Cancel, Refinalize, RefinalizeCommit

LEMMA RunsEndStep == ASSUME IInv, RunsEnd, [Next]_vars PROVE RunsEnd'
<1> USE DEF IInv, durable, rows, local
<1>0. TypeOK /\ date \in Day /\ todo \subseteq Day BY DEF TypeOK
<1>1. CASE BootMark
  <2>1. ASSUME NEW d \in Day, closed'[d] > 0 PROVE Over(d)
    <3>1. CASE At(d) > WEnd
      <4>1. At(d) \in Nat /\ WEnd \in Nat
        BY AtType, WindowAssumption, HorizonAssumption DEF Instant
      <4> QED BY <3>1, <4>1 DEF Over, Ended
    <3>2. CASE ~(At(d) > WEnd)
      <4>1. closed[d] > 0 BY <1>0, <1>1, <2>1, <3>2 DEF BootMark, MarkInterruptedRuns, TypeOK
      <4> QED BY <4>1 DEF RunsEnd
    <3> QED BY <3>1, <3>2
  <2>2. \A d \in todo : running'[d] + closed'[d] = running[d] + closed[d]
    BY <1>0, <1>1 DEF BootMark, MarkInterruptedRuns, TypeOK
  <2>3. \A d \in todo' : running'[d] + closed'[d] > 0 BY <1>1, <2>2 DEF BootMark, RunsEnd
  <2>4. pc' # "finish" BY <1>1 DEF BootMark
  <2> QED BY <2>1, <2>3, <2>4, OverStays DEF RunsEnd
<1>2. CASE BootList
  <2>1. \A d \in todo' : running[d] + closed[d] > 0 BY <1>2 DEF BootList, CapturingHasRun
  <2> QED BY <1>2, <2>1, OverStays DEF BootList, RunsEnd
<1>3. CASE InsertRun
  <2>1. \A d \in Day : closed'[d] = closed[d] /\ running'[d] >= running[d]
    BY <1>0, <1>3 DEF InsertRun, TypeOK
  <2>2. \A d \in todo' : running'[d] + closed'[d] > 0
    BY <1>0, <1>3, <2>1 DEF InsertRun, RunsEnd, TypeOK
  <2> QED BY <1>3, <2>1, <2>2, OverStays DEF InsertRun, RunsEnd
<1>4. CASE LoopTop
  <2>1. pc' = "finish" => Over(date) BY <1>0, <1>4 DEF LoopTop, Over, CutInv
  <2> QED BY <1>0, <1>4, <2>1, OverStays DEF LoopTop, RunsEnd
<1>5. CASE Capture
  <2>1. pc' = "finish" => Over(date) BY <1>0, <1>5 DEF Capture, Over
  <2> QED BY <1>0, <1>5, <2>1, OverStays DEF Capture, RunsEnd
<1>6. CASE Finish \/ ReturnMidWindow
  <2>1. Over(date) BY <1>6 DEF Finish, ReturnMidWindow, RunsEnd, Over, CutInv
  <2>2. todo = {} BY <1>6 DEF Finish, ReturnMidWindow, CallsMatch, Booting
  <2>3. \A d \in Day : closed'[d] > 0 => Over(d)
    BY <1>0, <1>6, <2>1 DEF Finish, ReturnMidWindow, CloseRun, RunsEnd, TypeOK
  <2>4. todo' = {} /\ pc' # "finish" BY <1>6, <2>2 DEF Finish, ReturnMidWindow, GoDown
  <2> QED BY <2>3, <2>4, OverStays DEF RunsEnd
<1>7. CASE UNCHANGED rows /\ todo' \subseteq todo /\ pc' # "finish"
  BY <1>0, <1>7, OverStays DEF RunsEnd
<1>8. CASE UNCHANGED <<rows, pc, date, todo>>
  BY <1>0, <1>8, OverStays DEF RunsEnd
<1>9. CASE Boot \/ BootBackfill \/ BootRetention \/ (\E d \in Day : BootSkip(d) \/ BootFinalize(d))
           \/ (\E d \in Day : BootRead(d)) \/ BootCommit \/ Plan \/ Wake \/ TickSlots \/ TickDecide
           \/ Read \/ Commit
  BY <1>7, <1>9 DEF Boot, BootBackfill, BootRetention, BootSkip, BootFinalize, BootRead, BootCommit,
     Plan, Wake, TickSlots, TickDecide, Read, Commit
<1>10. CASE StartDay \/ Fetchers \/ FetchersFail \/ TickFails \/ NapOver \/ ReturnAsleep \/ Crash
  BY <1>7, <1>10 DEF StartDay, Fetchers, FetchersFail, TickFails, NapOver, ReturnAsleep, Crash, GoDown
<1>11. CASE Tick \/ Cancel \/ Admin \/ UNCHANGED vars
  BY <1>8, <1>11 DEF Tick, Cancel, Admin, Refinalize, RefinalizeCommit, vars
<1> QED
  BY <1>1, <1>2, <1>3, <1>4, <1>5, <1>6, <1>9, <1>10, <1>11
     DEF Next, Engine, Reconcile, RunLoop, RunWindow, Exit

\* What Reconcile settles is a window that has ended, whatever crashes, restarts
\* and calls of the operator there were, as long as the process is not stopped
\* gracefully: the stop in the middle of a window is the one way to fail it.
THEOREM OnlyStopsCut == ASSUME MaxStops = 0 PROVE Spec => ReconcileSettlesEnded
<1>1. Init => RunsEnd BY DEF Init, RunsEnd
<1>2. IInv /\ RunsEnd /\ [Next]_vars
        => RunsEnd' /\ [\A d \in Day : pc = "scan" /\ pc' = "bootRead" /\ NextTodo(d) => Ended(d)]_vars
  <2> SUFFICES ASSUME IInv, RunsEnd, [Next]_vars, pc = "scan", pc' = "bootRead",
                      NEW d \in Day, NextTodo(d)
               PROVE  Ended(d)
    BY RunsEndStep
  <2>1. TypeOK BY DEF IInv
  <2>2. PICK e \in Day : BootFinalize(e)
    BY DEF Next, vars, Engine, Reconcile, RunLoop, RunWindow, Exit, Admin,
       Tick, Boot, BootBackfill, BootMark, BootList, BootRetention, BootSkip, BootRead, BootCommit,
       Plan, Wake, TickSlots, TickDecide, Read, Commit, InsertRun, StartDay,
       Fetchers, FetchersFail, TickFails, LoopTop, Capture, NapOver, Finish, ReturnAsleep,
       ReturnMidWindow, Crash, GoDown, Cancel, Refinalize, RefinalizeCommit
  <2>3. d = e
    BY <2>2, HorizonAssumption DEF BootFinalize, NextTodo, Day
  <2>4. d \in todo /\ running[d] = 0
    BY <2>1, <2>2, <2>3 DEF BootFinalize, NextTodo, HasRunningRun, TypeOK
  <2>5. closed[d] > 0 BY <2>1, <2>4 DEF RunsEnd, TypeOK
  <2>6. stops = 0 BY <2>1 DEF TypeOK
  <2> QED BY <2>5, <2>6 DEF RunsEnd, Over
<1> QED BY <1>1, <1>2, Invariance, PTL DEF Spec, ReconcileSettlesEnded
=============================================================================
