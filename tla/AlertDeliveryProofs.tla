------------------------- MODULE AlertDeliveryProofs -------------------------
(***************************************************************************)
(* Theorems about AlertDelivery, for every set of cameras, test events and *)
(* notifiers and every number of crashes, lost answers, faults and edits.  *)
(***************************************************************************)
EXTENDS AlertDelivery, TLAPS

\* The rows agree with each other, and the delivery being attempted is one
\* the drain has taken out of its batch.
QueueInv ==
    /\ \A x \in Delivery : state[x] # "none" => event[x[1]]
    /\ \A x \in Delivery : state[x] = "none" => attempts[x] = 0
    /\ \A x \in Delivery : state[x] = "pending" => attempts[x] < MaxAttempts
    /\ cur \notin batch
    /\ cur # NoJob => /\ outcome \in {"sent", "failed", "pending"}
                      /\ outcome = "pending" => cur.attempts + 1 < MaxAttempts
                      /\ outcome = "sent" => received[cur.to] > 0

\* One acceptance is due to x: it is recorded as sent, or is about to be.
Arrived(x) == IF state[x] = "sent" \/ (cur # NoJob /\ cur.to = x /\ outcome = "sent")
              THEN 1 ELSE 0

\* One call of Send for x is not yet counted in its row.
Open(x) == IF cur # NoJob /\ cur.to = x THEN 1 ELSE 0

\* Every acceptance and every call beyond those is paid for by a fault.
Counted == \A x \in Delivery :
    /\ received[x] <= crashes + lost + faults + Arrived(x)
    /\ sends[x] <= attempts[x] + crashes + faults + Open(x)

IInv == TypeOK /\ BatchFresh /\ SentWasReceived /\ QueueInv /\ Counted

-----------------------------------------------------------------------------
LEMMA NoJobIsNone == NoJob \notin Job
BY NotifierAssumption DEF NoJob, Job, Delivery

\* The jobs of a drain are told apart by the delivery they are for.
LEMMA SameJob == ASSUME NEW i \in Job, NEW j \in Job,
                        i.to = j.to, i.attempts = j.attempts
                 PROVE  i = j
BY DEF Job

LEMMA DeliveryParts == \A x \in Delivery : x[1] \in Keys /\ x[2] \in Ids
BY DEF Delivery

\* What a call of Send may come to: an acceptance beyond those that were lost
\* on the way back is the one the caller knows of.
LEMMA ReplyBalance ==
    ASSUME NEW x \in Delivery, NEW r \in Replies(x)
    PROVE  /\ r.got \in Nat /\ r.lost \in Nat
           /\ r.reply \in {"ok", "permanent", "transient"}
           /\ r.got <= r.lost + (IF r.reply = "ok" THEN 1 ELSE 0)
           /\ r.reply = "ok" => r.got > 0
<1>1. \A q \in Request : /\ q.got \in Nat /\ q.lost \in Nat
                         /\ q.reply \in {"ok", "permanent", "transient"}
                         /\ q.got <= q.lost + (IF q.reply = "ok" THEN 1 ELSE 0)
                         /\ q.reply = "ok" => q.got > 0
  BY DEF Request
<1>2. CASE r \in Request BY <1>1, <1>2
<1>3. CASE r \in Fallback
  <2>1. PICK a \in {q \in Request : q.reply = "transient"}, b \in Request :
              r = [reply |-> b.reply, got |-> a.got + b.got, lost |-> a.lost + b.lost]
    BY <1>3 DEF Fallback
  <2>2. a \in Request /\ a.reply = "transient" BY <2>1
  <2>3. a.got \in Nat /\ a.lost \in Nat /\ a.got <= a.lost BY <1>1, <2>2
  <2> QED BY <1>1, <2>1, <2>3
<1>4. CASE r = Refused BY <1>4 DEF Refused
<1> QED BY <1>2, <1>3, <1>4 DEF Replies

LEMMA InitInv == Init => IInv
<1> SUFFICES ASSUME Init PROVE IInv OBVIOUS
<1> USE NotifierAssumption, AttemptAssumption, BoundAssumption DEF Init
<1>1. TypeOK
  <2>1. /\ event \in [Keys -> BOOLEAN] /\ fired \in [Cameras -> BOOLEAN]
        /\ state \in [Delivery -> State] BY DEF State
  <2>2. /\ attempts \in [Delivery -> 0..MaxAttempts]
        /\ sends \in [Delivery -> Nat] /\ received \in [Delivery -> Nat] OBVIOUS
  <2>3. /\ defs \subseteq Ids /\ live \subseteq Ids /\ ids \subseteq Ids /\ prev \subseteq Ids
        /\ batch \subseteq Job OBVIOUS
  <2>4. /\ marked \in BOOLEAN /\ up \in BOOLEAN /\ editing \in BOOLEAN /\ slot \in BOOLEAN
        /\ cur \in Job \cup {NoJob} /\ outcome \in State BY DEF State
  <2>5. /\ crashes \in 0..MaxCrashes /\ lost \in 0..MaxLost
        /\ faults \in 0..MaxFaults /\ edits \in 0..MaxEdits OBVIOUS
  <2> QED BY <2>1, <2>2, <2>3, <2>4, <2>5 DEF TypeOK
<1>2. BatchFresh BY DEF BatchFresh
<1>3. SentWasReceived BY DEF SentWasReceived
<1>4. QueueInv BY DEF QueueInv
<1>5. Counted BY DEF Counted, Arrived, Open
<1> QED BY <1>1, <1>2, <1>3, <1>4, <1>5 DEF IInv

\* Steps that touch neither the queue, nor the worker, nor the remote ends.
LEMMA Aside ==
    ASSUME IInv, UNCHANGED <<queue, worker, remote, crashes, lost>>,
           faults' \in 0..MaxFaults, faults' >= faults
    PROVE  BatchFresh' /\ SentWasReceived' /\ QueueInv' /\ Counted'
<1> USE BoundAssumption DEF IInv, TypeOK, queue, worker, remote
<1>1. BatchFresh' BY DEF BatchFresh
<1>2. SentWasReceived' BY DEF SentWasReceived
<1>3. QueueInv' BY DEF QueueInv
<1>4. Counted'
  <2> SUFFICES ASSUME NEW x \in Delivery
               PROVE  /\ received[x] <= crashes + lost + faults' + Arrived(x)
                      /\ sends[x] <= attempts[x] + crashes + faults' + Open(x)
    BY DEF Counted, Arrived, Open
  <2>1. Arrived(x) \in Nat /\ Open(x) \in Nat BY DEF Arrived, Open
  <2> QED BY <2>1, AttemptAssumption DEF Counted
<1> QED BY <1>1, <1>2, <1>3, <1>4

LEMMA FaultType == ASSUME TypeOK, Fault PROVE faults' \in 0..MaxFaults /\ faults' = faults + 1
BY BoundAssumption DEF TypeOK, Fault

\* An emission, whether it inserts the event, finds it there, or fails.
LEMMA EmitInv ==
    ASSUME IInv, NEW k \in Keys, Emit(k), UNCHANGED <<attempts, worker, remote, crashes, lost>>
    PROVE  /\ event' \in [Keys -> BOOLEAN] /\ state' \in [Delivery -> State]
           /\ faults' \in 0..MaxFaults
           /\ BatchFresh' /\ SentWasReceived' /\ QueueInv' /\ Counted'
<1> USE BoundAssumption, DeliveryParts DEF IInv, worker, remote
<1>1. CASE Fault /\ UNCHANGED <<event, state>>
  <2>1. faults' \in 0..MaxFaults /\ faults' = faults + 1 BY <1>1, FaultType
  <2> QED BY <1>1, <2>1, Aside DEF TypeOK, queue
<1>2. CASE TryInsertEvent(k) /\ UNCHANGED faults /\ event[k]
  BY <1>2, Aside DEF TypeOK, queue, TryInsertEvent
<1>3. CASE TryInsertEvent(k) /\ UNCHANGED faults /\ ~event[k]
  <2>1. /\ event' = [event EXCEPT ![k] = TRUE]
        /\ state' = [x \in Delivery |-> IF x[1] = k /\ x[2] \in ids THEN "pending" ELSE state[x]]
    BY <1>3 DEF TryInsertEvent
  <2>2. \A x \in Delivery : x[1] = k => state[x] = "none" /\ attempts[x] = 0
    BY <1>3 DEF QueueInv
  <2>3. \A x \in Delivery : state[x] # "none" => state'[x] = state[x] BY <2>1, <2>2
  <2>4. \A x \in Delivery : state'[x] # state[x] => state'[x] = "pending" /\ x[1] = k BY <2>1
  <2>5. event' \in [Keys -> BOOLEAN] /\ state' \in [Delivery -> State] BY <2>1 DEF TypeOK, State
  <2>6. BatchFresh'
    <3>1. \A j \in batch \cup ({cur} \ {NoJob}) : j.to \in Delivery BY DEF TypeOK, Job
    <3> QED BY <2>3, <3>1 DEF BatchFresh
  <2>7. SentWasReceived' BY <2>4 DEF SentWasReceived
  <2>8. QueueInv' BY <2>1, <2>2, <2>4, AttemptAssumption DEF QueueInv, TypeOK
  <2>9. Counted'
    <3>1. \A x \in Delivery : Arrived(x)' = Arrived(x) /\ Open(x)' = Open(x)
      BY <2>1, <2>2 DEF Arrived, Open
    <3> QED BY <1>3, <3>1 DEF Counted
  <2> QED BY <1>3, <2>5, <2>6, <2>7, <2>8, <2>9 DEF TypeOK
<1> QED BY <1>1, <1>2, <1>3 DEF Emit, TryInsertEvent

-----------------------------------------------------------------------------
(* One lemma per action *)

LEMMA ManagerInv == ASSUME IInv, Boot \/ Reload \/ (\E n \in Ids : SaveNotifier(n)) PROVE IInv'
<1> USE NotifierAssumption, BoundAssumption DEF IInv, durable
<1>1. CASE Boot
  <2>1. TypeOK' BY <1>1 DEF TypeOK, Boot, BuildFromDefs, queue, engine, worker, remote, budget
  <2> QED BY <1>1, <2>1, Aside DEF TypeOK, Boot, budget
<1>2. CASE Reload
  <2>1. TypeOK' BY <1>2 DEF TypeOK, Reload, BuildFromDefs, queue, engine, worker, remote, budget
  <2> QED BY <1>2, <2>1, Aside DEF TypeOK, Reload, budget
<1>3. ASSUME NEW n \in Ids, SaveNotifier(n) PROVE IInv'
  <2>1. TypeOK' BY <1>3 DEF TypeOK, SaveNotifier, queue, engine, worker, remote
  <2> QED BY <1>3, <2>1, Aside DEF TypeOK, SaveNotifier
<1> QED BY <1>1, <1>2, <1>3

LEMMA ArmInv == ASSUME IInv, Arm PROVE IInv'
<1>1. TypeOK' BY DEF IInv, TypeOK, Arm, durable, queue, manager, worker, remote, budget
<1> QED BY <1>1, Aside DEF IInv, TypeOK, Arm, durable, budget

LEMMA HeadsUpSlotInv == ASSUME IInv, HeadsUpSlot PROVE IInv'
<1>1. faults' \in 0..MaxFaults /\ faults' >= faults
  <2>1. CASE UNCHANGED faults BY <2>1 DEF IInv, TypeOK
  <2>2. CASE Fault BY <2>2, FaultType DEF IInv, TypeOK
  <2> QED BY <2>1, <2>2 DEF HeadsUpSlot
<1>2. TypeOK' BY <1>1 DEF IInv, TypeOK, HeadsUpSlot, queue, manager, worker, remote
<1> QED BY <1>1, <1>2, Aside DEF IInv, HeadsUpSlot

LEMMA FireInv == ASSUME IInv, NEW c \in Cameras, Fire(c) PROVE IInv'
<1>1. "go" \in Keys BY DEF Keys
<1>2. /\ event' \in [Keys -> BOOLEAN] /\ state' \in [Delivery -> State] /\ faults' \in 0..MaxFaults
      /\ BatchFresh' /\ SentWasReceived' /\ QueueInv' /\ Counted'
  BY <1>1, EmitInv DEF Fire
<1>3. TypeOK' BY <1>2 DEF IInv, TypeOK, Fire, manager, worker, remote
<1> QED BY <1>2, <1>3 DEF IInv

LEMMA HeadsUpInv == ASSUME IInv, HeadsUp PROVE IInv'
<1>1. CASE Emit("headsup")
  <2>1. "headsup" \in Keys BY DEF Keys
  <2>2. /\ event' \in [Keys -> BOOLEAN] /\ state' \in [Delivery -> State] /\ faults' \in 0..MaxFaults
        /\ BatchFresh' /\ SentWasReceived' /\ QueueInv' /\ Counted'
    BY <1>1, <2>1, EmitInv DEF HeadsUp
  <2>3. TypeOK' BY <2>2 DEF IInv, TypeOK, HeadsUp, manager, worker, remote
  <2> QED BY <2>2, <2>3 DEF IInv
<1>2. CASE UNCHANGED <<event, state, faults>>
  <2>1. TypeOK' BY <1>2 DEF IInv, TypeOK, HeadsUp, manager, worker, remote
  <2> QED BY <1>2, <2>1, Aside DEF IInv, TypeOK, HeadsUp, queue
<1> QED BY <1>1, <1>2 DEF HeadsUp

LEMMA TestFireInv == ASSUME IInv, NEW k \in Tests, TestFire(k) PROVE IInv'
<1>1. k \in Keys BY DEF Keys
<1>2. /\ event' \in [Keys -> BOOLEAN] /\ state' \in [Delivery -> State] /\ faults' \in 0..MaxFaults
      /\ BatchFresh' /\ SentWasReceived' /\ QueueInv' /\ Counted'
  BY <1>1, EmitInv DEF TestFire
<1>3. TypeOK' BY <1>2 DEF IInv, TypeOK, TestFire, manager, engine, worker, remote
<1> QED BY <1>2, <1>3 DEF IInv

LEMMA DrainInv == ASSUME IInv, Drain PROVE IInv'
<1> USE BoundAssumption DEF IInv
<1>1. UNCHANGED <<durable, up, manager, engine, cur, outcome, remote, budget>> /\ cur = NoJob
  BY DEF Drain
<1>2. \A j \in batch' : /\ j \in Job
                        /\ state[j.to] = "pending" /\ attempts[j.to] = j.attempts
  BY AttemptAssumption DEF Drain, PendingDeliveries, TypeOK, Job
<1>3. TypeOK'
  <2>1. batch' \subseteq Job BY <1>2 DEF Drain
  <2> QED BY <1>1, <2>1 DEF TypeOK, durable, queue, manager, engine, remote, budget
<1>4. BatchFresh' BY <1>1, <1>2 DEF BatchFresh, durable, queue
<1>5. SentWasReceived' BY <1>1 DEF SentWasReceived, durable, queue, remote
<1>6. QueueInv' BY <1>1, <1>2, NoJobIsNone DEF QueueInv, durable, queue, remote
<1>7. Counted' BY <1>1 DEF Counted, Arrived, Open, durable, queue, remote, budget
<1> QED BY <1>3, <1>4, <1>5, <1>6, <1>7

LEMMA SkipUnreadInv == ASSUME IInv, NEW j \in batch, SkipUnread(j) PROVE IInv'
<1> USE BoundAssumption DEF IInv
<1>1. faults' \in 0..MaxFaults /\ faults' = faults + 1 BY FaultType DEF SkipUnread
<1>2. /\ UNCHANGED <<durable, up, manager, engine, cur, outcome, remote,
                     crashes, lost, edits>>
      /\ batch' = batch \ {j}
  BY DEF SkipUnread
<1>3. TypeOK' BY <1>1, <1>2 DEF TypeOK, durable, queue, manager, engine, remote
<1>4. BatchFresh' BY <1>2 DEF BatchFresh, durable, queue
<1>5. SentWasReceived' BY <1>2 DEF SentWasReceived, durable, queue, remote
<1>6. QueueInv' BY <1>2 DEF QueueInv, durable, queue, remote
<1>7. Counted'
  <2> SUFFICES ASSUME NEW x \in Delivery
               PROVE  /\ received[x] <= crashes + lost + faults' + Arrived(x)
                      /\ sends[x] <= attempts[x] + crashes + faults' + Open(x)
    BY <1>2 DEF Counted, Arrived, Open, durable, queue, remote
  <2>1. Arrived(x) \in Nat /\ Open(x) \in Nat BY DEF Arrived, Open
  <2> QED BY <1>1, <2>1, AttemptAssumption DEF Counted, TypeOK
<1> QED BY <1>3, <1>4, <1>5, <1>6, <1>7

\* Recording an outcome for the job taken out of the batch, or failing to.
LEMMA MarkRows ==
    ASSUME IInv, NEW j \in Job, j \in batch \/ j = cur, NEW s \in State \ {"none"},
           s = "pending" => j.attempts + 1 < MaxAttempts,
           MarkDelivery(j.to, s)
    PROVE  /\ j.to \in Delivery /\ state[j.to] = "pending" /\ attempts[j.to] = j.attempts
           /\ state' \in [Delivery -> State] /\ attempts' \in [Delivery -> 0..MaxAttempts]
           /\ faults' \in 0..MaxFaults /\ faults' >= faults
           /\ \A x \in Delivery : x # j.to => state'[x] = state[x] /\ attempts'[x] = attempts[x]
           /\ \/ /\ state'[j.to] = s /\ attempts'[j.to] = attempts[j.to] + 1
                 /\ faults' = faults
              \/ /\ state' = state /\ attempts' = attempts /\ faults' = faults + 1
<1> USE AttemptAssumption, BoundAssumption DEF IInv, TypeOK
<1>1. j.to \in Delivery /\ j.attempts \in Nat BY DEF Job
<1>2. state[j.to] = "pending" /\ attempts[j.to] = j.attempts BY NoJobIsNone DEF BatchFresh
<1>3. attempts[j.to] + 1 \in 0..MaxAttempts BY <1>1, <1>2 DEF QueueInv
<1>4. CASE /\ state' = [state EXCEPT ![j.to] = s]
           /\ attempts' = [attempts EXCEPT ![j.to] = @ + 1]
           /\ UNCHANGED faults
  BY <1>1, <1>2, <1>3, <1>4
<1>5. CASE Fault /\ UNCHANGED <<state, attempts>>
  BY <1>1, <1>2, <1>5, FaultType
<1> QED BY <1>4, <1>5 DEF MarkDelivery

LEMMA DropUnknownInv == ASSUME IInv, NEW j \in batch, DropUnknown(j) PROVE IInv'
<1> USE AttemptAssumption, BoundAssumption DEF IInv
<1>1. j \in Job /\ cur = NoJob BY DEF TypeOK, DropUnknown, Draining
<1>2. /\ UNCHANGED <<event, defs, marked, up, manager, engine, cur, outcome, remote,
                     crashes, lost, edits>>
      /\ batch' = batch \ {j}
  BY DEF DropUnknown
<1>3. /\ j.to \in Delivery /\ state[j.to] = "pending" /\ attempts[j.to] = j.attempts
      /\ state' \in [Delivery -> State] /\ attempts' \in [Delivery -> 0..MaxAttempts]
      /\ faults' \in 0..MaxFaults /\ faults' >= faults
      /\ \A x \in Delivery : x # j.to => state'[x] = state[x] /\ attempts'[x] = attempts[x]
      /\ \/ /\ state'[j.to] = "failed" /\ attempts'[j.to] = attempts[j.to] + 1
            /\ faults' = faults
         \/ /\ state' = state /\ attempts' = attempts /\ faults' = faults + 1
  BY <1>1, MarkRows DEF DropUnknown, State
<1>4. TypeOK' BY <1>2, <1>3 DEF TypeOK, manager, engine, remote
<1>5. BatchFresh'
  <2> SUFFICES ASSUME NEW i \in batch, i # j
               PROVE  state'[i.to] = "pending" /\ attempts'[i.to] = i.attempts
    BY <1>1, <1>2 DEF BatchFresh
  <2>1. i \in Job /\ i.to \in Delivery BY DEF TypeOK, Job
  <2>2. state[i.to] = "pending" /\ attempts[i.to] = i.attempts BY DEF BatchFresh
  <2>3. i.to # j.to BY <1>1, <1>3, <2>1, <2>2, SameJob
  <2> QED BY <1>3, <2>1, <2>2, <2>3
<1>6. SentWasReceived' BY <1>2, <1>3 DEF SentWasReceived, remote
<1>7. QueueInv' BY <1>1, <1>2, <1>3 DEF QueueInv
<1>8. Counted'
  <2> SUFFICES ASSUME NEW x \in Delivery
               PROVE  /\ received[x] <= crashes + lost + faults' + Arrived(x)'
                      /\ sends[x] <= attempts'[x] + crashes + faults' + Open(x)'
    BY <1>2 DEF Counted, remote
  <2>1. Arrived(x)' = Arrived(x) /\ Open(x)' = Open(x) /\ Arrived(x) \in Nat /\ Open(x) \in Nat
    BY <1>1, <1>2, <1>3 DEF Arrived, Open
  <2>2. attempts'[x] >= attempts[x] BY <1>3 DEF TypeOK
  <2> QED BY <1>3, <2>1, <2>2 DEF Counted, TypeOK
<1> QED BY <1>4, <1>5, <1>6, <1>7, <1>8

LEMMA SendInv == ASSUME IInv, NEW j \in batch, Send(j) PROVE IInv'
<1> USE AttemptAssumption, BoundAssumption DEF IInv
<1>1. /\ j \in Job /\ j.to \in Delivery /\ j.attempts \in Nat /\ cur = NoJob
      /\ state[j.to] = "pending" /\ attempts[j.to] = j.attempts
  BY DEF TypeOK, Send, Draining, BatchFresh, Job
<1>2. /\ UNCHANGED <<durable, up, manager, engine, crashes, faults, edits>>
      /\ batch' = batch \ {j} /\ cur' = j
      /\ sends' = [sends EXCEPT ![j.to] = @ + 1]
  BY DEF Send
<1>3. PICK r \in Replies(j.to) : /\ lost + r.lost <= MaxLost /\ lost' = lost + r.lost
                                 /\ received' = [received EXCEPT ![j.to] = @ + r.got]
                                 /\ outcome' = After(r.reply, j.attempts)
  BY DEF Send
<1>4. /\ r.got \in Nat /\ r.lost \in Nat
      /\ r.reply \in {"ok", "permanent", "transient"}
      /\ r.got <= r.lost + (IF r.reply = "ok" THEN 1 ELSE 0)
      /\ r.reply = "ok" => r.got > 0
  BY <1>1, ReplyBalance
<1>5. /\ outcome' \in {"sent", "failed", "pending"}
      /\ outcome' = "pending" => j.attempts + 1 < MaxAttempts
      /\ outcome' = "sent" <=> r.reply = "ok"
  BY <1>1, <1>3, <1>4 DEF After
<1>6. TypeOK'
  <2>1. lost' \in 0..MaxLost BY <1>3, <1>4 DEF TypeOK
  <2>2. received' \in [Delivery -> Nat] /\ sends' \in [Delivery -> Nat]
    BY <1>1, <1>2, <1>3, <1>4 DEF TypeOK
  <2>3. outcome' \in State /\ cur' \in Job /\ batch' \subseteq Job
    BY <1>1, <1>2, <1>5 DEF State, TypeOK
  <2> QED BY <1>2, <2>1, <2>2, <2>3 DEF TypeOK, durable, queue, manager, engine
<1>7. BatchFresh' BY <1>1, <1>2 DEF BatchFresh, durable, queue
<1>8. \A x \in Delivery : received[x] > 0 => received'[x] > 0 BY <1>1, <1>3, <1>4 DEF TypeOK
<1>9. SentWasReceived' BY <1>2, <1>8 DEF SentWasReceived, durable, queue
<1>10. QueueInv'
  <2>1. outcome' = "sent" => received'[j.to] > 0 BY <1>1, <1>3, <1>4, <1>5 DEF TypeOK
  <2> QED BY <1>2, <1>5, <2>1 DEF QueueInv, durable, queue
<1>11. Counted'
  <2> SUFFICES ASSUME NEW x \in Delivery
               PROVE  /\ received'[x] <= crashes + lost' + faults + Arrived(x)'
                      /\ sends'[x] <= attempts[x] + crashes + faults + Open(x)'
    BY <1>2 DEF Counted, durable, queue
  <2>1. /\ received[x] <= crashes + lost + faults + Arrived(x)
        /\ sends[x] <= attempts[x] + crashes + faults + Open(x)
    BY DEF Counted
  <2>2. CASE x # j.to
    <3>1. Arrived(x)' = Arrived(x) /\ Open(x)' = Open(x)
      BY <1>1, <1>2, <2>2 DEF Arrived, Open, durable, queue
    <3>2. received'[x] = received[x] /\ sends'[x] = sends[x] BY <1>1, <1>2, <1>3, <2>2 DEF TypeOK
    <3>3. Arrived(x) \in Nat BY DEF Arrived
    <3> QED BY <1>3, <1>4, <2>1, <3>1, <3>2, <3>3 DEF TypeOK
  <2>3. CASE x = j.to
    <3>1. Arrived(x) = 0 /\ Open(x) = 0 BY <1>1, <2>3 DEF Arrived, Open
    <3>2. Arrived(x)' = (IF r.reply = "ok" THEN 1 ELSE 0) /\ Open(x)' = 1
      BY <1>1, <1>2, <1>5, <2>3, NoJobIsNone DEF Arrived, Open, durable, queue
    <3>3. received'[x] = received[x] + r.got /\ sends'[x] = sends[x] + 1
      BY <1>1, <1>2, <1>3, <2>3 DEF TypeOK
    <3> QED BY <1>1, <1>3, <1>4, <2>1, <3>1, <3>2, <3>3 DEF TypeOK
  <2> QED BY <2>2, <2>3
<1> QED BY <1>6, <1>7, <1>9, <1>10, <1>11

LEMMA MarkInv == ASSUME IInv, Mark PROVE IInv'
<1> USE AttemptAssumption, BoundAssumption DEF IInv
<1>1. /\ UNCHANGED <<event, defs, marked, up, manager, engine, batch, remote, crashes, lost, edits>>
      /\ cur' = NoJob /\ outcome' = "none" /\ cur # NoJob
  BY DEF Mark
<1>2. /\ cur \in Job /\ outcome \in {"sent", "failed", "pending"}
      /\ outcome = "pending" => cur.attempts + 1 < MaxAttempts
      /\ outcome = "sent" => received[cur.to] > 0
  BY <1>1 DEF TypeOK, QueueInv
<1>3. /\ cur.to \in Delivery /\ state[cur.to] = "pending" /\ attempts[cur.to] = cur.attempts
      /\ state' \in [Delivery -> State] /\ attempts' \in [Delivery -> 0..MaxAttempts]
      /\ faults' \in 0..MaxFaults /\ faults' >= faults
      /\ \A x \in Delivery : x # cur.to => state'[x] = state[x] /\ attempts'[x] = attempts[x]
      /\ \/ /\ state'[cur.to] = outcome /\ attempts'[cur.to] = attempts[cur.to] + 1
            /\ faults' = faults
         \/ /\ state' = state /\ attempts' = attempts /\ faults' = faults + 1
  <2>1. outcome \in State \ {"none"} BY <1>2 DEF State
  <2>2. MarkDelivery(cur.to, outcome) BY DEF Mark
  <2> QED BY <1>2, <2>1, <2>2, MarkRows
<1>4. TypeOK' BY <1>1, <1>3 DEF TypeOK, manager, engine, remote, State
<1>5. BatchFresh'
  <2> SUFFICES ASSUME NEW i \in batch
               PROVE  state'[i.to] = "pending" /\ attempts'[i.to] = i.attempts
    BY <1>1 DEF BatchFresh
  <2>1. i \in Job /\ i.to \in Delivery /\ i # cur BY DEF TypeOK, Job, QueueInv
  <2>2. state[i.to] = "pending" /\ attempts[i.to] = i.attempts BY DEF BatchFresh
  <2>3. i.to # cur.to BY <1>2, <1>3, <2>1, <2>2, SameJob
  <2> QED BY <1>3, <2>1, <2>2, <2>3
<1>6. SentWasReceived' BY <1>1, <1>2, <1>3 DEF SentWasReceived, remote
<1>7. QueueInv'
  <2>1. NoJob \notin batch BY NoJobIsNone DEF TypeOK
  <2> QED BY <1>1, <1>2, <1>3, <2>1 DEF QueueInv
<1>8. Counted'
  <2> SUFFICES ASSUME NEW x \in Delivery
               PROVE  /\ received[x] <= crashes + lost + faults' + Arrived(x)'
                      /\ sends[x] <= attempts'[x] + crashes + faults' + Open(x)'
    BY <1>1 DEF Counted, remote
  <2>1. /\ received[x] <= crashes + lost + faults + Arrived(x)
        /\ sends[x] <= attempts[x] + crashes + faults + Open(x)
    BY DEF Counted
  <2>2. CASE x # cur.to
    <3>1. Arrived(x)' = Arrived(x) /\ Open(x)' = Open(x) /\ Arrived(x) \in Nat /\ Open(x) \in Nat
      BY <1>1, <1>3, <2>2 DEF Arrived, Open
    <3> QED BY <1>3, <2>1, <2>2, <3>1 DEF TypeOK
  <2>3. CASE x = cur.to
    <3>1. Arrived(x) = (IF outcome = "sent" THEN 1 ELSE 0) /\ Open(x) = 1
      BY <1>1, <1>3, <2>3 DEF Arrived, Open
    <3>2. Arrived(x)' = (IF state'[x] = "sent" THEN 1 ELSE 0) /\ Open(x)' = 0
      BY <1>1 DEF Arrived, Open
    <3> QED BY <1>2, <1>3, <2>1, <2>3, <3>1, <3>2 DEF TypeOK
  <2> QED BY <2>2, <2>3
<1> QED BY <1>4, <1>5, <1>6, <1>7, <1>8

LEMMA CrashInv == ASSUME IInv, Crash PROVE IInv'
<1> USE AttemptAssumption, BoundAssumption DEF IInv
<1>1. /\ UNCHANGED <<durable, remote, lost, faults, edits>>
      /\ batch' = {} /\ cur' = NoJob /\ outcome' = "none"
      /\ crashes < MaxCrashes /\ crashes' = crashes + 1
  BY DEF Crash
<1>2. TypeOK'
  <2>1. fired' \in [Cameras -> BOOLEAN] /\ slot' \in BOOLEAN /\ up' \in BOOLEAN BY DEF Crash
  <2>2. /\ live' \subseteq Ids /\ ids' \subseteq Ids /\ prev' \subseteq Ids
        /\ editing' \in BOOLEAN BY DEF Crash
  <2>3. crashes' \in 0..MaxCrashes BY <1>1 DEF TypeOK
  <2> QED BY <1>1, <2>1, <2>2, <2>3 DEF TypeOK, durable, queue, remote, State
<1>3. BatchFresh' BY <1>1 DEF BatchFresh
<1>4. SentWasReceived' BY <1>1 DEF SentWasReceived, durable, queue, remote
<1>5. QueueInv' BY <1>1 DEF QueueInv, durable, queue
<1>6. Counted'
  <2> SUFFICES ASSUME NEW x \in Delivery
               PROVE  /\ received[x] <= crashes' + lost + faults + Arrived(x)'
                      /\ sends[x] <= attempts[x] + crashes' + faults + Open(x)'
    BY <1>1 DEF Counted, durable, queue, remote
  <2>1. Arrived(x)' \in 0..1 /\ Open(x)' = 0 BY <1>1 DEF Arrived, Open
  <2>2. Arrived(x) <= Arrived(x)' + 1 /\ Open(x) <= 1 /\ Arrived(x) \in 0..1 /\ Open(x) \in 0..1
    BY <1>1, <2>1 DEF Arrived, Open
  <2> QED BY <1>1, <2>1, <2>2 DEF Counted, TypeOK
<1> QED BY <1>2, <1>3, <1>4, <1>5, <1>6

LEMMA NextInv == ASSUME IInv, [Next]_vars PROVE IInv'
<1>1. CASE Emitters
  BY <1>1, FireInv, ArmInv, HeadsUpSlotInv, HeadsUpInv, TestFireInv DEF Emitters
<1>2. CASE Worker
  BY <1>2, DrainInv, MarkInv, DropUnknownInv, SkipUnreadInv, SendInv DEF Worker, Attempt
<1>3. CASE Manager BY <1>3, ManagerInv DEF Manager
<1>4. CASE Crash BY <1>4, CrashInv
<1>5. CASE UNCHANGED vars
  BY <1>5 DEF IInv, TypeOK, BatchFresh, SentWasReceived, QueueInv, Counted, Arrived, Open, vars,
     durable, queue, manager, engine, worker, remote, budget
<1> QED BY <1>1, <1>2, <1>3, <1>4, <1>5 DEF Next

LEMMA Invariance == Spec => []IInv
<1>1. Init => IInv BY InitInv
<1>2. IInv /\ [Next]_vars => IInv' BY NextInv
<1> QED BY <1>1, <1>2, PTL DEF Spec

-----------------------------------------------------------------------------
\* Type correctness: in particular no row ever counts more than MaxAttempts
\* attempts (Drain's exhaustion test).
THEOREM TypeCorrect == Spec => []TypeOK
<1>1. IInv => TypeOK BY DEF IInv
<1> QED BY <1>1, Invariance, PTL

\* Drain acts on what it read at its start, and may: no emitter, no reload
\* and no earlier delivery of the same drain changes the rows it still holds.
THEOREM DrainReadsFresh == Spec => []BatchFresh
<1>1. IInv => BatchFresh BY DEF IInv
<1> QED BY <1>1, Invariance, PTL

\* An alert recorded as sent was accepted by its recipient.
THEOREM SentIsTrue == Spec => []SentWasReceived
<1>1. IInv => SentWasReceived BY DEF IInv
<1> QED BY <1>1, Invariance, PTL

\* Duplicates are bounded by the faults that happened: without a crash, a
\* lost answer or a failed update nobody is alerted twice.
THEOREM DuplicatesBounded == Spec => []DuplicatesExplained
<1>1. IInv => DuplicatesExplained
  <2> SUFFICES ASSUME IInv, NEW x \in Delivery PROVE received[x] <= 1 + crashes + lost + faults
    BY DEF DuplicatesExplained
  <2>1. Arrived(x) \in 0..1 BY DEF Arrived
  <2> QED BY <2>1, BoundAssumption DEF IInv, Counted, TypeOK
<1> QED BY <1>1, Invariance, PTL

\* A notifier is handed one alert MaxAttempts times at most, but for the
\* attempts a crash or a failed update kept from being counted.
THEOREM RequestsBounded == Spec => []RetriesBounded
<1>1. IInv => RetriesBounded
  <2> SUFFICES ASSUME IInv, NEW x \in Delivery PROVE sends[x] <= MaxAttempts + crashes + faults
    BY DEF RetriesBounded
  <2>1. CASE cur # NoJob /\ cur.to = x
    <3>1. state[x] = "pending" BY <2>1 DEF IInv, BatchFresh
    <3>2. attempts[x] < MaxAttempts /\ Open(x) = 1 BY <2>1, <3>1 DEF IInv, QueueInv, Open
    <3> QED BY <3>2, AttemptAssumption, BoundAssumption DEF IInv, Counted, TypeOK
  <2>2. CASE ~(cur # NoJob /\ cur.to = x)
    <3>1. Open(x) = 0 BY <2>2 DEF Open
    <3> QED BY <3>1, AttemptAssumption, BoundAssumption DEF IInv, Counted, TypeOK
  <2> QED BY <2>1, <2>2
<1> QED BY <1>1, Invariance, PTL

-----------------------------------------------------------------------------
(* The store, its emitters and its worker implement the contract *)

LEMMA EmitRefines == ASSUME IInv, NEW k \in Keys, Emit(k)
                     PROVE  [Contract!Next]_(Contract!vars)
<1>1. CASE UNCHANGED <<event, state>> BY <1>1 DEF Contract!vars
<1>2. CASE TryInsertEvent(k) /\ ~event[k]
  <2>1. ids \in SUBSET Ids BY DEF IInv, TypeOK
  <2>2. Contract!Record(k, ids)
    BY <1>2, <2>1 DEF TryInsertEvent, Contract!Record, Contract!Delivery, Delivery
  <2> QED BY <2>1, <2>2 DEF Contract!Next
<1> QED BY <1>1, <1>2 DEF Emit, TryInsertEvent

LEMMA MarkRefines == ASSUME IInv, NEW x \in Delivery, state[x] = "pending",
                            NEW s \in {"sent", "failed", "pending"},
                            MarkDelivery(x, s), UNCHANGED event
                     PROVE  [Contract!Next]_(Contract!vars)
<1>1. CASE UNCHANGED state BY <1>1 DEF Contract!vars
<1>2. CASE state' = [state EXCEPT ![x] = s] /\ s = "pending"
  BY <1>2 DEF IInv, TypeOK, Contract!vars
<1>3. CASE state' = [state EXCEPT ![x] = s] /\ s # "pending"
  <2>1. s \in Contract!Outcome /\ x \in Contract!Delivery
    BY <1>3 DEF Contract!Outcome, Contract!Delivery, Delivery
  <2>2. Contract!Conclude(x, s) BY <1>3, <2>1 DEF Contract!Conclude
  <2> QED BY <2>1, <2>2 DEF Contract!Next
<1> QED BY <1>1, <1>2, <1>3 DEF MarkDelivery

LEMMA StepRefines == ASSUME IInv, [Next]_vars PROVE [Contract!Next]_(Contract!vars)
<1>1. CASE \E c \in Cameras : Fire(c) BY <1>1, EmitRefines DEF Fire, Keys
<1>2. CASE HeadsUp BY <1>2, EmitRefines DEF HeadsUp, Keys, Contract!vars
<1>3. CASE \E k \in Tests : TestFire(k) BY <1>3, EmitRefines DEF TestFire, Keys
<1>4. CASE \E j \in batch : DropUnknown(j)
  <2>1. PICK j \in batch : DropUnknown(j) BY <1>4
  <2>2. j.to \in Delivery /\ state[j.to] = "pending" BY DEF IInv, TypeOK, BatchFresh, Job
  <2> QED BY <2>1, <2>2, MarkRefines DEF DropUnknown
<1>5. CASE Mark
  <2>1. /\ cur.to \in Delivery /\ state[cur.to] = "pending"
        /\ outcome \in {"sent", "failed", "pending"}
    BY <1>5 DEF Mark, IInv, TypeOK, BatchFresh, QueueInv, Job
  <2> QED BY <1>5, <2>1, MarkRefines DEF Mark
<1>6. CASE UNCHANGED <<event, state>> BY <1>6 DEF Contract!vars
<1>7. Arm \/ HeadsUpSlot \/ Drain \/ Manager \/ Crash \/ UNCHANGED vars => UNCHANGED <<event, state>>
  BY DEF Arm, HeadsUpSlot, Drain, Manager, Boot, Reload, SaveNotifier, Crash, vars, durable, queue
<1>8. \A j \in batch : SkipUnread(j) \/ Send(j) => UNCHANGED <<event, state>>
  BY DEF SkipUnread, Send, durable, queue
<1> QED BY <1>1, <1>2, <1>3, <1>4, <1>5, <1>6, <1>7, <1>8 DEF Next, Emitters, Worker, Attempt

\* An event is recorded once with all its deliveries, and each delivery is
\* concluded once, whatever crashes, retries and reloads happen meanwhile.
THEOREM ImplementsContract == Spec => KeepsContract
<1>1. Init => Contract!Init BY DEF Init, Contract!Init, Contract!Delivery, Delivery
<1>2. IInv /\ [Next]_vars => [Contract!Next]_(Contract!vars) BY StepRefines
<1> QED BY <1>1, <1>2, Invariance, PTL DEF Spec, KeepsContract, Contract!Spec

-----------------------------------------------------------------------------
(* What keeps a delivery from being given up unsent: until the first edit  *)
(* the settings, the manager and the queue agree on the notifiers.         *)

Unedited ==
    /\ cur # NoJob => sends[cur.to] > 0
    /\ edits = 0 => /\ defs = Defined /\ ~editing
                    /\ up => live = Defined /\ ids = Defined /\ prev = Defined
                    /\ \A x \in Delivery : state[x] = "pending" => x[2] \in Defined

UnsentInv == Unedited /\ UnsentForCause

LEMMA EmitUnsent ==
    ASSUME IInv, UnsentInv, up, NEW k \in Keys, Emit(k),
           UNCHANGED <<attempts, defs, up, manager, worker, remote, edits>>
    PROVE  UnsentInv'
<1> USE DEF UnsentInv, manager, worker, remote
<1>1. CASE UNCHANGED <<event, state>> BY <1>1 DEF Unedited, UnsentForCause
<1>2. CASE state' = [x \in Delivery |-> IF x[1] = k /\ x[2] \in ids THEN "pending" ELSE state[x]]
  <2>1. Unedited' BY <1>2 DEF Unedited
  <2>2. UnsentForCause' BY <1>2 DEF UnsentForCause
  <2> QED BY <2>1, <2>2
<1> QED BY <1>1, <1>2 DEF Emit, TryInsertEvent

LEMMA MarkUnsent ==
    ASSUME IInv, UnsentInv, NEW x \in Delivery, state[x] = "pending", NEW s \in State,
           MarkDelivery(x, s), cur' = NoJob, s = "failed" => sends[x] > 0 \/ edits > 0,
           UNCHANGED <<defs, up, manager, remote, edits>>
    PROVE  UnsentInv'
<1> USE DEF UnsentInv, manager, remote
<1>1. CASE UNCHANGED state BY <1>1 DEF Unedited, UnsentForCause
<1>2. CASE state' = [state EXCEPT ![x] = s]
  <2>1. Unedited' BY <1>2 DEF Unedited
  <2>2. UnsentForCause'
    <3> SUFFICES ASSUME NEW y \in Delivery, state'[y] = "failed", sends[y] = 0
                 PROVE  edits > 0
      BY DEF UnsentForCause
    <3>1. CASE y = x BY <1>2, <3>1 DEF IInv, TypeOK
    <3>2. CASE y # x BY <1>2, <3>2 DEF IInv, TypeOK, UnsentForCause
    <3> QED BY <3>1, <3>2
  <2> QED BY <2>1, <2>2
<1> QED BY <1>1, <1>2 DEF MarkDelivery

LEMMA DropUnsent == ASSUME IInv, UnsentInv, NEW j \in batch, DropUnknown(j) PROVE UnsentInv'
<1>1. j.to \in Delivery /\ state[j.to] = "pending" BY DEF IInv, TypeOK, BatchFresh, Job
<1>2. up /\ cur = NoJob /\ \E notifiers \in {live, prev} : j.to[2] \notin notifiers
  BY DEF DropUnknown, Draining, Configured
<1>3. edits \in Nat BY BoundAssumption DEF IInv, TypeOK
<1>4. edits > 0 BY <1>1, <1>2, <1>3 DEF UnsentInv, Unedited
<1>5. "failed" \in State BY DEF State
<1> QED BY <1>1, <1>2, <1>4, <1>5, MarkUnsent DEF DropUnknown, remote

LEMMA SendUnsent == ASSUME IInv, UnsentInv, NEW j \in batch, Send(j) PROVE UnsentInv'
<1>1. j.to \in Delivery BY DEF IInv, TypeOK, Job
<1>2. /\ cur' = j /\ sends' = [sends EXCEPT ![j.to] = @ + 1]
      /\ UNCHANGED <<state, defs, up, live, ids, prev, editing, edits>>
  BY DEF Send, durable, queue, manager
<1>3. sends \in [Delivery -> Nat] BY DEF IInv, TypeOK
<1>4. \A x \in Delivery : sends'[x] = 0 => sends[x] = 0 BY <1>1, <1>2, <1>3
<1>5. sends'[j.to] > 0 BY <1>1, <1>2, <1>3
<1>6. Unedited' BY <1>2, <1>5 DEF UnsentInv, Unedited
<1> QED BY <1>2, <1>4, <1>6 DEF UnsentInv, UnsentForCause

LEMMA UnsentInit == Init => UnsentInv
BY DEF Init, UnsentInv, Unedited, UnsentForCause

LEMMA UnsentStep == ASSUME IInv, UnsentInv, [Next]_vars PROVE UnsentInv'
<1>1. CASE \E c \in Cameras : Fire(c)
  BY <1>1, EmitUnsent DEF Fire, Keys, manager, worker, remote
<1>2. CASE HeadsUp
  <2>1. CASE Emit("headsup") BY <1>2, <2>1, EmitUnsent DEF HeadsUp, Keys, manager, worker, remote
  <2>2. CASE UNCHANGED <<event, state, faults>>
    BY <1>2, <2>2 DEF HeadsUp, UnsentInv, Unedited, UnsentForCause, manager, worker, remote
  <2> QED BY <1>2, <2>1, <2>2 DEF HeadsUp
<1>3. CASE \E k \in Tests : TestFire(k)
  BY <1>3, EmitUnsent DEF TestFire, Keys, manager, worker, remote
<1>4. CASE Arm \/ HeadsUpSlot \/ Drain \/ UNCHANGED vars
  <2>1. UNCHANGED <<state, defs, up, manager, cur, sends, edits>>
    BY <1>4 DEF Arm, HeadsUpSlot, Drain, vars, durable, queue, worker, remote, budget
  <2> QED BY <2>1 DEF UnsentInv, Unedited, UnsentForCause, manager
<1>5. CASE \E j \in batch : Attempt(j)
  <2>1. PICK j \in batch : Attempt(j) BY <1>5
  <2>2. CASE SkipUnread(j)
    <3>1. UNCHANGED <<state, defs, up, manager, cur, sends, edits>>
      BY <2>2 DEF SkipUnread, durable, queue, remote
    <3> QED BY <3>1 DEF UnsentInv, Unedited, UnsentForCause, manager
  <2> QED BY <2>1, <2>2, DropUnsent, SendUnsent DEF Attempt
<1>6. CASE Mark
  <2>1. /\ cur # NoJob /\ cur.to \in Delivery /\ state[cur.to] = "pending" /\ outcome \in State
    BY <1>6 DEF Mark, IInv, TypeOK, BatchFresh, Job
  <2>2. sends[cur.to] > 0 BY <2>1 DEF UnsentInv, Unedited
  <2> QED BY <1>6, <2>1, <2>2, MarkUnsent DEF Mark, remote
<1>7. CASE Boot \/ Crash
  BY <1>7 DEF Boot, Crash, BuildFromDefs, UnsentInv, Unedited, UnsentForCause,
              durable, queue, worker, remote, budget
<1>8. CASE Reload
  BY <1>8 DEF Reload, UnsentInv, Unedited, UnsentForCause, durable, queue, worker, remote, budget
<1>9. CASE \E n \in Ids : SaveNotifier(n)
  <2>1. /\ UNCHANGED <<state, cur, sends>> /\ edits' > 0
    BY <1>9, BoundAssumption DEF SaveNotifier, queue, worker, remote, IInv, TypeOK
  <2> QED BY <2>1 DEF UnsentInv, Unedited, UnsentForCause
<1> QED BY <1>1, <1>2, <1>3, <1>4, <1>5, <1>6, <1>7, <1>8, <1>9
        DEF Next, Emitters, Worker, Manager

\* Only an edit of the notifiers makes the worker give a delivery up without
\* handing it to its notifier: a crash in the middle of anything never does, for
\* every set of notifiers.
THEOREM GivenUpForCause == Spec => []UnsentForCause
<1>1. Init => UnsentInv BY UnsentInit
<1>2. IInv /\ UnsentInv /\ [Next]_vars => UnsentInv' BY UnsentStep
<1>3. UnsentInv => UnsentForCause BY DEF UnsentInv
<1> QED BY <1>1, <1>2, <1>3, Invariance, PTL DEF Spec
=============================================================================
