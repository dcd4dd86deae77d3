---------------------------- MODULE AlertDelivery ----------------------------
(***************************************************************************)
(* The alerts of one local date: who emits them (the trigger of each       *)
(* camera, the heads-up slot of tick, the admin's test), how they are      *)
(* latched and queued in the store, and the worker that delivers them.     *)
(* Everything the worker knows of a drain in progress is lost in a crash;  *)
(* what the store holds is not. A request may be accepted by the remote    *)
(* end and its answer lost. An error the code ignores (MarkDelivery's, the *)
(* marker's) leaves the store as it was.                                   *)
(***************************************************************************)
EXTENDS Naturals

CONSTANTS
    Cameras,        \* the cameras of the window, each with a trigger of its own
    Tests,          \* the keys TestFire makes up, a fresh one each time
    Ids,            \* notifier ids
    Ntfy,           \* those of type ntfy, which retry an image as text
    Defined,        \* the notifiers enabled in the settings at first boot
    MaxAttempts,    \* attempts before a delivery is given up (3)
    MaxCrashes, MaxLost, MaxFaults, MaxEdits    \* bounds on one behaviour

ASSUME NotifierAssumption == /\ Ntfy \subseteq Ids /\ Defined \subseteq Ids
                             /\ "none" \notin Ids
ASSUME KeyAssumption == {"go", "headsup"} \cap Tests = {}
ASSUME AttemptAssumption == MaxAttempts \in Nat \ {0}
ASSUME BoundAssumption == /\ MaxCrashes \in Nat /\ MaxLost \in Nat
                          /\ MaxFaults \in Nat /\ MaxEdits \in Nat

Keys     == {"go", "headsup"} \cup Tests
Delivery == Keys \X Ids
State    == {"none", "pending", "sent", "failed"}
Job      == [to : Delivery, attempts : Nat]
NoJob    == [to |-> <<"none", "none">>, attempts |-> 0]

VARIABLES
    event,          \* alert_events, by event_key
    state,          \* alert_deliveries.state, "none" where there is no row
    attempts,       \* alert_deliveries.attempts
    defs,           \* the notifiers enabled in the settings table
    marked,         \* headsup_last holds today's date
    up,             \* the process runs
    live, ids,      \* AlertManager.Notifiers and .IDs
    prev,           \* the Notifiers map before the last Reload
    editing,        \* notifierSave has stored the definitions, not reloaded yet
    fired,          \* TriggerState.fired of each camera
    slot,           \* the heads-up slot has set its marker, not emitted yet
    batch,          \* what is left of the deliveries Drain has read
    cur, outcome,   \* the delivery just attempted, the state to record for it
    sends,          \* Send calls per delivery, of no request, one or two each
    received,       \* how often the remote end accepted the alert
    crashes, lost, faults, edits

queue   == <<event, state, attempts>>
durable == <<queue, defs, marked>>
manager == <<live, ids, prev, editing>>
engine  == <<fired, slot>>
worker  == <<batch, cur, outcome>>
remote  == <<sends, received>>
budget  == <<crashes, lost, faults, edits>>
vars    == <<durable, up, manager, engine, worker, remote, budget>>

Fault == faults < MaxFaults /\ faults' = faults + 1

-----------------------------------------------------------------------------
(* The store *)

\* Faulty: a second event under the same key queues its deliveries again.
TryInsertEventAgain(k) ==
    /\ event' = [event EXCEPT ![k] = TRUE]
    /\ state' = [x \in Delivery |-> IF x[1] = k /\ x[2] \in ids THEN "pending" ELSE state[x]]

TryInsertEvent(k) ==
    IF event[k]
    THEN UNCHANGED <<event, state>>
    ELSE /\ event' = [event EXCEPT ![k] = TRUE]
         /\ state' = [x \in Delivery |-> IF x[1] = k /\ x[2] \in ids THEN "pending" ELSE state[x]]

\* Faulty: reads the sent deliveries too.
PendingOrSent == {x \in Delivery : state[x] \in {"pending", "sent"}}

\* Faulty: reads the failed deliveries too.
PendingOrFailed == {x \in Delivery : state[x] \in {"pending", "failed"}}

\* Faulty: reads the deliveries never attempted only.
PendingNew == {x \in Delivery : state[x] = "pending" /\ attempts[x] = 0}

PendingDeliveries == {x \in Delivery : state[x] = "pending"}

\* The row of x after an attempt, or as it was when the update failed.
MarkDelivery(x, s) ==
    \/ /\ state' = [state EXCEPT ![x] = s]
       /\ attempts' = [attempts EXCEPT ![x] = @ + 1]
       /\ UNCHANGED faults
    \/ Fault /\ UNCHANGED <<state, attempts>>

-----------------------------------------------------------------------------
Init ==
    /\ event = [k \in Keys |-> FALSE]
    /\ state = [x \in Delivery |-> "none"]
    /\ attempts = [x \in Delivery |-> 0]
    /\ defs = Defined /\ marked = FALSE
    /\ up = FALSE
    /\ live = {} /\ ids = {} /\ prev = {} /\ editing = FALSE
    /\ fired = [c \in Cameras |-> FALSE] /\ slot = FALSE
    /\ batch = {} /\ cur = NoJob /\ outcome = "none"
    /\ sends = [x \in Delivery |-> 0] /\ received = [x \in Delivery |-> 0]
    /\ crashes = 0 /\ lost = 0 /\ faults = 0 /\ edits = 0

-----------------------------------------------------------------------------
(* The process and its notifier set *)

\* Faulty: hands the manager its ids only.
BuildFromDefsIdsOnly == live' = {} /\ ids' = defs

BuildFromDefs == live' = defs /\ ids' = defs

Boot ==
    /\ ~up /\ up' = TRUE
    /\ BuildFromDefs /\ prev' = defs
    /\ UNCHANGED <<durable, editing, engine, worker, remote, budget>>

Crash ==
    /\ up /\ up' = FALSE
    /\ crashes < MaxCrashes /\ crashes' = crashes + 1
    /\ live' = {} /\ ids' = {} /\ prev' = {} /\ editing' = FALSE
    /\ fired' = [c \in Cameras |-> FALSE] /\ slot' = FALSE
    /\ batch' = {} /\ cur' = NoJob /\ outcome' = "none"
    /\ UNCHANGED <<durable, remote, lost, faults, edits>>

\* notifierSave enables or disables a notifier: in the settings first.
SaveNotifier(n) ==
    /\ up /\ ~editing
    /\ edits < MaxEdits /\ edits' = edits + 1
    /\ defs' = IF n \in defs THEN defs \ {n} ELSE defs \cup {n}
    /\ editing' = TRUE
    /\ UNCHANGED <<queue, marked, up, live, ids, prev, engine, worker, remote,
                   crashes, lost, faults>>

\* ... then in the manager. Drain reads the map without the lock.
Reload ==
    /\ up /\ editing /\ editing' = FALSE
    /\ BuildFromDefs /\ prev' = live
    /\ UNCHANGED <<durable, up, engine, worker, remote, budget>>

-----------------------------------------------------------------------------
(* The emitters *)

Emit(k) == \/ TryInsertEvent(k) /\ UNCHANGED faults
           \/ Fault /\ UNCHANGED <<event, state>>

\* RunWindow begins, again after an interruption: every trigger is armed.
Arm ==
    /\ up /\ ~slot
    /\ \E c \in Cameras : fired[c]
    /\ fired' = [c \in Cameras |-> FALSE]
    /\ UNCHANGED <<durable, up, manager, slot, worker, remote, budget>>

\* Evaluate fires once; the latch may still fail, and is not tried again.
Fire(c) ==
    /\ up /\ ~slot
    /\ ~fired[c] /\ fired' = [fired EXCEPT ![c] = TRUE]
    /\ Emit("go")
    /\ UNCHANGED <<attempts, defs, marked, up, manager, slot, worker, remote,
                   crashes, lost, edits>>

\* The heads-up slot of tick sets its marker (or fails to) before it emits.
HeadsUpSlot ==
    /\ up /\ ~slot /\ ~marked
    /\ slot' = TRUE
    /\ \/ marked' = TRUE /\ UNCHANGED faults
       \/ Fault /\ UNCHANGED marked
    /\ UNCHANGED <<queue, defs, up, manager, fired, worker, remote, crashes, lost, edits>>

\* Below the floor or without an observation nothing is emitted.
HeadsUp ==
    /\ up /\ slot /\ slot' = FALSE
    /\ Emit("headsup") \/ UNCHANGED <<event, state, faults>>
    /\ UNCHANGED <<attempts, defs, marked, up, manager, fired, worker, remote,
                   crashes, lost, edits>>

TestFire(k) ==
    /\ up /\ ~event[k]
    /\ Emit(k)
    /\ UNCHANGED <<attempts, defs, marked, up, manager, engine, worker, remote,
                   crashes, lost, edits>>

-----------------------------------------------------------------------------
(* The worker *)

Draining == up /\ cur = NoJob /\ batch # {}

Drain ==
    /\ up /\ cur = NoJob /\ batch = {}
    /\ batch' = {[to |-> x, attempts |-> attempts[x]] : x \in PendingDeliveries}
    /\ UNCHANGED <<durable, up, manager, engine, cur, outcome, remote, budget>>

Configured == {live, prev}

DropUnknown(j) ==
    /\ Draining /\ j \in batch
    /\ \E notifiers \in Configured : j.to[2] \notin notifiers
    /\ MarkDelivery(j.to, "failed")
    /\ batch' = batch \ {j}
    /\ UNCHANGED <<event, defs, marked, up, manager, engine, cur, outcome, remote,
                   crashes, lost, edits>>

\* GetEvent failed: the delivery waits for the next drain.
SkipUnread(j) ==
    /\ Draining /\ j \in batch
    /\ \E notifiers \in Configured : j.to[2] \in notifiers
    /\ Fault
    /\ batch' = batch \ {j}
    /\ UNCHANGED <<durable, up, manager, engine, cur, outcome, remote,
                   crashes, lost, edits>>

\* What one request comes to: how it is classified, whether the remote end
\* has accepted it, whether an acceptance was lost on the way back.
Request == {[reply |-> "ok", got |-> 1, lost |-> 0],
            [reply |-> "permanent", got |-> 0, lost |-> 0],
            [reply |-> "transient", got |-> 0, lost |-> 0],
            [reply |-> "transient", got |-> 1, lost |-> 1]}

\* ntfy: an image that fails transiently is followed by the text alone.
Fallback == {[reply |-> b.reply, got |-> a.got + b.got, lost |-> a.lost + b.lost] :
                a \in {r \in Request : r.reply = "transient"}, b \in Request}

\* A Send that fails before any request: Pushover without its keys or with an
\* image it cannot make fit, an address no request can be built for.
Refused == [reply |-> "permanent", got |-> 0, lost |-> 0]

\* What one Send comes to. Only a go event carries an image, and not when the
\* disk is low.
Replies(x) == {Refused} \cup Request \cup
              (IF x[1] = "go" /\ x[2] \in Ntfy THEN Fallback ELSE {})

\* Faulty: counts the attempts made before this one only.
AfterLate(reply, made) ==
    CASE reply = "ok" -> "sent"
      [] reply = "permanent" -> "failed"
      [] reply = "transient" -> IF made >= MaxAttempts THEN "failed" ELSE "pending"

\* Faulty: takes a transient failure for a delivery.
AfterAny(reply, made) ==
    IF reply = "permanent" THEN "failed" ELSE "sent"

After(reply, made) ==
    CASE reply = "ok" -> "sent"
      [] reply = "permanent" -> "failed"
      [] reply = "transient" -> IF made + 1 >= MaxAttempts THEN "failed" ELSE "pending"

Send(j) ==
    /\ Draining /\ j \in batch
    /\ \E notifiers \in Configured : j.to[2] \in notifiers
    /\ \E r \in Replies(j.to) :
          /\ lost + r.lost <= MaxLost /\ lost' = lost + r.lost
          /\ received' = [received EXCEPT ![j.to] = @ + r.got]
          /\ outcome' = After(r.reply, j.attempts)
    /\ sends' = [sends EXCEPT ![j.to] = @ + 1]
    /\ batch' = batch \ {j} /\ cur' = j
    /\ UNCHANGED <<durable, up, manager, engine, crashes, faults, edits>>

Mark ==
    /\ up /\ cur # NoJob
    /\ MarkDelivery(cur.to, outcome)
    /\ cur' = NoJob /\ outcome' = "none"
    /\ UNCHANGED <<event, defs, marked, up, manager, engine, batch, remote,
                   crashes, lost, edits>>

-----------------------------------------------------------------------------
Emitters == \/ \E c \in Cameras : Fire(c)
            \/ Arm \/ HeadsUpSlot \/ HeadsUp
            \/ \E k \in Tests : TestFire(k)

Attempt(j) == DropUnknown(j) \/ SkipUnread(j) \/ Send(j)

Worker == Drain \/ Mark \/ \E j \in batch : Attempt(j)

Manager == Boot \/ Reload \/ \E n \in Ids : SaveNotifier(n)

Next == Emitters \/ Worker \/ Manager \/ Crash

Spec == Init /\ [][Next]_vars

\* The worker's ticker keeps firing, a started save completes, the container
\* is restarted.
FairSpec == Spec /\ WF_vars(Worker) /\ WF_vars(Boot) /\ WF_vars(Reload)

-----------------------------------------------------------------------------
(* Properties *)

\* Every variable keeps its type; a delivery counts at most MaxAttempts attempts.
TypeOK ==
    /\ event \in [Keys -> BOOLEAN]
    /\ state \in [Delivery -> State]
    /\ attempts \in [Delivery -> 0..MaxAttempts]
    /\ defs \subseteq Ids /\ marked \in BOOLEAN /\ up \in BOOLEAN
    /\ live \subseteq Ids /\ ids \subseteq Ids /\ prev \subseteq Ids
    /\ editing \in BOOLEAN
    /\ fired \in [Cameras -> BOOLEAN] /\ slot \in BOOLEAN
    /\ batch \subseteq Job /\ cur \in Job \cup {NoJob}
    /\ outcome \in State
    /\ sends \in [Delivery -> Nat] /\ received \in [Delivery -> Nat]
    /\ crashes \in 0..MaxCrashes /\ lost \in 0..MaxLost
    /\ faults \in 0..MaxFaults /\ edits \in 0..MaxEdits

\* What Drain read at its start is still so when it gets to it, however long
\* the earlier deliveries took and whatever was emitted meanwhile: a delivery
\* it still holds is pending, and the attempts it counts on are the row's.
BatchFresh ==
    \A j \in batch \cup ({cur} \ {NoJob}) :
        state[j.to] = "pending" /\ attempts[j.to] = j.attempts

\* A delivery recorded as sent has reached its recipient.
SentWasReceived ==
    \A x \in Delivery : state[x] = "sent" => received[x] > 0

\* A recipient gets an alert twice only if the process died, an answer was
\* lost or the store failed: each of them accounts for one duplicate at most.
DuplicatesExplained ==
    \A x \in Delivery : received[x] <= 1 + crashes + lost + faults

\* The notifier of a delivery is called MaxAttempts times, plus once for every
\* attempt that could not be recorded.
RetriesBounded ==
    \A x \in Delivery : sends[x] <= MaxAttempts + crashes + faults

\* A delivery is given up without being handed to its notifier, by one Send at
\* least, only when the notifiers were edited: the lookup in the manager's map
\* does not fail for a restart, a stale batch or a reload under way alone.
UnsentForCause ==
    \A x \in Delivery : state[x] = "failed" /\ sends[x] = 0 => edits > 0

\* The alert tables keep their contract: one event per key with all its
\* deliveries, each of them concluded once.
Contract == INSTANCE AlertContract WITH Keys <- Keys, Ids <- Ids, event <- event, state <- state
KeepsContract == Contract!Spec

\* Every delivery queued is concluded in the end, as sent or as failed.
DeliveriesConclude ==
    \A x \in Delivery : (state[x] = "pending") ~> (state[x] \in {"sent", "failed"})
=============================================================================
