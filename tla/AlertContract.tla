---------------------------- MODULE AlertContract ----------------------------
(***************************************************************************)
(* What the alert tables promise their readers: an event is recorded at    *)
(* most once under its key, together with every delivery it will ever      *)
(* have; a delivery is concluded once, as sent or as failed, and is not    *)
(* touched afterwards.                                                     *)
(***************************************************************************)
CONSTANTS
    Keys,       \* event keys
    Ids         \* notifier ids

VARIABLES
    event,      \* which keys have an alert_events row
    state       \* alert_deliveries.state, "none" where there is no row

vars == <<event, state>>

Delivery == Keys \X Ids
Outcome  == {"sent", "failed"}
State    == {"none", "pending"} \cup Outcome

Init ==
    /\ event = [k \in Keys |-> FALSE]
    /\ state = [x \in Delivery |-> "none"]

Record(k, to) ==
    /\ k \in Keys /\ to \subseteq Ids
    /\ ~event[k]
    /\ event' = [event EXCEPT ![k] = TRUE]
    /\ state' = [x \in Delivery |-> IF x[1] = k /\ x[2] \in to THEN "pending" ELSE state[x]]

Conclude(x, outcome) ==
    /\ x \in Delivery /\ outcome \in Outcome
    /\ state[x] = "pending"
    /\ state' = [state EXCEPT ![x] = outcome]
    /\ UNCHANGED event

Next ==
    \/ \E k \in Keys, to \in SUBSET Ids : Record(k, to)
    \/ \E x \in Delivery, outcome \in Outcome : Conclude(x, outcome)

Spec == Init /\ [][Next]_vars
=============================================================================
