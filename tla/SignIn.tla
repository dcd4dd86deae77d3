------------------------------- MODULE SignIn -------------------------------
(***************************************************************************)
(* Who gets past the admin's door: the guard of every admin page, the      *)
(* login and logout handlers, the sessions and the throttle on failed      *)
(* attempts (server/server.go, server/session.go, webadmin/admin.go).      *)
(* Requests run side by side; the throttle and the session table are each  *)
(* locked for one call only, and a password takes a while to verify, so    *)
(* between the call that counts the failures of the last minute and the    *)
(* one that records another, other requests pass.                          *)
(*                                                                         *)
(* The requests are those of one address: the throttle keeps a list for    *)
(* each, and behind the tunnel all of them come from one.  A failure and a *)
(* session are represented by the time they still count; the failures are  *)
(* numbered, and the number of one that is dropped is used again.          *)
(***************************************************************************)
EXTENDS Naturals, FiniteSets

CONSTANTS
    Clients,        \* requests served at a time
    Tokens,         \* session tokens
    None,           \* no cookie
    MaxFailures,    \* failures let through in a minute (5)
    Minute, TTL     \* ticks a failure counts, ticks a session lasts

ASSUME SignInAssumption ==
    /\ None \notin Tokens /\ IsFiniteSet(Clients)
    /\ MaxFailures \in Nat /\ Minute \in Nat \ {0} /\ TTL \in Nat \ {0}

Kinds == {"page", "login", "logout"}
NoRequest == [kind |-> "page", cookie |-> None, right |-> FALSE]

VARIABLES
    fails,          \* Auth.fails of the address
    sessions,       \* SessionStore.sessions
    pc, req         \* of each request: its next step; what it carries, right
                    \* standing for a password that Check will accept

vars == <<fails, sessions, pc, req>>

RecentFailures(f) == {i \in DOMAIN f : f[i] > 0}

\* Faulty: one more.
TooManyFailuresLate(f) == Cardinality(RecentFailures(f)) > MaxFailures + 1

TooManyFailures(f) == Cardinality(RecentFailures(f)) > MaxFailures

\* A number none of these failures has.
Unused(these) == CHOOSE i \in 0..Cardinality(these) : i \notin these

\* RecordFailure drops what no longer counts.
Recorded(f) ==
    LET kept == RecentFailures(f)
    IN  [i \in kept \cup {Unused(kept)} |-> IF i \in kept THEN f[i] ELSE Minute]

Valid(t) == t \in DOMAIN sessions /\ sessions[t] > 0

\* Faulty: keeps the expired sessions and drops the others.
SweptInverted(s) == {t \in DOMAIN s : s[t] = 0}

\* Create removes the expired sessions it comes across.
Swept(s) == {t \in DOMAIN s : s[t] > 0}

Init ==
    /\ fails = [i \in {} |-> 0] /\ sessions = [t \in {} |-> 0]
    /\ pc = [c \in Clients |-> "idle"] /\ req = [c \in Clients |-> NoRequest]

Answer(c) ==
    pc' = [pc EXCEPT ![c] = "idle"] /\ req' = [req EXCEPT ![c] = NoRequest]

\* Faulty: an attempt that is turned away starts the minute again.
RefusedRenewed(f) == [i \in DOMAIN f |-> Minute]

\* An attempt that is turned away is not recorded.
Refused(f) == f

Refuse(c) ==
    /\ pc[c] = "idle" /\ TooManyFailures(fails)
    /\ fails' = Refused(fails) /\ UNCHANGED <<sessions, pc, req>>

Arrive(c, k, t, right) ==
    /\ pc[c] = "idle" /\ ~TooManyFailures(fails)
    /\ req' = [req EXCEPT ![c] = [kind |-> k, cookie |-> t, right |-> right]]
    /\ pc' = [pc EXCEPT ![c] = "check"]
    /\ UNCHANGED <<fails, sessions>>

SignedIn(c) == req[c].right \/ (req[c].kind # "login" /\ Valid(req[c].cookie))

Deny(c) ==
    /\ pc[c] = "check" /\ ~SignedIn(c)
    /\ pc' = [pc EXCEPT ![c] = "record"] /\ UNCHANGED <<fails, sessions, req>>

RecordFailure(c) ==
    /\ pc[c] = "record" /\ fails' = Recorded(fails)
    /\ Answer(c) /\ UNCHANGED sessions

\* Past the guard; a logout may still lack its CSRF token.
Admit(c) ==
    /\ pc[c] = "check" /\ SignedIn(c)
    /\ \/ req[c].kind # "login" /\ Answer(c)
       \/ /\ req[c].kind # "page" /\ pc' = [pc EXCEPT ![c] = req[c].kind]
          /\ UNCHANGED req
    /\ UNCHANGED <<fails, sessions>>

\* Tokens are random: a new one is in no one's hands.
Create(c) ==
    /\ pc[c] = "login"
    /\ \E t \in Tokens \ Swept(sessions) :
          /\ \A d \in Clients : req[d].cookie # t
          /\ sessions' = [x \in Swept(sessions) \cup {t} |->
                            IF x = t THEN TTL ELSE sessions[x]]
    /\ Answer(c) /\ UNCHANGED fails

Revoke(c) ==
    /\ pc[c] = "logout"
    /\ sessions' = [x \in DOMAIN sessions \ {req[c].cookie} |-> sessions[x]]
    /\ Answer(c) /\ UNCHANGED fails

Less(n) == IF n > 0 THEN n - 1 ELSE 0

Tick ==
    /\ fails' = [i \in DOMAIN fails |-> Less(fails[i])]
    /\ sessions' = [t \in DOMAIN sessions |-> Less(sessions[t])]
    /\ UNCHANGED <<pc, req>>

\* Failures and sessions are in memory only.
Restart ==
    /\ fails' = [i \in {} |-> 0] /\ sessions' = [t \in {} |-> 0]
    /\ pc' = [c \in Clients |-> "idle"] /\ req' = [c \in Clients |-> NoRequest]

Serve(c) ==
    \/ \E k \in Kinds, t \in Tokens \cup {None}, right \in BOOLEAN : Arrive(c, k, t, right)
    \/ Refuse(c) \/ Deny(c) \/ RecordFailure(c) \/ Admit(c) \/ Create(c) \/ Revoke(c)

Next == Tick \/ Restart \/ \E c \in Clients : Serve(c)

Spec == Init /\ [][Next]_vars

\* Time passes; no request need ever be made or finish.
FairSpec == Spec /\ WF_vars(Tick)

-----------------------------------------------------------------------------
(* Properties *)

\* Every variable keeps its type; finitely many failures are kept.
TypeOK ==
    /\ fails \in [DOMAIN fails -> 0..Minute]
    /\ DOMAIN fails \subseteq Nat /\ IsFiniteSet(DOMAIN fails)
    /\ sessions \in [DOMAIN sessions -> 0..TTL] /\ DOMAIN sessions \subseteq Tokens
    /\ pc \in [Clients -> {"idle", "check", "record", "login", "logout"}]
    /\ req \in [Clients -> [kind : Kinds, cookie : Tokens \cup {None}, right : BOOLEAN]]

\* However the requests interleave, the failures counted in a minute stay
\* within the limit and one for each request that was already let through.
AttemptsBounded ==
    Cardinality(RecentFailures(fails)) <= MaxFailures + Cardinality(Clients)

\* A throttled address is let in again, however often it keeps trying.
LockoutEnds == TooManyFailures(fails) ~> ~TooManyFailures(fails)

\* A session lasts for its time unless its own cookie logs out or the process
\* is restarted: others' logins and logouts leave it alone.
SessionsKept ==
    [][\A t \in DOMAIN sessions : Valid(t) /\ ~Valid(t)' =>
          \/ sessions[t] = 1 /\ Tick
          \/ \E c \in Clients : req[c].cookie = t /\ Revoke(c)
          \/ Restart]_vars
=============================================================================
