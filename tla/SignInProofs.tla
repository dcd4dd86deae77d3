---------------------------- MODULE SignInProofs ----------------------------
(***************************************************************************)
(* What holds of the admin's door for any number of requests at a time,    *)
(* any limit, any minute and any lifetime of a session: the failures that  *)
(* count stay bounded although the count and the record are two critical   *)
(* sections, and a session ends for a cause of its own.                    *)
(*                                                                         *)
(* The bound is not inductive.  What is: a request that was let through    *)
(* and has not failed yet may still record a failure, so each of those is  *)
(* counted with the failures (Budget).                                     *)
(***************************************************************************)
EXTENDS SignIn, FiniteSetTheorems, TLAPS

\* The requests that may still record a failure.
Undecided == {c \in Clients : pc[c] \in {"check", "record"}}

Counted == Cardinality(RecentFailures(fails)) + Cardinality(Undecided)

Budget == Counted <= MaxFailures + Cardinality(Clients)

IInv == TypeOK /\ Budget

-----------------------------------------------------------------------------
(* Counting *)

LEMMA Sizes ==
    ASSUME TypeOK
    PROVE  /\ IsFiniteSet(RecentFailures(fails)) /\ IsFiniteSet(Undecided)
           /\ Cardinality(RecentFailures(fails)) \in Nat
           /\ Cardinality(Undecided) \in Nat /\ Cardinality(Clients) \in Nat
           /\ Cardinality(Undecided) <= Cardinality(Clients)
<1>1. RecentFailures(fails) \subseteq DOMAIN fails BY DEF RecentFailures
<1>2. Undecided \subseteq Clients BY DEF Undecided
<1>3. IsFiniteSet(Clients) BY SignInAssumption
<1>4. IsFiniteSet(RecentFailures(fails)) BY <1>1, FS_Subset DEF TypeOK
<1>5. IsFiniteSet(Undecided) /\ Cardinality(Undecided) <= Cardinality(Clients)
  BY <1>2, <1>3, FS_Subset
<1> QED BY <1>3, <1>4, <1>5, FS_CardinalityType

\* Some number up to the size of a finite set of numbers is not in the set.
LEMMA UnusedNumber ==
    ASSUME NEW these \in SUBSET Nat, IsFiniteSet(these)
    PROVE  Unused(these) \in Nat /\ Unused(these) \notin these
<1> DEFINE n == Cardinality(these)
<1>1. n \in Nat BY FS_CardinalityType
<1>2. IsFiniteSet(0..n) /\ Cardinality(0..n) = n + 1
  BY <1>1, FS_Interval
<1>3. ~(0..n \subseteq these)
  <2> SUFFICES ASSUME 0..n \subseteq these PROVE FALSE OBVIOUS
  <2>1. Cardinality(0..n) <= n BY FS_Subset
  <2> QED BY <1>1, <1>2, <2>1
<1>4. \E i \in 0..n : i \notin these BY <1>3
<1>5. Unused(these) \in 0..n /\ Unused(these) \notin these BY <1>4 DEF Unused
<1> QED BY <1>1, <1>5

\* A record adds one failure to those that count and drops none of them.
LEMMA OneMore ==
    ASSUME TypeOK
    PROVE  /\ Recorded(fails) \in [DOMAIN Recorded(fails) -> 0..Minute]
           /\ DOMAIN Recorded(fails) \subseteq Nat /\ IsFiniteSet(DOMAIN Recorded(fails))
           /\ Cardinality(RecentFailures(Recorded(fails)))
                = Cardinality(RecentFailures(fails)) + 1
<1> DEFINE kept == RecentFailures(fails)
           all  == kept \cup {Unused(kept)}
<1>1. kept \subseteq DOMAIN fails BY DEF RecentFailures
<1>2. kept \in SUBSET Nat /\ IsFiniteSet(kept) BY <1>1, Sizes DEF TypeOK
<1>3. Unused(kept) \in Nat /\ Unused(kept) \notin kept BY <1>2, UnusedNumber
<1>4. DOMAIN Recorded(fails) = all BY DEF Recorded
<1>5. IsFiniteSet(all) /\ Cardinality(all) = Cardinality(kept) + 1
  BY <1>2, <1>3, FS_AddElement
<1>6. Minute \in 0..Minute /\ Minute > 0 BY SignInAssumption
<1>7. ASSUME NEW i \in all PROVE Recorded(fails)[i] \in 0..Minute /\ Recorded(fails)[i] > 0
  <2>1. CASE i \in kept
    <3>1. Recorded(fails)[i] = fails[i] BY <2>1 DEF Recorded
    <3>2. fails[i] > 0 BY <2>1 DEF RecentFailures
    <3> QED BY <1>1, <2>1, <3>1, <3>2 DEF TypeOK
  <2>2. CASE i \notin kept
    <3>1. Recorded(fails)[i] = Minute BY <1>7, <2>2 DEF Recorded
    <3> QED BY <1>6, <3>1
  <2> QED BY <2>1, <2>2
<1>8. RecentFailures(Recorded(fails)) = all BY <1>4, <1>7 DEF RecentFailures
<1>9. Recorded(fails) \in [all -> 0..Minute] BY <1>7 DEF Recorded
<1>10. all \subseteq Nat BY <1>2, <1>3
<1> QED BY <1>4, <1>5, <1>8, <1>9, <1>10

\* A request that begins or ends its stay among the undecided counts once.
LEMMA Joins ==
    ASSUME TypeOK, TypeOK', NEW c \in Clients, pc' = [pc EXCEPT ![c] = "check"]
    PROVE  Cardinality(Undecided') \in Nat /\ Cardinality(Undecided') <= Cardinality(Clients)
<1>1. Undecided' \subseteq Clients BY DEF Undecided
<1> QED BY <1>1, SignInAssumption, FS_Subset, FS_CardinalityType

LEMMA Leaves ==
    ASSUME TypeOK, NEW c \in Clients, NEW to, pc' = [pc EXCEPT ![c] = to],
           pc[c] \in {"check", "record"}, to \notin {"check", "record"}
    PROVE  Cardinality(Undecided') = Cardinality(Undecided) - 1
<1>1. Undecided' = Undecided \ {c} BY DEF Undecided, TypeOK
<1>2. c \in Undecided BY DEF Undecided
<1> QED BY <1>1, <1>2, Sizes, FS_RemoveElement

-----------------------------------------------------------------------------
LEMMA InitInvariant == Init => IInv
<1> SUFFICES ASSUME Init PROVE IInv OBVIOUS
<1>1. RecentFailures(fails) = {} /\ DOMAIN fails = {} BY DEF Init, RecentFailures
<1>2. Undecided = {} BY DEF Init, Undecided
<1>3. TypeOK
  <2>1. IsFiniteSet({}) BY FS_EmptySet
  <2> QED BY <2>1, SignInAssumption DEF Init, TypeOK, NoRequest, Kinds
<1>4. Counted = 0 BY <1>1, <1>2, FS_EmptySet DEF Counted
<1> QED BY <1>3, <1>4, Sizes, SignInAssumption DEF Budget, IInv

-----------------------------------------------------------------------------
(* Steps that change the failures, or who may add one *)

LEMMA ArriveKeeps ==
    ASSUME IInv, NEW c \in Clients, NEW k \in Kinds, NEW t \in Tokens \cup {None},
           NEW right \in BOOLEAN, Arrive(c, k, t, right)
    PROVE  IInv'
<1>1. TypeOK' BY DEF Arrive, IInv, TypeOK
<1>2. Cardinality(Undecided') \in Nat /\ Cardinality(Undecided') <= Cardinality(Clients)
  BY <1>1, Joins DEF Arrive, IInv
<1>3. Cardinality(RecentFailures(fails)) <= MaxFailures
  BY Sizes, SignInAssumption DEF Arrive, TooManyFailures, IInv
<1>4. Counted' = Cardinality(RecentFailures(fails)) + Cardinality(Undecided')
  BY DEF Arrive, Counted
<1>5. Budget' BY <1>2, <1>3, <1>4, Sizes, SignInAssumption DEF Budget, IInv
<1> QED BY <1>1, <1>5 DEF IInv

LEMMA RecordFailureKeeps ==
    ASSUME IInv, NEW c \in Clients, RecordFailure(c) PROVE IInv'
<1>1. TypeOK'
  <2>1. /\ fails' \in [DOMAIN fails' -> 0..Minute]
        /\ DOMAIN fails' \subseteq Nat /\ IsFiniteSet(DOMAIN fails')
    BY OneMore DEF RecordFailure, IInv
  <2>2. /\ pc' \in [Clients -> {"idle", "check", "record", "login", "logout"}]
        /\ req' \in [Clients -> [kind : Kinds, cookie : Tokens \cup {None}, right : BOOLEAN]]
        /\ sessions' = sessions
    BY DEF RecordFailure, Answer, NoRequest, Kinds, IInv, TypeOK
  <2> QED BY <2>1, <2>2 DEF IInv, TypeOK
<1>2. Cardinality(RecentFailures(fails')) = Cardinality(RecentFailures(fails)) + 1
  BY OneMore DEF RecordFailure, IInv
<1>3. Cardinality(Undecided') = Cardinality(Undecided) - 1
  BY Leaves DEF RecordFailure, Answer, IInv
<1>4. Counted' = Counted BY <1>2, <1>3, Sizes DEF Counted, IInv
<1> QED BY <1>1, <1>4 DEF IInv, Budget

\* Getting past the guard: the request will record no failure any more.
LEMMA AdmitKeeps ==
    ASSUME IInv, NEW c \in Clients, Admit(c) PROVE IInv'
<1>1. PICK to \in {"idle", "login", "logout"} : pc' = [pc EXCEPT ![c] = to]
  <2>1. req[c].kind \in Kinds BY DEF IInv, TypeOK
  <2> QED BY <2>1 DEF Admit, Answer, Kinds
<1>2. TypeOK'
  <2>1. pc' \in [Clients -> {"idle", "check", "record", "login", "logout"}]
    BY <1>1 DEF IInv, TypeOK
  <2>2. req' = req \/ req' = [req EXCEPT ![c] = NoRequest] BY DEF Admit, Answer
  <2>3. NoRequest \in [kind : Kinds, cookie : Tokens \cup {None}, right : BOOLEAN]
    BY DEF NoRequest, Kinds
  <2>4. req' \in [Clients -> [kind : Kinds, cookie : Tokens \cup {None}, right : BOOLEAN]]
    BY <2>2, <2>3 DEF IInv, TypeOK
  <2> QED BY <2>1, <2>4 DEF Admit, IInv, TypeOK
<1>3. Cardinality(Undecided') = Cardinality(Undecided) - 1
  BY <1>1, Leaves DEF Admit, IInv
<1>4. Counted' = Cardinality(RecentFailures(fails)) + Cardinality(Undecided')
  BY DEF Admit, Counted
<1>5. Counted' <= Counted BY <1>3, <1>4, Sizes DEF Counted, IInv
<1>6. Counted \in Nat /\ Counted' \in Nat
  <2>1. Undecided' \subseteq Clients BY DEF Undecided
  <2>2. Cardinality(Undecided') \in Nat
    BY <2>1, SignInAssumption, FS_Subset, FS_CardinalityType
  <2> QED BY <1>4, <2>2, Sizes DEF Counted, IInv
<1> QED BY <1>2, <1>5, <1>6, Sizes, SignInAssumption DEF IInv, Budget

\* A tick makes no failure count again.
LEMMA TickKeeps ==
    ASSUME IInv, Tick PROVE IInv'
<1>1. ASSUME NEW n \in Nat PROVE Less(n) \in Nat /\ Less(n) <= n /\ (Less(n) > 0 => n > 0)
  BY DEF Less
<1>2. 0..Minute \subseteq Nat /\ 0..TTL \subseteq Nat BY SignInAssumption
<1>3. TypeOK'
  <2>1. fails' \in [DOMAIN fails -> 0..Minute] /\ DOMAIN fails' = DOMAIN fails
    <3>1. ASSUME NEW i \in DOMAIN fails PROVE Less(fails[i]) \in 0..Minute
      <4>1. fails[i] \in 0..Minute BY DEF IInv, TypeOK
      <4> QED BY <4>1, <1>1, SignInAssumption
    <3> QED BY <3>1 DEF Tick
  <2>2. sessions' \in [DOMAIN sessions -> 0..TTL] /\ DOMAIN sessions' = DOMAIN sessions
    <3>1. ASSUME NEW t \in DOMAIN sessions PROVE Less(sessions[t]) \in 0..TTL
      <4>1. sessions[t] \in 0..TTL BY DEF IInv, TypeOK
      <4> QED BY <4>1, <1>1, SignInAssumption
    <3> QED BY <3>1 DEF Tick
  <2> QED BY <2>1, <2>2 DEF Tick, IInv, TypeOK
<1>4. RecentFailures(fails') \subseteq RecentFailures(fails)
  <2> SUFFICES ASSUME NEW i \in DOMAIN fails', fails'[i] > 0
               PROVE  i \in DOMAIN fails /\ fails[i] > 0
    BY DEF RecentFailures
  <2>1. i \in DOMAIN fails /\ fails'[i] = Less(fails[i]) BY DEF Tick
  <2>2. fails[i] \in Nat BY <1>2, <2>1 DEF IInv, TypeOK
  <2> QED BY <1>1, <2>1, <2>2
<1>5. Cardinality(RecentFailures(fails')) <= Cardinality(RecentFailures(fails))
  BY <1>4, Sizes, FS_Subset DEF IInv
<1>6. Cardinality(RecentFailures(fails')) \in Nat
  BY <1>4, Sizes, FS_Subset, FS_CardinalityType DEF IInv
<1>7. Undecided' = Undecided BY DEF Tick, Undecided
<1> QED BY <1>3, <1>5, <1>6, <1>7, Sizes, SignInAssumption DEF IInv, Budget, Counted

\* The process starts with no failures and no requests.
LEMMA RestartKeeps ==
    ASSUME IInv, Restart PROVE IInv'
<1>1. RecentFailures(fails') = {} /\ DOMAIN fails' = {} BY DEF Restart, RecentFailures
<1>2. Undecided' = {} BY DEF Restart, Undecided
<1>3. TypeOK'
  <2>1. IsFiniteSet({}) BY FS_EmptySet
  <2> QED BY <1>1, <2>1 DEF Restart, IInv, TypeOK, NoRequest, Kinds
<1>4. Counted' = 0 BY <1>1, <1>2, FS_EmptySet DEF Counted
<1> QED BY <1>3, <1>4, Sizes, SignInAssumption DEF Budget, IInv

\* The other steps leave the failures alone and let no request through.
LEMMA QuietKeeps ==
    ASSUME IInv, NEW c \in Clients, Refuse(c) \/ Deny(c) \/ Create(c) \/ Revoke(c)
    PROVE  IInv'
<1>1. CASE Refuse(c) BY <1>1 DEF Refuse, Refused, IInv, TypeOK, Budget, Counted, Undecided
<1>2. CASE Deny(c)
  <2>1. TypeOK' BY <1>2 DEF Deny, IInv, TypeOK
  <2>2. Undecided' = Undecided BY <1>2 DEF Deny, Undecided, IInv, TypeOK
  <2> QED BY <1>2, <2>1, <2>2 DEF Deny, IInv, Budget, Counted
<1>3. ASSUME fails' = fails, Answer(c), pc[c] \in {"login", "logout"}
      PROVE  Counted' = Counted
  <2>1. Undecided' = Undecided BY <1>3 DEF Answer, Undecided, IInv, TypeOK
  <2> QED BY <1>3, <2>1 DEF Counted
<1>4. CASE Create(c)
  <2>1. Budget' BY <1>3, <1>4 DEF Create, IInv, Budget
  <2>2. sessions' \in [DOMAIN sessions' -> 0..TTL] /\ DOMAIN sessions' \subseteq Tokens
    <3>1. PICK t \in Tokens : sessions' = [x \in Swept(sessions) \cup {t} |->
                                              IF x = t THEN TTL ELSE sessions[x]]
      BY <1>4 DEF Create
    <3>2. ASSUME NEW x \in Swept(sessions) PROVE x \in Tokens /\ sessions[x] \in 0..TTL
      BY DEF Swept, IInv, TypeOK
    <3>3. TTL \in 0..TTL BY SignInAssumption
    <3> QED BY <3>1, <3>2, <3>3
  <2>3. TypeOK' BY <1>4, <2>2 DEF Create, Answer, NoRequest, Kinds, IInv, TypeOK
  <2> QED BY <2>1, <2>3 DEF IInv
<1>5. CASE Revoke(c)
  <2>1. Budget' BY <1>3, <1>5 DEF Revoke, IInv, Budget
  <2>2. sessions' \in [DOMAIN sessions' -> 0..TTL] /\ DOMAIN sessions' \subseteq Tokens
    BY <1>5 DEF Revoke, IInv, TypeOK
  <2>3. TypeOK' BY <1>5, <2>2 DEF Revoke, Answer, NoRequest, Kinds, IInv, TypeOK
  <2> QED BY <2>1, <2>3 DEF IInv
<1> QED BY <1>1, <1>2, <1>4, <1>5

LEMMA NextInvariant == ASSUME IInv, [Next]_vars PROVE IInv'
<1>1. ASSUME NEW c \in Clients, Serve(c) PROVE IInv'
  BY <1>1, ArriveKeeps, RecordFailureKeeps, AdmitKeeps, QuietKeeps DEF Serve
<1>2. CASE UNCHANGED vars
  BY <1>2 DEF vars, IInv, TypeOK, Budget, Counted, Undecided
<1> QED BY <1>1, <1>2, TickKeeps, RestartKeeps DEF Next

LEMMA Invariance == Spec => []IInv
BY InitInvariant, NextInvariant, PTL DEF Spec

-----------------------------------------------------------------------------
(* Theorems *)

\* Every variable of the sign-in keeps its type, whatever the requests do.
THEOREM TypeCorrect == Spec => []TypeOK
<1>1. IInv => TypeOK BY DEF IInv
<1> QED BY <1>1, Invariance, PTL

\* The throttle works for any number of requests side by side: TooManyFailures
\* and RecordFailure lock for one call each, and still the failures that count
\* never exceed the limit by more than the requests let through.
THEOREM ThrottleBounds == Spec => []AttemptsBounded
<1>1. IInv => AttemptsBounded
  BY Sizes, SignInAssumption DEF IInv, Budget, Counted, AttemptsBounded
<1> QED BY <1>1, Invariance, PTL

\* The sweep in Create, other requests' logins and their logouts end no
\* session whose time has not come.
THEOREM SessionsLast == Spec => SessionsKept
<1>1. ASSUME IInv, [Next]_vars, NEW t \in DOMAIN sessions, Valid(t), ~Valid(t)'
      PROVE  \/ sessions[t] = 1 /\ Tick
             \/ \E c \in Clients : req[c].cookie = t /\ Revoke(c)
             \/ Restart
  <2>1. sessions[t] \in Nat /\ sessions[t] > 0 BY <1>1, SignInAssumption DEF IInv, TypeOK, Valid
  <2>2. CASE sessions' = sessions BY <1>1, <2>2 DEF Valid
  <2>3. CASE Tick
    <3>1. t \in DOMAIN sessions' /\ sessions'[t] = Less(sessions[t]) BY <2>3 DEF Tick
    <3>2. ~(Less(sessions[t]) > 0) BY <1>1, <3>1 DEF Valid
    <3>3. sessions[t] = 1 BY <2>1, <3>2 DEF Less
    <3> QED BY <2>3, <3>3
  <2>4. ASSUME NEW c \in Clients, Create(c) PROVE FALSE
    <3>1. t \in Swept(sessions) BY <2>1 DEF Swept
    <3>2. PICK new \in Tokens \ Swept(sessions) :
             sessions' = [x \in Swept(sessions) \cup {new} |->
                             IF x = new THEN TTL ELSE sessions[x]]
      BY <2>4 DEF Create
    <3>3. t \in DOMAIN sessions' /\ sessions'[t] = sessions[t] BY <3>1, <3>2
    <3> QED BY <1>1, <2>1, <3>3 DEF Valid
  <2>5. ASSUME NEW c \in Clients, Revoke(c) PROVE req[c].cookie = t
    <3> SUFFICES ASSUME req[c].cookie # t PROVE FALSE OBVIOUS
    <3>1. t \in DOMAIN sessions' /\ sessions'[t] = sessions[t] BY <2>5 DEF Revoke
    <3> QED BY <1>1, <2>1, <3>1 DEF Valid
  <2>6. ASSUME NEW c \in Clients, Serve(c)
        PROVE  sessions' = sessions \/ Create(c) \/ Revoke(c)
    BY <2>6 DEF Serve, Arrive, Refuse, Deny, RecordFailure, Admit
  <2> QED BY <1>1, <2>2, <2>3, <2>4, <2>5, <2>6 DEF Next, vars
<1>2. IInv /\ [Next]_vars =>
        [\A t \in DOMAIN sessions : Valid(t) /\ ~Valid(t)' =>
            \/ sessions[t] = 1 /\ Tick
            \/ \E c \in Clients : req[c].cookie = t /\ Revoke(c)
            \/ Restart]_vars
  BY <1>1
<1> QED BY <1>2, Invariance, PTL DEF Spec, SessionsKept
=============================================================================
