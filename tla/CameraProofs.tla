---------------------------- MODULE CameraProofs ----------------------------
(***************************************************************************)
(* Theorems about what happens to one camera: its fetches (CameraSource)   *)
(* and the trigger its samples feed (Trigger).                             *)
(*                                                                         *)
(* Politeness for any number of callers, sources and fetches. A sleeper    *)
(* holds its source's mutex, so last does not move while it sleeps, and a  *)
(* stale reading of the clock only lengthens the sleep: Spaced. A request  *)
(* left no later than its source's last note and time does not pass its    *)
(* timeout: Sent. Neither follows from the other or from TypeOK.           *)
(*                                                                         *)
(* A GO for any scores, gaps, gates and number of samples. The invariant   *)
(* is only that the samples are scores with their times: what the gates    *)
(* compare are medians, and a median is bounded by what most of its window *)
(* is (MedianSplits), from which each property of a fire follows.          *)
(***************************************************************************)
EXTENDS CameraSource, Trigger,
        FiniteSetTheorems, SequenceTheorems, WellFoundedInduction, TLAPS

-----------------------------------------------------------------------------
(* The fetches *)

LEMMA InitType == Init => TypeOK
  BY TimeAssumption, BoundAssumption, SMT DEF Init, TypeOK, Places, Ids

LEMMA NextBackoffType == ASSUME NEW r \in Int PROVE NextBackoff(r) \in Nat
  BY TimeAssumption DEF NextBackoff

LEMMA DoneType ==
    ASSUME TypeOK, NEW c \in Callers, Done(c)
    PROVE  /\ place' \in [Callers -> Places] /\ src' \in [Callers -> Sources \cup {"none"}]
           /\ asked' \in [Callers -> Nat] /\ wake' \in [Callers -> Int]
           /\ \A d \in Callers : place'[d] # "idle" => src'[d] \in Sources
  BY DEF TypeOK, Done, Places

LEMMA NextType == TypeOK /\ [Next]_vars => TypeOK'
<1> SUFFICES ASSUME TypeOK, [Next]_vars PROVE TypeOK'
  OBVIOUS
<1>1. CASE Tick
  BY <1>1 DEF TypeOK, Tick, limiter, calls, backoff
<1>2. ASSUME NEW c \in Callers, NEW s \in Sources, Begin(c, s) PROVE TypeOK'
  BY <1>2, BoundAssumption DEF TypeOK, Begin, InLine, limiter, backoff, Places
<1>3. ASSUME NEW c \in Callers, Lock(c) PROVE TypeOK'
  <2>1. src[c] \in Sources /\ last[src[c]] + MinGap \in Int /\ asked[c] \in Int
    BY <1>3, TimeAssumption DEF TypeOK, Lock, SleepUntil
  <2>2. PICK t \in Int : SleepUntil(c, t)
    BY <1>3, <2>1 DEF Lock, TypeOK
  <2> QED
    BY <2>1, <2>2 DEF TypeOK, SleepUntil, backoff, Places
<1>4. ASSUME NEW c \in Callers, Leave(c) PROVE TypeOK'
  BY <1>4 DEF TypeOK, Leave, Send, backoff, Places
<1>5. ASSUME NEW c \in Callers, Cancel(c) PROVE TypeOK'
  BY <1>5, DoneType DEF TypeOK, Cancel, backoff
<1>6. ASSUME NEW c \in Callers, Frame(c) \/ Missing(c) \/ Failed(c) PROVE TypeOK'
  BY <1>6, DoneType DEF TypeOK, Frame, Missing, Failed, Return, backoff, limiter
<1>7. ASSUME NEW c \in Callers, Limited(c) PROVE TypeOK'
  <2>1. IdOf[src[c]] \in Ids /\ until[IdOf[src[c]]] - now \in Int
    BY <1>7 DEF TypeOK, Limited, Return, Ids
  <2>2. now + NextBackoff(until[IdOf[src[c]]] - now) \in Nat
    BY <2>1, NextBackoffType DEF TypeOK
  <2> QED
    BY <1>7, <2>1, <2>2, DoneType DEF TypeOK, Limited, Return, Done, limiter
<1>8. CASE UNCHANGED vars
  BY <1>8 DEF TypeOK, vars, limiter, calls, backoff
<1> QED
  BY <1>1, <1>2, <1>3, <1>4, <1>5, <1>6, <1>7, <1>8 DEF Next, Step

\* Types hold for any callers, sources and intervals.
THEOREM TypeCorrect == Spec => []TypeOK
  BY InitType, NextType, PTL DEF Spec

-----------------------------------------------------------------------------
(* The inductive invariant *)

\* The sleeper of a source holds its mutex, and wakes no earlier than the
\* interval after the last request, which was the last the limiter noted.
Spaced ==
    /\ last = sentAt
    /\ \A c \in Callers : place[c] = "sleep" => /\ holder[src[c]] = c
                                                /\ wake[c] >= last[src[c]] + MinGap
    /\ \A c \in Callers : asked[c] <= now

\* A request under way left no later than the last one noted, and its timeout
\* has not passed.
Sent == \A c \in Callers : place[c] = "sent" =>
            wake[c] <= last[src[c]] /\ now <= wake[c] + Timeout

\* A caller in line or asleep passed the check of any back-off set before.
Checked == \A c \in Callers : place[c] \in {"queue", "sleep"} =>
               \/ asked[c] >= until[IdOf[src[c]]]
               \/ asked[c] <= since[IdOf[src[c]]]

\* A camera never has two requests of one source to answer at once: the
\* client's timeout ends one before the limiter lets the next one go, so the
\* counters see the answers in the order of the requests.
OneOutstanding ==
    \A c, d \in Callers : place[c] = "sent" /\ place[d] = "sent" /\ src[c] = src[d]
        => c = d

IInv == TypeOK /\ Spaced /\ Sent /\ Checked /\ OneOutstanding

LEMMA InitIInv == Init => IInv
  BY InitType DEF Init, IInv, Spaced, Sent, Checked, OneOutstanding

LEMMA LeaveIInv ==
    ASSUME IInv, NEW c \in Callers, Leave(c)
    PROVE  IInv'
<1> USE DEF IInv
<1>1. TypeOK'
  BY NextType DEF Next, Step
<1>2. src[c] \in Sources /\ now >= last[src[c]] + MinGap /\ now \in Int /\ wake[c] \in Int
      /\ \A s \in Sources : last[s] \in Int
  BY TimeAssumption DEF TypeOK, Spaced, Leave, Send
<1>3. \A d \in Callers : place[d] = "sent" => src[d] # src[c]
  BY <1>2, TimeAssumption DEF TypeOK, Sent
<1>4. \A d \in Callers : d # c /\ place[d] = "sleep" => src[d] # src[c]
  BY DEF Spaced, Leave, Send
<1>5. Spaced'
  BY <1>2, <1>4 DEF TypeOK, Spaced, Leave, Send
<1>6. Sent'
  BY <1>2, <1>3, TimeAssumption DEF TypeOK, Sent, Leave, Send
<1>7. Checked'
  BY DEF TypeOK, Checked, Leave, Send, backoff
<1>8. OneOutstanding'
  BY <1>3 DEF TypeOK, OneOutstanding, Leave, Send
<1> QED BY <1>1, <1>5, <1>6, <1>7, <1>8

\* What a caller that leaves Fetch does to the facts about the others.
LEMMA DoneIInv ==
    ASSUME IInv, NEW c \in Callers, Done(c), Checked', TypeOK',
           UNCHANGED <<now, last, sentAt>>, place[c] # "idle",
           holder' = IF place[c] = "sleep" THEN [holder EXCEPT ![src[c]] = "none"] ELSE holder
    PROVE  IInv'
<1> USE DEF IInv
<1>1. Spaced'
  <2>1. \A d \in Callers : d # c /\ place[d] = "sleep" => holder'[src[d]] = d
    BY DEF TypeOK, Spaced
  <2> QED BY <2>1 DEF TypeOK, Spaced, Done
<1>2. Sent'
  BY DEF TypeOK, Sent, Done
<1>3. OneOutstanding'
  BY DEF TypeOK, OneOutstanding, Done
<1> QED BY <1>1, <1>2, <1>3

LEMMA NextIInv == IInv /\ [Next]_vars => IInv'
<1> SUFFICES ASSUME IInv, [Next]_vars PROVE IInv'
  OBVIOUS
<1> USE DEF IInv
<1>0. TypeOK'
  BY NextType
<1>1. CASE Tick
  <2>1. Sent'
    BY <1>1, TimeAssumption DEF TypeOK, Sent, Tick, Due, limiter, calls
  <2> QED
    BY <1>0, <1>1, <2>1 DEF TypeOK, Spaced, Checked, OneOutstanding, Tick, limiter, calls, backoff
<1>2. ASSUME NEW c \in Callers, NEW s \in Sources, Begin(c, s) PROVE IInv'
  BY <1>0, <1>2 DEF TypeOK, Spaced, Sent, Checked, OneOutstanding, Begin, InLine, limiter, backoff
<1>3. ASSUME NEW c \in Callers, Lock(c) PROVE IInv'
  <2> DEFINE next == last[src[c]] + MinGap
  <2>1. src[c] \in Sources /\ next \in Int /\ asked[c] <= now /\ asked[c] \in Int /\ now \in Int
    BY <1>3, TimeAssumption DEF TypeOK, Spaced, Lock, SleepUntil
  <2>2. PICK t \in Int : SleepUntil(c, t) /\ t >= next
    <3>1. CASE asked[c] < next
      BY <1>3, <2>1, <3>1 DEF Lock
    <3>2. CASE ~(asked[c] < next)
      BY <1>3, <2>1, <3>2 DEF Lock
    <3> QED BY <3>1, <3>2
  <2>3. Spaced'
    BY <2>1, <2>2, NameAssumption DEF TypeOK, Spaced, SleepUntil
  <2>4. Sent' /\ Checked' /\ OneOutstanding'
    BY <2>2 DEF TypeOK, Sent, Checked, OneOutstanding, SleepUntil, backoff
  <2> QED BY <1>0, <2>3, <2>4
<1>4. ASSUME NEW c \in Callers, Leave(c) PROVE IInv'
  BY <1>4, LeaveIInv
<1>5. ASSUME NEW c \in Callers, Cancel(c) PROVE IInv'
  <2>1. Checked'
    BY <1>5 DEF TypeOK, Checked, Cancel, Done, backoff
  <2>2. /\ Done(c) /\ place[c] # "idle" /\ UNCHANGED <<now, last, sentAt>>
        /\ holder' = IF place[c] = "sleep" THEN [holder EXCEPT ![src[c]] = "none"] ELSE holder
    BY <1>5 DEF Cancel
  <2> QED BY <1>0, <2>1, <2>2, DoneIInv
<1>6. ASSUME NEW c \in Callers, Frame(c) \/ Missing(c) \/ Failed(c) PROVE IInv'
  <2>1. Checked'
    BY <1>6 DEF TypeOK, Checked, Frame, Missing, Failed, Return, Done, backoff, Ids
  <2>2. /\ Done(c) /\ place[c] # "idle" /\ UNCHANGED <<now, last, sentAt>>
        /\ holder' = IF place[c] = "sleep" THEN [holder EXCEPT ![src[c]] = "none"] ELSE holder
    BY <1>6 DEF Frame, Missing, Failed, Return, limiter
  <2> QED BY <1>0, <2>1, <2>2, DoneIInv
<1>7. ASSUME NEW c \in Callers, Limited(c) PROVE IInv'
  <2>1. Checked'
    BY <1>7 DEF TypeOK, Spaced, Checked, Limited, Return, Done, Ids
  <2>2. /\ Done(c) /\ place[c] # "idle" /\ UNCHANGED <<now, last, sentAt>>
        /\ holder' = IF place[c] = "sleep" THEN [holder EXCEPT ![src[c]] = "none"] ELSE holder
    BY <1>7 DEF Limited, Return, limiter
  <2> QED BY <1>0, <2>1, <2>2, DoneIInv
<1>8. CASE UNCHANGED vars
  BY <1>0, <1>8 DEF Spaced, Sent, Checked, OneOutstanding, vars, limiter, calls, backoff
<1> QED
  BY <1>1, <1>2, <1>3, <1>4, <1>5, <1>6, <1>7, <1>8 DEF Next, Step

LEMMA InvariantHolds == Spec => []IInv
  BY InitIInv, NextIInv, PTL DEF Spec

-----------------------------------------------------------------------------
\* No source has two requests under way, for any number of callers in line.
THEOREM OneAtATime == Spec => []OneOutstanding
<1>1. IInv => OneOutstanding
  BY DEF IInv
<1> QED BY <1>1, InvariantHolds, PTL

\* Only Leave sends a request.
LEMMA SendIsLeave ==
    ASSUME TypeOK, [Next]_vars, NEW c \in Callers, place[c] # "sent", place'[c] = "sent"
    PROVE  Leave(c)
<1>1. ASSUME NEW d \in Callers, Done(d) PROVE FALSE
  BY <1>1 DEF Done, TypeOK
<1>2. CASE \E d \in Callers : Cancel(d) \/ Frame(d) \/ Limited(d) \/ Missing(d) \/ Failed(d)
  BY <1>1, <1>2 DEF Cancel, Frame, Limited, Missing, Failed, Return
<1>3. CASE \E d \in Callers : Leave(d)
  BY <1>3 DEF Leave, Send, TypeOK
<1>4. CASE \E d \in Callers : Lock(d) \/ \E s \in Sources : Begin(d, s)
  BY <1>4 DEF Lock, SleepUntil, Begin, InLine, TypeOK
<1>5. CASE Tick \/ UNCHANGED vars
  BY <1>5 DEF Tick, vars, calls
<1> QED BY <1>2, <1>3, <1>4, <1>5 DEF Next, Step

\* Two requests of one source leave at least the interval apart, whatever the
\* callers' readings of the clock.
THEOREM Polite == Spec => RequestsSpaced
<1>1. IInv /\ [Next]_vars =>
        [\A c \in Callers : place[c] # "sent" /\ place'[c] = "sent"
                              => now >= sentAt[src[c]] + MinGap]_vars
  <2> SUFFICES ASSUME IInv, [Next]_vars,
                      NEW c \in Callers, place[c] # "sent", place'[c] = "sent"
               PROVE  now >= sentAt[src[c]] + MinGap
    OBVIOUS
  <2>1. Leave(c)
    BY SendIsLeave DEF IInv
  <2> QED BY <2>1, TimeAssumption DEF IInv, TypeOK, Spaced, Leave, Send
<1> QED BY <1>1, InvariantHolds, PTL DEF Spec, RequestsSpaced

\* No call begun during a back-off reaches the camera, through whichever
\* source of its id.
THEOREM BackoffKept == Spec => BackoffHeld
<1>1. IInv /\ [Next]_vars =>
        [\A c \in Callers :
           /\ place[c] = "sleep" /\ place'[c] = "sent"
           /\ now < until[IdOf[src[c]]]
           => asked[c] <= since[IdOf[src[c]]]]_vars
  <2> SUFFICES ASSUME IInv, NEW c \in Callers, place[c] = "sleep", now < until[IdOf[src[c]]]
               PROVE  asked[c] <= since[IdOf[src[c]]]
    OBVIOUS
  <2>1. src[c] \in Sources /\ IdOf[src[c]] \in Ids
    BY DEF IInv, TypeOK, Ids
  <2> QED BY <2>1 DEF IInv, TypeOK, Spaced, Checked
<1> QED BY <1>1, InvariantHolds, PTL DEF Spec, BackoffHeld

-----------------------------------------------------------------------------
(* Counting in a window of samples *)

\* A set of numbers that has one has a least one.
LEMMA Least ==
    ASSUME NEW S \in SUBSET Nat, S # {}
    PROVE  \E n \in S : \A m \in S : n <= m
<1>1. PICK n \in S : \A m \in S : <<m, n>> \notin OpToRel(<, Nat)
  BY NatLessThanWellFounded, WFMin
<1>2. ASSUME NEW m \in S PROVE n <= m
  <2>1. <<m, n>> \notin OpToRel(<, Nat) BY <1>1
  <2>2. ~(m < n) BY <2>1 DEF OpToRel
  <2> QED BY <2>2
<1> QED BY <1>2

LEMMA PartFinite ==
    ASSUME NEW i \in Int, NEW j \in Int, NEW A \in SUBSET (i..j)
    PROVE  IsFiniteSet(A) /\ Cardinality(A) \in Nat
BY FS_Interval, FS_Subset, FS_CardinalityType

LEMMA PartWithin ==
    ASSUME NEW i \in Int, NEW j \in Int, NEW B \in SUBSET (i..j), NEW A \in SUBSET B
    PROVE  Cardinality(A) <= Cardinality(B)
BY PartFinite, FS_Subset

\* What a part of a window leaves out.
LEMMA RestOfWindow ==
    ASSUME NEW i \in Int, NEW j \in Int, i <= j, NEW A \in SUBSET (i..j)
    PROVE  Cardinality((i..j) \ A) = j - i + 1 - Cardinality(A)
<1> DEFINE W == i..j
<1>1. IsFiniteSet(W) /\ Cardinality(W) = j - i + 1 BY FS_Interval
<1>2. W \cap A = A OBVIOUS
<1>3. Cardinality(W \ A) = Cardinality(W) - Cardinality(W \cap A)
  <2> HIDE DEF W
  <2> QED BY <1>1, FS_Difference
<1>4. Cardinality(W \ A) = j - i + 1 - Cardinality(A)
  <2>1. Cardinality(A) \in Nat BY PartFinite
  <2> HIDE DEF W
  <2> QED BY <1>1, <1>2, <1>3, <2>1
<1> QED BY <1>4

LEMMA Larger ==
    ASSUME NEW B, IsFiniteSet(B), NEW A \in SUBSET B, NEW k \in B, k \notin A
    PROVE  Cardinality(A) < Cardinality(B)
<1>1. IsFiniteSet(A) /\ Cardinality(A) <= Cardinality(B) /\ Cardinality(A) # Cardinality(B)
  BY FS_Subset
<1>2. Cardinality(A) \in Nat /\ Cardinality(B) \in Nat BY <1>1, FS_CardinalityType
<1> QED BY <1>1, <1>2

LEMMA TwoOf ==
    ASSUME NEW S, IsFiniteSet(S), Cardinality(S) >= 2
    PROVE  \E a, b \in S : a # b
<1>1. PICK a \in S : TRUE BY FS_EmptySet
<1>2. SUFFICES ASSUME \A b \in S : b = a PROVE FALSE OBVIOUS
<1>3. S = {a} BY <1>2
<1>4. Cardinality({a}) = 1 BY FS_Singleton
<1> QED BY <1>3, <1>4

-----------------------------------------------------------------------------
(* The median *)

\* Median is the value sorting the window puts in its middle: one of the
\* window's scores, with at most half of the others below it and at most half
\* above it, whatever the scores and however many tie.
LEMMA MedianSplits ==
    ASSUME NEW s, NEW i \in Int, NEW j \in Int, \A k \in i..j : s[k].score \in Nat,
           NEW h \in Nat, j - i = 2 * h
    PROVE  /\ \E k \in i..j : Median(s, i, j) = s[k].score
           /\ Cardinality({k \in i..j : s[k].score < Median(s, i, j)}) <= h
           /\ h < Cardinality({k \in i..j : s[k].score <= Median(s, i, j)})
<1> DEFINE W == i..j
           Below(v) == {k \in W : s[k].score < v}
           UpTo(v)  == {k \in W : s[k].score <= v}
<1>1. (j - i + 1) \div 2 = h
  <2>1. j - i + 1 = 2 * h + 1 OBVIOUS
  <2>2. (2 * h + 1) \div 2 = h OBVIOUS
  <2> QED BY <2>1, <2>2
<1>2. i <= j /\ IsFiniteSet(W) /\ Cardinality(W) = 2 * h + 1 BY FS_Interval
<1>3. ASSUME NEW v PROVE Cardinality(UpTo(v)) \in Nat /\ Cardinality(Below(v)) \in Nat
  BY PartFinite
<1>4. \E v \in Nat : h < Cardinality(UpTo(v))
  <2> DEFINE left(v) == 2 * h + 1 - Cardinality(UpTo(v))
             L == {left(v) : v \in Nat}
  <2>1. ASSUME NEW v \in Nat PROVE left(v) \in Nat
    <3>1. UpTo(v) \in SUBSET W OBVIOUS
    <3>2. Cardinality(UpTo(v)) <= Cardinality(W)
      <4> HIDE DEF UpTo, W
      <4> QED BY <1>2, <3>1, FS_Subset
    <3>3. Cardinality(UpTo(v)) \in Nat BY <1>3
    <3> HIDE DEF UpTo, W
    <3> QED BY <1>2, <3>2, <3>3
  <2>2. L \in SUBSET Nat /\ L # {} BY <2>1
  <2>3. PICK n \in L : \A m \in L : n <= m BY <2>2, Least
  <2>4. PICK v \in Nat : n = left(v) BY <2>3
  <2>5. \A w \in Nat : left(v) <= left(w) BY <2>3, <2>4
  <2>6. UpTo(v) = W
    <3> SUFFICES ASSUME NEW k \in W, k \notin UpTo(v) PROVE FALSE OBVIOUS
    <3>1. s[k].score \in Nat /\ v < s[k].score OBVIOUS
    <3>2. UpTo(v) \subseteq UpTo(s[k].score) BY <3>1
    <3>3. k \in UpTo(s[k].score) BY <3>1
    <3>5. IsFiniteSet(UpTo(s[k].score)) BY PartFinite
    <3>6. Cardinality(UpTo(v)) < Cardinality(UpTo(s[k].score))
      <4> HIDE DEF UpTo
      <4> QED BY <3>2, <3>3, <3>5, Larger
    <3>7. left(v) <= left(s[k].score) BY <2>5, <3>1
    <3>8. Cardinality(UpTo(v)) \in Nat /\ Cardinality(UpTo(s[k].score)) \in Nat BY <1>3
    <3> HIDE DEF UpTo
    <3> QED BY <3>6, <3>7, <3>8
  <2>7. h < Cardinality(UpTo(v))
    <3> HIDE DEF UpTo, W
    <3> QED BY <1>2, <2>6
  <2> QED BY <2>7
<1>5. PICK m \in Nat : h < Cardinality(UpTo(m))
                       /\ \A w \in Nat : h < Cardinality(UpTo(w)) => m <= w
  <2> DEFINE T == {v \in Nat : h < Cardinality(UpTo(v))}
  <2>1. T \in SUBSET Nat /\ T # {} BY <1>4
  <2>2. PICK m \in T : \A w \in T : m <= w BY <2>1, Least
  <2> QED BY <2>2
<1>6. Cardinality(Below(m)) <= h
  <2>1. CASE m = 0
    <3>1. Below(m) = {} BY <2>1
    <3> HIDE DEF Below
    <3> QED BY <3>1, FS_EmptySet
  <2>2. CASE m # 0
    <3>1. m - 1 \in Nat BY <2>2
    <3>2. Below(m) = UpTo(m - 1) BY <3>1
    <3>3. ~(h < Cardinality(UpTo(m - 1))) BY <1>5, <3>1
    <3> HIDE DEF UpTo, Below
    <3> QED BY <1>3, <3>2, <3>3
  <2> QED BY <2>1, <2>2
<1>7. \E k \in W : s[k].score = m
  <2> SUFFICES ASSUME \A k \in W : s[k].score # m PROVE FALSE OBVIOUS
  <2>1. UpTo(m) = Below(m) OBVIOUS
  <2> HIDE DEF UpTo, Below
  <2> QED BY <1>3, <1>5, <1>6, <2>1
<1>8. \E v \in {s[k].score : k \in W} :
         Cardinality(Below(v)) <= h /\ h < Cardinality(UpTo(v))
  BY <1>5, <1>6, <1>7
<1>9. Median(s, i, j) = CHOOSE v \in {s[k].score : k \in W} :
                            Cardinality(Below(v)) <= h /\ h < Cardinality(UpTo(v))
  BY <1>1 DEF Median
<1> QED BY <1>8, <1>9

LEMMA MedianIsScore ==
    ASSUME NEW s, NEW i \in Int, NEW j \in Int, \A k \in i..j : s[k].score \in Nat,
           NEW h \in Nat, j - i = 2 * h
    PROVE  Median(s, i, j) \in Nat
<1>1. \E k \in i..j : Median(s, i, j) = s[k].score
  <2>1. /\ \E k \in i..j : Median(s, i, j) = s[k].score
        /\ Cardinality({k \in i..j : s[k].score < Median(s, i, j)}) <= h
        /\ h < Cardinality({k \in i..j : s[k].score <= Median(s, i, j)})
    BY MedianSplits
  <2> QED BY <2>1
<1> QED BY <1>1

\* As many as the gates ask for: the medians against counts of the window.
LEMMA TwoReachMedian ==
    ASSUME NEW s, NEW i \in Int, \A k \in i..(i + 2) : s[k].score \in Nat
    PROVE  /\ \E a, b \in i..(i + 2) :
                  /\ a # b
                  /\ s[a].score >= Median(s, i, i + 2) /\ s[b].score >= Median(s, i, i + 2)
           /\ \E a, b \in i..(i + 2) :
                  /\ a # b
                  /\ s[a].score <= Median(s, i, i + 2) /\ s[b].score <= Median(s, i, i + 2)
<1> DEFINE W == i..(i + 2)
           m == Median(s, i, i + 2)
           Below == {k \in W : s[k].score < m}
           UpTo  == {k \in W : s[k].score <= m}
<1>1. i + 2 \in Int /\ (i + 2) - i = 2 * 1 OBVIOUS
<1>2. Cardinality(Below) <= 1 /\ 1 < Cardinality(UpTo) BY <1>1, MedianSplits
<1>3. m \in Nat
  <2>1. \E k \in W : m = s[k].score BY <1>1, MedianSplits
  <2> QED BY <2>1
<1>4. \E a, b \in W \ Below : a # b
  <2>1. IsFiniteSet(W \ Below) /\ Cardinality(Below) \in Nat BY <1>1, PartFinite
  <2>2. Cardinality(W \ Below) = (i + 2) - i + 1 - Cardinality(Below)
    <3>1. Below \in SUBSET (i..(i + 2)) OBVIOUS
    <3> HIDE DEF Below
    <3> QED BY <1>1, <3>1, RestOfWindow
  <2>3. Cardinality(W \ Below) >= 2
    <3> HIDE DEF Below, W
    <3> QED BY <1>2, <2>1, <2>2
  <2> HIDE DEF Below, W
  <2> QED BY <2>1, <2>3, TwoOf
<1>5. \E a, b \in UpTo : a # b
  <2>1. IsFiniteSet(UpTo) /\ Cardinality(UpTo) \in Nat BY <1>1, PartFinite
  <2> HIDE DEF UpTo
  <2> QED BY <1>2, <2>1, TwoOf
<1>6. \A k \in W \ Below : s[k].score >= m BY <1>3
<1>7. /\ \E a, b \in W : a # b /\ s[a].score >= m /\ s[b].score >= m
      /\ \E a, b \in W : a # b /\ s[a].score <= m /\ s[b].score <= m
  <2> HIDE DEF m
  <2> QED BY <1>4, <1>5, <1>6
<1> QED BY <1>7

LEMMA MostUpToMedian ==
    ASSUME NEW s, NEW i \in Int, NEW h \in Nat, NEW A \in SUBSET (i..(i + 2 * h)),
           \A k \in i..(i + 2 * h) : s[k].score \in Nat,
           Cardinality(A) > h
    PROVE  /\ \E k \in A : s[k].score >= Median(s, i, i + 2 * h)
           /\ \E k \in A : s[k].score <= Median(s, i, i + 2 * h)
<1> DEFINE j == i + 2 * h
           W == i..j
           m == Median(s, i, j)
           Below == {k \in W : s[k].score < m}
           UpTo  == {k \in W : s[k].score <= m}
<1>1. j \in Int /\ j - i = 2 * h /\ i <= j OBVIOUS
<1>2. /\ \E k \in W : m = s[k].score
      /\ Cardinality(Below) <= h /\ h < Cardinality(UpTo)
  <2>1. \A k \in W : s[k].score \in Nat OBVIOUS
  <2> HIDE DEF j
  <2> QED BY <1>1, <2>1, MedianSplits
<1>3. m \in Nat BY <1>2
<1>4. Below \in SUBSET W /\ UpTo \in SUBSET W /\ A \in SUBSET W OBVIOUS
<1>5. /\ IsFiniteSet(Below) /\ Cardinality(Below) \in Nat
      /\ IsFiniteSet(UpTo) /\ Cardinality(UpTo) \in Nat
      /\ IsFiniteSet(A) /\ Cardinality(A) \in Nat
  <2> HIDE DEF j, Below, UpTo
  <2> QED BY <1>1, <1>4, PartFinite
<1>6. \E k \in A : k \notin Below
  <2> SUFFICES ASSUME A \subseteq Below PROVE FALSE OBVIOUS
  <2>1. Cardinality(A) <= Cardinality(Below)
    <3> HIDE DEF Below
    <3> QED BY <1>5, FS_Subset
  <2> HIDE DEF Below
  <2> QED BY <1>2, <1>5, <2>1
<1>7. \E k \in A : k \in UpTo
  <2> SUFFICES ASSUME A \subseteq W \ UpTo PROVE FALSE OBVIOUS
  <2>1. Cardinality(W \ UpTo) = j - i + 1 - Cardinality(UpTo)
    <3> HIDE DEF j, UpTo
    <3> QED BY <1>1, <1>4, RestOfWindow
  <2>2. IsFiniteSet(W \ UpTo)
    <3> HIDE DEF j, UpTo
    <3> QED BY <1>1, PartFinite
  <2>3. Cardinality(A) <= Cardinality(W \ UpTo)
    <3> HIDE DEF W, UpTo
    <3> QED BY <2>2, FS_Subset
  <2> HIDE DEF W, UpTo
  <2> QED BY <1>1, <1>2, <1>5, <2>1, <2>3
<1>8. \A k \in W : k \notin Below => s[k].score >= m
  <2> HIDE DEF m
  <2> QED BY <1>3
<1>9. (\E k \in A : s[k].score >= m) /\ (\E k \in A : s[k].score <= m)
  <2> HIDE DEF m
  <2> QED BY <1>4, <1>6, <1>7, <1>8
<1> QED BY <1>9

-----------------------------------------------------------------------------
(* What Evaluate compares *)

LEMMA SamplesStep == SamplesOK /\ [NextSample]_trigger => SamplesOK'
<1> SUFFICES ASSUME SamplesOK, [NextSample]_trigger PROVE SamplesOK' OBVIOUS
<1>1. ASSUME NEW gap \in Gaps, NEW score \in Scores, Sample(gap, score) PROVE SamplesOK'
  <2>1. gap \in Nat BY ScoreAssumption
  <2>2. (IF samples = <<>> THEN 0 ELSE samples[Len(samples)].t) \in Nat
    <3>1. CASE samples = <<>> BY <3>1
    <3>2. CASE samples # <<>>
      <4>1. Len(samples) \in 1..Len(samples) BY <3>2 DEF SamplesOK
      <4>2. samples[Len(samples)] \in Scored BY <4>1, ElementOfSeq DEF SamplesOK
      <4> QED BY <3>2, <4>2 DEF Scored
    <3> QED BY <3>1, <3>2
  <2>3. PICK t \in Nat : /\ samples' = Append(samples, [t |-> t + gap, score |-> score])
                         /\ fired' = (fired \/ Evaluate(samples'))
    BY <1>1, <2>2 DEF Sample
  <2>4. [t |-> t + gap, score |-> score] \in Scored BY <2>1 DEF Scored
  <2>5. samples' \in Seq(Scored) BY <2>3, <2>4 DEF SamplesOK
  <2>6. fired' \in BOOLEAN BY <2>3 DEF SamplesOK
  <2> QED BY <2>5, <2>6 DEF SamplesOK
<1>2. CASE UNCHANGED trigger BY <1>2 DEF trigger, SamplesOK
<1> QED BY <1>1, <1>2 DEF NextSample

LEMMA SamplesInit == NewTrigger => SamplesOK
BY EmptySeq DEF NewTrigger, SamplesOK

\* Every variable keeps its type: a sample is a time and a score.
THEOREM SamplesCorrect == TriggerSpec => []SamplesOK
BY SamplesInit, SamplesStep, PTL DEF TriggerSpec

LEMMA ScoresOf ==
    ASSUME NEW s \in Seq(Scored), NEW k \in 1..Len(s)
    PROVE  s[k].score \in Nat
<1>1. s[k] \in Scored BY ElementOfSeq
<1> QED BY <1>1, ScoreAssumption DEF Scored

\* The medians of a sequence long enough are scores, and bear the counts out.
LEMMA Medians ==
    ASSUME NEW s \in Seq(Scored), Len(s) >= minSamples
    PROVE  LET n == Len(s) IN
           /\ Recent(s) \in Nat /\ Baseline(s) \in Nat /\ Prior(s) \in Nat
           /\ \E i, j \in (n - 2)..n :
                  i # j /\ s[i].score >= Recent(s) /\ s[j].score >= Recent(s)
           /\ Cardinality({k \in 1..minSamples : s[k].score <= Baseline(s)}) >= 3
           /\ n >= 6 => \E i, j \in (n - 5)..(n - 3) :
                  i # j /\ s[i].score <= Prior(s) /\ s[j].score <= Prior(s)
<1> DEFINE n == Len(s)
<1>1. n \in Nat /\ n >= 5 BY DEF minSamples
<1>2. \A k \in 1..n : s[k].score \in Nat BY ScoresOf
<1>3. Recent(s) \in Nat /\ \E i, j \in (n - 2)..n :
          i # j /\ s[i].score >= Recent(s) /\ s[j].score >= Recent(s)
  <2> DEFINE i0 == n - 2
  <2>1. i0 \in Int /\ i0 + 2 = n /\ n - i0 = 2 * 1 BY <1>1
  <2>2. \A k \in i0..n : k \in 1..n BY <1>1
  <2>3. \A k \in i0..n : s[k].score \in Nat BY <1>2, <2>2
  <2>4. Median(s, i0, n) \in Nat
    <3>1. PICK h \in Nat : n - i0 = 2 * h BY <2>1
    <3> HIDE DEF i0, n
    <3> QED BY <1>1, <2>1, <2>3, <3>1, MedianIsScore
  <2>5. \E i, j \in i0..n :
           i # j /\ s[i].score >= Median(s, i0, n) /\ s[j].score >= Median(s, i0, n)
    <3> HIDE DEF i0, n
    <3> QED BY <2>1, <2>3, TwoReachMedian
  <2>6. Recent(s) = Median(s, i0, n) BY DEF Recent
  <2>7. Recent(s) \in Nat BY <2>4, <2>6
  <2> QED BY <2>5, <2>6, <2>7
<1>4. Baseline(s) \in Nat
      /\ Cardinality({k \in 1..minSamples : s[k].score <= Baseline(s)}) >= 3
  <2>1. PICK h \in Nat, b \in Int, t \in Int : h = 2 /\ b = 1 /\ t = 5 /\ t - b = 2 * h
    <3>1. 2 \in Nat /\ 1 \in Int /\ 5 \in Int /\ 5 - 1 = 2 * 2 OBVIOUS
    <3> QED BY <3>1
  <2>2. \A k \in b..t : s[k].score \in Nat BY <1>1, <1>2, <2>1
  <2>3. /\ \E k \in b..t : Median(s, b, t) = s[k].score
        /\ Cardinality({k \in b..t : s[k].score < Median(s, b, t)}) <= h
        /\ h < Cardinality({k \in b..t : s[k].score <= Median(s, b, t)})
    <3>1. t - b = 2 * h BY <2>1
    <3> QED BY <2>2, <3>1, MedianSplits
  <2>4. b = 1 /\ t = minSamples /\ Baseline(s) = Median(s, b, t)
    BY <2>1 DEF Baseline, minSamples
  <2>5. Cardinality({k \in b..t : s[k].score <= Median(s, b, t)}) \in Nat BY PartFinite
  <2>6. Baseline(s) \in Nat BY <2>2, <2>3, <2>4
  <2>7. Cardinality({k \in b..t : s[k].score <= Median(s, b, t)}) >= 3
    BY <2>1, <2>3, <2>5
  <2> QED BY <2>4, <2>6, <2>7
<1>5. ASSUME n >= 6
      PROVE  Prior(s) \in Nat /\ \E i, j \in (n - 5)..(n - 3) :
                i # j /\ s[i].score <= Prior(s) /\ s[j].score <= Prior(s)
  <2> DEFINE i0 == n - 5
             j0 == n - 3
  <2>1. i0 \in Int /\ j0 \in Int /\ i0 + 2 = j0 /\ j0 - i0 = 2 * 1 BY <1>1
  <2>2. \A k \in i0..j0 : k \in 1..n BY <1>1, <1>5
  <2>3. \A k \in i0..j0 : s[k].score \in Nat BY <1>2, <2>2
  <2>4. Median(s, i0, j0) \in Nat
    <3>1. PICK h \in Nat : j0 - i0 = 2 * h BY <2>1
    <3> HIDE DEF i0, j0
    <3> QED BY <2>1, <2>3, <3>1, MedianIsScore
  <2>5. \E i, j \in i0..j0 :
           i # j /\ s[i].score <= Median(s, i0, j0) /\ s[j].score <= Median(s, i0, j0)
    <3> HIDE DEF i0, j0
    <3> QED BY <2>1, <2>3, TwoReachMedian
  <2>6. Prior(s) = Median(s, i0, j0) BY <1>5 DEF Prior
  <2>7. Prior(s) \in Nat BY <2>4, <2>6
  <2> QED BY <2>5, <2>6, <2>7
<1>6. Prior(s) \in Nat BY <1>1, <1>4, <1>5 DEF Prior
<1> QED BY <1>3, <1>4, <1>5, <1>6

LEMMA FireGates ==
    ASSUME SamplesOK, [NextSample]_trigger, Fires
    PROVE  /\ samples' \in Seq(Scored)
           /\ Len(samples') >= minSamples /\ Gates(samples')
<1>1. SamplesOK' BY SamplesStep
<1>2. ~fired /\ fired' /\ fired # fired' BY DEF Fires, SamplesOK
<1>3. PICK gap \in Gaps, score \in Scores : Sample(gap, score)
  BY <1>2 DEF NextSample, trigger
<1>4. Evaluate(samples') BY <1>2, <1>3 DEF Sample
<1> QED BY <1>1, <1>4 DEF Evaluate, SamplesOK

\* The medians of a sequence are bounded by what most of a window is.
LEMMA MediansBounded ==
    ASSUME NEW s \in Seq(Scored), Len(s) >= minSamples + 1, NEW v \in Nat, NEW w \in Nat,
           NEW L \in SUBSET (1..minSamples), Cardinality(L) >= 3,
           \A k \in L : s[k].score <= v,
           NEW M \in SUBSET ((Len(s) - 5)..(Len(s) - 3)), Cardinality(M) >= 2,
           \A k \in M : s[k].score <= w,
           NEW B \in SUBSET ((Len(s) - 2)..Len(s)), Cardinality(B) >= 2
    PROVE  Baseline(s) <= v /\ Prior(s) <= w /\ \E k \in B : s[k].score <= Recent(s)
<1> DEFINE n == Len(s)
<1>1. n \in Nat /\ n >= 6 BY DEF minSamples
<1>2. \A k \in 1..n : s[k].score \in Nat BY ScoresOf
<1>3. Recent(s) \in Nat /\ Baseline(s) \in Nat /\ Prior(s) \in Nat
  <2>1. n >= minSamples BY <1>1 DEF minSamples
  <2> QED BY <2>1, Medians
<1>4. ASSUME NEW i \in 1..n, NEW j \in 1..n, NEW h \in Nat, j - i = 2 * h,
             NEW A \in SUBSET (i..j), Cardinality(A) > h
      PROVE  /\ \E k \in A : s[k].score >= Median(s, i, j)
             /\ \E k \in A : s[k].score <= Median(s, i, j)
  <2>1. \A k \in i..j : s[k].score \in Nat BY <1>2
  <2>2. j = i + 2 * h /\ i \in Int BY <1>4
  <2> HIDE DEF n
  <2> QED BY <1>4, <2>1, <2>2, MostUpToMedian
<1>5. Baseline(s) <= v
  <2>1. 1 \in 1..n /\ minSamples \in 1..n BY <1>1 DEF minSamples
  <2>2. PICK i \in 1..n, j \in 1..n, h \in Nat : i = 1 /\ j = minSamples /\ h = 2
    BY <2>1
  <2>3. j - i = 2 * h BY <2>2 DEF minSamples
  <2>4. L \in SUBSET (i..j) BY <2>2
  <2>5. Cardinality(L) > h
    <3>1. Cardinality(L) \in Nat
      <4>1. i \in Int /\ j \in Int OBVIOUS
      <4> QED BY <2>4, <4>1, PartFinite
    <3> HIDE DEF n
    <3> QED BY <2>2, <3>1
  <2>6. \E k \in L : s[k].score >= Median(s, i, j)
    <3> HIDE DEF n
    <3> QED BY <1>4, <2>3, <2>4, <2>5
  <2>7. Baseline(s) = Median(s, i, j) BY <2>2 DEF Baseline
  <2>8. PICK k \in L : s[k].score >= Baseline(s) BY <2>6, <2>7
  <2>9. s[k].score \in Nat /\ s[k].score <= v BY <1>1, <1>2 DEF minSamples
  <2> QED BY <1>3, <2>8, <2>9
<1>6. Prior(s) <= w
  <2>1. n - 5 \in 1..n /\ n - 3 \in 1..n BY <1>1
  <2>2. PICK i \in 1..n, j \in 1..n, h \in Nat : i = n - 5 /\ j = n - 3 /\ h = 1
    BY <2>1
  <2>3. j - i = 2 * h BY <1>1, <2>2
  <2>4. M \in SUBSET (i..j) BY <2>2
  <2>5. Cardinality(M) > h
    <3>1. Cardinality(M) \in Nat
      <4>1. i \in Int /\ j \in Int OBVIOUS
      <4> QED BY <2>4, <4>1, PartFinite
    <3> HIDE DEF n
    <3> QED BY <2>2, <3>1
  <2>6. \E k \in M : s[k].score >= Median(s, i, j)
    <3> HIDE DEF n
    <3> QED BY <1>4, <2>3, <2>4, <2>5
  <2>7. Prior(s) = Median(s, i, j) BY <1>1, <2>2 DEF Prior
  <2>8. PICK k \in M : s[k].score >= Prior(s) BY <2>6, <2>7
  <2>9. s[k].score \in Nat /\ s[k].score <= w BY <1>1, <1>2
  <2> QED BY <1>3, <2>8, <2>9
<1>7. \E k \in B : s[k].score <= Recent(s)
  <2>1. n - 2 \in 1..n /\ n \in 1..n BY <1>1
  <2>2. PICK i \in 1..n, j \in 1..n, h \in Nat : i = n - 2 /\ j = n /\ h = 1
    BY <2>1
  <2>3. j - i = 2 * h BY <1>1, <2>2
  <2>4. B \in SUBSET (i..j) BY <2>2
  <2>5. Cardinality(B) > h
    <3>1. Cardinality(B) \in Nat
      <4>1. i \in Int /\ j \in Int OBVIOUS
      <4> QED BY <2>4, <4>1, PartFinite
    <3> HIDE DEF n
    <3> QED BY <2>2, <3>1
  <2>6. \E k \in B : s[k].score <= Median(s, i, j)
    <3> HIDE DEF n
    <3> QED BY <1>4, <2>3, <2>4, <2>5
  <2>7. Recent(s) = Median(s, i, j) BY <2>2 DEF Recent
  <2> QED BY <2>6, <2>7
<1> QED BY <1>5, <1>6, <1>7

LEMMA TimesMonotone ==
    ASSUME NEW a \in Nat, NEW b \in Nat, NEW c \in Nat, a <= b
    PROVE  a * c <= b * c
<1>1. PICK d \in Nat : b = a + d BY b - a \in Nat
<1>2. b * c = a * c + d * c BY <1>1
<1>3. a * c \in Nat /\ d * c \in Nat OBVIOUS
<1> QED BY <1>2, <1>3

-----------------------------------------------------------------------------
(* When a GO fires *)

\* What the gates ask of the medians, the counts pass on to the samples.
LEMMA GatesConcur ==
    ASSUME NEW s \in Seq(Scored), Len(s) >= minSamples, Gates(s)
    PROVE  \E i, j \in (Len(s) - 2)..Len(s) :
               /\ i # j
               /\ s[i].score >= ThresholdAbs /\ s[j].score >= ThresholdAbs
               /\ \A k \in {i, j} :
                      Cardinality({m \in 1..minSamples :
                                       s[m].score + DeltaAbs <= s[k].score}) >= 3
<1> DEFINE n == Len(s)
           sc(k) == s[k].score
<1>1. n \in Nat /\ n >= 5 BY DEF minSamples
<1>2. \A k \in 1..n : sc(k) \in Nat BY ScoresOf
<1>3. PICK r \in Nat, b \in Nat : r = Recent(s) /\ b = Baseline(s) BY Medians
<1>4. PICK i \in (n - 2)..n, j \in (n - 2)..n : i # j /\ sc(i) >= r /\ sc(j) >= r
  BY <1>3, Medians
<1>5. Cardinality({m \in 1..minSamples : sc(m) <= b}) >= 3 BY <1>3, Medians
<1>6. r >= ThresholdAbs /\ r - b >= DeltaAbs BY <1>3 DEF Gates
<1>7. ThresholdAbs \in Nat /\ DeltaAbs \in Nat BY ParamAssumption
<1>8. i \in 1..n /\ j \in 1..n BY <1>1
<1>9. sc(i) >= ThresholdAbs /\ sc(j) >= ThresholdAbs
  <2> HIDE DEF sc, n
  <2> QED BY <1>2, <1>4, <1>6, <1>7, <1>8
<1>10. ASSUME NEW k \in {i, j}
       PROVE  Cardinality({m \in 1..minSamples : sc(m) + DeltaAbs <= sc(k)}) >= 3
  <2> DEFINE U == {m \in 1..minSamples : sc(m) + DeltaAbs <= sc(k)}
             Low == {m \in 1..minSamples : sc(m) <= b}
  <2>1. ASSUME NEW m \in 1..minSamples, sc(m) <= b PROVE sc(m) + DeltaAbs <= sc(k)
    <3>1. sc(m) \in Nat BY <1>1, <1>2 DEF minSamples
    <3>2. sc(k) \in Nat /\ sc(k) >= r BY <1>2, <1>4, <1>8
    <3> HIDE DEF sc
    <3> QED BY <1>6, <1>7, <2>1, <3>1, <3>2
  <2>2. Low \in SUBSET U /\ U \in SUBSET (1..minSamples) BY <2>1
  <2>3. 1 \in Int /\ minSamples \in Int BY DEF minSamples
  <2>4. Cardinality(Low) <= Cardinality(U) /\ Cardinality(Low) \in Nat /\ Cardinality(U) \in Nat
    <3>1. Low \in SUBSET (1..minSamples) OBVIOUS
    <3> HIDE DEF Low, U
    <3> QED BY <2>2, <2>3, <3>1, PartWithin, PartFinite
  <2>5. Cardinality(Low) >= 3 BY <1>5
  <2>6. Cardinality(U) >= 3
    <3> HIDE DEF Low, U
    <3> QED BY <2>4, <2>5
  <2> QED BY <2>6
<1> QED BY <1>4, <1>9, <1>10

\* A GO needs two frames: whatever the scores, at every fire of Evaluate two of
\* the last three samples reach the threshold and lie DeltaAbs above three of
\* the first five, so one outlier cannot fire it.
THEOREM OutliersIgnored == TriggerSpec => NoOutlierFires
<1> DEFINE Concur(s) ==
        LET n == Len(s)
        IN  \E i, j \in (n - 2)..n :
                /\ i # j
                /\ s[i].score >= ThresholdAbs /\ s[j].score >= ThresholdAbs
                /\ \A k \in {i, j} :
                       LET under(v) == v + DeltaAbs <= s[k].score
                       IN  Count(s, 1, minSamples, under) >= 3
<1>1. ASSUME SamplesOK, [NextSample]_trigger, Fires PROVE Concur(samples')
  <2>1. PICK s : s = samples' OBVIOUS
  <2>2. s \in Seq(Scored) /\ Len(s) >= minSamples /\ Gates(s) BY <1>1, <2>1, FireGates
  <2>3. Concur(s) BY <2>2, GatesConcur DEF Count
  <2> HIDE DEF Concur
  <2> QED BY <2>1, <2>3
<1>2. SamplesOK /\ [NextSample]_trigger => [Fires => Concur(samples')]_trigger BY <1>1
<1> QED BY <1>2, SamplesCorrect, PTL DEF TriggerSpec, NoOutlierFires

\* A GO needs a rising sky: at every fire two of the last three samples lie
\* RiseDelta above two of the three before them (Evaluate compares the medians
\* of the recent and the prior window).
THEOREM RiseNeeded == TriggerSpec => StillRising
<1> DEFINE Rising(s) ==
        LET n == Len(s)
        IN  n >= 6 =>
              \E i, j \in (n - 2)..n, k, l \in (n - 5)..(n - 3) :
                  /\ i # j /\ k # l
                  /\ \A hi \in {i, j}, lo \in {k, l} : s[hi].score >= s[lo].score + RiseDelta
<1>1. ASSUME SamplesOK, [NextSample]_trigger, Fires PROVE Rising(samples')
  <2>1. PICK s : s = samples' OBVIOUS
  <2>2. s \in Seq(Scored) /\ Len(s) >= minSamples /\ Gates(s) BY <1>1, <2>1, FireGates
  <2>3. ASSUME Len(s) >= 6
        PROVE  \E i, j \in (Len(s) - 2)..Len(s), k, l \in (Len(s) - 5)..(Len(s) - 3) :
                  /\ i # j /\ k # l
                  /\ \A hi \in {i, j}, lo \in {k, l} : s[hi].score >= s[lo].score + RiseDelta
    <3> DEFINE n == Len(s)
               sc(k) == s[k].score
    <3>1. n \in Nat /\ n >= 6 BY <2>2, <2>3
    <3>2. \A k \in 1..n : sc(k) \in Nat BY <2>2, ScoresOf
    <3>3. PICK r \in Nat, p \in Nat : r = Recent(s) /\ p = Prior(s) BY <2>2, Medians
    <3>4. PICK i \in (n - 2)..n, j \in (n - 2)..n : i # j /\ sc(i) >= r /\ sc(j) >= r
      BY <2>2, <3>3, Medians
    <3>5. PICK k \in (n - 5)..(n - 3), l \in (n - 5)..(n - 3) :
              k # l /\ sc(k) <= p /\ sc(l) <= p
      BY <2>2, <2>3, <3>3, Medians
    <3>6. r - p >= RiseDelta BY <2>2, <3>3 DEF Gates
    <3>7. RiseDelta \in Nat BY ParamAssumption
    <3>8. ASSUME NEW hi \in {i, j}, NEW lo \in {k, l} PROVE sc(hi) >= sc(lo) + RiseDelta
      <4>1. hi \in 1..n /\ lo \in 1..n BY <3>1
      <4>2. sc(hi) \in Nat /\ sc(lo) \in Nat /\ sc(hi) >= r /\ sc(lo) <= p
        BY <3>2, <3>4, <3>5, <4>1
      <4> HIDE DEF sc, n
      <4> QED BY <3>6, <3>7, <4>2
    <3> QED BY <3>4, <3>5, <3>8
  <2>4. Rising(s) BY <2>3
  <2> QED BY <2>1, <2>4
<1>2. SamplesOK /\ [NextSample]_trigger => [Fires => Rising(samples')]_trigger BY <1>1
<1> QED BY <1>2, SamplesCorrect, PTL DEF TriggerSpec, StillRising

\* The medians pass the gates when most of each window lies on its side of them.
LEMMA MostPassGates ==
    ASSUME NEW s \in Seq(Scored), Len(s) >= minSamples + 1, NEW v \in Scores, NEW w \in Scores,
           Cardinality({k \in 1..minSamples : s[k].score <= v}) >= 3,
           Cardinality({k \in (Len(s) - 5)..(Len(s) - 3) : s[k].score <= w}) >= 2,
           Cardinality({k \in (Len(s) - 2)..Len(s) :
               /\ s[k].score >= ThresholdAbs
               /\ s[k].score * RatioDen >= v * RatioNum /\ s[k].score >= v + DeltaAbs
               /\ s[k].score >= w + RiseDelta}) >= 2
    PROVE  Gates(s)
<1> DEFINE n == Len(s)
           L == {k \in 1..minSamples : s[k].score <= v}
           M == {k \in (n - 5)..(n - 3) : s[k].score <= w}
           B == {k \in (n - 2)..n :
                   /\ s[k].score >= ThresholdAbs
                   /\ s[k].score * RatioDen >= v * RatioNum /\ s[k].score >= v + DeltaAbs
                   /\ s[k].score >= w + RiseDelta}
<1>1. n \in Nat /\ n >= 6 BY DEF minSamples
<1>2. v \in Nat /\ w \in Nat BY ScoreAssumption
<1>3. Baseline(s) <= v /\ Prior(s) <= w /\ \E k \in B : s[k].score <= Recent(s)
  <2>1. /\ L \in SUBSET (1..minSamples) /\ Cardinality(L) >= 3 /\ \A k \in L : s[k].score <= v
        /\ M \in SUBSET ((n - 5)..(n - 3)) /\ Cardinality(M) >= 2 /\ \A k \in M : s[k].score <= w
        /\ B \in SUBSET ((n - 2)..n) /\ Cardinality(B) >= 2
    OBVIOUS
  <2> HIDE DEF L, M, B
  <2> QED BY <1>2, <2>1, MediansBounded
<1>4. PICK r \in Nat, b \in Nat, p \in Nat : r = Recent(s) /\ b = Baseline(s) /\ p = Prior(s)
  <2>1. n >= minSamples BY <1>1 DEF minSamples
  <2> QED BY <2>1, Medians
<1>5. PICK k \in B : s[k].score <= r BY <1>3, <1>4
<1>6. PICK x \in Nat : /\ x = s[k].score /\ x <= r /\ x >= ThresholdAbs
                       /\ x * RatioDen >= v * RatioNum
                       /\ x >= v + DeltaAbs /\ x >= w + RiseDelta
  <2>1. k \in 1..n BY <1>1
  <2>2. s[k].score \in Nat BY <2>1, ScoresOf
  <2> QED BY <1>5, <2>2
<1>7. b <= v /\ p <= w BY <1>3, <1>4
<1>8. /\ ThresholdAbs \in Nat /\ DeltaAbs \in Nat /\ RiseDelta \in Nat
      /\ RatioNum \in Nat /\ RatioDen \in Nat
  BY ParamAssumption
<1>9. x * RatioDen <= r * RatioDen /\ b * RatioNum <= v * RatioNum
  BY <1>2, <1>6, <1>7, <1>8, TimesMonotone
<1>10. r * RatioDen >= b * RatioNum
  <2>1. PICK a1 \in Nat, a2 \in Nat, a3 \in Nat, a4 \in Nat :
            /\ a1 = x * RatioDen /\ a2 = r * RatioDen
            /\ a3 = b * RatioNum /\ a4 = v * RatioNum
    BY <1>2, <1>8
  <2>2. a1 <= a2 /\ a3 <= a4 /\ a1 >= a4 BY <1>6, <1>9, <2>1
  <2>3. a2 >= a3 BY <2>2
  <2> QED BY <2>1, <2>3
<1>11. r >= ThresholdAbs /\ r - b >= DeltaAbs /\ r - p >= RiseDelta
  BY <1>2, <1>6, <1>7, <1>8
<1> QED BY <1>4, <1>10, <1>11 DEF Gates

\* A real sunset fires: samples no more than two intervals apart whose last
\* three, prior three and first five lie apart as the gates ask in their
\* majorities leave the trigger fired, whatever the others are.
THEOREM BrightSkyFires == TriggerSpec => SunsetFires
<1> DEFINE Sunset(s) ==
       LET n == Len(s)
           Above(v, w, x) == /\ x >= ThresholdAbs
                             /\ x * RatioDen >= v * RatioNum /\ x >= v + DeltaAbs
                             /\ x >= w + RiseDelta
       IN  /\ n >= minSamples + 1
           /\ \A i \in (n - 2)..n : s[i].t - s[i - 1].t <= 2 * Interval
           /\ \E v, w \in Scores :
                 LET low(x) == x <= v
                     before(x) == x <= w
                     bright(x) == Above(v, w, x)
                 IN  /\ Count(s, 1, minSamples, low) >= 3
                     /\ Count(s, n - 5, n - 3, before) >= 2
                     /\ Count(s, n - 2, n, bright) >= 2
<1>1. ASSUME NEW s \in Seq(Scored), Sunset(s) PROVE Len(s) >= minSamples + 1 /\ GapsShort(s) /\ Gates(s)
  <2>1. Len(s) >= minSamples + 1 BY <1>1
  <2>2. GapsShort(s)
    <3>1. Len(s) \in Nat OBVIOUS
    <3>2. \A i \in (Len(s) - 2)..Len(s) : s[i].t - s[i - 1].t <= 2 * Interval BY <1>1
    <3> HIDE DEF Sunset
    <3> QED BY <3>1, <3>2 DEF GapsShort
  <2>3. PICK v \in Scores, w \in Scores :
            /\ Cardinality({k \in 1..minSamples : s[k].score <= v}) >= 3
            /\ Cardinality({k \in (Len(s) - 5)..(Len(s) - 3) : s[k].score <= w}) >= 2
            /\ Cardinality({k \in (Len(s) - 2)..Len(s) :
                 /\ s[k].score >= ThresholdAbs
                 /\ s[k].score * RatioDen >= v * RatioNum /\ s[k].score >= v + DeltaAbs
                 /\ s[k].score >= w + RiseDelta}) >= 2
    BY <1>1 DEF Count
  <2> HIDE DEF Sunset
  <2>4. Gates(s) BY <2>1, <2>3, MostPassGates
  <2> QED BY <2>1, <2>2, <2>4
<1>2. ASSUME SamplesOK, [NextSample]_trigger, ~UNCHANGED trigger, Sunset(samples') PROVE fired'
  <2>1. SamplesOK' BY <1>2, SamplesStep
  <2>2. PICK s : s = samples' OBVIOUS
  <2>3. s \in Seq(Scored) BY <2>1, <2>2 DEF SamplesOK
  <2> HIDE DEF Sunset
  <2>4. Len(s) >= minSamples + 1 /\ GapsShort(s) /\ Gates(s) BY <1>1, <1>2, <2>2, <2>3
  <2>5. PICK gap \in Gaps, score \in Scores : Sample(gap, score) BY <1>2 DEF NextSample
  <2>6. fired' = (fired \/ Evaluate(s)) BY <2>2, <2>5 DEF Sample
  <2>7. Len(s) >= minSamples BY <2>3, <2>4 DEF minSamples
  <2> QED BY <2>4, <2>6, <2>7 DEF Evaluate
<1>3. SamplesOK /\ [NextSample]_trigger => [Sunset(samples') => fired']_trigger
  <2> HIDE DEF Sunset
  <2> QED BY <1>2
<1> QED BY <1>3, SamplesCorrect, PTL DEF TriggerSpec, SunsetFires
=============================================================================
