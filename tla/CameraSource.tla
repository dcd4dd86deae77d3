---------------------------- MODULE CameraSource ----------------------------
(***************************************************************************)
(* Fetching stills politely: the limiter of each camera source, shared by  *)
(* the capture loop and the admin's previews, and the back-off and 404     *)
(* counters of the NYCTMC adapter, which are keyed by camera id so that    *)
(* sources built for one id share them (every preview of the DOT map has   *)
(* the id "dot-preview"). Time passes in steps of a few seconds; what is   *)
(* due (a sleep that is over, a request at its timeout, a free lock with a *)
(* caller in line) happens before time goes on. All of this state is lost  *)
(* with the process, so one life of the process is modelled.               *)
(***************************************************************************)
EXTENDS Integers

CONSTANTS
    Callers,        \* the capture loop and the preview requests
    Sources,        \* source instances, each with a Limiter
    IdOf,           \* the camera id a source was built with
    MinGap,         \* MinInterval: 15 s
    Timeout,        \* of the HTTP client: 10 s
    Base, Cap,      \* nextBackoff: 30 s and 8 min
    LastStart, MaxFetches,  \* bounds: latest start and number of Fetch calls,
    Horizon                 \* and a time by which the last of them has ended

ASSUME TimeAssumption == /\ MinGap \in Nat /\ Timeout \in Nat /\ Timeout < MinGap
                         /\ Base \in Nat \ {0} /\ Cap \in Nat /\ Base <= Cap
ASSUME NameAssumption == "none" \notin Callers \cup Sources
ASSUME BoundAssumption == LastStart \in Nat /\ MaxFetches \in Nat /\ Horizon \in Nat

Ids    == {IdOf[s] : s \in Sources}
Places == {"idle", "queue", "sleep", "sent"}

VARIABLES
    now,            \* the clock
    last, holder,   \* Limiter.last and who holds Limiter.mu, by source
    place,          \* where a caller is in Fetch
    src,            \* the source it fetches from
    asked,          \* the time it passed to Wait, read before the lock
    wake,           \* when its sleep under the lock ends, then when it sent
    until, since,   \* backoffUntil by id (0 where absent), and when it was set
    misses,         \* notFound, by id
    sentAt,         \* history: when a source last sent a request
    fetches         \* Fetch calls so far

limiter == <<last, holder>>
calls   == <<place, src, asked, wake>>
backoff == <<until, since, misses>>
vars    == <<now, limiter, calls, backoff, sentAt, fetches>>

-----------------------------------------------------------------------------
(* Fetch up to the request *)

\* Up to the limiter's mutex, with a reading of the clock.
InLine(c, s) ==
    /\ place[c] = "idle" /\ fetches < MaxFetches /\ now <= LastStart
    /\ fetches' = fetches + 1
    /\ place' = [place EXCEPT ![c] = "queue"]
    /\ src' = [src EXCEPT ![c] = s]
    /\ asked' = [asked EXCEPT ![c] = now]
    /\ UNCHANGED <<now, limiter, wake, backoff, sentAt>>

\* Faulty: the request goes out whatever was answered before.
BeginUnchecked(c, s) == InLine(c, s)

\* A call that the back-off does not refuse; a refused one changes nothing.
Begin(c, s) == now >= until[IdOf[s]] /\ InLine(c, s)

\* Wait takes the mutex and sleeps under it.
SleepUntil(c, t) ==
    /\ place[c] = "queue" /\ holder[src[c]] = "none"
    /\ holder' = [holder EXCEPT ![src[c]] = c]
    /\ place' = [place EXCEPT ![c] = "sleep"]
    /\ wake' = [wake EXCEPT ![c] = t]
    /\ UNCHANGED <<now, last, src, asked, backoff, sentAt, fetches>>

\* The length of the sleep is measured from the caller's own reading of the
\* clock, which is old when the caller stood in line.
Lock(c) ==
    LET next == last[src[c]] + MinGap
    IN  SleepUntil(c, IF asked[c] < next THEN now + (next - asked[c]) ELSE now)

\* The sleep is over: the limiter notes a time and the request is sent.
Send(c, t) ==
    /\ place[c] = "sleep" /\ now >= wake[c]
    /\ last' = [last EXCEPT ![src[c]] = t]
    /\ holder' = [holder EXCEPT ![src[c]] = "none"]
    /\ place' = [place EXCEPT ![c] = "sent"]
    /\ wake' = [wake EXCEPT ![c] = now]
    /\ sentAt' = [sentAt EXCEPT ![src[c]] = now]
    /\ UNCHANGED <<now, src, asked, backoff, fetches>>

\* Faulty: notes the caller's old reading of the clock.
LeaveStale(c) == Send(c, asked[c])

Leave(c) == Send(c, now)

\* Fetch returns and its locals are gone.
Done(c) == /\ place' = [place EXCEPT ![c] = "idle"]
           /\ src' = [src EXCEPT ![c] = "none"]
           /\ asked' = [asked EXCEPT ![c] = 0] /\ wake' = [wake EXCEPT ![c] = 0]

\* Faulty: returns with the mutex held.
CancelLocked(c) ==
    /\ place[c] = "sleep" /\ Done(c)
    /\ UNCHANGED <<now, limiter, backoff, sentAt, fetches>>

\* The caller's context ends during the sleep.
Cancel(c) ==
    /\ place[c] = "sleep"
    /\ holder' = [holder EXCEPT ![src[c]] = "none"]
    /\ Done(c)
    /\ UNCHANGED <<now, last, backoff, sentAt, fetches>>

-----------------------------------------------------------------------------
(* The answer *)

Return(c) ==
    /\ place[c] = "sent"
    /\ Done(c)
    /\ UNCHANGED <<now, limiter, sentAt, fetches>>

\* 200 with a decodable JPEG.
Frame(c) ==
    /\ Return(c)
    /\ until' = [until EXCEPT ![IdOf[src[c]]] = 0]
    /\ misses' = [misses EXCEPT ![IdOf[src[c]]] = 0]
    /\ since' = [since EXCEPT ![IdOf[src[c]]] = 0]

\* nextBackoff
NextBackoff(remaining) ==
    IF remaining <= 0 THEN Base ELSE IF 2 * remaining > Cap THEN Cap ELSE 2 * remaining

\* 403 or 429: what is left of the present back-off is doubled.
Limited(c) ==
    LET id == IdOf[src[c]]
    IN  /\ Return(c)
        /\ until' = [until EXCEPT ![id] = now + NextBackoff(until[id] - now)]
        /\ since' = [since EXCEPT ![id] = now]
        /\ UNCHANGED misses

\* 404: ErrStale from the second on, which nothing in src/ looks at.
Missing(c) ==
    /\ Return(c)
    /\ misses' = [misses EXCEPT ![IdOf[src[c]]] = @ + 1]
    /\ UNCHANGED <<until, since>>

\* Another status, a bad body, a network error, the client's timeout or the
\* end of the caller's context.
Failed(c) == Return(c) /\ UNCHANGED backoff

-----------------------------------------------------------------------------
Due(c) == \/ place[c] = "queue" /\ holder[src[c]] = "none"
          \/ place[c] = "sleep" /\ now >= wake[c]
          \/ place[c] = "sent"  /\ now >= wake[c] + Timeout

Tick == /\ \A c \in Callers : ~Due(c)
        /\ now < Horizon
        /\ now' = now + 1
        /\ UNCHANGED <<limiter, calls, backoff, sentAt, fetches>>

Init ==
    /\ now = 0
    /\ last = [s \in Sources |-> -MinGap] /\ holder = [s \in Sources |-> "none"]
    /\ place = [c \in Callers |-> "idle"] /\ src = [c \in Callers |-> "none"]
    /\ asked = [c \in Callers |-> 0] /\ wake = [c \in Callers |-> 0]
    /\ until = [i \in Ids |-> 0] /\ since = [i \in Ids |-> 0]
    /\ misses = [i \in Ids |-> 0] /\ sentAt = last
    /\ fetches = 0

Step(c) == Lock(c) \/ Leave(c) \/ Frame(c) \/ Limited(c) \/ Missing(c) \/ Failed(c)

Next == \/ Tick
        \/ \E c \in Callers : \/ \E s \in Sources : Begin(c, s)
                              \/ Step(c) \/ Cancel(c)

\* Time passes, a free mutex is given to each caller in line in the end (Go's
\* mutex hands over after a millisecond), sleeps end and every request ends
\* with its timeout at the latest.
Fairness == WF_vars(Tick) /\ \A c \in Callers : WF_vars(Leave(c)) /\ WF_vars(Failed(c))
                                                /\ SF_vars(Lock(c))
Spec == Init /\ [][Next]_vars /\ Fairness

-----------------------------------------------------------------------------
(* Properties *)

\* The types; a caller within Fetch has a source.
TypeOK ==
    /\ now \in Nat /\ fetches \in 0..MaxFetches
    /\ last \in [Sources -> Int] /\ sentAt \in [Sources -> Int]
    /\ holder \in [Sources -> Callers \cup {"none"}]
    /\ place \in [Callers -> Places] /\ src \in [Callers -> Sources \cup {"none"}]
    /\ \A c \in Callers : place[c] # "idle" => src[c] \in Sources
    /\ asked \in [Callers -> Nat] /\ wake \in [Callers -> Int]
    /\ until \in [Ids -> Nat] /\ since \in [Ids -> Nat] /\ misses \in [Ids -> Nat]

\* Previews cannot bypass politeness: however the capture loop and the
\* previews queue, give up or hold old readings of the clock, two requests of
\* one source leave at least its minimum interval apart.
RequestsSpaced ==
    [][\A c \in Callers : place[c] # "sent" /\ place'[c] = "sent"
                             => now >= sentAt[src[c]] + MinGap]_vars

\* The check of the back-off and the request are apart by the wait in line.
\* A request that leaves during a back-off was asked for before the answer
\* that set it: no call begun in a back-off reaches the camera, whichever of
\* the sources of that id it goes through.
BackoffHeld ==
    [][\A c \in Callers :
         /\ place[c] = "sleep" /\ place'[c] = "sent"
         /\ now < until[IdOf[src[c]]]
         => asked[c] <= since[IdOf[src[c]]]]_vars

\* Every Fetch returns: no caller is left in line behind a limiter whose
\* holder has gone, whoever cancels.
FetchReturns == \A c \in Callers : place[c] # "idle" ~> place[c] = "idle"

=============================================================================
