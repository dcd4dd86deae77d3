---------------------------- MODULE AdminConfig ----------------------------
(***************************************************************************)
(* The documents the admin pages edit: the list of notifiers, the runtime  *)
(* settings, a camera's row and the admin password (webadmin/admin.go,     *)
(* store/store.go).  No handler changes a part of a document in place: it  *)
(* reads the whole, puts its form over it, writes the whole back, and for  *)
(* the notifiers and the password then tells the running service, which    *)
(* keeps a copy of its own.  net/http runs the handlers of concurrent      *)
(* requests side by side, and nothing locks a document between those steps.*)
(*                                                                         *)
(* A document is a function from its parts (notifier ids, settings fields, *)
(* columns) to values, None where it has no such part; a document that is  *)
(* not stored, or a camera deleted, has none at all.  For the password,    *)
(* None is the one the environment set.                                    *)
(***************************************************************************)
EXTENDS Naturals

CONSTANTS
    Handlers,       \* requests served at a time
    Parts,          \* the parts of each document
    Values, None,
    First,          \* the documents as they are installed
    Yaml,           \* the notifiers of the static configuration
    MaxEdits,       \* bound: requests that reach a handler
    MaxFaults,      \* bound: store calls that fail
    MaxRestarts     \* bound: restarts of the process

Docs     == {"notifiers", "settings", "camera", "admin_pw"}
Bound    == {"notifiers", "admin_pw"}    \* documents the service has a copy of
Document(d) == [Parts[d] -> Values \cup {None}]
NoDoc(d)    == [e \in Parts[d] |-> None]
AnyDoc      == UNION {Document(d) : d \in Docs}

ASSUME DocumentsAssumption ==
    /\ Yaml \in Document("notifiers")
    /\ First \in [Docs -> AnyDoc] /\ \A d \in Docs : First[d] \in Document(d)
ASSUME BoundsAssumption ==
    MaxEdits \in Nat /\ MaxFaults \in Nat /\ MaxRestarts \in Nat

VARIABLES
    stored,         \* the documents in the database
    live,           \* the service's copies: Alerts.Notifiers, Auth.Verify
    pc, doc, form,  \* of each handler: its next step, its document, its form
    copy,           \* and the document as it holds it
    edits, faults, restarts,
    \* History: the documents whose last change was made by a handler that
    \* met no other one and no failure; of each handler, whether it is such
    \* a one so far, and the parts others have stored since it read.
    settled, alone, missed

request == <<doc, form>>
budget  == <<edits, faults, restarts>>
history == <<settled, alone, missed>>
vars    == <<stored, live, pc, request, copy, budget, history>>

\* What a form may carry: one notifier, which it sets or deletes; some of the
\* fields, some of the columns or the whole camera's deletion; a password.
Forms(d) ==
    CASE d = "notifiers" -> UNION {[{e} -> Values \cup {None}] : e \in Parts[d]}
      [] d = "settings"  -> UNION {[S -> Values] : S \in SUBSET Parts[d]}
      [] d = "camera"    -> {NoDoc(d)} \cup UNION {[S -> Values] : S \in SUBSET Parts[d]}
      [] d = "admin_pw"  -> [Parts[d] -> Values]

Deletes(h) == \A e \in DOMAIN form[h] : form[h][e] = None

\* Faulty: a field the form does not carry is cleared.
AppliedBare(f, old) == [e \in DOMAIN old |-> IF e \in DOMAIN f THEN f[e] ELSE None]

\* The form over what was read: a part it does not carry keeps its value.
Applied(f, old) == [e \in DOMAIN old |-> IF e \in DOMAIN f THEN f[e] ELSE old[e]]

\* The service's copies as it starts: stored notifiers replace the static ones.
Boot(s) ==
    [d \in Bound |-> IF d = "notifiers" /\ s[d] = NoDoc(d) THEN Yaml ELSE s[d]]

Init ==
    /\ stored = First /\ live = Boot(First)
    /\ pc = [h \in Handlers |-> "idle"]
    /\ doc = [h \in Handlers |-> "settings"]
    /\ form = [h \in Handlers |-> [e \in {} |-> None]]
    /\ copy = [h \in Handlers |-> NoDoc("settings")]
    /\ edits = 0 /\ faults = 0 /\ restarts = 0
    /\ settled = Docs
    /\ alone = [h \in Handlers |-> FALSE]
    /\ missed = [h \in Handlers |-> {}]

-----------------------------------------------------------------------------
(* A handler, from store call to store call *)

On(d) == {g \in Handlers : pc[g] # "idle" /\ doc[g] = d}

Fault == faults < MaxFaults /\ faults' = faults + 1

\* The guard let the request through to its handler.
Begin(h, d, f) ==
    /\ pc[h] = "idle" /\ edits < MaxEdits /\ edits' = edits + 1
    /\ pc' = [pc EXCEPT ![h] = "read"]
    /\ doc' = [doc EXCEPT ![h] = d] /\ form' = [form EXCEPT ![h] = f]
    /\ copy' = [copy EXCEPT ![h] = NoDoc(d)]
    /\ alone' = [g \in Handlers |-> IF g = h THEN On(d) = {}
                                    ELSE alone[g] /\ g \notin On(d)]
    /\ missed' = [missed EXCEPT ![h] = {}]
    /\ UNCHANGED <<stored, live, faults, restarts, settled>>

Read(h) ==
    /\ pc[h] = "read" /\ doc[h] # "admin_pw"
    /\ copy' = [copy EXCEPT ![h] = stored[doc[h]]]
    /\ pc' = [pc EXCEPT ![h] =
                IF doc[h] = "camera" /\ stored["camera"] = NoDoc("camera") /\ ~Deletes(h)
                THEN "idle" ELSE "write"]
    /\ UNCHANGED <<stored, live, request, budget, history>>

\* The notifiers' handlers drop the error of LoadNotifierDefs and go on
\* without the others; the settings' and the camera's answer with it.
ReadFails(h) ==
    /\ pc[h] = "read" /\ doc[h] # "admin_pw" /\ Fault
    /\ pc' = [pc EXCEPT ![h] = IF doc[h] = "notifiers" THEN "write" ELSE "idle"]
    /\ alone' = [alone EXCEPT ![h] = FALSE]
    /\ missed' = [missed EXCEPT ![h] = Parts[doc[h]]]
    /\ UNCHANGED <<stored, live, request, copy, edits, restarts, settled>>

\* passwordChange reads no document: it checks the current password.
Check(h) ==
    /\ pc[h] = "read" /\ doc[h] = "admin_pw"
    /\ \E next \in {"write", "idle"} : pc' = [pc EXCEPT ![h] = next]
    /\ UNCHANGED <<stored, live, request, copy, budget, history>>

\* Faulty: passwordChange leaves it to the next start to bind the new hash.
StepAfterUnhooked(d) == IF d = "notifiers" THEN "bind" ELSE "idle"

\* What follows the write: Reload with the handler's own list, HookAuth with
\* what it reads again, or the answer.
StepAfter(d) ==
    CASE d = "notifiers" -> "bind"
      [] d = "admin_pw" -> "reread"
      [] OTHER -> "idle"

\* UpdateCamera finds no row of a camera deleted meanwhile.
Written(h) ==
    IF doc[h] = "camera" /\ stored["camera"] = NoDoc("camera")
    THEN NoDoc("camera") ELSE Applied(form[h], copy[h])

Write(h) ==
    /\ pc[h] = "write"
    /\ stored' = [stored EXCEPT ![doc[h]] = Written(h)]
    /\ copy' = [copy EXCEPT ![h] = Written(h)]
    /\ pc' = [pc EXCEPT ![h] = StepAfter(doc[h])]
    /\ missed' = [g \in Handlers |->
                    IF g # h /\ doc[g] = doc[h] /\ pc[g] = "write"
                    THEN missed[g] \cup {e \in Parts[doc[h]] :
                                            Written(h)[e] # stored[doc[h]][e]}
                    ELSE missed[g]]
    /\ settled' = IF StepAfter(doc[h]) = "idle" /\ alone[h]
                  THEN settled \cup {doc[h]} ELSE settled \ {doc[h]}
    /\ UNCHANGED <<live, request, budget, alone>>

\* Answered with the error, but for notifierDelete, which reloads all the same.
WriteFails(h) ==
    /\ pc[h] = "write" /\ Fault
    /\ IF doc[h] = "notifiers" /\ Deletes(h)
       THEN /\ pc' = [pc EXCEPT ![h] = "bind"]
            /\ copy' = [copy EXCEPT ![h] = Applied(form[h], copy[h])]
            /\ settled' = settled \ {doc[h]}
       ELSE pc' = [pc EXCEPT ![h] = "idle"] /\ UNCHANGED <<copy, settled>>
    /\ alone' = [alone EXCEPT ![h] = FALSE]
    /\ UNCHANGED <<stored, live, request, edits, restarts, missed>>

\* HookAuth takes a hash it cannot read for none: the environment's password.
Reread(h) ==
    /\ pc[h] = "reread" /\ pc' = [pc EXCEPT ![h] = "bind"]
    /\ \/ /\ copy' = [copy EXCEPT ![h] = stored[doc[h]]]
          /\ UNCHANGED <<faults, alone>>
       \/ /\ Fault /\ copy' = [copy EXCEPT ![h] = NoDoc(doc[h])]
          /\ alone' = [alone EXCEPT ![h] = FALSE]
    /\ UNCHANGED <<stored, live, request, edits, restarts, settled, missed>>

Bind(h) ==
    /\ pc[h] = "bind" /\ pc' = [pc EXCEPT ![h] = "idle"]
    /\ live' = [live EXCEPT ![doc[h]] = copy[h]]
    /\ settled' = IF alone[h] THEN settled \cup {doc[h]} ELSE settled \ {doc[h]}
    /\ UNCHANGED <<stored, request, copy, budget, alone, missed>>

\* The process is stopped and started: the requests it had are gone.
Restart ==
    /\ restarts < MaxRestarts /\ restarts' = restarts + 1
    /\ pc' = [h \in Handlers |-> "idle"] /\ alone' = [h \in Handlers |-> FALSE]
    /\ live' = Boot(stored) /\ settled' = Docs
    /\ UNCHANGED <<stored, request, copy, edits, faults, missed>>

Handle(h) == \/ \E d \in Docs : \E f \in Forms(d) : Begin(h, d, f)
             \/ Read(h) \/ ReadFails(h) \/ Check(h)
             \/ Write(h) \/ WriteFails(h) \/ Reread(h) \/ Bind(h)

Next == Restart \/ \E h \in Handlers : Handle(h)

Spec == Init /\ [][Next]_vars

-----------------------------------------------------------------------------
(* Properties *)

\* Every variable keeps its type; a handler holds a form and a copy of its document.
TypeOK ==
    /\ stored \in [Docs -> AnyDoc] /\ \A d \in Docs : stored[d] \in Document(d)
    /\ live \in [Bound -> AnyDoc] /\ \A d \in Bound : live[d] \in Document(d)
    /\ pc \in [Handlers -> {"idle", "read", "write", "reread", "bind"}]
    /\ doc \in [Handlers -> Docs]
    /\ form \in [Handlers -> UNION {Forms(d) : d \in Docs}]
    /\ copy \in [Handlers -> AnyDoc]
    /\ \A h \in Handlers : form[h] \in Forms(doc[h]) /\ copy[h] \in Document(doc[h])
    /\ \A h \in Handlers : pc[h] \in {"reread", "bind"} => doc[h] \in Bound
    /\ edits \in 0..MaxEdits /\ faults \in 0..MaxFaults /\ restarts \in 0..MaxRestarts
    /\ settled \subseteq Docs /\ alone \in [Handlers -> BOOLEAN]
    /\ missed \in [Handlers -> SUBSET UNION {Parts[d] : d \in Docs}]

\* A save changes what its form carries and nothing else, but for what others
\* stored between its read and its write, and for a list it failed to read.
SavesOnlyItsOwn ==
    [][\A h \in Handlers : pc[h] = "write" =>
          \A e \in Parts[doc[h]] :
             \/ stored'[doc[h]][e] = stored[doc[h]][e]
             \/ pc'[h] = "write"
             \/ e \in DOMAIN form[h] /\ stored'[doc[h]][e] = form[h][e]
             \/ e \in missed[h]]_vars

\* A change whose handler met no other one and no failure is in force: the
\* service runs on what is stored, whatever earlier, overlapping changes had
\* left.  A started service with an empty list runs on the static notifiers.
LiveFollowsStore ==
    \A d \in Bound \cap settled :
        \/ live[d] = stored[d]
        \/ d = "notifiers" /\ stored[d] = NoDoc(d) /\ live[d] = Yaml
=============================================================================
