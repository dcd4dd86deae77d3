------------------------- MODULE AdminConfigProofs -------------------------
(***************************************************************************)
(* The admin's documents for any number of handlers, documents' parts and  *)
(* failures.  A handler that is alone on a document finds it as it left it *)
(* (Solitary); one that is not still finds what it read wherever no other  *)
(* one has stored something (Agreed).                                      *)
(***************************************************************************)
EXTENDS AdminConfig, TLAPS

LEMMA NoDocType == \A d \in Docs : NoDoc(d) \in Document(d) /\ NoDoc(d) \in AnyDoc
  BY DEF NoDoc, Document, AnyDoc

LEMMA BootType ==
    ASSUME NEW s \in [Docs -> AnyDoc], \A d \in Docs : s[d] \in Document(d)
    PROVE  Boot(s) \in [Bound -> AnyDoc] /\ \A d \in Bound : Boot(s)[d] \in Document(d)
  BY DocumentsAssumption DEF Boot, Bound, Docs, AnyDoc

\* A form's parts are the document's, its values the document's values.
LEMMA FormType ==
    ASSUME NEW d \in Docs, NEW f \in Forms(d)
    PROVE  /\ DOMAIN f \subseteq Parts[d]
           /\ \A e \in DOMAIN f : f[e] \in Values \cup {None}
           /\ d = "admin_pw" => DOMAIN f = Parts[d]
<1>1. CASE d = "notifiers"
  <2>1. PICK e \in Parts[d] : f \in [{e} -> Values \cup {None}]
    BY <1>1 DEF Forms
  <2>2. DOMAIN f = {e} /\ \A x \in {e} : f[x] \in Values \cup {None}
    BY <2>1
  <2> QED BY <1>1, <2>1, <2>2
<1>2. CASE d = "settings"
  <2>1. PICK S \in SUBSET Parts[d] : f \in [S -> Values]
    BY <1>2 DEF Forms
  <2> QED BY <1>2, <2>1
<1>3. CASE d = "camera"
  <2>1. CASE f = NoDoc(d)
    BY <1>3, <2>1 DEF NoDoc
  <2>2. CASE f # NoDoc(d)
    <3>1. PICK S \in SUBSET Parts[d] : f \in [S -> Values]
      BY <1>3, <2>2 DEF Forms
    <3> QED BY <1>3, <3>1
  <2> QED BY <2>1, <2>2
<1>4. CASE d = "admin_pw"
  <2>1. f \in [Parts[d] -> Values]
    BY <1>4 DEF Forms
  <2> QED BY <2>1
<1> QED
  BY <1>1, <1>2, <1>3, <1>4 DEF Docs

\* A form put over a document is a document.
LEMMA AppliedType ==
    ASSUME NEW d \in Docs, NEW f \in Forms(d), NEW old \in Document(d)
    PROVE  Applied(f, old) \in Document(d)
  BY FormType DEF Applied, Document

LEMMA WrittenType ==
    ASSUME TypeOK, NEW h \in Handlers
    PROVE  Written(h) \in Document(doc[h]) /\ Written(h) \in AnyDoc
<1>1. doc[h] \in Docs /\ form[h] \in Forms(doc[h]) /\ copy[h] \in Document(doc[h])
  BY DEF TypeOK
<1>2. Applied(form[h], copy[h]) \in Document(doc[h])
  BY <1>1, AppliedType
<1> QED
  BY <1>1, <1>2, NoDocType DEF Written, AnyDoc, Docs

LEMMA InitType == Init => TypeOK
<1> SUFFICES ASSUME Init PROVE TypeOK
  OBVIOUS
<1>1. stored \in [Docs -> AnyDoc] /\ \A d \in Docs : stored[d] \in Document(d)
  BY DocumentsAssumption DEF Init
<1>2. live \in [Bound -> AnyDoc] /\ \A d \in Bound : live[d] \in Document(d)
  BY <1>1, BootType DEF Init
<1>3. [e \in {} |-> None] \in Forms("settings")
  <2>1. [e \in {} |-> None] \in [{} -> Values] /\ {} \in SUBSET Parts["settings"]
    OBVIOUS
  <2> QED BY <2>1 DEF Forms
<1>4. NoDoc("settings") \in Document("settings") /\ NoDoc("settings") \in AnyDoc
  BY NoDocType DEF Docs
<1>5. edits \in 0..MaxEdits /\ faults \in 0..MaxFaults /\ restarts \in 0..MaxRestarts
  BY BoundsAssumption DEF Init
<1> QED
  BY <1>1, <1>2, <1>3, <1>4, <1>5 DEF Init, TypeOK, Docs

LEMMA NextType == TypeOK /\ [Next]_vars => TypeOK'
<1> SUFFICES ASSUME TypeOK, [Next]_vars PROVE TypeOK'
  OBVIOUS
<1>1. ASSUME NEW h \in Handlers, NEW d \in Docs, NEW f \in Forms(d), Begin(h, d, f)
      PROVE  TypeOK'
  <2>1. NoDoc(d) \in Document(d) /\ NoDoc(d) \in AnyDoc
    BY NoDocType
  <2>2. edits' \in 0..MaxEdits
    BY <1>1, BoundsAssumption DEF TypeOK, Begin
  <2>3. alone' \in [Handlers -> BOOLEAN]
    BY <1>1, Zenon DEF TypeOK, Begin
  <2>4. form' \in [Handlers -> UNION {Forms(x) : x \in Docs}]
    BY <1>1 DEF TypeOK, Begin
  <2> QED
    BY <1>1, <2>1, <2>2, <2>3, <2>4 DEF TypeOK, Begin
<1>2. ASSUME NEW h \in Handlers, Read(h) PROVE TypeOK'
  BY <1>2 DEF TypeOK, Read, request, budget, history
<1>3. ASSUME NEW h \in Handlers, ReadFails(h) PROVE TypeOK'
  BY <1>3, BoundsAssumption DEF TypeOK, ReadFails, Fault, request
<1>4. ASSUME NEW h \in Handlers, Check(h) PROVE TypeOK'
  BY <1>4 DEF TypeOK, Check, request, budget, history
<1>5. ASSUME NEW h \in Handlers, Write(h) PROVE TypeOK'
  <2>1. Written(h) \in Document(doc[h]) /\ Written(h) \in AnyDoc
    BY WrittenType
  <2>2. missed' \in [Handlers -> SUBSET UNION {Parts[d] : d \in Docs}]
    BY <1>5 DEF TypeOK, Write
  <2>3. settled' \subseteq Docs
    BY <1>5 DEF TypeOK, Write
  <2>4. pc' \in [Handlers -> {"idle", "read", "write", "reread", "bind"}]
    BY <1>5 DEF TypeOK, Write, StepAfter
  <2>5. \A g \in Handlers : pc'[g] \in {"reread", "bind"} => doc'[g] \in Bound
    BY <1>5 DEF TypeOK, Write, StepAfter, Bound, request
  <2> QED
    BY <1>5, <2>1, <2>2, <2>3, <2>4, <2>5 DEF TypeOK, Write, request, budget
<1>6. ASSUME NEW h \in Handlers, WriteFails(h) PROVE TypeOK'
  <2>1. Applied(form[h], copy[h]) \in Document(doc[h])
    BY AppliedType DEF TypeOK
  <2>2. copy' \in [Handlers -> AnyDoc] /\ \A g \in Handlers : copy'[g] \in Document(doc[g])
    BY <1>6, <2>1 DEF TypeOK, WriteFails, AnyDoc
  <2>3. faults' \in 0..MaxFaults
    BY <1>6, BoundsAssumption DEF TypeOK, WriteFails, Fault
  <2> QED
    BY <1>6, <2>2, <2>3 DEF TypeOK, WriteFails, request, Bound
<1>7. ASSUME NEW h \in Handlers, Reread(h) PROVE TypeOK'
  <2>1. NoDoc(doc[h]) \in Document(doc[h]) /\ NoDoc(doc[h]) \in AnyDoc
    BY NoDocType DEF TypeOK
  <2>2. faults' \in 0..MaxFaults
    BY <1>7, BoundsAssumption DEF TypeOK, Reread, Fault
  <2> QED
    BY <1>7, <2>1, <2>2 DEF TypeOK, Reread, request
<1>8. ASSUME NEW h \in Handlers, Bind(h) PROVE TypeOK'
  BY <1>8 DEF TypeOK, Bind, request, budget
<1>9. CASE Restart
  <2>1. live' \in [Bound -> AnyDoc] /\ \A d \in Bound : live'[d] \in Document(d)
    BY <1>9, BootType DEF TypeOK, Restart
  <2>2. restarts' \in 0..MaxRestarts
    BY <1>9, BoundsAssumption DEF TypeOK, Restart
  <2> QED
    BY <1>9, <2>1, <2>2 DEF TypeOK, Restart, request
<1>10. CASE UNCHANGED vars
  BY <1>10 DEF TypeOK, vars, request, budget, history
<1> QED
  BY <1>1, <1>2, <1>3, <1>4, <1>5, <1>6, <1>7, <1>8, <1>9, <1>10 DEF Next, Handle

\* Types hold for any documents, handlers and forms.
THEOREM TypeCorrect == Spec => []TypeOK
  BY InitType, NextType, PTL DEF Spec

-----------------------------------------------------------------------------
(* The inductive invariant *)

\* A handler no other one has met is the only one on its document.
Solitary ==
    \A h \in Handlers : alone[h] /\ pc[h] # "idle" =>
        \A g \in Handlers : g # h /\ pc[g] # "idle" => doc[g] # doc[h]

\* After its last store call it holds what is stored.
Current ==
    \A h \in Handlers : alone[h] /\ pc[h] = "bind" => copy[h] = stored[doc[h]]

\* What a handler is about to write back is what is stored, but for what
\* others have stored since; a password replaces the whole.
Agreed ==
    \A h \in Handlers : pc[h] = "write" =>
        \A e \in Parts[doc[h]] : \/ e \in missed[h] \/ doc[h] = "admin_pw"
                                 \/ copy[h][e] = stored[doc[h]][e]

IInv == TypeOK /\ Solitary /\ Current /\ Agreed /\ LiveFollowsStore

LEMMA InitInv == Init => IInv
<1> SUFFICES ASSUME Init PROVE IInv
  OBVIOUS
<1>1. TypeOK
  BY InitType
<1>2. Solitary /\ Current /\ Agreed
  BY DEF Init, Solitary, Current, Agreed
<1>3. LiveFollowsStore
  BY DEF Init, LiveFollowsStore, Boot, Bound
<1> QED
  BY <1>1, <1>2, <1>3 DEF IInv

\* A step that stores and binds nothing.
LEMMA QuietStep ==
    ASSUME IInv, UNCHANGED <<stored, live>>, settled' \subseteq settled
    PROVE  LiveFollowsStore'
  BY DEF IInv, LiveFollowsStore

LEMMA SolitaryStays ==
    ASSUME IInv, UNCHANGED doc, NEW h \in Handlers, pc[h] # "idle",
           \A g \in Handlers : g # h => pc'[g] = pc[g],
           \A g \in Handlers : alone'[g] => alone[g]
    PROVE  Solitary'
  BY DEF IInv, Solitary

LEMMA StepInv == IInv /\ [Next]_vars => IInv'
<1> SUFFICES ASSUME IInv, [Next]_vars PROVE IInv'
  OBVIOUS
<1>a. TypeOK
  BY DEF IInv
<1>b. TypeOK'
  BY <1>a, NextType
<1>1. ASSUME NEW h \in Handlers, NEW d \in Docs, NEW f \in Forms(d), Begin(h, d, f)
      PROVE  IInv'
  <2>1. \A g \in Handlers : g # h => pc'[g] = pc[g] /\ doc'[g] = doc[g] /\ copy'[g] = copy[g]
    BY <1>1, <1>a DEF Begin, TypeOK
  <2>2. pc'[h] = "read" /\ doc'[h] = d
    BY <1>1, <1>a DEF Begin, TypeOK
  <2>3. alone'[h] => \A g \in Handlers : pc[g] # "idle" => doc[g] # d
    BY <1>1 DEF Begin, On
  <2>4. \A g \in Handlers : g # h /\ alone'[g] => alone[g] /\ (pc[g] # "idle" => doc[g] # d)
    BY <1>1 DEF Begin, On
  <2>5. Solitary'
    BY <2>1, <2>2, <2>3, <2>4 DEF IInv, Solitary
  <2>6. Current' /\ Agreed'
    BY <1>1, <1>a, <2>1, <2>2, <2>4 DEF IInv, Current, Agreed, Begin, TypeOK
  <2>7. LiveFollowsStore'
    BY <1>1, QuietStep DEF Begin
  <2> QED
    BY <1>b, <2>5, <2>6, <2>7 DEF IInv
<1>2. ASSUME NEW h \in Handlers, Read(h) PROVE IInv'
  <2>1. Solitary'
    BY <1>2, <1>a, SolitaryStays DEF Read, request, history, TypeOK
  <2>2. Current' /\ Agreed'
    BY <1>2, <1>a DEF IInv, Current, Agreed, Read, request, history, TypeOK
  <2>3. LiveFollowsStore'
    BY <1>2, QuietStep DEF Read, history
  <2> QED
    BY <1>b, <2>1, <2>2, <2>3 DEF IInv
<1>3. ASSUME NEW h \in Handlers, ReadFails(h) PROVE IInv'
  <2>1. Solitary'
    BY <1>3, <1>a, SolitaryStays DEF ReadFails, request, TypeOK
  <2>2. Current' /\ Agreed'
    BY <1>3, <1>a DEF IInv, Current, Agreed, ReadFails, request, TypeOK
  <2>3. LiveFollowsStore'
    BY <1>3, QuietStep DEF ReadFails
  <2> QED
    BY <1>b, <2>1, <2>2, <2>3 DEF IInv
<1>4. ASSUME NEW h \in Handlers, Check(h) PROVE IInv'
  <2>1. Solitary'
    BY <1>4, <1>a, SolitaryStays DEF Check, request, history, TypeOK
  <2>2. Current' /\ Agreed'
    BY <1>4, <1>a DEF IInv, Current, Agreed, Check, request, history, TypeOK
  <2>3. LiveFollowsStore'
    BY <1>4, QuietStep DEF Check, history
  <2> QED
    BY <1>b, <2>1, <2>2, <2>3 DEF IInv
<1>5. ASSUME NEW h \in Handlers, Write(h) PROVE IInv'
  <2>1. \A d \in Docs : d # doc[h] => stored'[d] = stored[d]
    BY <1>5, <1>a DEF Write, TypeOK
  <2>2. stored'[doc[h]] = Written(h) /\ copy'[h] = Written(h) /\ pc'[h] = StepAfter(doc[h])
    BY <1>5, <1>a DEF Write, TypeOK
  <2>3. \A g \in Handlers : g # h => pc'[g] = pc[g] /\ copy'[g] = copy[g]
    BY <1>5, <1>a DEF Write, TypeOK
  <2>4. doc' = doc /\ alone' = alone /\ live' = live
    BY <1>5 DEF Write, request
  <2>5. Solitary'
    BY <1>5, <2>3, <2>4, SolitaryStays DEF Write
  <2>6. Current'
    <3> SUFFICES ASSUME NEW g \in Handlers, alone[g], pc'[g] = "bind"
                 PROVE  copy'[g] = stored'[doc[g]]
      BY <2>4 DEF Current
    <3>1. CASE g = h
      BY <3>1, <2>2
    <3>2. CASE g # h
      <4>1. pc[g] = "bind" /\ doc[g] # doc[h] /\ doc[g] \in Docs
        BY <1>5, <1>a, <2>3, <3>2 DEF IInv, Solitary, Write, TypeOK
      <4> QED
        BY <4>1, <2>1, <2>3, <3>2 DEF IInv, Current
    <3> QED BY <3>1, <3>2
  <2>7. Agreed'
    <3> SUFFICES ASSUME NEW g \in Handlers, pc'[g] = "write", NEW e \in Parts[doc[g]]
                 PROVE  \/ e \in missed'[g] \/ doc[g] = "admin_pw"
                        \/ copy'[g][e] = stored'[doc[g]][e]
      BY <2>4 DEF Agreed
    <3>1. g # h /\ pc[g] = "write" /\ copy'[g] = copy[g]
      BY <2>2, <2>3 DEF StepAfter
    <3>2. e \in missed[g] \/ doc[g] = "admin_pw" \/ copy[g][e] = stored[doc[g]][e]
      BY <3>1 DEF IInv, Agreed
    <3>3. CASE doc[g] # doc[h]
      BY <1>5, <1>a, <2>1, <3>1, <3>2, <3>3 DEF Write, TypeOK
    <3>4. CASE doc[g] = doc[h]
      <4>1. missed'[g] = missed[g] \cup {x \in Parts[doc[h]] :
                                            Written(h)[x] # stored[doc[h]][x]}
        BY <1>5, <3>1, <3>4 DEF Write
      <4>2. stored'[doc[g]][e] = stored[doc[g]][e] \/ e \in missed'[g]
        BY <2>2, <3>4, <4>1
      <4> QED
        BY <3>1, <3>2, <4>1, <4>2
    <3> QED BY <3>3, <3>4
  <2>8. LiveFollowsStore'
    <3>1. StepAfter(doc[h]) = "idle" => doc[h] \notin Bound
      BY DEF StepAfter, Bound
    <3>2. \A d \in Bound : d \in settled' => d \in settled /\ d # doc[h]
      BY <1>5, <3>1 DEF Write
    <3> QED
      BY <2>1, <2>4, <3>2 DEF IInv, LiveFollowsStore, Bound, Docs
  <2> QED
    BY <1>b, <2>5, <2>6, <2>7, <2>8 DEF IInv
<1>6. ASSUME NEW h \in Handlers, WriteFails(h) PROVE IInv'
  <2>1. Solitary'
    BY <1>6, <1>a, SolitaryStays DEF WriteFails, request, TypeOK
  <2>2. \A g \in Handlers : g # h => pc'[g] = pc[g] /\ copy'[g] = copy[g] /\ alone'[g] = alone[g]
    BY <1>6, <1>a DEF WriteFails, TypeOK
  <2>3. ~alone'[h] /\ pc'[h] # "write" /\ stored' = stored /\ doc' = doc /\ missed' = missed
    BY <1>6, <1>a DEF WriteFails, TypeOK, request
  <2>4. Current' /\ Agreed'
    BY <2>2, <2>3 DEF IInv, Current, Agreed
  <2>5. LiveFollowsStore'
    BY <1>6, QuietStep DEF WriteFails
  <2> QED
    BY <1>b, <2>1, <2>4, <2>5 DEF IInv
<1>7. ASSUME NEW h \in Handlers, Reread(h) PROVE IInv'
  <2>1. \A g \in Handlers : alone'[g] => alone[g]
    BY <1>7, <1>a DEF Reread, TypeOK
  <2>2. \A g \in Handlers : g # h => pc'[g] = pc[g] /\ copy'[g] = copy[g]
    BY <1>7, <1>a DEF Reread, TypeOK
  <2>3. pc'[h] = "bind" /\ stored' = stored /\ doc' = doc /\ missed' = missed
    BY <1>7, <1>a DEF Reread, TypeOK, request
  <2>4. Solitary'
    BY <1>7, <2>1, <2>2, <2>3, SolitaryStays DEF Reread
  <2>5. alone'[h] => copy'[h] = stored[doc[h]]
    BY <1>7, <1>a DEF Reread, TypeOK
  <2>6. Current' /\ Agreed'
    BY <2>1, <2>2, <2>3, <2>5 DEF IInv, Current, Agreed
  <2>7. LiveFollowsStore'
    BY <1>7, QuietStep DEF Reread
  <2> QED
    BY <1>b, <2>4, <2>6, <2>7 DEF IInv
<1>8. ASSUME NEW h \in Handlers, Bind(h) PROVE IInv'
  <2>1. Solitary'
    BY <1>8, <1>a, SolitaryStays DEF Bind, request, TypeOK
  <2>2. Current' /\ Agreed'
    BY <1>8, <1>a DEF IInv, Current, Agreed, Bind, request, TypeOK
  <2>3. doc[h] \in Bound /\ live'[doc[h]] = copy[h] /\ stored' = stored
    BY <1>8, <1>a DEF Bind, TypeOK
  <2>4. alone[h] => copy[h] = stored[doc[h]]
    BY <1>8 DEF IInv, Current, Bind
  <2>5. \A d \in Bound : d # doc[h] => live'[d] = live[d]
    BY <1>8, <1>a DEF Bind, TypeOK
  <2>6. doc[h] \in settled' => alone[h]
    BY <1>8 DEF Bind
  <2>7. \A d \in Docs : d # doc[h] /\ d \in settled' => d \in settled
    BY <1>8 DEF Bind
  <2>8. LiveFollowsStore'
    BY <2>3, <2>4, <2>5, <2>6, <2>7 DEF IInv, LiveFollowsStore, Bound, Docs
  <2> QED
    BY <1>b, <2>1, <2>2, <2>8 DEF IInv
<1>9. CASE Restart
  <2>1. Solitary' /\ Current' /\ Agreed'
    BY <1>9 DEF Restart, Solitary, Current, Agreed
  <2>2. LiveFollowsStore'
    BY <1>9 DEF Restart, LiveFollowsStore, Boot, Bound
  <2> QED
    BY <1>b, <2>1, <2>2 DEF IInv
<1>10. CASE UNCHANGED vars
  BY <1>10, <1>b DEF IInv, Solitary, Current, Agreed, LiveFollowsStore,
                     vars, request, budget, history
<1> QED
  BY <1>1, <1>2, <1>3, <1>4, <1>5, <1>6, <1>7, <1>8, <1>9, <1>10 DEF Next, Handle

LEMMA Inductive == Spec => []IInv
  BY InitInv, StepInv, PTL DEF Spec

\* The service runs on what is stored after a change made alone.
THEOREM LiveCurrent == Spec => []LiveFollowsStore
<1>1. IInv => LiveFollowsStore
  BY DEF IInv
<1> QED
  BY <1>1, Inductive, PTL

\* A step that writes a handler's document leaves the parts alone that its
\* form does not carry and no one else has stored meanwhile.
LEMMA WritesOwn ==
    ASSUME IInv, NEW h \in Handlers, Write(h), NEW e \in Parts[doc[h]]
    PROVE  \/ stored'[doc[h]][e] = stored[doc[h]][e]
           \/ e \in DOMAIN form[h] /\ stored'[doc[h]][e] = form[h][e]
           \/ e \in missed[h]
<1>1. TypeOK
  BY DEF IInv
<1>2. stored'[doc[h]] = Written(h)
  BY <1>1 DEF Write, TypeOK
<1>3. DOMAIN copy[h] = Parts[doc[h]]
  BY <1>1 DEF TypeOK, Document
<1>4. CASE doc[h] = "camera" /\ stored["camera"] = NoDoc("camera")
  BY <1>2, <1>4 DEF Written
<1>5. CASE ~(doc[h] = "camera" /\ stored["camera"] = NoDoc("camera"))
  <2>1. stored'[doc[h]] = Applied(form[h], copy[h])
    BY <1>2, <1>5 DEF Written
  <2>2. CASE e \in DOMAIN form[h]
    BY <1>3, <2>1, <2>2 DEF Applied
  <2>3. CASE e \notin DOMAIN form[h]
    <3>1. stored'[doc[h]][e] = copy[h][e]
      BY <1>3, <2>1, <2>3 DEF Applied
    <3>2. doc[h] # "admin_pw"
      BY <1>1, <2>3, FormType DEF TypeOK
    <3> QED
      BY <3>1, <3>2 DEF IInv, Agreed, Write
  <2> QED BY <2>2, <2>3
<1> QED BY <1>4, <1>5

\* A save undoes nothing that was stored before it read.
THEOREM NothingUndone == Spec => SavesOnlyItsOwn
<1> DEFINE Kept == \A h \in Handlers : pc[h] = "write" =>
                      \A e \in Parts[doc[h]] :
                         \/ stored'[doc[h]][e] = stored[doc[h]][e]
                         \/ pc'[h] = "write"
                         \/ e \in DOMAIN form[h] /\ stored'[doc[h]][e] = form[h][e]
                         \/ e \in missed[h]
<1>1. IInv /\ [Next]_vars => [Kept]_vars
  <2> SUFFICES ASSUME IInv, Next, NEW h \in Handlers, pc[h] = "write",
                      NEW e \in Parts[doc[h]]
               PROVE  \/ stored'[doc[h]][e] = stored[doc[h]][e]
                      \/ pc'[h] = "write"
                      \/ e \in DOMAIN form[h] /\ stored'[doc[h]][e] = form[h][e]
                      \/ e \in missed[h]
    OBVIOUS
  <2>1. CASE \E g \in Handlers : Write(g)
    <3>1. PICK g \in Handlers : Write(g)
      BY <2>1
    <3>2. CASE g = h
      BY <3>1, <3>2, WritesOwn
    <3>3. CASE g # h
      <4>1. pc'[h] = pc[h]
        BY <3>1, <3>3 DEF IInv, TypeOK, Write
      <4> QED BY <4>1
    <3> QED BY <3>2, <3>3
  <2>2. CASE ~\E g \in Handlers : Write(g)
    <3>1. stored' = stored
      BY <2>2 DEF Next, Handle, Begin, Read, ReadFails, Check, WriteFails, Reread, Bind, Restart
    <3> QED BY <3>1
  <2> QED BY <2>1, <2>2
<1> QED
  BY <1>1, Inductive, PTL DEF Spec, SavesOnlyItsOwn
=============================================================================
