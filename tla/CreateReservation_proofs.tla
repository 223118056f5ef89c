---------------------- MODULE CreateReservation_proofs ----------------------
(* Theorems about CreateReservation, for any number of requests and codes. *)
EXTENDS CreateReservation, TLAPS

\* Every variable keeps its type, the draw counter because the generator
\* gives up in time.
LEMMA StepType ==
  ASSUME TypeOK, MayDraw, CodeDrawn, [Next]_vars
  PROVE  TypeOK' /\ MayDraw'
<1> USE DEF TypeOK, MayDraw, PCs, Replies, tables, input, faults
<1>1. ASSUME NEW r \in Requests, Generate(r) PROVE TypeOK' /\ MayDraw'
  BY <1>1, CreateAssumption DEF Generate, Goto, Answer
<1>2. ASSUME NEW r \in Requests, Validate(r) PROVE TypeOK' /\ MayDraw'
  BY <1>2 DEF Validate, Goto, Answer
<1>3. ASSUME NEW r \in Requests, ResolveAddons(r) PROVE TypeOK' /\ MayDraw'
  BY <1>3 DEF ResolveAddons, Goto, Answer
<1>4. ASSUME NEW r \in Requests, Insert(r) PROVE TypeOK' /\ MayDraw'
  BY <1>4 DEF Insert, Goto, Answer
<1>5. ASSUME NEW r \in Requests, pc[r] = "commit", Persist(r)
      PROVE  /\ owner' \in [Codes -> Requests \cup {NoRequest}]
             /\ addonRows' \subseteq Codes \X Addons
             /\ events' \subseteq Codes \X EventTypes
  BY <1>5 DEF Persist, CodeDrawn
<1>6. ASSUME NEW r \in Requests, Commit(r) PROVE TypeOK' /\ MayDraw'
  BY <1>5, <1>6 DEF Commit, Answer
<1>7. ASSUME NEW r \in Requests, DbError(r) PROVE TypeOK' /\ MayDraw'
  BY <1>5, <1>7, CreateAssumption DEF DbError, CutShort, Answer
<1>8. ASSUME NEW r \in Requests, Crash(r) PROVE TypeOK' /\ MayDraw'
  BY <1>5, <1>8, CreateAssumption DEF Crash, CutShort, Answer
<1>9. ASSUME NEW a \in Addons, ToggleAddon(a) PROVE TypeOK' /\ MayDraw'
  BY <1>9 DEF ToggleAddon
<1>10. CASE UNCHANGED vars
  BY <1>10 DEF vars
<1> QED
  BY <1>1, <1>2, <1>3, <1>4, <1>6, <1>7, <1>8, <1>9, <1>10 DEF Next, Serve

\* What a step of a request is, seen from the tables: it saves the reservation
\* at the end of an open transaction, or it saves nothing.
Saves(r) ==
  /\ pc[r] = "commit"
  /\ Persist(r)
  /\ pc' = [pc EXCEPT ![r] = "done"]
  /\ \E answer \in {"201", "500", "lost"} : reply' = [reply EXCEPT ![r] = answer]
  /\ UNCHANGED <<code, wanted>>

SavesNothing(r) ==
  /\ pc[r] # "done"
  /\ pc' = [pc EXCEPT ![r] = pc'[r]]
  /\ IF pc'[r] = "done"
     THEN \E answer \in {"400", "500", "lost"} : reply' = [reply EXCEPT ![r] = answer]
     ELSE UNCHANGED reply
  /\ \/ UNCHANGED code
     \/ /\ pc[r] = "generate"
        /\ \E c \in Codes : code' = [code EXCEPT ![r] = c]
  /\ pc'[r] \in {"validate", "addons", "insert", "commit"} => code'[r] \in Codes
  /\ pc'[r] = "commit" =>
       /\ ~Taken(code[r])
       /\ \A q \in Requests : pc[q] = "commit" => code[q] # code[r]
       /\ UNCHANGED code
  /\ UNCHANGED <<tables, wanted>>

\* Every step of the system saves, saves nothing, or leaves requests alone.
LEMMA StepShape ==
  ASSUME TypeOK, CodeDrawn, [Next]_vars
  PROVE  \/ \E r \in Requests : Saves(r) \/ SavesNothing(r)
         \/ UNCHANGED <<tables, pc, reply, code, wanted>>
<1> USE DEF TypeOK, PCs, tables, input, faults
<1>1. ASSUME NEW r \in Requests, Generate(r) PROVE SavesNothing(r)
  BY <1>1 DEF Generate, Goto, Answer, SavesNothing
<1>2. ASSUME NEW r \in Requests, Validate(r) PROVE SavesNothing(r)
  BY <1>2 DEF Validate, Goto, Answer, SavesNothing, CodeDrawn
<1>3. ASSUME NEW r \in Requests, ResolveAddons(r) PROVE SavesNothing(r)
  BY <1>3 DEF ResolveAddons, Goto, Answer, SavesNothing, CodeDrawn
<1>4. ASSUME NEW r \in Requests, Insert(r) PROVE SavesNothing(r)
  BY <1>4 DEF Insert, Goto, Answer, SavesNothing, CodeDrawn
<1>5. ASSUME NEW r \in Requests, Commit(r) PROVE Saves(r)
  BY <1>5 DEF Commit, Answer, Saves
<1>6. ASSUME NEW r \in Requests, DbError(r) PROVE Saves(r) \/ SavesNothing(r)
  BY <1>6 DEF DbError, CutShort, Answer, Saves, SavesNothing
<1>7. ASSUME NEW r \in Requests, Crash(r) PROVE Saves(r) \/ SavesNothing(r)
  BY <1>7 DEF Crash, CutShort, Answer, Saves, SavesNothing
<1> QED
  BY <1>1, <1>2, <1>3, <1>4, <1>5, <1>6, <1>7 DEF Next, Serve, ToggleAddon, vars

\* Saving touches the rows of the request's own code alone, which had none.
LEMMA SaveKeepsInv ==
  ASSUME CreateInv, NEW r \in Requests, Saves(r)
  PROVE  /\ CodeDrawn' /\ CommitIsAlone' /\ OwnersAreDone' /\ AnsweredWhenDone'
         /\ CreatedIsDurable' /\ NothingPartial'
<1> USE DEF CreateInv
<1>1. code[r] \in Codes /\ ~Taken(code[r])
  BY DEF Saves, CodeDrawn, CommitIsAlone
<1>2. /\ owner' = [owner EXCEPT ![code[r]] = r]
      /\ addonRows' = addonRows \cup ({code[r]} \X wanted[r])
      /\ events' = events \cup ({code[r]} \X EventTypes)
      /\ pc' = [pc EXCEPT ![r] = "done"]
      /\ code' = code /\ wanted' = wanted
  BY DEF Saves, Persist
<1>3. \A c \in Codes : Taken(c)' <=> Taken(c) \/ c = code[r]
  BY <1>1, <1>2, CreateAssumption DEF Taken, TypeOK
<1>4. \A q \in Requests \ {r} : pc'[q] = pc[q] /\ reply'[q] = reply[q]
  BY <1>2 DEF Saves, TypeOK
<1>5. pc'[r] = "done"
  BY <1>2 DEF TypeOK
<1>6. CodeDrawn'
  BY <1>2, <1>4, <1>5 DEF CodeDrawn
<1>7. CommitIsAlone'
  BY <1>2, <1>3, <1>4, <1>5 DEF CommitIsAlone, CodeDrawn, Saves
<1>8. OwnersAreDone'
  BY <1>1, <1>2, <1>3, <1>4, <1>5 DEF OwnersAreDone, Taken, TypeOK
<1>9. AnsweredWhenDone'
  BY <1>4, <1>5 DEF AnsweredWhenDone
<1>10. CreatedIsDurable'
  <2> SUFFICES ASSUME NEW q \in Requests, reply'[q] = "201"
               PROVE  /\ owner'[code[q]] = q
                      /\ {code[q]} \X wanted[q] \subseteq addonRows'
                      /\ {code[q]} \X EventTypes \subseteq events'
    BY <1>2 DEF CreatedIsDurable
  <2>1. CASE q = r
    BY <1>1, <1>2, <2>1 DEF TypeOK
  <2>2. CASE q # r
    <3>1. /\ owner[code[q]] = q
          /\ {code[q]} \X wanted[q] \subseteq addonRows
          /\ {code[q]} \X EventTypes \subseteq events
      BY <1>4, <2>2 DEF CreatedIsDurable
    <3>2. code[q] # code[r]
      BY <1>1, <3>1, CreateAssumption DEF Taken
    <3> QED
      BY <1>1, <1>2, <3>1, <3>2 DEF TypeOK
  <2> QED
    BY <2>1, <2>2
<1>11. NothingPartial'
  <2>1. events' = {c \in Codes : Taken(c)'} \X EventTypes
    <3>1. {c \in Codes : Taken(c)'} = {c \in Codes : Taken(c)} \cup {code[r]}
      BY <1>1, <1>3
    <3>2. events = {c \in Codes : Taken(c)} \X EventTypes
      BY DEF NothingPartial
    <3> QED
      BY <1>2, <3>1, <3>2
  <2>2. ASSUME NEW c \in Codes
        PROVE  {a \in Addons : <<c, a>> \in addonRows'} =
                 IF Taken(c)' THEN wanted[owner'[c]] ELSE {}
    <3>1. CASE c = code[r]
      <4>1. owner'[c] = r /\ Taken(c)'
        BY <1>1, <1>2, <1>3, <3>1 DEF TypeOK
      <4>2. {a \in Addons : <<c, a>> \in addonRows} = {}
        BY <1>1, <3>1 DEF NothingPartial
      <4>3. wanted[r] \subseteq Addons
        BY DEF TypeOK
      <4> QED
        BY <1>2, <3>1, <4>1, <4>2, <4>3
    <3>2. CASE c # code[r]
      <4>1. owner'[c] = owner[c] /\ (Taken(c)' <=> Taken(c))
        BY <1>2, <1>3, <3>2 DEF TypeOK
      <4>2. \A a \in Addons : <<c, a>> \in addonRows' <=> <<c, a>> \in addonRows
        BY <1>2, <3>2
      <4> QED
        BY <4>1, <4>2 DEF NothingPartial
    <3> QED
      BY <3>1, <3>2
  <2> QED
    BY <1>2, <2>1, <2>2 DEF NothingPartial
<1> QED
  BY <1>6, <1>7, <1>8, <1>9, <1>10, <1>11

\* A step that saves nothing disturbs no finished request.
LEMMA NoSaveKeepsInv ==
  ASSUME CreateInv, NEW r \in Requests, SavesNothing(r)
  PROVE  /\ CodeDrawn' /\ CommitIsAlone' /\ OwnersAreDone' /\ AnsweredWhenDone'
         /\ CreatedIsDurable' /\ NothingPartial'
<1> USE DEF CreateInv
<1>1. /\ owner' = owner /\ addonRows' = addonRows /\ events' = events
      /\ wanted' = wanted /\ pc[r] # "done"
  BY DEF SavesNothing, tables
<1>2. \A c \in Codes \cup {NoCode} : Taken(c)' <=> Taken(c)
  BY <1>1 DEF Taken
<1>3. \A q \in Requests \ {r} :
        pc'[q] = pc[q] /\ reply'[q] = reply[q] /\ code'[q] = code[q]
  BY DEF SavesNothing, TypeOK
<1>4. reply'[r] # "201" /\ (pc'[r] # "done" => reply'[r] = "none")
  BY <1>1 DEF SavesNothing, TypeOK, AnsweredWhenDone
<1>5. CodeDrawn'
  BY <1>3 DEF CodeDrawn, SavesNothing
<1>6. CommitIsAlone'
  <2> SUFFICES ASSUME NEW q \in Requests, pc'[q] = "commit"
               PROVE  /\ (~Taken(code[q]))'
                      /\ \A p \in Requests : pc'[p] = "commit" /\ code'[p] = code'[q] => p = q
    BY DEF CommitIsAlone, Taken
  <2>1. CASE pc'[r] = "commit"
    BY <1>1, <1>2, <1>3, <2>1 DEF CommitIsAlone, SavesNothing, TypeOK, Taken
  <2>2. CASE pc'[r] # "commit"
    BY <1>1, <1>2, <1>3, <2>2 DEF CommitIsAlone, TypeOK, Taken
  <2> QED
    BY <2>1, <2>2
<1>7. OwnersAreDone'
  BY <1>1, <1>2, <1>3 DEF OwnersAreDone, Taken, TypeOK
<1>8. AnsweredWhenDone'
  BY <1>3, <1>4 DEF AnsweredWhenDone
<1>9. CreatedIsDurable'
  BY <1>1, <1>3, <1>4 DEF CreatedIsDurable
<1>10. NothingPartial'
  BY <1>1 DEF NothingPartial, Taken
<1> QED
  BY <1>5, <1>6, <1>7, <1>8, <1>9, <1>10

\* No step changes what a request asks for.
LEMMA InputIsKept == [Next]_vars => UNCHANGED input
BY DEF Next, Serve, Generate, Validate, ResolveAddons, Insert, Commit, DbError, Crash,
       ToggleAddon, vars, input

\* What is saved stays saved, and what is answered stays answered.
LEMMA FinishedIsKept ==
  ASSUME CreateInv, [Next]_vars
  PROVE  /\ \A c \in Codes : Taken(c) => owner'[c] = owner[c]
         /\ \A r \in Requests : pc[r] = "done" =>
              pc'[r] = "done" /\ reply'[r] = reply[r] /\ code'[r] = code[r]
<1> USE DEF CreateInv
<1>1. ASSUME NEW r \in Requests, Saves(r)
      PROVE  /\ \A c \in Codes : Taken(c) => owner'[c] = owner[c]
             /\ \A q \in Requests : pc[q] = "done" =>
                  pc'[q] = "done" /\ reply'[q] = reply[q] /\ code'[q] = code[q]
  BY <1>1 DEF Saves, Persist, CommitIsAlone, CodeDrawn, TypeOK
<1>2. ASSUME NEW r \in Requests, SavesNothing(r)
      PROVE  /\ \A c \in Codes : Taken(c) => owner'[c] = owner[c]
             /\ \A q \in Requests : pc[q] = "done" =>
                  pc'[q] = "done" /\ reply'[q] = reply[q] /\ code'[q] = code[q]
  BY <1>2 DEF SavesNothing, tables, TypeOK
<1> QED
  BY <1>1, <1>2, StepShape DEF tables

\* Who is past the start was sent, also if only this step takes it there.
LEMMA MovesWereSent ==
  ASSUME CreateInv, [Next]_vars, NEW r \in Requests, pc'[r] # "generate"
  PROVE  Sent(r)
<1>1. CASE pc[r] # "generate"
  BY <1>1 DEF CreateInv, SentFirst
<1>2. CASE pc[r] = "generate"
  BY <1>2
  DEF CreateInv, TypeOK, Next, Serve, Generate, Validate, ResolveAddons, Insert, Commit,
      DbError, Crash, ToggleAddon, Goto, Answer, vars
<1> QED
  BY <1>1, <1>2

\* The answer to the request it repeats is there to stay.
LEMMA SentIsKept ==
  ASSUME CreateInv, [Next]_vars
  PROVE  SentFirst'
<1> SUFFICES ASSUME NEW r \in Requests, pc'[r] # "generate",
                    NEW q \in Requests, RetryOf[r] = q
             PROVE  reply'[q] \in {"500", "lost"}
  BY DEF SentFirst, Sent
<1>1. reply[q] \in {"500", "lost"}
  BY MovesWereSent DEF Sent
<1>2. pc[q] = "done"
  BY <1>1 DEF CreateInv, AnsweredWhenDone
<1> QED
  BY <1>1, <1>2, FinishedIsKept

\* The checks are passed one after the other, and what they looked at does not change.
LEMMA ChecksAreKept ==
  ASSUME CreateInv, [Next]_vars
  PROVE  CheckedFirst'
<1> USE DEF CreateInv, TypeOK, input
<1>1. ASSUME NEW r \in Requests, Generate(r) PROVE CheckedFirst'
  BY <1>1 DEF CheckedFirst, Generate, Goto, Answer
<1>2. ASSUME NEW r \in Requests, Validate(r) PROVE CheckedFirst'
  BY <1>2 DEF CheckedFirst, Validate, Goto, Answer
<1>3. ASSUME NEW r \in Requests, ResolveAddons(r) PROVE CheckedFirst'
  BY <1>3 DEF CheckedFirst, ResolveAddons, Catalog, Sellable, Goto, Answer
<1>4. ASSUME NEW r \in Requests, Insert(r) PROVE CheckedFirst'
  BY <1>4 DEF CheckedFirst, Insert, Goto, Answer
<1>5. ASSUME NEW r \in Requests, Commit(r) \/ DbError(r) \/ Crash(r) PROVE CheckedFirst'
  BY <1>5 DEF CheckedFirst, Commit, DbError, Crash, Answer
<1>6. ASSUME UNCHANGED vars \/ \E a \in Addons : ToggleAddon(a) PROVE CheckedFirst'
  BY <1>6 DEF CheckedFirst, ToggleAddon, vars
<1> QED
  BY <1>1, <1>2, <1>3, <1>4, <1>5, <1>6 DEF Next, Serve

\* For any requests, draws, errors and crashes: a client that is answered 201
\* keeps its reservation whole, and no reservation is ever saved in part.
THEOREM CreateCorrect == Spec => []CreateInv
<1>1. Init => CreateInv
  <2> SUFFICES ASSUME Init PROVE CreateInv
    OBVIOUS
  <2> USE DEF Init
  <2>1. TypeOK /\ MayDraw
    BY CreateAssumption DEF TypeOK, MayDraw, PCs, Replies
  <2>2. \A c \in Codes : ~Taken(c)
    BY DEF Taken
  <2>3. CodeDrawn /\ CommitIsAlone /\ AnsweredWhenDone /\ CreatedIsDurable
    BY DEF CodeDrawn, CommitIsAlone, AnsweredWhenDone, CreatedIsDurable
  <2>4. OwnersAreDone
    BY <2>2 DEF OwnersAreDone
  <2>5. {c \in Codes : Taken(c)} = {}
    BY <2>2
  <2>6. NothingPartial
    BY <2>2, <2>5 DEF NothingPartial
  <2>7. SentFirst /\ CheckedFirst
    BY DEF SentFirst, CheckedFirst
  <2> QED
    BY <2>1, <2>3, <2>4, <2>6, <2>7 DEF CreateInv
<1>2. CreateInv /\ [Next]_vars => CreateInv'
  <2> SUFFICES ASSUME CreateInv, [Next]_vars PROVE CreateInv'
    OBVIOUS
  <2>1. TypeOK' /\ MayDraw' /\ SentFirst' /\ CheckedFirst'
    BY StepType, SentIsKept, ChecksAreKept DEF CreateInv
  <2>2. CASE \E r \in Requests : Saves(r) \/ SavesNothing(r)
    BY <2>1, <2>2, SaveKeepsInv, NoSaveKeepsInv DEF CreateInv
  <2>3. CASE UNCHANGED <<tables, pc, reply, code, wanted>>
    BY <2>1, <2>3
    DEF CreateInv, tables, CodeDrawn, CommitIsAlone, OwnersAreDone, AnsweredWhenDone,
        CreatedIsDurable, NothingPartial, Taken
  <2> QED
    BY <2>2, <2>3, StepShape DEF CreateInv
<1> QED
  BY <1>1, <1>2, PTL DEF Spec

\* Only a failed insert, or a row of the catalog that cannot be loaded, answers
\* 500 without counting a database error.
LEMMA FiveHundredFromInsert ==
  ASSUME CreateInv, [Next]_vars, NEW r \in Requests,
         reply[r] # "500", reply'[r] = "500", dbErrors' = 0
  PROVE  \/ Insert(r) /\ Taken(code[r])
         \/ CatalogWired /\ ~(wanted[r] \subseteq Readable)
<1> USE DEF CreateInv, TypeOK, faults
<1>1. dbErrors \in Nat
  BY CreateAssumption
<1>2. ASSUME NEW q \in Requests, DbError(q) PROVE FALSE
  BY <1>1, <1>2 DEF DbError
<1>3. ASSUME NEW q \in Requests, Generate(q) \/ Validate(q) PROVE FALSE
  BY <1>3 DEF Generate, Validate, Goto, Answer
<1>6. ASSUME NEW q \in Requests, ResolveAddons(q)
      PROVE  CatalogWired /\ ~(wanted[r] \subseteq Readable)
  BY <1>6 DEF ResolveAddons, Catalog, Goto, Answer
<1>4. ASSUME NEW q \in Requests, Commit(q) \/ Crash(q) PROVE FALSE
  BY <1>4 DEF Commit, Crash, Answer
<1>5. ASSUME NEW q \in Requests, Insert(q) PROVE Insert(r) /\ Taken(code[r])
  BY <1>5 DEF Insert, Goto, Answer
<1> QED
  BY <1>2, <1>3, <1>4, <1>5, <1>6 DEF Next, Serve, ToggleAddon, vars

\* Without database errors a request is answered 500 only because another one
\* was given its code between the draw and the insert, or because a row of the
\* catalog cannot be loaded.
THEOREM OnlyCollisionsAreErrors == Spec => []OnlyCollisionsFail
<1>1. Init => OnlyCollisionsFail
  BY DEF Init, OnlyCollisionsFail
<1>2. OnlyCollisionsFail /\ CreateInv /\ [Next]_vars => OnlyCollisionsFail'
  <2> SUFFICES ASSUME OnlyCollisionsFail, CreateInv, [Next]_vars,
                      NEW r \in Requests, reply'[r] = "500", dbErrors' = 0
               PROVE  \/ (code[r] \in Codes /\ Taken(code[r]) /\ owner[code[r]] # r)'
                      \/ (CatalogWired /\ ~(wanted[r] \subseteq Readable))'
    BY DEF OnlyCollisionsFail
  <2>0. wanted' = wanted
    BY DEF Next, Serve, Generate, Validate, ResolveAddons, Insert, Commit, DbError, Crash,
           ToggleAddon, vars, input
  <2>1. pc[r] = "done" \/ reply[r] # "500"
    BY DEF CreateInv, AnsweredWhenDone
  <2>2. CASE reply[r] = "500"
    <3>1. dbErrors = 0
      BY CreateAssumption
      DEF CreateInv, TypeOK, Next, Serve, Generate, Validate, ResolveAddons, Insert, Commit,
          DbError, Crash, ToggleAddon, vars, faults
    <3>2. \/ code[r] \in Codes /\ Taken(code[r]) /\ owner[code[r]] # r
          \/ CatalogWired /\ ~(wanted[r] \subseteq Readable)
      BY <2>2, <3>1 DEF OnlyCollisionsFail
    <3> QED
      BY <2>0, <2>1, <2>2, <3>2, FinishedIsKept DEF Taken
  <2>3. CASE reply[r] # "500"
    <3>1. \/ Insert(r) /\ Taken(code[r])
          \/ CatalogWired /\ ~(wanted[r] \subseteq Readable)
      BY <2>3, FiveHundredFromInsert
    <3>2. Insert(r) /\ Taken(code[r]) => code[r] \in Codes /\ owner[code[r]] # r
      BY <3>1 DEF Insert, CreateInv, OwnersAreDone, CodeDrawn
    <3> QED
      BY <2>0, <3>1, <3>2 DEF Insert, Taken, tables
  <2> QED
    BY <2>2, <2>3
<1> QED
  BY <1>1, <1>2, CreateCorrect, PTL DEF Spec

\* Reservations that were answered 201 last, with their add-ons and events.
THEOREM CreatedStays == Spec => []CreatedIsDurable
<1>1. CreateInv => CreatedIsDurable
  BY DEF CreateInv
<1> QED
  BY <1>1, CreateCorrect, PTL

\* Add-on rows and events are those of whole reservations.
THEOREM NothingIsPartial == Spec => []NothingPartial
<1>1. CreateInv => NothingPartial
  BY DEF CreateInv
<1> QED
  BY <1>1, CreateCorrect, PTL

\* Reservations are saved by a commit that answers 201 or cuts its client off, and
\* answers are not taken back.
THEOREM NobodyRefusedIsSaved == Spec => []NoOwnerWasRefused
<1>1. Init => NoOwnerWasRefused
  BY DEF Init, NoOwnerWasRefused, Taken
<1>2. NoOwnerWasRefused /\ CreateInv /\ [Next]_vars => NoOwnerWasRefused'
  <2> SUFFICES ASSUME NoOwnerWasRefused, CreateInv, [Next]_vars,
                      NEW c \in Codes, Taken(c)'
               PROVE  reply'[owner'[c]] \in {"201", "500", "lost"}
    BY DEF NoOwnerWasRefused
  <2>1. CASE Taken(c)
    <3>1. owner[c] \in Requests /\ pc[owner[c]] = "done"
      BY <2>1 DEF CreateInv, OwnersAreDone, TypeOK, Taken
    <3> QED
      BY <2>1, <3>1, FinishedIsKept DEF NoOwnerWasRefused
  <2>2. CASE ~Taken(c)
    <3>1. PICK r \in Requests : Saves(r)
      BY <2>2, StepShape DEF CreateInv, SavesNothing, tables, Taken
    <3>2. owner'[c] = r
      BY <2>2, <3>1 DEF Saves, Persist, Taken, CreateInv, TypeOK
    <3> QED
      BY <3>1, <3>2 DEF Saves, CreateInv, TypeOK
  <2> QED
    BY <2>1, <2>2
<1> QED
  BY <1>1, <1>2, CreateCorrect, PTL DEF Spec

\* What an unchanged request asks for has been checked when it is saved.
THEOREM OnlyCheckedAreSaved == Spec => []OwnersWereChecked
<1>1. Init => OwnersWereChecked
  BY DEF Init, OwnersWereChecked, Taken
<1>2. OwnersWereChecked /\ CreateInv /\ [Next]_vars => OwnersWereChecked'
  <2> SUFFICES ASSUME OwnersWereChecked, CreateInv, [Next]_vars
               PROVE  OwnersWereChecked'
    OBVIOUS
  <2>1. UNCHANGED input
    BY InputIsKept
  <2>2. ASSUME NEW r \in Requests, Saves(r) PROVE OwnersWereChecked'
    <3>1. /\ code[r] \in Codes /\ r \in clean /\ wanted[r] \subseteq Sellable
          /\ owner' = [owner EXCEPT ![code[r]] = r]
      BY <2>2 DEF Saves, Persist, CreateInv, CodeDrawn, CheckedFirst
    <3> QED
      BY <2>1, <3>1 DEF OwnersWereChecked, Taken, CreateInv, TypeOK, input, Sellable
  <2>3. ASSUME UNCHANGED owner PROVE OwnersWereChecked'
    BY <2>1, <2>3 DEF OwnersWereChecked, Taken, input, Sellable
  <2> QED
    BY <2>2, <2>3, StepShape DEF SavesNothing, tables, CreateInv
<1> QED
  BY <1>1, <1>2, CreateCorrect, PTL DEF Spec

\* The wiring alone makes the API refuse active add-ons: a use case that is built
\* with the catalog does not, whatever is activated, deactivated or fails meanwhile.
THEOREM WiredCatalogAccepts ==
  ASSUME CatalogWired
  PROVE  Spec => ActiveAddonsAccepted
<1>1. CreateInv /\ [Next]_vars =>
        [\A r \in Requests :
           pc[r] = "addons" /\ wanted[r] \subseteq active => reply'[r] # "400"]_vars
  <2> SUFFICES ASSUME CreateInv, [Next]_vars, NEW r \in Requests,
                      pc[r] = "addons", wanted[r] \subseteq active
               PROVE  reply'[r] # "400"
    OBVIOUS
  <2>1. reply[r] = "none"
    BY DEF CreateInv, AnsweredWhenDone
  <2>2. ASSUME NEW q \in Requests, Generate(q) \/ Validate(q) PROVE reply'[r] # "400"
    BY <2>1, <2>2 DEF Generate, Validate, Goto, Answer, CreateInv, TypeOK
  <2>3. ASSUME NEW q \in Requests, ResolveAddons(q) PROVE reply'[r] # "400"
    BY <2>1, <2>3 DEF ResolveAddons, Catalog, Goto, Answer, CreateInv, TypeOK
  <2>4. ASSUME NEW q \in Requests, Insert(q) \/ Commit(q) \/ DbError(q) \/ Crash(q)
        PROVE  reply'[r] # "400"
    BY <2>1, <2>4 DEF Insert, Commit, DbError, Crash, Goto, Answer, CreateInv, TypeOK
  <2> QED
    BY <2>1, <2>2, <2>3, <2>4 DEF Next, Serve, ToggleAddon, vars
<1> QED
  BY <1>1, CreateCorrect, PTL DEF Spec, ActiveAddonsAccepted

-----------------------------------------------------------------------------
(* The refinement *)

\* A request at work is waiting, and was sent.
LEMMA WorkedOnWaits ==
  ASSUME CreateInv, NEW r \in Requests, pc[r] # "done", Sent(r)
  PROVE  Book!Waits(r)
BY DEF CreateInv, AnsweredWhenDone, Sent, Book!Waits, Book!Waiting, Book!Response, ResponseTo

\* A free code has no rows at all, and the rows of a taken one are its own.
LEMMA EntryShape ==
  ASSUME CreateInv, NEW c \in Codes
  PROVE  EntryOf(c) = IF Taken(c)
                      THEN [by |-> owner[c], addons |-> wanted[owner[c]], events |-> EventTypes]
                      ELSE [by |-> NoRequest, addons |-> {}, events |-> {}]
<1>1. {e \in EventTypes : <<c, e>> \in events} = IF Taken(c) THEN EventTypes ELSE {}
  BY DEF CreateInv, NothingPartial
<1>2. {a \in Addons : <<c, a>> \in addonRows} = IF Taken(c) THEN wanted[owner[c]] ELSE {}
  BY DEF CreateInv, NothingPartial
<1> QED
  BY <1>1, <1>2 DEF EntryOf, Taken

\* A commit enters the reservation, whatever the client is told.
LEMMA SavingEnters ==
  ASSUME CreateInv, CreateInv', [Next]_vars, NEW r \in Requests, Saves(r)
  PROVE  Book!Enter(r, code[r])
<1>1. pc[r] = "commit" /\ code[r] \in Codes /\ ~Taken(code[r])
  BY DEF Saves, CreateInv, CodeDrawn, CommitIsAlone
<1>2. /\ owner' = [owner EXCEPT ![code[r]] = r]
      /\ code' = code /\ UNCHANGED input
  BY InputIsKept DEF Saves, Persist
<1>3. Book!Waits(r)
  BY <1>1, WorkedOnWaits DEF CreateInv, SentFirst
<1>4. r \in clean /\ wanted[r] \subseteq Sellable
  BY <1>1 DEF CreateInv, CheckedFirst
<1>5. EntryOf(code[r]) = Book!Free
  BY <1>1, EntryShape DEF Book!Free
<1>6. ASSUME NEW c \in Codes
      PROVE  EntryOf(c)' = IF c = code[r] THEN Book!Reservation(r) ELSE EntryOf(c)
  <2>1. EntryOf(c)' = IF Taken(c)'
                      THEN [by |-> owner'[c], addons |-> wanted'[owner'[c]], events |-> EventTypes]
                      ELSE [by |-> NoRequest, addons |-> {}, events |-> {}]
    <3>1. {e \in EventTypes : <<c, e>> \in events'} = IF Taken(c)' THEN EventTypes ELSE {}
      BY DEF CreateInv, NothingPartial
    <3>2. {a \in Addons : <<c, a>> \in addonRows'} = IF Taken(c)' THEN wanted'[owner'[c]] ELSE {}
      BY DEF CreateInv, NothingPartial
    <3> QED
      BY <3>1, <3>2 DEF EntryOf, Taken
  <2>2. CASE c = code[r]
    <3>1. owner'[c] = r /\ Taken(c)'
      BY <1>1, <1>2, <2>2, CreateAssumption DEF Taken, CreateInv, TypeOK
    <3> QED
      BY <1>2, <2>1, <2>2, <3>1 DEF input, Book!Reservation, Book!EventTypes, EventTypes
  <2>3. CASE c # code[r]
    <3>1. owner'[c] = owner[c]
      BY <1>1, <1>2, <2>3 DEF CreateInv, TypeOK
    <3> QED
      BY <1>2, <2>1, <2>3, <3>1, EntryShape DEF Taken, input
  <2> QED
    BY <2>2, <2>3
<1>7. PICK answer \in {"201", "500", "lost"} : reply' = [reply EXCEPT ![r] = answer]
  BY DEF Saves
<1>8. ASSUME NEW q \in Requests
      PROVE  ResponseTo(q)' = IF q = r
                              THEN Book!Response(answer, IF answer = "201" THEN code[r] ELSE NoCode)
                              ELSE ResponseTo(q)
  BY <1>2, <1>7 DEF ResponseTo, Book!Response, CreateInv, TypeOK
<1>9. [c \in Codes |-> EntryOf(c)]' =
        [[c \in Codes |-> EntryOf(c)] EXCEPT ![code[r]] = Book!Reservation(r)]
  BY <1>1, <1>6
<1>10. \E response \in {Book!Response("201", code[r]), Book!Response("500", NoCode),
                        Book!Response("lost", NoCode)} :
         [q \in Requests |-> ResponseTo(q)]' =
           [[q \in Requests |-> ResponseTo(q)] EXCEPT ![r] = response]
  BY <1>7, <1>8
<1> QED
  BY <1>1, <1>2, <1>3, <1>4, <1>5, <1>9, <1>10 DEF Book!Enter, input

\* Any other step changes no entry.  If it ends the request, that is refused.
LEMMA NotSavingRefuses ==
  ASSUME CreateInv, [Next]_vars, NEW r \in Requests, SavesNothing(r)
  PROVE  Book!Refuse(r) \/ UNCHANGED Book!vars
<1>1. /\ pc[r] # "done" /\ reply[r] # "201"
      /\ UNCHANGED tables /\ UNCHANGED input
  BY InputIsKept DEF SavesNothing, CreateInv, AnsweredWhenDone
<1>2. [c \in Codes |-> EntryOf(c)]' = [c \in Codes |-> EntryOf(c)]
  BY <1>1 DEF EntryOf, tables
<1>3. \A q \in Requests \ {r} : code'[q] = code[q]
  BY DEF SavesNothing, CreateInv, TypeOK
<1>4. CASE pc'[r] = "done"
  <2>1. PICK answer \in {"400", "500", "lost"} : reply' = [reply EXCEPT ![r] = answer]
    BY <1>4 DEF SavesNothing
  <2>2. \A q \in Requests :
          ResponseTo(q)' = IF q = r THEN Book!Response(answer, NoCode) ELSE ResponseTo(q)
    BY <1>3, <2>1 DEF ResponseTo, Book!Response, CreateInv, TypeOK
  <2>3. [q \in Requests |-> ResponseTo(q)]' =
          [[q \in Requests |-> ResponseTo(q)] EXCEPT ![r] = Book!Response(answer, NoCode)]
    BY <2>2
  <2>4. Book!Waits(r)
    BY <1>1, <1>4, WorkedOnWaits, MovesWereSent
  <2> QED
    BY <1>1, <1>2, <2>3, <2>4 DEF Book!Refuse, input
<1>5. CASE pc'[r] # "done"
  <2>1. \A q \in Requests : ResponseTo(q)' = ResponseTo(q)
    BY <1>1, <1>3, <1>5 DEF SavesNothing, ResponseTo
  <2> QED
    BY <1>1, <1>2, <2>1 DEF Book!vars, input
<1> QED
  BY <1>4, <1>5

\* For any requests, codes, repetitions, errors and crashes: POST /reservations
\* implements the book, each request is answered in one step with the decision
\* whether its reservation is entered, and no other step shows.
THEOREM CreationKeepsBook == Spec => KeepsBook
<1>1. Init => Book!Init
  <2> SUFFICES ASSUME Init PROVE Book!Init
    OBVIOUS
  <2>1. \A c \in Codes : EntryOf(c) = Book!Free
    BY DEF Init, EntryOf, Book!Free
  <2>2. \A r \in Requests : ResponseTo(r) = Book!Waiting
    BY DEF Init, ResponseTo, Book!Waiting, Book!Response
  <2> QED
    BY <2>1, <2>2 DEF Init, Book!Init
<1>2. CreateInv /\ CreateInv' /\ [Next]_vars => [Book!Next]_(Book!vars)
  <2> SUFFICES ASSUME CreateInv, CreateInv', [Next]_vars PROVE [Book!Next]_(Book!vars)
    OBVIOUS
  <2>1. ASSUME NEW r \in Requests, Saves(r) PROVE Book!Next
    <3>1. code[r] \in Codes
      BY <2>1 DEF Saves, CreateInv, CodeDrawn
    <3> QED
      BY <2>1, <3>1, SavingEnters DEF Book!Next
  <2>2. ASSUME NEW r \in Requests, SavesNothing(r) PROVE [Book!Next]_(Book!vars)
    BY <2>2, NotSavingRefuses DEF Book!Next
  <2>3. CASE UNCHANGED <<tables, pc, reply, code, wanted>>
    BY <2>3, InputIsKept DEF Book!vars, EntryOf, ResponseTo, tables, input
  <2> QED
    BY <2>1, <2>2, <2>3, StepShape DEF CreateInv
<1> QED
  BY <1>1, <1>2, CreateCorrect, PTL DEF Spec, KeepsBook, Book!Spec
-----------------------------------------------------------------------------
(* Termination *)

\* A step of a request is taken by it alone, and nearer to its answer.
LEMMA ServingRunsDown ==
  ASSUME TypeOK, MayDraw, NEW r \in Requests, Serve(r) \/ DbError(r) \/ Crash(r)
  PROVE  /\ StepsLeft(r)' < StepsLeft(r)
         /\ \A q \in Requests \ {r} : pc'[q] = pc[q] /\ draws'[q] = draws[q]
<1> USE CreateAssumption DEF TypeOK, PCs, Goto, Answer
<1>1. draws[r] \in Nat /\ MaxDraws \in Nat /\ (pc[r] = "generate" => draws[r] < MaxDraws)
  BY DEF MayDraw
<1>2. CASE Generate(r)
  <2>1. /\ pc[r] = "generate"
        /\ \/ pc' = [pc EXCEPT ![r] = "validate"] /\ draws' = draws
           \/ pc' = [pc EXCEPT ![r] = "generate"] /\ draws' = [draws EXCEPT ![r] = @ + 1]
           \/ pc' = [pc EXCEPT ![r] = "done"] /\ draws' = [draws EXCEPT ![r] = @ + 1]
    BY <1>2 DEF Generate
  <2> QED
    BY <1>1, <2>1 DEF StepsLeft
<1>3. CASE Validate(r)
  BY <1>3 DEF Validate, StepsLeft
<1>4. CASE ResolveAddons(r)
  BY <1>4 DEF ResolveAddons, StepsLeft
<1>5. CASE Insert(r)
  BY <1>5 DEF Insert, StepsLeft
<1>6. CASE Commit(r)
  BY <1>6 DEF Commit, StepsLeft
<1>7. CASE DbError(r) \/ Crash(r)
  <2>1. pc[r] # "done" /\ pc' = [pc EXCEPT ![r] = "done"] /\ draws' = draws
    BY <1>7 DEF DbError, Crash
  <2> QED
    BY <1>1, <2>1 DEF StepsLeft
<1> QED
  BY <1>2, <1>3, <1>4, <1>5, <1>6, <1>7 DEF Serve

\* However requests collide, fail and repeat one another, each of them takes at
\* most MaxDraws + 4 steps to its answer.
THEOREM RequestsEnd == Spec => RequestsRunDown
<1>1. CreateInv /\ [Next]_vars =>
        [\A r \in Requests : /\ StepsLeft(r)' <= StepsLeft(r)
                             /\ Serve(r) => StepsLeft(r)' < StepsLeft(r)]_vars
  <2> SUFFICES ASSUME CreateInv, Next, NEW r \in Requests
               PROVE  /\ StepsLeft(r)' <= StepsLeft(r)
                      /\ Serve(r) => StepsLeft(r)' < StepsLeft(r)
    OBVIOUS
  <2> USE DEF CreateInv
  <2>1. StepsLeft(r) \in Nat
    BY CreateAssumption DEF TypeOK, PCs, StepsLeft
  <2>2. CASE Serve(r) \/ DbError(r) \/ Crash(r)
    <3>1. StepsLeft(r)' \in Nat
      BY CreateAssumption, StepType DEF TypeOK, PCs, StepsLeft
    <3> QED
      BY <2>1, <2>2, <3>1, ServingRunsDown
  <2>3. CASE ~Serve(r) /\ ~DbError(r) /\ ~Crash(r)
    <3>1. pc'[r] = pc[r] /\ draws'[r] = draws[r]
      BY <2>3, ServingRunsDown DEF Next, ToggleAddon
    <3>2. StepsLeft(r)' = StepsLeft(r)
      BY <3>1 DEF StepsLeft
    <3> QED
      BY <2>1, <2>3, <3>2
  <2> QED
    BY <2>2, <2>3
<1> QED
  BY <1>1, CreateCorrect, PTL DEF Spec, RequestsRunDown
=============================================================================
