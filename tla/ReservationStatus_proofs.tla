---------------------- MODULE ReservationStatus_proofs ----------------------
(* Theorems about ReservationStatus, for any number of handlers. *)
EXTENDS ReservationStatus, TLAPS

\* Whatever the handler finds, the status it resolves is a status.
LEMMA ResolveStatusType ==
  ASSUME NEW s \in Statuses, NEW p \in BOOLEAN, NEW b \in BOOLEAN
  PROVE  ResolveStatus(s, p, b) \in Statuses
BY DEF ResolveStatus, Statuses

\* It resolves to SUPPLIER_CONFIRMED with both successes only, to PAID only
\* with the payment's, or keeps a cancelled status.
LEMMA ResolveStatusEarned ==
  ASSUME NEW s \in Statuses, NEW p \in BOOLEAN, NEW b \in BOOLEAN,
         ResolveStatus(s, p, b) # s
  PROVE  /\ ResolveStatus(s, p, b) = "SUPPLIER_CONFIRMED" => p /\ b
         /\ ResolveStatus(s, p, b) = "PAID" => p
BY DEF ResolveStatus, Statuses

\* A success a handler counts is a success that has been saved.
LEMMA SuccessIsSaved ==
  ASSUME TypeOK, ResponseSavedFirst, NEW h \in Handlers, pc[h] = "resolve",
         NEW type \in RequestTypes
  PROVE  /\ Success(h, type) \in BOOLEAN
         /\ Success(h, type) => Succeeded(type)
<1>1. request[h] \in Response /\ request[h] \in saved
  BY DEF TypeOK, ResponseSavedFirst
<1>2. CASE request[h].type = type
  <2>1. Success(h, type) = request[h].success
    BY <1>2 DEF Success
  <2>2. request[h].success \in BOOLEAN
    BY <1>1 DEF Response
  <2>3. ASSUME request[h].success PROVE request[h] = [type |-> type, success |-> TRUE]
    BY <1>1, <1>2, <2>3 DEF Response
  <2> QED
    BY <1>1, <2>1, <2>2, <2>3 DEF Succeeded
<1>3. CASE request[h].type # type
  BY <1>3 DEF Success, Succeeded
<1> QED
  BY <1>2, <1>3

\* Every variable keeps its type; the saved responses only grow.
LEMMA StepType ==
  ASSUME TypeOK, HandledExists, ResponseSavedFirst, [Next]_vars
  PROVE  TypeOK' /\ saved \subseteq saved'
<1> USE DEF TypeOK, PCs
<1>1. CASE Create
  BY <1>1 DEF Create, Statuses
<1>2. CASE Cancel
  <2>1. [from |-> status, to |-> "CANCELLED"] \in Change
    BY <1>2 DEF Cancel, Change, Statuses
  <2> QED
    BY <1>2, <2>1 DEF Cancel, NoteOverlap, Statuses
<1>3. ASSUME NEW h \in Handlers, GetStatus(h) PROVE TypeOK' /\ saved \subseteq saved'
  BY <1>3 DEF GetStatus, NoteOverlap
<1>4. ASSUME NEW h \in Handlers, SaveResponse(h) PROVE TypeOK' /\ saved \subseteq saved'
  BY <1>4 DEF SaveResponse
<1>5. ASSUME NEW h \in Handlers, Resolve(h) PROVE TypeOK' /\ saved \subseteq saved'
  <2>1. ResolveStatus(current[h], Success(h, "PAYMENT"), Success(h, "BOOKING")) \in Statuses
    BY <1>5, SuccessIsSaved, ResolveStatusType DEF Resolve, RequestTypes
  <2> QED
    BY <1>5, <2>1 DEF Resolve
<1>6. ASSUME NEW h \in Handlers, Load(h) PROVE TypeOK' /\ saved \subseteq saved'
  BY <1>6 DEF Load, HandledExists, Running
<1>7. ASSUME NEW h \in Handlers, Write(h) PROVE TypeOK' /\ saved \subseteq saved'
  <2>1. [from |-> current[h], to |-> target[h]] \in Change
    BY DEF Change
  <2> QED
    BY <1>7, <2>1 DEF Write
<1>8. ASSUME NEW h \in Handlers, Abort(h) PROVE TypeOK' /\ saved \subseteq saved'
  BY <1>8 DEF Abort
<1>9. CASE UNCHANGED vars
  BY <1>9 DEF vars
<1> QED
  BY <1>1, <1>2, <1>3, <1>4, <1>5, <1>6, <1>7, <1>8, <1>9 DEF Next, Handle

\* Whatever the interleaving of handlers, aborts and cancellations, a status
\* that says a service has answered with success is backed by a saved success.
THEOREM StatusCorrect == Spec => []EarnedInv
<1>1. Init => EarnedInv
  <2> SUFFICES ASSUME Init PROVE EarnedInv
    OBVIOUS
  <2>1. request \in [Handlers -> Response]
    BY StatusAssumption DEF Init
  <2>2. TypeOK
    <3>1. overlapped \in BOOLEAN
      BY Zenon DEF Init
    <3>2. history \in Seq(Change)
      BY DEF Init
    <3> QED
      BY <2>1, <3>1, <3>2 DEF Init, TypeOK, PCs, Statuses
  <2> QED
    BY <2>2 DEF Init, EarnedInv, HandledExists, StatusIsEarned, ResponseSavedFirst,
                TargetIsEarned, Running
<1>2. EarnedInv /\ [Next]_vars => EarnedInv'
  <2> SUFFICES ASSUME EarnedInv, [Next]_vars PROVE EarnedInv'
    OBVIOUS
  <2> USE DEF EarnedInv
  <2>1. TypeOK' /\ saved \subseteq saved'
    BY StepType
  <2>2. \A type \in RequestTypes : Succeeded(type) => Succeeded(type)'
    BY <2>1 DEF Succeeded
  <2>3. HandledExists'
    BY DEF HandledExists, Running, TypeOK, Next, vars, Create, Cancel, Handle, GetStatus,
           SaveResponse, Resolve, Load, Write, Abort, Statuses
  <2>4. ResponseSavedFirst'
    BY DEF ResponseSavedFirst, TypeOK, Next, vars, Create, Cancel, Handle, GetStatus,
           SaveResponse, Resolve, Load, Write, Abort
  <2>5. TargetIsEarned'
    <3> SUFFICES ASSUME NEW h \in Handlers, pc'[h] \in {"load", "write"}
                 PROVE  /\ target'[h] = "SUPPLIER_CONFIRMED" =>
                             Succeeded("PAYMENT")' /\ Succeeded("BOOKING")'
                        /\ target'[h] = "PAID" => Succeeded("PAYMENT")'
      BY DEF TargetIsEarned
    <3>1. CASE Resolve(h)
      <4> DEFINE p == Success(h, "PAYMENT")
                 b == Success(h, "BOOKING")
      <4>1. /\ p \in BOOLEAN /\ (p => Succeeded("PAYMENT"))
            /\ b \in BOOLEAN /\ (b => Succeeded("BOOKING"))
        BY <3>1, SuccessIsSaved DEF Resolve, RequestTypes
      <4>2. target'[h] = ResolveStatus(current[h], p, b) /\ target'[h] # current[h]
        BY <3>1 DEF Resolve, TypeOK
      <4>3. current[h] \in Statuses
        BY DEF TypeOK
      <4> HIDE DEF p, b
      <4>4. /\ target'[h] = "SUPPLIER_CONFIRMED" => p /\ b
            /\ target'[h] = "PAID" => p
        BY <4>1, <4>2, <4>3, ResolveStatusEarned
      <4> QED
        BY <2>2, <4>1, <4>4 DEF RequestTypes
    <3>2. CASE ~Resolve(h)
      <4>1. pc[h] \in {"load", "write"} /\ target'[h] = target[h]
        BY <3>2 DEF TypeOK, Next, vars, Create, Cancel, Handle, GetStatus,
                    SaveResponse, Resolve, Load, Write, Abort
      <4> QED
        BY <2>2, <4>1 DEF TargetIsEarned, RequestTypes
    <3> QED
      BY <3>1, <3>2
  <2>6. StatusIsEarned'
    <3>1. ASSUME NEW h \in Handlers, Write(h) PROVE StatusIsEarned'
      BY <2>2, <3>1 DEF Write, StatusIsEarned, TargetIsEarned, RequestTypes
    <3>2. CASE \A h \in Handlers : ~Write(h)
      <4>1. status' \in {status, "CREATED", "CANCELLED"}
        BY <3>2 DEF Next, vars, Create, Cancel, Handle, GetStatus, SaveResponse,
                    Resolve, Load, Abort
      <4> QED
        BY <2>2, <4>1 DEF StatusIsEarned, RequestTypes
    <3> QED
      BY <3>1, <3>2
  <2> QED
    BY <2>1, <2>3, <2>4, <2>5, <2>6
<1> QED
  BY <1>1, <1>2, PTL DEF Spec

\* No reservation is ever confirmed or paid without the successful responses
\* that say so, however the updates of its status overlap.
THEOREM StatusIsAlwaysEarned == Spec => []StatusIsEarned
<1>1. EarnedInv => StatusIsEarned
  BY DEF EarnedInv
<1> QED
  BY <1>1, StatusCorrect, PTL

\* What ResolveStatus does with both successes, one, or none.
LEMMA ResolveStatusCases ==
  ASSUME NEW s \in Statuses, NEW p \in BOOLEAN, NEW b \in BOOLEAN
  PROVE  /\ s = "CANCELLED" => ResolveStatus(s, p, b) = "CANCELLED"
         /\ s # "CANCELLED" /\ p /\ b => ResolveStatus(s, p, b) = "SUPPLIER_CONFIRMED"
         /\ s # "CANCELLED" /\ p /\ ~b => ResolveStatus(s, p, b) = "PAID"
         /\ s # "CANCELLED" /\ ~p => ResolveStatus(s, p, b) = "CREATED"
BY DEF ResolveStatus, Statuses

\* A handler that resolves, if no response is a failure, resolves by what is
\* saved; it goes on only to change the status.
LEMMA Resolved ==
  ASSUME EarnedInv, NEW h \in Handlers, Resolve(h)
  PROVE  /\ pc[h] = "resolve"
         /\ pc' = [pc EXCEPT ![h] = IF target'[h] = current[h] THEN "done" ELSE "load"]
         /\ \A g \in Handlers \ {h} : target'[g] = target[g]
         /\ current[h] = "CANCELLED" => target'[h] = "CANCELLED"
         /\ NoFailure /\ current[h] # "CANCELLED" =>
              /\ BothSucceeded => target'[h] = "SUPPLIER_CONFIRMED"
              /\ Succeeded("PAYMENT") /\ ~Succeeded("BOOKING") => target'[h] = "PAID"
              /\ ~Succeeded("PAYMENT") => target'[h] = "CREATED"
<1> DEFINE p == Success(h, "PAYMENT")
           b == Success(h, "BOOKING")
<1>1. pc[h] = "resolve" /\ target'[h] = ResolveStatus(current[h], p, b)
  BY DEF Resolve, EarnedInv, TypeOK
<1>2. /\ p \in BOOLEAN /\ (p => Succeeded("PAYMENT"))
      /\ b \in BOOLEAN /\ (b => Succeeded("BOOKING"))
  BY <1>1, SuccessIsSaved DEF EarnedInv, RequestTypes
<1>3. NoFailure => (Succeeded("PAYMENT") => p) /\ (Succeeded("BOOKING") => b)
  BY DEF NoFailure, Success
<1>4. current[h] \in Statuses
  BY DEF EarnedInv, TypeOK
<1> HIDE DEF p, b
<1>5. /\ current[h] = "CANCELLED" => target'[h] = "CANCELLED"
      /\ current[h] # "CANCELLED" /\ p /\ b => target'[h] = "SUPPLIER_CONFIRMED"
      /\ current[h] # "CANCELLED" /\ p /\ ~b => target'[h] = "PAID"
      /\ current[h] # "CANCELLED" /\ ~p => target'[h] = "CREATED"
  BY <1>1, <1>2, <1>4, ResolveStatusCases
<1>6. \A g \in Handlers \ {h} : target'[g] = target[g]
  BY DEF Resolve, EarnedInv, TypeOK
<1>7. pc' = [pc EXCEPT ![h] = IF target'[h] = current[h] THEN "done" ELSE "load"]
  BY DEF Resolve
<1> QED
  BY <1>1, <1>2, <1>3, <1>5, <1>6, <1>7 DEF BothSucceeded

\* An entry appended to a history is there, and so are those before it.
LEMMA Appended ==
  ASSUME NEW s \in Seq(Change), NEW c \in Change
  PROVE  /\ Append(s, c) # <<>>
         /\ Len(Append(s, c)) = Len(s) + 1 /\ Len(s) \in Nat
         /\ DOMAIN Append(s, c) = 1 .. Len(s) + 1 /\ DOMAIN s = 1 .. Len(s)
         /\ Append(s, c)[Len(s) + 1] = c
         /\ \A i \in 1 .. Len(s) : Append(s, c)[i] = s[i]
         /\ \A v : (\E i \in DOMAIN Append(s, c) : Append(s, c)[i].to = v)
                  <=> (\E i \in DOMAIN s : s[i].to = v) \/ c.to = v
<1>1. /\ Append(s, c) # <<>>
      /\ Len(Append(s, c)) = Len(s) + 1 /\ Len(s) \in Nat
      /\ DOMAIN Append(s, c) = 1 .. Len(s) + 1 /\ DOMAIN s = 1 .. Len(s)
      /\ Append(s, c)[Len(s) + 1] = c
      /\ \A i \in 1 .. Len(s) : Append(s, c)[i] = s[i]
  OBVIOUS
<1>2. ASSUME NEW v
      PROVE  (\E i \in 1 .. Len(s) + 1 : Append(s, c)[i].to = v)
             <=> (\E i \in 1 .. Len(s) : s[i].to = v) \/ c.to = v
  <2>1. \A i \in 1 .. Len(s) + 1 : i \in 1 .. Len(s) \/ i = Len(s) + 1
    BY <1>1
  <2>2. Len(s) + 1 \in 1 .. Len(s) + 1 /\ 1 .. Len(s) \subseteq 1 .. Len(s) + 1
    BY <1>1
  <2> QED
    BY <1>1, <2>1, <2>2
<1> QED
  BY <1>1, <1>2

\* Appending a change that starts at the present status keeps the history complete.
LEMMA HistoryGrows ==
  ASSUME TypeOK, NEW c \in Change, history' = Append(history, c),
         HistoryIsComplete, UnchangedIsCreated, ~overlapped, status # "ABSENT",
         c.from = status, status' = c.to
  PROVE  HistoryIsComplete'
<1>1. history \in Seq(Change)
  BY DEF TypeOK
<1>2. \A i \in DOMAIN history :
        history[i].from = IF i = 1 THEN "CREATED" ELSE history[i-1].to
  BY DEF HistoryIsComplete
<1>3. ASSUME NEW i \in DOMAIN history'
      PROVE  history'[i].from = IF i = 1 THEN "CREATED" ELSE history'[i-1].to
  <2>1. CASE i \in 1 .. Len(history)
    <3>1. i # 1 => i - 1 \in 1 .. Len(history)
      BY <1>1, <2>1, Appended
    <3> QED
      BY <1>1, <1>2, <2>1, <3>1, Appended
  <2>2. CASE i = Len(history) + 1
    <3>1. history'[i] = c
      BY <1>1, <2>2, Appended
    <3>2. CASE history = <<>>
      BY <3>1, <3>2, <2>2 DEF UnchangedIsCreated
    <3>3. CASE history # <<>>
      <4>1. Len(history) \in 1 .. Len(history)
        BY <1>1, <3>3
      <4>2. history'[i - 1] = history[Len(history)]
        BY <1>1, <2>2, <4>1, Appended
      <4> QED
        BY <1>1, <2>2, <3>1, <3>3, <4>1, <4>2, Appended DEF HistoryIsComplete
    <3> QED
      BY <3>2, <3>3
  <2> QED
    BY <1>1, <1>3, <2>1, <2>2, Appended
<1>4. history'[Len(history')].to = status'
  BY <1>1, Appended
<1> QED
  BY <1>3, <1>4 DEF HistoryIsComplete

\* A step that leaves history and status alone keeps the history complete.
LEMMA HistoryKept ==
  ASSUME HistoryIsComplete, UNCHANGED <<history, status>>, overlapped => overlapped'
  PROVE  HistoryIsComplete'
BY DEF HistoryIsComplete

\* As long as nothing has overlapped: a handler has read what is still so, and
\* what it will write follows from what is saved.
THEOREM ExclusiveCorrect == Spec => []ExclusiveInv
<1>1. Init /\ EarnedInv => ExclusiveInv
  BY DEF Init, ExclusiveInv, TargetIsChange, AloneAndCurrent, UnchangedIsCreated, Confirmed,
         HistoryIsComplete, Running, BothSucceeded, Succeeded
<1>2. ExclusiveInv /\ EarnedInv' /\ [Next]_vars => ExclusiveInv'
  <2> SUFFICES ASSUME ExclusiveInv, EarnedInv', [Next]_vars PROVE ExclusiveInv'
    OBVIOUS
  <2> DEFINE Alone == ~overlapped => AloneAndCurrent /\ UnchangedIsCreated /\ Confirmed
             NoneSaved == status = "ABSENT" => saved = {}
  <2>1. /\ EarnedInv /\ TypeOK /\ TargetIsChange /\ Alone /\ NoneSaved /\ HistoryIsComplete
        /\ \A h \in Handlers : Running(h) => status # "ABSENT"
    BY DEF ExclusiveInv, EarnedInv, HandledExists
  <2> SUFFICES TargetIsChange' /\ Alone' /\ NoneSaved' /\ HistoryIsComplete'
    BY DEF ExclusiveInv
  <2> USE DEF TypeOK, Running
  <2>2. CASE Create
    <3>1. \A h \in Handlers : ~Running(h)
      BY <2>1, <2>2 DEF Create
    <3>2. TargetIsChange' /\ Alone' /\ NoneSaved'
      BY <2>1, <2>2, <3>1
      DEF Create, TargetIsChange, AloneAndCurrent, UnchangedIsCreated, Confirmed, BothSucceeded,
          Succeeded
    <3>3. ~overlapped => history = <<>>
      <4>1. history # <<>> => history[Len(history)] \in Change
        BY <2>1
      <4> QED
        BY <2>1, <2>2, <4>1 DEF Create, HistoryIsComplete, Change, Statuses
    <3> QED
      BY <2>2, <3>2, <3>3 DEF Create, HistoryIsComplete
  <2>3. CASE Cancel
    <3>1. ~overlapped' => ~overlapped /\ \A h \in Handlers : ~Running(h)
      BY <2>3 DEF Cancel, NoteOverlap
    <3>2. [from |-> status, to |-> "CANCELLED"] \in Change
      BY <2>1, <2>3 DEF Cancel, Change, Statuses
    <3>3. HistoryIsComplete'
      <4>1. CASE ~overlapped'
        BY <2>1, <2>3, <3>1, <3>2, <4>1, HistoryGrows DEF Cancel
      <4> QED
        BY <4>1 DEF HistoryIsComplete
    <3>4. history' # <<>>
      BY <2>1, <2>3, <3>2, Appended DEF Cancel
    <3>5. Alone'
      BY <2>3, <3>1, <3>4
      DEF Cancel, AloneAndCurrent, UnchangedIsCreated, Confirmed, BothSucceeded, Succeeded
    <3> QED
      BY <2>1, <2>3, <3>3, <3>5 DEF Cancel, TargetIsChange
  <2>4. ASSUME NEW h \in Handlers, GetStatus(h)
        PROVE  TargetIsChange' /\ Alone' /\ NoneSaved' /\ HistoryIsComplete'
    <3>1. ~overlapped' => ~overlapped /\ \A g \in Handlers : ~Running(g)
      BY <2>4 DEF GetStatus, NoteOverlap
    <3>2. HistoryIsComplete'
      BY <2>1, <2>4, <3>1, HistoryKept DEF GetStatus
    <3>3. AloneAndCurrent' \/ overlapped'
      BY <2>1, <2>4, <3>1 DEF GetStatus, AloneAndCurrent
    <3>4. (UnchangedIsCreated /\ Confirmed)' \/ overlapped'
      BY <2>1, <2>4, <3>1
      DEF GetStatus, UnchangedIsCreated, Confirmed, BothSucceeded, Succeeded, NoFailure, Untroubled
    <3>5. TargetIsChange'
      BY <2>1, <2>4 DEF GetStatus, TargetIsChange
    <3> QED
      BY <2>1, <2>4, <3>2, <3>3, <3>4, <3>5 DEF GetStatus
  <2>5. ASSUME NEW h \in Handlers, SaveResponse(h)
        PROVE  TargetIsChange' /\ Alone' /\ NoneSaved' /\ HistoryIsComplete'
    <3>1. HistoryIsComplete'
      BY <2>1, <2>5, HistoryKept DEF SaveResponse
    <3>2. AloneAndCurrent' \/ overlapped'
      BY <2>1, <2>5 DEF SaveResponse, AloneAndCurrent
    <3>3. ~overlapped' => \A g \in Handlers : pc'[g] \notin {"load", "write"}
      BY <2>1, <2>5 DEF SaveResponse, AloneAndCurrent
    <3>4. pc'[h] = "resolve"
      BY <2>1, <2>5 DEF SaveResponse
    <3> QED
      BY <2>1, <2>5, <3>1, <3>2, <3>3, <3>4
      DEF SaveResponse, TargetIsChange, UnchangedIsCreated, Confirmed
  <2>6. ASSUME NEW h \in Handlers, Resolve(h)
        PROVE  TargetIsChange' /\ Alone' /\ NoneSaved' /\ HistoryIsComplete'
    <3>1. HistoryIsComplete'
      BY <2>1, <2>6, HistoryKept DEF Resolve
    <3>2. /\ pc[h] = "resolve"
          /\ pc' = [pc EXCEPT ![h] = IF target'[h] = current[h] THEN "done" ELSE "load"]
          /\ \A g \in Handlers \ {h} : target'[g] = target[g]
          /\ current[h] = "CANCELLED" => target'[h] = "CANCELLED"
          /\ NoFailure /\ BothSucceeded /\ current[h] # "CANCELLED" =>
               target'[h] = "SUPPLIER_CONFIRMED"
      BY <2>1, <2>6, Resolved
    <3>3. UNCHANGED <<status, saved, history, request, current, loaded, overlapped>>
      BY <2>6 DEF Resolve
    <3>4. TargetIsChange'
      BY <2>1, <3>2, <3>3 DEF TargetIsChange
    <3>5. AloneAndCurrent' \/ overlapped'
      BY <2>1, <3>2, <3>3 DEF AloneAndCurrent
    <3>6. ~overlapped => status = current[h] /\ \A g \in Handlers : Running(g) => g = h
      BY <2>1, <3>2 DEF AloneAndCurrent
    <3>7. Confirmed' \/ overlapped'
      <4> SUFFICES ASSUME ~overlapped, NoFailure, BothSucceeded PROVE Confirmed'
        BY <3>3 DEF Confirmed, NoFailure, BothSucceeded, Succeeded
      <4>1. CASE target'[h] = current[h]
        <5>1. status' \in {"SUPPLIER_CONFIRMED", "CANCELLED"}
          BY <3>2, <3>3, <3>6, <4>1
        <5>2. \A g \in Handlers : pc'[g] \notin {"load", "write"}
          BY <2>1, <3>2, <3>6, <4>1
        <5> QED
          BY <5>1, <5>2 DEF Confirmed
      <4>2. CASE target'[h] # current[h]
        <5>1. target'[h] = "SUPPLIER_CONFIRMED" /\ pc'[h] = "load"
          BY <2>1, <3>2, <4>2
        <5>2. \A g \in Handlers : pc'[g] \in {"load", "write"} => g = h
          BY <2>1, <3>2, <3>6, <4>2
        <5> QED
          BY <5>1, <5>2 DEF Confirmed
      <4> QED
        BY <4>1, <4>2
    <3> QED
      BY <2>1, <3>1, <3>3, <3>4, <3>5, <3>7 DEF UnchangedIsCreated
  <2>7. ASSUME NEW h \in Handlers, Load(h)
        PROVE  TargetIsChange' /\ Alone' /\ NoneSaved' /\ HistoryIsComplete'
    <3>1. HistoryIsComplete'
      BY <2>1, <2>7, HistoryKept DEF Load
    <3>2. AloneAndCurrent' \/ overlapped'
      BY <2>1, <2>7 DEF Load, AloneAndCurrent
    <3>3. Confirmed' \/ overlapped'
      <4>1. pc[h] = "load" /\ pc'[h] = "write"
        BY <2>1, <2>7 DEF Load
      <4> QED
        BY <2>1, <2>7, <4>1 DEF Load, Confirmed, BothSucceeded, Succeeded, NoFailure, Untroubled
    <3> QED
      BY <2>1, <2>7, <3>1, <3>2, <3>3 DEF Load, TargetIsChange, UnchangedIsCreated
  <2>8. ASSUME NEW h \in Handlers, Write(h)
        PROVE  TargetIsChange' /\ Alone' /\ NoneSaved' /\ HistoryIsComplete'
    <3>1. [from |-> current[h], to |-> target[h]] \in Change
      BY <2>1 DEF Change
    <3>2. history' # <<>> /\ status # "ABSENT"
      BY <2>1, <2>8, <3>1, Appended DEF Write
    <3>3. ~overlapped => /\ status = current[h] /\ status' = target[h]
                        /\ \A g \in Handlers : Running(g) => g = h
      BY <2>1, <2>8 DEF Write, AloneAndCurrent
    <3>4. HistoryIsComplete'
      <4>1. CASE ~overlapped
        BY <2>1, <2>8, <3>1, <3>2, <3>3, <4>1, HistoryGrows DEF Write
      <4> QED
        BY <2>8, <4>1 DEF Write, HistoryIsComplete
    <3>5. ~overlapped => \A g \in Handlers : ~Running(g)'
      BY <2>1, <2>8, <3>3 DEF Write
    <3>6. Confirmed' \/ overlapped'
      <4> SUFFICES ASSUME ~overlapped, NoFailure, BothSucceeded PROVE Confirmed'
        BY <2>8 DEF Write, Confirmed, NoFailure, BothSucceeded, Succeeded
      <4>1. status' = "SUPPLIER_CONFIRMED"
        BY <2>1, <2>8, <3>3 DEF Write, Confirmed
      <4> QED
        BY <3>5, <4>1 DEF Confirmed
    <3>7. TargetIsChange'
      BY <2>1, <2>8 DEF Write, TargetIsChange
    <3>8. NoneSaved'
      BY <2>1, <2>8 DEF Write, Statuses
    <3> QED
      BY <2>8, <3>2, <3>4, <3>5, <3>6, <3>7, <3>8 DEF Write, AloneAndCurrent, UnchangedIsCreated
  <2>9. ASSUME NEW h \in Handlers, Abort(h)
        PROVE  TargetIsChange' /\ Alone' /\ NoneSaved' /\ HistoryIsComplete'
    <3>1. HistoryIsComplete'
      BY <2>1, <2>9, HistoryKept DEF Abort
    <3>2. AloneAndCurrent' \/ overlapped'
      BY <2>1, <2>9 DEF Abort, AloneAndCurrent
    <3>3. ~Untroubled'
      BY <2>1, <2>9 DEF Abort, Untroubled
    <3> QED
      BY <2>1, <2>9, <3>1, <3>2, <3>3
      DEF Abort, TargetIsChange, UnchangedIsCreated, Confirmed, BothSucceeded, Succeeded, NoFailure
  <2>10. CASE UNCHANGED vars
    BY <2>1, <2>10, HistoryKept
    DEF vars, TargetIsChange, AloneAndCurrent, UnchangedIsCreated, Confirmed, BothSucceeded,
        Succeeded, NoFailure, Untroubled
  <2> QED
    BY <2>2, <2>3, <2>4, <2>5, <2>6, <2>7, <2>8, <2>9, <2>10 DEF Next, Handle
<1> QED
  BY <1>1, <1>2, StatusCorrect, PTL DEF Spec

\* Updates and cancellations that do not overlap leave a complete history.
THEOREM HistoryStaysComplete == Spec => []HistoryIsComplete
<1>1. ExclusiveInv => HistoryIsComplete
  BY DEF ExclusiveInv
<1> QED
  BY <1>1, ExclusiveCorrect, PTL

\* Without overlap and failures two successes confirm the reservation.
THEOREM SuccessesConfirm == Spec => []ConfirmedUnlessFailed
<1>1. ExclusiveInv => ConfirmedUnlessFailed
  BY DEF ExclusiveInv, Confirmed, ConfirmedUnlessFailed, ConfirmedWhenBothSucceeded, BothSucceeded,
         AllEnded, Running
<1> QED
  BY <1>1, ExclusiveCorrect, PTL

\* Without overlap no handler takes a cancellation back.
THEOREM CancellationIsFinal == Spec => CancelledIsFinal
<1>1. ExclusiveInv /\ [Next]_vars =>
        [~overlapped' /\ status = "CANCELLED" => status' = "CANCELLED"]_vars
  <2> SUFFICES ASSUME ExclusiveInv, Next, ~overlapped', status = "CANCELLED"
               PROVE  status' = "CANCELLED"
    BY DEF vars
  <2>1. ASSUME NEW h \in Handlers, Write(h) PROVE status' = "CANCELLED"
    BY <2>1 DEF Write, ExclusiveInv, AloneAndCurrent, TargetIsChange, Running
  <2>2. CASE \A h \in Handlers : ~Write(h)
    BY <2>2 DEF Next, Handle, Create, Cancel, GetStatus, SaveResponse, Resolve, Load, Abort
  <2> QED
    BY <2>1, <2>2
<1> QED
  BY <1>1, ExclusiveCorrect, PTL DEF Spec, CancelledIsFinal

\* What an appended change means for the two things asked of a history.
LEMMA HistoryTold ==
  ASSUME TypeOK, NEW c \in Change, history' = Append(history, c)
  PROVE  /\ ConfirmationWritten' <=> ConfirmationWritten \/ c.to = "SUPPLIER_CONFIRMED"
         /\ Cancelled' <=> Cancelled \/ c.to = "CANCELLED"
<1> DEFINE h == history
           k == Append(h, c)
<1>1. h \in Seq(Change) /\ history' = k
  BY DEF TypeOK
<1> HIDE DEF h, k
<1>2. \A v : (\E i \in DOMAIN k : k[i].to = v) <=> (\E i \in DOMAIN h : h[i].to = v) \/ c.to = v
  BY <1>1, Appended DEF k
<1>3. /\ ConfirmationWritten' <=> \E i \in DOMAIN k : k[i].to = "SUPPLIER_CONFIRMED"
      /\ ConfirmationWritten <=> \E i \in DOMAIN h : h[i].to = "SUPPLIER_CONFIRMED"
      /\ Cancelled' <=> \E i \in DOMAIN k : k[i].to = "CANCELLED"
      /\ Cancelled <=> \E i \in DOMAIN h : h[i].to = "CANCELLED"
  BY <1>1 DEF ConfirmationWritten, Cancelled, h
<1> QED
  BY <1>2, <1>3

\* However handlers overlap: without failures and cancellations the handler that
\* sees both successes writes the confirmation, and none takes it back further
\* than to PAID.
THEOREM NoticedCorrect == Spec => []NoticedInv
<1>1. Init /\ EarnedInv => NoticedInv
  BY DEF Init, NoticedInv, NoStepBack, ConfirmationWritten, BothSucceeded, Succeeded
<1>2. NoticedInv /\ ExclusiveInv /\ EarnedInv' /\ [Next]_vars => NoticedInv'
  <2> SUFFICES ASSUME NoticedInv, ExclusiveInv, EarnedInv', [Next]_vars,
                      NoFailure', ~Cancelled'
               PROVE  NoticedInv'
    BY DEF NoticedInv
  <2> DEFINE Noticed ==
        Untroubled /\ BothSucceeded =>
          \/ ConfirmationWritten
          \/ \E h \in Handlers : pc[h] = "resolve"
          \/ \E h \in Handlers : pc[h] \in {"load", "write"} /\ target[h] = "SUPPLIER_CONFIRMED"
  <2>1. EarnedInv /\ TypeOK /\ StatusIsEarned /\ TargetIsChange
    BY DEF ExclusiveInv, EarnedInv
  <2>2. NoFailure
    BY DEF Next, vars, Create, Cancel, Handle, GetStatus, SaveResponse, Resolve, Load, Write,
           Abort, NoFailure
  <2>3. ASSUME NEW h \in Handlers, Write(h)
        PROVE  /\ [from |-> current[h], to |-> target[h]] \in Change
               /\ ConfirmationWritten' <=> ConfirmationWritten \/ target[h] = "SUPPLIER_CONFIRMED"
               /\ Cancelled' <=> Cancelled \/ target[h] = "CANCELLED"
    <3>1. [from |-> current[h], to |-> target[h]] \in Change
      BY <2>1 DEF TypeOK, Change
    <3> QED
      BY <2>1, <2>3, <3>1, HistoryTold DEF Write
  <2>4. ~Cancel /\ ~Cancelled
    <3>1. ASSUME Cancel PROVE FALSE
      <4>1. [from |-> status, to |-> "CANCELLED"] \in Change
        BY <2>1, <3>1 DEF Cancel, Change, TypeOK, Statuses
      <4> QED
        BY <2>1, <3>1, <4>1, HistoryTold DEF Cancel
    <3>2. CASE \E h \in Handlers : Write(h)
      BY <2>3, <3>1, <3>2
    <3>3. CASE ~\E h \in Handlers : Write(h)
      BY <3>1, <3>3 DEF Next, vars, Create, Handle, GetStatus, SaveResponse, Resolve, Load, Abort,
                        Cancelled
    <3> QED
      BY <3>1, <3>2, <3>3
  <2>5. NoStepBack /\ Noticed
    BY <2>2, <2>4 DEF NoticedInv
  <2> SUFFICES NoStepBack' /\ Noticed'
    BY DEF NoticedInv
  <2> USE DEF TypeOK
  <2>6. ASSUME NEW h \in Handlers, Write(h) PROVE NoStepBack' /\ Noticed'
    <3>1. target[h] \in {"PAID", "SUPPLIER_CONFIRMED"} /\ pc[h] = "write"
      BY <2>5, <2>6 DEF Write, NoStepBack
    <3>2. status' = IF target[h] = loaded[h] THEN status ELSE target[h]
      BY <2>6 DEF Write
    <3>3. status' \in {"PAID", "SUPPLIER_CONFIRMED"}
      BY <2>5, <3>1, <3>2 DEF NoStepBack
    <3>4. status' = "SUPPLIER_CONFIRMED" => ConfirmationWritten'
      BY <2>3, <2>5, <2>6, <3>2 DEF NoStepBack
    <3>5. NoStepBack'
      BY <2>1, <2>3, <2>5, <2>6, <3>3, <3>4 DEF Write, NoStepBack, Succeeded
    <3>6. Noticed'
      BY <2>1, <2>3, <2>5, <2>6 DEF Write, BothSucceeded, Succeeded, Untroubled
    <3> QED
      BY <3>5, <3>6
  <2>7. ASSUME NEW h \in Handlers, Resolve(h) PROVE NoStepBack' /\ Noticed'
    <3>1. /\ pc[h] = "resolve"
          /\ pc' = [pc EXCEPT ![h] = IF target'[h] = current[h] THEN "done" ELSE "load"]
          /\ \A g \in Handlers \ {h} : target'[g] = target[g]
          /\ BothSucceeded => target'[h] = "SUPPLIER_CONFIRMED"
          /\ Succeeded("PAYMENT") /\ ~Succeeded("BOOKING") => target'[h] = "PAID"
          /\ ~Succeeded("PAYMENT") => target'[h] = "CREATED"
      BY <2>1, <2>2, <2>5, <2>7, Resolved DEF NoStepBack
    <3>2. UNCHANGED <<status, saved, history, request, current, loaded, overlapped>>
      BY <2>7 DEF Resolve
    <3>3. current[h] \in {"CREATED", "PAID", "SUPPLIER_CONFIRMED"}
      BY <2>1, <2>5 DEF NoStepBack, Statuses
    <3>4. ~Succeeded("PAYMENT") => current[h] = "CREATED"
      BY <2>1, <2>5, <3>3 DEF NoStepBack, StatusIsEarned
    <3>5. target'[h] # current[h] => target'[h] \in {"PAID", "SUPPLIER_CONFIRMED"}
      BY <3>1, <3>4 DEF BothSucceeded
    <3>6. NoStepBack'
      BY <2>1, <2>5, <3>1, <3>2, <3>5 DEF NoStepBack, ConfirmationWritten, Succeeded
    <3>7. Noticed'
      <4> SUFFICES ASSUME BothSucceeded PROVE Noticed'
        BY <3>2 DEF BothSucceeded, Succeeded
      <4>1. CASE target'[h] = current[h]
        BY <2>5, <3>1, <3>2, <4>1 DEF NoStepBack, ConfirmationWritten
      <4>2. CASE target'[h] # current[h]
        BY <2>1, <3>1, <4>2
      <4> QED
        BY <4>1, <4>2
    <3> QED
      BY <3>6, <3>7
  <2>8. ASSUME NEW h \in Handlers, GetStatus(h) PROVE NoStepBack' /\ Noticed'
    <3>1. NoStepBack'
      BY <2>1, <2>5, <2>8 DEF GetStatus, NoStepBack, ConfirmationWritten, Succeeded, StatusIsEarned
    <3>2. Noticed'
      BY <2>1, <2>5, <2>8
      DEF GetStatus, ConfirmationWritten, BothSucceeded, Succeeded, Untroubled
    <3> QED
      BY <3>1, <3>2
  <2>9. ASSUME NEW h \in Handlers, SaveResponse(h) PROVE NoStepBack' /\ Noticed'
    <3>1. NoStepBack'
      BY <2>1, <2>5, <2>9 DEF SaveResponse, NoStepBack, ConfirmationWritten, Succeeded
    <3>2. pc'[h] = "resolve"
      BY <2>1, <2>9 DEF SaveResponse
    <3> QED
      BY <3>1, <3>2
  <2>10. ASSUME NEW h \in Handlers, Load(h) PROVE NoStepBack' /\ Noticed'
    <3>1. NoStepBack'
      BY <2>1, <2>5, <2>10 DEF Load, NoStepBack, ConfirmationWritten, Succeeded
    <3>2. pc[h] = "load" /\ pc'[h] = "write"
      BY <2>1, <2>10 DEF Load
    <3>3. Noticed'
      BY <2>1, <2>5, <2>10, <3>2
      DEF Load, ConfirmationWritten, BothSucceeded, Succeeded, Untroubled
    <3> QED
      BY <3>1, <3>3
  <2>11. ASSUME NEW h \in Handlers, Abort(h) PROVE NoStepBack' /\ Noticed'
    <3>1. ~Untroubled'
      BY <2>1, <2>11 DEF Abort, Untroubled
    <3>2. NoStepBack'
      BY <2>1, <2>5, <2>11 DEF Abort, NoStepBack, ConfirmationWritten, Succeeded
    <3> QED
      BY <3>1, <3>2
  <2>12. CASE Create
    BY <2>1, <2>5, <2>12
    DEF Create, NoStepBack, ConfirmationWritten, BothSucceeded, Succeeded, Untroubled
  <2>13. CASE UNCHANGED vars
    BY <2>1, <2>5, <2>13
    DEF vars, NoStepBack, ConfirmationWritten, BothSucceeded, Succeeded, Untroubled
  <2> QED
    BY <2>4, <2>6, <2>7, <2>8, <2>9, <2>10, <2>11, <2>12, <2>13 DEF Next, Handle
<1> QED
  BY <1>1, <1>2, StatusCorrect, ExclusiveCorrect, PTL DEF Spec

\* Overlapping successes do not go unnoticed: one handler writes the
\* confirmation to the history, and the status ends PAID at the least.
THEOREM ConfirmationsAreNoticed == Spec => []ConfirmationIsNoticed
<1>1. NoticedInv => ConfirmationIsNoticed
  BY DEF NoticedInv, NoStepBack, ConfirmationIsNoticed, ConfirmationWritten, BothSucceeded,
         AllEnded, Running
<1> QED
  BY <1>1, NoticedCorrect, PTL

\* All of it: the invariant the run checks.
THEOREM StatusInvariant == Spec => []StatusInv
BY ExclusiveCorrect, NoticedCorrect, PTL DEF StatusInv
=============================================================================
