-------------------------- MODULE ReservationStatus --------------------------
(***************************************************************************)
(* The life cycle of one reservation under UpdateReservationStatusUseCase. *)
(*                                                                         *)
(* Each handler executes the use case for one response of the payment or   *)
(* the provider service.  It does so in up to five database transactions   *)
(* (read the status, save the response, look for a successful response of  *)
(* the other service, load the row, write status and history), between     *)
(* which other handlers and the external cancellation service run.         *)
(* Reservations share no state here, so one is enough.                     *)
(***************************************************************************)
EXTENDS Naturals, Sequences

CONSTANTS
  Handlers,     \* executions of the use case
  Requests,     \* the responses they may be given, see Response
  Cancellable   \* does the cancellation service act on the reservation?

RequestTypes == {"PAYMENT", "BOOKING"}
Response == [type : RequestTypes, success : BOOLEAN]
Statuses == {"CREATED", "PAYMENT_IN_PROGRESS", "PAID", "SUPPLIER_CONFIRMED", "CANCELLED"}

ASSUME StatusAssumption ==
  /\ Requests \subseteq Response
  /\ Cancellable \in BOOLEAN

VARIABLES
  status,    \* reservations.status, or "ABSENT" before the reservation is saved
  saved,     \* reservation_provider_requests of the reservation
  history,   \* reservation_status_history of the reservation
  pc,        \* handler -> the step it takes next
  request,   \* handler -> its response
  current,   \* handler -> current_status
  target,    \* handler -> target_status
  loaded,    \* handler -> status of the row set_status has loaded
  overlapped \* has a handler begun, or a cancellation been made, while
             \* another handler was running? (history)

vars == <<status, saved, history, pc, request, current, target, loaded, overlapped>>

PCs == {"start", "save", "resolve", "load", "write", "done", "not_found", "aborted"}

Change == [from : Statuses, to : Statuses]

TypeOK ==
  /\ status \in Statuses \cup {"ABSENT"}
  /\ saved \subseteq Response
  /\ history \in Seq(Change)
  /\ pc \in [Handlers -> PCs]
  /\ request \in [Handlers -> Response]
  /\ current \in [Handlers -> Statuses]
  /\ target \in [Handlers -> Statuses]
  /\ loaded \in [Handlers -> Statuses]
  /\ overlapped \in BOOLEAN

Init ==
  /\ status = "ABSENT"
  /\ saved = {}
  /\ history = <<>>
  /\ pc = [h \in Handlers |-> "start"]
  /\ request \in [Handlers -> Requests]
  /\ current = [h \in Handlers |-> "CREATED"]
  /\ target = [h \in Handlers |-> "CREATED"]
  /\ loaded = [h \in Handlers |-> "CREATED"]
  /\ overlapped = FALSE

-----------------------------------------------------------------------------
Running(h) == pc[h] \in {"save", "resolve", "load", "write"}

NoteOverlap == overlapped' = (overlapped \/ \E h \in Handlers : Running(h))

\* The publisher commits the reservation as CREATED.
Create ==
  /\ status = "ABSENT"
  /\ status' = "CREATED"
  /\ UNCHANGED <<saved, history, pc, request, current, target, loaded, overlapped>>

\* get_status, in a session of its own.
GetStatus(h) ==
  /\ pc[h] = "start"
  /\ NoteOverlap
  /\ \/ /\ status = "ABSENT"
        /\ pc' = [pc EXCEPT ![h] = "not_found"]
        /\ UNCHANGED current
     \/ /\ status # "ABSENT"
        /\ current' = [current EXCEPT ![h] = status]
        /\ pc' = [pc EXCEPT ![h] = "save"]
  /\ UNCHANGED <<status, saved, history, request, target, loaded>>

\* save_external_response commits the response, whatever it says.
SaveResponse(h) ==
  /\ pc[h] = "save"
  /\ saved' = saved \cup {request[h]}
  /\ pc' = [pc EXCEPT ![h] = "resolve"]
  /\ UNCHANGED <<status, history, request, current, target, loaded, overlapped>>

Succeeded(type) == [type |-> type, success |-> TRUE] \in saved

\* Mutants: the response at hand speaks for both services, or for its own alone.
MutSuccessOfEither(h, type) == request[h].success
MutSuccessOwnOnly(h, type) == request[h].type = type /\ request[h].success

\* The response at hand speaks for its own service, the table for the other.
Success(h, type) == IF request[h].type = type THEN request[h].success ELSE Succeeded(type)

\* Mutants: one success confirms; a cancelled reservation is resolved as well.
MutResolveEither(currentStatus, paymentSuccess, providerSuccess) ==
  CASE currentStatus = "CANCELLED"       -> currentStatus
    [] currentStatus # "CANCELLED" /\ (paymentSuccess \/ providerSuccess) -> "SUPPLIER_CONFIRMED"
    [] OTHER                             -> "CREATED"
MutResolveCancelled(currentStatus, paymentSuccess, providerSuccess) ==
  CASE paymentSuccess /\ providerSuccess  -> "SUPPLIER_CONFIRMED"
    [] paymentSuccess /\ ~providerSuccess -> "PAID"
    [] OTHER                              -> "CREATED"

ResolveStatus(currentStatus, paymentSuccess, providerSuccess) ==
  CASE currentStatus = "CANCELLED"       -> currentStatus
    [] currentStatus # "CANCELLED" /\ paymentSuccess /\ providerSuccess -> "SUPPLIER_CONFIRMED"
    [] currentStatus # "CANCELLED" /\ paymentSuccess /\ ~providerSuccess -> "PAID"
    [] OTHER                             -> "CREATED"

\* has_successful_request and _resolve_status; an unchanged status ends it.
Resolve(h) ==
  /\ pc[h] = "resolve"
  /\ target' = [target EXCEPT ![h] =
                  ResolveStatus(current[h], Success(h, "PAYMENT"), Success(h, "BOOKING"))]
  /\ pc' = [pc EXCEPT ![h] = IF target'[h] = current[h] THEN "done" ELSE "load"]
  /\ UNCHANGED <<status, saved, history, request, current, loaded, overlapped>>

\* set_status opens its transaction with a plain, unlocked read of the row.
Load(h) ==
  /\ pc[h] = "load"
  /\ loaded' = [loaded EXCEPT ![h] = status]
  /\ pc' = [pc EXCEPT ![h] = "write"]
  /\ UNCHANGED <<status, saved, history, request, current, target, overlapped>>

\* Mutant: from and to swapped in the history.
MutWriteSwapped(h) ==
  /\ pc[h] = "write"
  /\ status' = IF target[h] = loaded[h] THEN status ELSE target[h]
  /\ history' = Append(history, [from |-> target[h], to |-> current[h]])
  /\ pc' = [pc EXCEPT ![h] = "done"]
  /\ UNCHANGED <<saved, request, current, target, loaded, overlapped>>

\* It commits the history row, and the status if it differs from the one
\* loaded: the ORM leaves an unchanged column out of the UPDATE.
Write(h) ==
  /\ pc[h] = "write"
  /\ status' = IF target[h] = loaded[h] THEN status ELSE target[h]
  /\ history' = Append(history, [from |-> current[h], to |-> target[h]])
  /\ pc' = [pc EXCEPT ![h] = "done"]
  /\ UNCHANGED <<saved, request, current, target, loaded, overlapped>>

\* A database error or a crash ends a handler between two transactions.
Abort(h) ==
  /\ Running(h)
  /\ pc' = [pc EXCEPT ![h] = "aborted"]
  /\ UNCHANGED <<status, saved, history, request, current, target, loaded, overlapped>>

\* The cancellation service, which shares the tables, cancels at any time.
Cancel ==
  /\ Cancellable
  /\ NoteOverlap
  /\ status \notin {"ABSENT", "CANCELLED"}
  /\ status' = "CANCELLED"
  /\ history' = Append(history, [from |-> status, to |-> "CANCELLED"])
  /\ UNCHANGED <<saved, pc, request, current, target, loaded>>

Handle(h) == GetStatus(h) \/ SaveResponse(h) \/ Resolve(h) \/ Load(h) \/ Write(h)

Next == \/ Create \/ Cancel
        \/ \E h \in Handlers : Handle(h) \/ Abort(h)

Spec == Init /\ [][Next]_vars

-----------------------------------------------------------------------------
(* Properties *)

\* However handlers and cancellations interleave, a reservation is
\* SUPPLIER_CONFIRMED only if both services have answered with success, and
\* PAID only if the payment service has.
StatusIsEarned ==
  /\ status = "SUPPLIER_CONFIRMED" => Succeeded("PAYMENT") /\ Succeeded("BOOKING")
  /\ status = "PAID" => Succeeded("PAYMENT")

AllEnded == \A h \in Handlers : ~Running(h) /\ pc[h] # "start"

Untroubled == \A h \in Handlers : pc[h] \notin {"aborted", "not_found"}

Cancelled == \E i \in DOMAIN history : history[i].to = "CANCELLED"

NoFailure == \A h \in Handlers : request[h].success

\* Every response is saved before the other service's are looked for, so of
\* two concurrent successes at least one handler sees both: once all handlers
\* have ended, of a reservation that was not cancelled and had no failure, the
\* confirmation has been written to the history, and the status is at least
\* PAID.
ConfirmationIsNoticed ==
  AllEnded /\ Untroubled /\ NoFailure /\ Succeeded("PAYMENT") /\ Succeeded("BOOKING") =>
    \/ Cancelled
    \/ /\ \E i \in DOMAIN history : history[i].to = "SUPPLIER_CONFIRMED"
       /\ status \in {"PAID", "SUPPLIER_CONFIRMED"}

\* When all handlers have ended and both services have answered with success,
\* the reservation is SUPPLIER_CONFIRMED, or CANCELLED.
ConfirmedWhenBothSucceeded ==
  AllEnded /\ Untroubled /\ Succeeded("PAYMENT") /\ Succeeded("BOOKING") =>
    status \in {"SUPPLIER_CONFIRMED", "CANCELLED"}

\* It is, when handlers have not overlapped and no response was a failure.
ConfirmedUnlessFailed == ~overlapped /\ NoFailure => ConfirmedWhenBothSucceeded

\* As long as nothing has overlapped, a cancelled reservation stays cancelled.
CancelledIsFinal ==
  [][~overlapped' /\ status = "CANCELLED" => status' = "CANCELLED"]_vars

\* As long as nothing has overlapped, the history is complete: it starts at
\* CREATED, every change starts where the one before it ended, and the last one
\* ends at the present status.
HistoryIsComplete ==
  ~overlapped =>
    /\ \A i \in DOMAIN history :
         history[i].from = IF i = 1 THEN "CREATED" ELSE history[i-1].to
    /\ history # <<>> => history[Len(history)].to = status

-----------------------------------------------------------------------------
(* What makes StatusIsEarned inductive *)

\* A handler looks for successes only after it has saved its own response.
ResponseSavedFirst ==
  \A h \in Handlers : pc[h] \in {"resolve", "load", "write"} => request[h] \in saved

\* The status a handler is about to write is earned already.
TargetIsEarned ==
  \A h \in Handlers : pc[h] \in {"load", "write"} =>
    /\ target[h] = "SUPPLIER_CONFIRMED" => Succeeded("PAYMENT") /\ Succeeded("BOOKING")
    /\ target[h] = "PAID" => Succeeded("PAYMENT")

\* A handler runs only for a reservation it has found, and none is deleted.
HandledExists == \A h \in Handlers : Running(h) => status # "ABSENT"

EarnedInv == TypeOK /\ HandledExists /\ StatusIsEarned /\ ResponseSavedFirst /\ TargetIsEarned

-----------------------------------------------------------------------------
(* What makes the properties without overlap inductive *)

\* A handler that goes on to set_status has a change to write.
TargetIsChange ==
  \A h \in Handlers : pc[h] \in {"load", "write"} =>
    target[h] # current[h] /\ current[h] # "CANCELLED"

\* A handler runs alone, and what it has read is still so.
AloneAndCurrent ==
  \A h \in Handlers : Running(h) =>
    /\ \A g \in Handlers : Running(g) => g = h
    /\ status = current[h]
    /\ pc[h] = "write" => status = loaded[h]

UnchangedIsCreated == history = <<>> => status \in {"ABSENT", "CREATED"}

BothSucceeded == Succeeded("PAYMENT") /\ Succeeded("BOOKING")

\* Both successes having been saved, whoever writes writes the confirmation, and
\* it is written, or about to be.
Confirmed ==
  NoFailure /\ BothSucceeded =>
    /\ \A h \in Handlers : pc[h] \in {"load", "write"} => target[h] = "SUPPLIER_CONFIRMED"
    /\ Untroubled => \/ status \in {"SUPPLIER_CONFIRMED", "CANCELLED"}
                     \/ \E h \in Handlers : pc[h] \in {"resolve", "load", "write"}

ExclusiveInv ==
  /\ EarnedInv
  /\ TargetIsChange
  /\ status = "ABSENT" => saved = {}
  /\ ~overlapped => AloneAndCurrent /\ UnchangedIsCreated /\ Confirmed
  /\ HistoryIsComplete

-----------------------------------------------------------------------------
(* What makes ConfirmationIsNoticed inductive *)

ConfirmationWritten == \E i \in DOMAIN history : history[i].to = "SUPPLIER_CONFIRMED"

\* Without failures and cancellations a status that a handler has read, or is
\* about to write, never goes back.
NoStepBack ==
  /\ status = "SUPPLIER_CONFIRMED" => ConfirmationWritten
  /\ ConfirmationWritten => status \in {"PAID", "SUPPLIER_CONFIRMED"}
  /\ status \notin {"CANCELLED", "PAYMENT_IN_PROGRESS"}
  /\ \A h \in Handlers :
       /\ current[h] = "SUPPLIER_CONFIRMED" => ConfirmationWritten
       /\ current[h] = "PAID" => Succeeded("PAYMENT")
       /\ current[h] \notin {"CANCELLED", "PAYMENT_IN_PROGRESS"}
       /\ pc[h] \in {"load", "write"} => target[h] \in {"PAID", "SUPPLIER_CONFIRMED"}
       /\ pc[h] = "write" /\ loaded[h] \in {"PAID", "SUPPLIER_CONFIRMED"} =>
            status \in {"PAID", "SUPPLIER_CONFIRMED"}

NoticedInv ==
  NoFailure /\ ~Cancelled =>
    /\ NoStepBack
    /\ Untroubled /\ BothSucceeded =>
         \/ ConfirmationWritten
         \/ \E h \in Handlers : pc[h] = "resolve"
         \/ \E h \in Handlers : pc[h] \in {"load", "write"} /\ target[h] = "SUPPLIER_CONFIRMED"

StatusInv == ExclusiveInv /\ NoticedInv
=============================================================================
