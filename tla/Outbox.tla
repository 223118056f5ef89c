------------------------------- MODULE Outbox -------------------------------
(***************************************************************************)
(* The transactional outbox of the reservations API.                       *)
(*                                                                         *)
(* A client request commits a reservation together with its two outbox     *)
(* events (OutboxEventPublisher.save_reservation_with_outbox).  Worker     *)
(* processes (OutboxEventProcessor driven by scripts/run_outbox_worker.py) *)
(* poll the table, call the gateway of each event and record the outcome.  *)
(* The external call is made inside the transaction that records it, so    *)
(* a crash, a failed commit or a second worker may come between the two.   *)
(*                                                                         *)
(* One action is one database transaction, one call to a gateway or one    *)
(* process event.  Payload contents are abstracted: a row is its           *)
(* reservation code, its type and its status.                              *)
(***************************************************************************)
EXTENDS Naturals, FiniteSets

CONSTANTS
  Codes,          \* reservation codes the clients are given
  Ids,            \* auto-increment ids of provider_outbox_events
  Workers,        \* worker processes
  BatchSize,      \* --batch-size
  MaxRetries,     \* RetryPolicy.max_retries of the provider gateway
  Poisoned,       \* events whose gateway rejects every request
  Lossy,          \* events whose request may be accepted and its reply be lost
  NoRow,          \* an id with no committed row
  MaxCount,       \* deliveries are counted up to MaxCount
  MaxCrashes,     \* bound on crashes
  MaxStops,       \* bound on stop signals
  MaxDbErrors     \* bound on database errors seen by workers

EventTypes == {"PAYMENT_REQUESTED", "BOOKING_REQUESTED"}
Statuses == {"PENDING", "FAILED", "PROCESSED"}
Events == Codes \X EventTypes
Row == [code : Codes, type : EventTypes, status : Statuses]

ASSUME OutboxAssumption ==
  /\ Ids \subseteq Nat
  /\ BatchSize \in Nat \ {0}
  /\ MaxRetries \in Nat
  /\ Poisoned \subseteq Events
  /\ Lossy \subseteq Events
  /\ NoRow \notin Row
  /\ MaxCount \in Nat \ {0}
  /\ MaxCrashes \in Nat
  /\ MaxStops \in Nat
  /\ MaxDbErrors \in Nat

VARIABLES
  reservations,   \* codes of the committed rows of the reservations table
  outbox,         \* provider_outbox_events: id -> committed row, or NoRow
  called,         \* events whose gateway has been called (history)
  delivered,      \* event -> requests its external service accepted (history)
  pc,             \* worker -> where its loop is
  todo,           \* worker -> ids of its batch not yet finished
  seen,           \* worker -> status it read for the event it is dispatching
  attempt,        \* worker -> retries made for the event it is dispatching
  stopping,       \* workers whose stop event is set
  crashes,        \* crashes so far
  stops,          \* stop signals so far
  dbErrors        \* database errors so far

tables == <<reservations, outbox>>
history == <<called, delivered>>
budget == <<crashes, stops, dbErrors>>
loop == <<pc, todo, seen, attempt>>
vars == <<reservations, outbox, called, delivered, pc, todo, seen, attempt,
          stopping, crashes, stops, dbErrors>>

\* idle: between two batches;  batch: about to open the next event;
\* calling: inside the gateway;  succeeded, failed: the gateway has answered
\* and the outcome is not committed;  zombie: run_forever has died of an
\* exception and the process still waits for a signal;  down: not running.
PCs == {"idle", "batch", "calling", "succeeded", "failed", "zombie", "down"}

TypeOK ==
  /\ reservations \subseteq Codes
  /\ outbox \in [Ids -> Row \cup {NoRow}]
  /\ called \subseteq Events
  /\ delivered \in [Events -> 0..MaxCount]
  /\ pc \in [Workers -> PCs]
  /\ todo \in [Workers -> SUBSET Ids]
  /\ seen \in [Workers -> Statuses]
  /\ attempt \in [Workers -> 0..MaxRetries]
  /\ stopping \subseteq Workers
  /\ crashes \in 0..MaxCrashes
  /\ stops \in 0..MaxStops
  /\ dbErrors \in 0..MaxDbErrors

Init ==
  /\ reservations = {}
  /\ outbox = [i \in Ids |-> NoRow]
  /\ called = {}
  /\ delivered = [e \in Events |-> 0]
  /\ pc = [w \in Workers |-> "idle"]
  /\ todo = [w \in Workers |-> {}]
  /\ seen = [w \in Workers |-> "PENDING"]
  /\ attempt = [w \in Workers |-> 0]
  /\ stopping = {}
  /\ crashes = 0
  /\ stops = 0
  /\ dbErrors = 0

-----------------------------------------------------------------------------
(* Publisher *)

Present(i) == outbox[i] # NoRow

EventOf(i) == <<outbox[i].code, outbox[i].type>>

NewRow(c, t) == [code |-> c, type |-> t, status |-> "PENDING"]

\* One transaction inserts the reservation and its two events.  The payment
\* event is flushed first and takes the smaller id, but concurrent
\* transactions interleave their ids and commit in any order, so the pair is
\* any two unused ids in increasing order.
Publish(c) ==
  /\ c \notin reservations
  /\ reservations' = reservations \cup {c}
  /\ \E p, b \in Ids :
       /\ p < b
       /\ ~Present(p) /\ ~Present(b)
       /\ outbox' = [outbox EXCEPT ![p] = NewRow(c, "PAYMENT_REQUESTED"),
                                   ![b] = NewRow(c, "BOOKING_REQUESTED")]
  /\ UNCHANGED <<history, loop, stopping, budget>>

-----------------------------------------------------------------------------
(* Worker loop *)

\* Mutant: failed events are not selected again.
MutDueOnce == {i \in Ids : Present(i) /\ outbox[i].status = "PENDING"}

Due == {i \in Ids : Present(i) /\ outbox[i].status \in {"PENDING", "FAILED"}}

\* Mutant: the select does not order by id.
MutBatchUnordered(S, D) ==
  /\ S \subseteq D
  /\ \/ S = D /\ Cardinality(D) <= BatchSize
     \/ Cardinality(S) = BatchSize

\* S is the first BatchSize ids of D.
IsBatch(S, D) ==
  /\ S \subseteq D
  /\ \A i \in S, j \in D \ S : i < j
  /\ \/ S = D /\ Cardinality(D) <= BatchSize
     \/ Cardinality(S) = BatchSize

\* Mutant: the loop does not test the stop event.
MutPollStopped(w) ==
  /\ pc[w] = "idle"
  /\ Due # {}
  /\ \E S \in SUBSET Due :
       /\ IsBatch(S, Due)
       /\ todo' = [todo EXCEPT ![w] = S]
  /\ pc' = [pc EXCEPT ![w] = "batch"]
  /\ UNCHANGED <<tables, history, seen, attempt, stopping, budget>>

\* The loop tests the stop event and selects a batch, in a session of its
\* own.  An empty select goes back to sleep: a stuttering step.
Poll(w) ==
  /\ pc[w] = "idle"
  /\ w \notin stopping
  /\ Due # {}
  /\ \E S \in SUBSET Due :
       /\ IsBatch(S, Due)
       /\ todo' = [todo EXCEPT ![w] = S]
  /\ pc' = [pc EXCEPT ![w] = "batch"]
  /\ UNCHANGED <<tables, history, seen, attempt, stopping, budget>>

EndBatch(w) ==
  /\ pc[w] = "batch"
  /\ todo[w] = {}
  /\ pc' = [pc EXCEPT ![w] = "idle"]
  /\ UNCHANGED <<tables, history, todo, seen, attempt, stopping, budget>>

\* Mutant: the newest event is handled first.
MutNewestAtHand(w, i) ==
  /\ i \in todo[w]
  /\ \A j \in todo[w] : j <= i

\* Events are handled in id order: i is the one at hand.
AtHand(w, i) ==
  /\ i \in todo[w]
  /\ \A j \in todo[w] : i <= j

\* Mutant: the status is compared with that of the event before.
MutFetchStale(w) ==
  /\ pc[w] = "batch"
  /\ \E i \in todo[w] :
       /\ AtHand(w, i)
       /\ outbox[i].status # "PROCESSED"
       /\ pc' = [pc EXCEPT ![w] = "calling"]
       /\ attempt' = [attempt EXCEPT ![w] = 0]
  /\ UNCHANGED <<tables, history, todo, seen, stopping, budget>>

\* The processing transaction reads the event again: settled meanwhile by
\* another worker, it is skipped; else its gateway is called.
Fetch(w) ==
  /\ pc[w] = "batch"
  /\ \E i \in todo[w] :
       /\ AtHand(w, i)
       /\ \/ /\ outbox[i].status = "PROCESSED"
             /\ todo' = [todo EXCEPT ![w] = @ \ {i}]
             /\ UNCHANGED <<pc, seen, attempt>>
          \/ /\ outbox[i].status # "PROCESSED"
             /\ pc' = [pc EXCEPT ![w] = "calling"]
             /\ seen' = [seen EXCEPT ![w] = outbox[i].status]
             /\ attempt' = [attempt EXCEPT ![w] = 0]
             /\ UNCHANGED todo
  /\ UNCHANGED <<tables, history, stopping, budget>>

-----------------------------------------------------------------------------
(* Gateways: one request of the event at hand to its external service *)

CountUp(n) == IF n < MaxCount THEN n + 1 ELSE n

\* Mutant: the retries are not counted.
MutRetryUncounted(w, e) ==
  /\ \/ e[2] = "BOOKING_REQUESTED" /\ UNCHANGED pc
     \/ pc' = [pc EXCEPT ![w] = "failed"]
  /\ UNCHANGED attempt

\* The provider gateway retries an unanswered or refused request; the payment
\* gateway, whose calls go through its circuit breaker alone, gives up.
GiveUpOrRetry(w, e) ==
  IF e[2] = "BOOKING_REQUESTED" /\ attempt[w] < MaxRetries
  THEN /\ attempt' = [attempt EXCEPT ![w] = @ + 1]
       /\ UNCHANGED pc
  ELSE /\ pc' = [pc EXCEPT ![w] = "failed"]
       /\ UNCHANGED attempt

\* A 2xx answer that arrives and is decoded.
Accept(w, e) ==
  /\ e \notin Poisoned
  /\ delivered' = [delivered EXCEPT ![e] = CountUp(@)]
  /\ pc' = [pc EXCEPT ![w] = "succeeded"]
  /\ UNCHANGED attempt

\* The service acted on the request, but the answer timed out or is not JSON.
LoseReply(w, e) ==
  /\ e \in Lossy \ Poisoned
  /\ delivered' = [delivered EXCEPT ![e] = CountUp(@)]
  /\ GiveUpOrRetry(w, e)

\* An error status, no connection, or an open circuit breaker.
Refuse(w, e) ==
  /\ GiveUpOrRetry(w, e)
  /\ UNCHANGED delivered

Dispatch(w) ==
  /\ pc[w] = "calling"
  /\ \E i \in todo[w] :
       /\ AtHand(w, i)
       /\ called' = called \cup {EventOf(i)}
       /\ \/ Accept(w, EventOf(i))
          \/ LoseReply(w, EventOf(i))
          \/ Refuse(w, EventOf(i))
  /\ UNCHANGED <<tables, todo, seen, stopping, budget>>

-----------------------------------------------------------------------------
(* Recording the outcome *)

\* Mutant: the success flag of the gateway's result is ignored.
MutAlwaysProcessed(w) == "PROCESSED"

Outcome(w) == IF pc[w] = "succeeded" THEN "PROCESSED" ELSE "FAILED"

\* Mutants: an UPDATE statement in place of the ORM's comparison; an update keyed by
\* event_type; a transaction never committed.
MutWriteAlways(w, i) == outbox' = [outbox EXCEPT ![i].status = Outcome(w)]
MutWriteByType(w, i) ==
  outbox' = [j \in Ids |-> IF Present(j) /\ outbox[j].type = outbox[i].type
                           THEN [outbox[j] EXCEPT !.status = Outcome(w)]
                           ELSE outbox[j]]
MutWriteNothing(w, i) == UNCHANGED outbox

\* The ORM updates the columns whose value differs from the one it read, not
\* from the one the row has now: a second FAILED writes no status.
WriteOutcome(w, i) ==
  outbox' = IF Outcome(w) = seen[w]
            THEN outbox
            ELSE [outbox EXCEPT ![i].status = Outcome(w)]

Save(w) ==
  /\ pc[w] \in {"succeeded", "failed"}
  /\ \E i \in todo[w] :
       /\ AtHand(w, i)
       /\ WriteOutcome(w, i)
       /\ todo' = [todo EXCEPT ![w] = @ \ {i}]
  /\ pc' = [pc EXCEPT ![w] = "batch"]
  /\ UNCHANGED <<reservations, history, seen, attempt, stopping, budget>>

-----------------------------------------------------------------------------
(* Failures and signals *)

\* A database error escapes run_forever, whose task nobody awaits before a
\* signal.  One during a commit may strike before or after it took effect.
DbError(w) ==
  /\ dbErrors < MaxDbErrors
  /\ \/ /\ pc[w] = "idle" /\ w \notin stopping
        /\ UNCHANGED outbox
     \/ /\ pc[w] = "batch" /\ todo[w] # {}
        /\ UNCHANGED outbox
     \/ /\ pc[w] \in {"succeeded", "failed"}
        /\ \E i \in todo[w] :
             /\ AtHand(w, i)
             /\ UNCHANGED outbox \/ WriteOutcome(w, i)
  /\ dbErrors' = dbErrors + 1
  /\ pc' = [pc EXCEPT ![w] = "zombie"]
  /\ todo' = [todo EXCEPT ![w] = {}]
  /\ UNCHANGED <<reservations, history, seen, attempt, stopping, crashes, stops>>

\* The process is killed; its open transaction is rolled back.
Crash(w) ==
  /\ crashes < MaxCrashes
  /\ pc[w] # "down"
  /\ crashes' = crashes + 1
  /\ pc' = [pc EXCEPT ![w] = "down"]
  /\ todo' = [todo EXCEPT ![w] = {}]
  /\ stopping' = stopping \ {w}
  /\ UNCHANGED <<tables, history, seen, attempt, stops, dbErrors>>

\* SIGINT or SIGTERM sets the stop event of the processor.
Stop(w) ==
  /\ stops < MaxStops
  /\ pc[w] # "down"
  /\ w \notin stopping
  /\ stops' = stops + 1
  /\ stopping' = stopping \cup {w}
  /\ UNCHANGED <<tables, history, loop, crashes, dbErrors>>

\* Mutant: a dead loop hangs the process for good.
MutExitIdle(w) ==
  /\ w \in stopping
  /\ pc[w] = "idle"
  /\ pc' = [pc EXCEPT ![w] = "down"]
  /\ stopping' = stopping \ {w}
  /\ UNCHANGED <<tables, history, todo, seen, attempt, budget>>

\* run_forever returns between two batches, or its exception is raised at last.
Exit(w) ==
  /\ w \in stopping
  /\ pc[w] \in {"idle", "zombie"}
  /\ pc' = [pc EXCEPT ![w] = "down"]
  /\ stopping' = stopping \ {w}
  /\ UNCHANGED <<tables, history, todo, seen, attempt, budget>>

\* The process is started again by its supervisor.
Start(w) ==
  /\ pc[w] = "down"
  /\ pc' = [pc EXCEPT ![w] = "idle"]
  /\ UNCHANGED <<tables, history, todo, seen, attempt, stopping, budget>>

-----------------------------------------------------------------------------
Work(w) == \/ Poll(w) \/ EndBatch(w) \/ Fetch(w) \/ Dispatch(w) \/ Save(w)
           \/ Exit(w) \/ Start(w)

Fault(w) == DbError(w) \/ Crash(w) \/ Stop(w)

Next == \/ \E c \in Codes : Publish(c)
        \/ \E w \in Workers : Work(w) \/ Fault(w)

Spec == Init /\ [][Next]_vars

\* The event loop keeps scheduling the worker and a supervisor restarts a
\* process that exits; and an external service that is asked again and again
\* for an event it does not reject as such recovers at some point.
AcceptEvent(e) ==
  \E w \in Workers :
    /\ Dispatch(w)
    /\ \E i \in todo[w] : AtHand(w, i) /\ EventOf(i) = e
    /\ pc'[w] = "succeeded"

Fairness ==
  /\ \A w \in Workers : WF_vars(Work(w))
  /\ \A e \in Events \ Poisoned : SF_vars(AcceptEvent(e))

FairSpec == Spec /\ Fairness

-----------------------------------------------------------------------------
(* Properties *)

OneWorker == \A v, w \in Workers : v = w

Settled == {e \in Events : \E i \in Ids : /\ Present(i)
                                          /\ EventOf(i) = e
                                          /\ outbox[i].status = "PROCESSED"}

\* No event is marked PROCESSED unless its external service accepted a request
\* for it, whatever the crashes, failed commits and competing workers: the
\* transaction that sets PROCESSED encloses the call.
ProcessedWasDelivered == \A e \in Settled : delivered[e] > 0

\* A reservation is committed if and only if exactly one payment event and one
\* booking event of it are, the payment event first in id order; and a gateway
\* is called for committed reservations only.
ReservationHasItsEvents ==
  /\ \A i, j \in Ids :
       Present(i) /\ Present(j) /\ EventOf(i) = EventOf(j) => i = j
  /\ \A c \in Codes :
       c \in reservations <=>
         \E p, b \in Ids : /\ p < b
                           /\ Present(p) /\ EventOf(p) = <<c, "PAYMENT_REQUESTED">>
                           /\ Present(b) /\ EventOf(b) = <<c, "BOOKING_REQUESTED">>
  /\ \A i \in Ids : Present(i) => outbox[i].code \in reservations
  /\ \A e \in called : e[1] \in reservations

\* The provider is never asked for a booking before the payment gateway has
\* been asked for the payment of the same reservation: the two events are
\* inserted in that order, every batch is taken and worked through in id
\* order, and this survives crashes and workers that overtake each other.
PaymentCalledFirst ==
  \A c \in Codes :
    <<c, "BOOKING_REQUESTED">> \in called => <<c, "PAYMENT_REQUESTED">> \in called

\* A lone worker makes an external service accept one event twice only after a
\* fault: a lost reply, a crash or a database error.
AtMostOnce ==
  OneWorker /\ crashes = 0 /\ dbErrors = 0 =>
    \A e \in Events \ Lossy : delivered[e] <= 1

\* A PROCESSED event never returns to a status a worker would select.
SettledStaysSettled ==
  [][Settled \subseteq Settled']_vars

\* Workers that are at work on an event they read while nobody had worked on it.
Racers(i) ==
  {w \in Workers : /\ pc[w] \in {"calling", "succeeded", "failed"}
                   /\ seen[w] = "PENDING"
                   /\ AtHand(w, i)}

\* Competing workers reopen an event only so many times: nobody joins those that
\* read it before its first outcome, and each reopening takes one of them.  A
\* worker that has read FAILED leaves what another has settled meanwhile alone.
ReopeningsRunOut ==
  [][\A i \in Ids : Present(i) /\ outbox[i].status # "PENDING" =>
       /\ outbox'[i].status # "PENDING"
       /\ Racers(i)' \subseteq Racers(i)
       /\ outbox[i].status = "PROCESSED" /\ outbox'[i].status # "PROCESSED" =>
            Racers(i)' # Racers(i)]_vars

\* A worker told to stop comes to an end: the batch it has taken is finite and
\* so are the retries of its gateways, and a dead loop does not hold it up.
StopTerminates == \A w \in Workers : w \in stopping ~> pc[w] = "down"

\* Every event of a committed reservation, unless its gateway rejects it for
\* good, is in the end PROCESSED and stays so.
EventuallySettled ==
  \A e \in Events \ Poisoned : e[1] \in reservations ~> [](e \in Settled)

-----------------------------------------------------------------------------
(* What makes the properties inductive *)

\* A batch holds ids of committed rows, which nothing deletes.
BatchCommitted == \A w \in Workers : \A i \in todo[w] : Present(i)

\* An answer not yet recorded is the answer to a call that was made, and a
\* good one was given by a service that accepted the request.
AnswerIsOfEventAtHand ==
  \A w \in Workers : \A i \in todo[w] :
    AtHand(w, i) =>
      /\ pc[w] = "succeeded" => delivered[EventOf(i)] > 0
      /\ pc[w] \in {"succeeded", "failed"} => EventOf(i) \in called

SettledWasCalled == Settled \subseteq called

\* A booking in a batch comes after its payment in the same batch, unless the
\* payment has been called already.
PaymentAheadInBatch ==
  \A w \in Workers : \A b \in todo[w] :
    outbox[b].type = "BOOKING_REQUESTED" =>
      LET payment == <<outbox[b].code, "PAYMENT_REQUESTED">>
      IN  \/ payment \in called
          \/ \E p \in todo[w] : p < b /\ EventOf(p) = payment

\* Nobody works on an event it has read as settled.
ReadUnsettled ==
  \A w \in Workers : pc[w] \in {"calling", "succeeded", "failed"} => seen[w] # "PROCESSED"

\* Of a lone worker only: the event at hand still has the status it read.
ReadIsCurrent ==
  \A w \in Workers : \A i \in todo[w] :
    pc[w] \in {"calling", "succeeded", "failed"} /\ AtHand(w, i) =>
      outbox[i].status = seen[w] /\ seen[w] # "PROCESSED"

\* Of a lone worker only: what a service has accepted is settled, or its answer
\* is about to be recorded.
AcceptedIsAccountedFor ==
  crashes = 0 /\ dbErrors = 0 =>
    \A e \in Events \ Lossy :
      /\ delivered[e] <= 1
      /\ delivered[e] > 0 =>
           \/ e \in Settled
           \/ \E w \in Workers : /\ pc[w] = "succeeded"
                                /\ \E i \in todo[w] : AtHand(w, i) /\ EventOf(i) = e

TypeInv == TypeOK /\ BatchCommitted

DeliveryInv ==
  /\ TypeInv
  /\ AnswerIsOfEventAtHand
  /\ ProcessedWasDelivered
  /\ SettledWasCalled
  /\ ReservationHasItsEvents
  /\ PaymentAheadInBatch
  /\ PaymentCalledFirst

LoneWorkerInv == TypeInv /\ ReadIsCurrent

-----------------------------------------------------------------------------
(* Why a worker that is told to stop does *)

\* A batch is no larger than it may be, and its worker is still there to stop.
StopInv ==
  /\ TypeInv
  /\ IsFiniteSet({i \in Ids : Present(i)})
  /\ \A w \in Workers : IsFiniteSet(todo[w]) /\ Cardinality(todo[w]) <= BatchSize
  /\ \A w \in stopping : pc[w] # "down"

\* The most steps a worker takes before it is done with the event at hand.
StepsLeft(w) ==
  CASE pc[w] = "batch"                   -> 4 + MaxRetries
    [] pc[w] = "calling"                 -> 3 + MaxRetries - attempt[w]
    [] pc[w] \in {"succeeded", "failed"} -> 2
    [] pc[w] \in {"idle", "zombie"}      -> 1
    [] pc[w] = "down"                    -> 0

\* Nothing that happens, to it or elsewhere, gives a worker that is told to stop
\* more to do: its batch gets smaller, or it gets closer to the end of the event at
\* hand; and with every step of its own one of the two is so.
StopRunsDown ==
  [][\A w \in stopping :
       /\ todo'[w] \subseteq todo[w]
       /\ \/ todo'[w] # todo[w]
          \/ /\ StepsLeft(w)' <= StepsLeft(w)
             /\ Work(w) => StepsLeft(w)' < StepsLeft(w)]_vars

-----------------------------------------------------------------------------
(* What the outbox promises: at-least-once delivery *)

Contract == INSTANCE ReliableDelivery
              WITH published <- reservations,
                   settled <- Settled,
                   Reopening <- ~OneWorker

\* The outbox keeps the contract of ReliableDelivery: a request reaches an
\* external service for a committed reservation only, an event is settled only
\* after a service accepted it, and only competing workers reopen it.
KeepsContract == Contract!Spec
=============================================================================
