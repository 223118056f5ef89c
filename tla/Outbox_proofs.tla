---------------------------- MODULE Outbox_proofs ----------------------------
(* Theorems about Outbox, for every set of codes, ids and workers. *)
EXTENDS Outbox, FiniteSetTheorems, TLAPS

\* Every action of a worker writes a status or nothing in the outbox.
LEMMA WriteOutcomeType ==
  ASSUME TypeOK, NEW w \in Workers, NEW i \in todo[w], Present(i), WriteOutcome(w, i)
  PROVE  /\ outbox' \in [Ids -> Row \cup {NoRow}]
         /\ \A j \in Ids : Present(j) <=> Present(j)'
         /\ \A j \in Ids : Present(j) => EventOf(j)' = EventOf(j)
         /\ \A j \in Ids : j # i => outbox'[j] = outbox[j]
         /\ outbox'[i].status \in {outbox[i].status, Outcome(w)}
<1>1. i \in Ids /\ outbox[i] \in Row
  BY DEF TypeOK, Present
<1>2. Outcome(w) \in Statuses
  BY DEF Outcome, Statuses
<1>3. CASE Outcome(w) = seen[w]
  BY <1>1, <1>3 DEF WriteOutcome, TypeOK, Present, EventOf
<1>4. CASE Outcome(w) # seen[w]
  <2>1. outbox' = [outbox EXCEPT ![i].status = Outcome(w)]
    BY <1>4 DEF WriteOutcome
  <2>2. [outbox[i] EXCEPT !.status = Outcome(w)] \in Row
    BY <1>1, <1>2 DEF Row
  <2>3. outbox'[i] = [outbox[i] EXCEPT !.status = Outcome(w)]
    BY <1>1, <2>1 DEF TypeOK
  <2>4. /\ outbox'[i].code = outbox[i].code
        /\ outbox'[i].type = outbox[i].type
        /\ outbox'[i].status = Outcome(w)
    BY <1>1, <2>3 DEF Row
  <2>5. \A j \in Ids : j # i => outbox'[j] = outbox[j]
    BY <2>1 DEF TypeOK
  <2>6. outbox' \in [Ids -> Row \cup {NoRow}]
    BY <1>1, <2>1, <2>2 DEF TypeOK
  <2>7. Present(i)'
    BY <2>2, <2>3, OutboxAssumption DEF Present
  <2> QED
    BY <1>1, <2>4, <2>5, <2>6, <2>7 DEF Present, EventOf
<1> QED
  BY <1>3, <1>4

\* A step of a worker writes the outbox only to record the outcome of the
\* event at hand, which it has an answer for.
LEMMA WorkerWrites ==
  ASSUME NEW w \in Workers, Work(w) \/ Fault(w), outbox' # outbox
  PROVE  /\ pc[w] \in {"succeeded", "failed"}
         /\ \E i \in todo[w] : AtHand(w, i) /\ WriteOutcome(w, i)
BY DEF Work, Fault, Poll, EndBatch, Fetch, Dispatch, Save, Exit, Start,
       DbError, Crash, Stop, tables

\* A step of a worker adds no row, removes none and changes the event of none.
LEMMA WorkerKeepsRows ==
  ASSUME TypeInv, NEW w \in Workers, Work(w) \/ Fault(w)
  PROVE  \A i \in Ids : /\ Present(i) <=> Present(i)'
                        /\ Present(i) => EventOf(i)' = EventOf(i)
<1>1. CASE outbox' = outbox
  BY <1>1 DEF Present, EventOf
<1>2. CASE outbox' # outbox
  BY <1>2, WorkerWrites, WriteOutcomeType DEF TypeInv, BatchCommitted
<1> QED
  BY <1>1, <1>2

\* No step removes a row or changes its event.
LEMMA RowsKept ==
  ASSUME TypeInv, [Next]_vars
  PROVE  \A i \in Ids : Present(i) => Present(i)' /\ EventOf(i)' = EventOf(i)
<1>1. ASSUME NEW c \in Codes, Publish(c)
      PROVE  \A i \in Ids : Present(i) => Present(i)' /\ EventOf(i)' = EventOf(i)
  BY <1>1 DEF Publish, Present, EventOf, TypeOK, TypeInv
<1>2. CASE UNCHANGED vars
  BY <1>2 DEF vars, Present, EventOf
<1> QED
  BY <1>1, <1>2, WorkerKeepsRows DEF Next

\* Every variable keeps its type, and a batch holds committed rows only.
THEOREM TypeCorrect == Spec => []TypeInv
<1>1. Init => TypeInv
  BY OutboxAssumption DEF Init, TypeInv, TypeOK, BatchCommitted, PCs, Statuses
<1>2. TypeInv /\ [Next]_vars => TypeInv'
  <2> SUFFICES ASSUME TypeInv, [Next]_vars PROVE TypeInv'
    OBVIOUS
  <2> USE DEF TypeInv, tables, history, loop, budget
  <2>0. \A i \in Ids : Present(i) => Present(i)'
    BY RowsKept
  <2>1. ASSUME NEW c \in Codes, Publish(c) PROVE TypeInv'
    <3>1. \A t \in EventTypes : NewRow(c, t) \in Row
      BY DEF NewRow, Row, Statuses
    <3>2. outbox' \in [Ids -> Row \cup {NoRow}]
      BY <2>1, <3>1 DEF Publish, TypeOK, EventTypes
    <3> QED
      BY <2>0, <2>1, <3>2 DEF TypeOK, BatchCommitted, Publish
  <2>2. ASSUME NEW w \in Workers, Poll(w) PROVE TypeInv'
    BY <2>0, <2>2 DEF TypeOK, BatchCommitted, Poll, Due, PCs
  <2>3. ASSUME NEW w \in Workers, EndBatch(w) PROVE TypeInv'
    BY <2>0, <2>3 DEF TypeOK, BatchCommitted, EndBatch, PCs
  <2>4. ASSUME NEW w \in Workers, Fetch(w) PROVE TypeInv'
    <3>1. \A i \in todo[w] : outbox[i].status \in Statuses
      BY DEF TypeOK, BatchCommitted, Present, Row
    <3>2. \A i \in todo[w] : [seen EXCEPT ![w] = outbox[i].status] \in [Workers -> Statuses]
      BY <3>1 DEF TypeOK
    <3>3. [attempt EXCEPT ![w] = 0] \in [Workers -> 0..MaxRetries]
      BY OutboxAssumption DEF TypeOK
    <3>4. TypeOK'
      BY <2>4, <3>2, <3>3 DEF TypeOK, Fetch, PCs
    <3> QED
      BY <2>0, <2>4, <3>4 DEF TypeOK, BatchCommitted, Fetch
  <2>5. ASSUME NEW w \in Workers, Dispatch(w) PROVE TypeInv'
    <3>1. \A i \in todo[w] : EventOf(i) \in Events
      BY DEF TypeOK, BatchCommitted, Present, Row, EventOf, Events
    <3>2. \A n \in 0..MaxCount : CountUp(n) \in 0..MaxCount
      BY OutboxAssumption DEF CountUp
    <3>3. attempt[w] < MaxRetries => attempt[w] + 1 \in 0..MaxRetries
      BY OutboxAssumption DEF TypeOK
    <3> QED
      BY <2>0, <2>5, <3>1, <3>2, <3>3
      DEF TypeOK, BatchCommitted, Dispatch, Accept, LoseReply, Refuse, GiveUpOrRetry, PCs
  <2>6. ASSUME NEW w \in Workers, Save(w) PROVE TypeInv'
    <3>1. outbox' \in [Ids -> Row \cup {NoRow}]
      BY <2>6, WriteOutcomeType DEF Save, BatchCommitted
    <3> QED
      BY <2>0, <2>6, <3>1 DEF TypeOK, BatchCommitted, Save, PCs
  <2>7. ASSUME NEW w \in Workers, DbError(w) PROVE TypeInv'
    <3>1. outbox' \in [Ids -> Row \cup {NoRow}]
      BY <2>7, WriteOutcomeType DEF DbError, BatchCommitted, TypeOK
    <3>2. dbErrors' \in 0..MaxDbErrors
      BY <2>7, OutboxAssumption DEF DbError, TypeOK
    <3> QED
      BY <2>0, <2>7, <3>1, <3>2 DEF TypeOK, BatchCommitted, DbError, PCs
  <2>8. ASSUME NEW w \in Workers, Crash(w) PROVE TypeInv'
    BY <2>0, <2>8, OutboxAssumption DEF TypeOK, BatchCommitted, Crash, PCs
  <2>9. ASSUME NEW w \in Workers, Stop(w) PROVE TypeInv'
    BY <2>0, <2>9, OutboxAssumption DEF TypeOK, BatchCommitted, Stop
  <2>10. ASSUME NEW w \in Workers, Exit(w) PROVE TypeInv'
    BY <2>0, <2>10 DEF TypeOK, BatchCommitted, Exit, PCs
  <2>11. ASSUME NEW w \in Workers, Start(w) PROVE TypeInv'
    BY <2>0, <2>11 DEF TypeOK, BatchCommitted, Start, PCs
  <2>12. CASE UNCHANGED vars
    BY <2>12 DEF vars, TypeOK, BatchCommitted, Present
  <2> QED
    BY <2>1, <2>2, <2>3, <2>4, <2>5, <2>6, <2>7, <2>8, <2>9, <2>10, <2>11, <2>12
    DEF Next, Work, Fault
<1> QED
  BY <1>1, <1>2, PTL DEF Spec

-----------------------------------------------------------------------------
(* Delivery: the lemmas below say what one step may do to the outbox, to    *)
(* the calls made and to a batch; the theorem puts them together.           *)

\* One event is at hand, and none in the batch has a smaller id.
LEMMA AtHandFirst ==
  ASSUME TypeInv, NEW w \in Workers, NEW i \in todo[w], AtHand(w, i)
  PROVE  /\ \A k \in todo[w] : AtHand(w, k) => k = i
         /\ \A k \in todo[w] : ~(k < i)
<1>1. \A k \in todo[w] : k \in Nat
  BY OutboxAssumption DEF TypeInv, TypeOK
<1> QED
  BY <1>1 DEF AtHand

\* Calls and deliveries are never forgotten.
LEMMA HistoryGrows ==
  ASSUME TypeInv, [Next]_vars
  PROVE  /\ called \subseteq called'
         /\ \A e \in Events : delivered[e] > 0 => delivered'[e] > 0
<1>1. CASE history' = history
  BY <1>1 DEF history
<1>2. ASSUME NEW w \in Workers, Dispatch(w)
      PROVE  /\ called \subseteq called'
             /\ \A e \in Events : delivered[e] > 0 => delivered'[e] > 0
  <2>1. \A n \in 0..MaxCount : n > 0 => CountUp(n) > 0
    BY OutboxAssumption DEF CountUp
  <2> QED
    BY <1>2, <2>1 DEF Dispatch, Accept, LoseReply, Refuse, TypeInv, TypeOK
<1>3. history' = history \/ \E w \in Workers : Dispatch(w)
  BY DEF Next, vars, Work, Fault, Publish, Poll, EndBatch, Fetch, Save, Exit, Start,
         DbError, Crash, Stop, history
<1> QED
  BY <1>1, <1>2, <1>3

\* An event becomes settled only by a worker that holds a good answer for it.
LEMMA SettledByGoodAnswer ==
  ASSUME TypeInv, [Next]_vars, NEW e \in Events, e \in Settled', e \notin Settled
  PROVE  \E w \in Workers : \E i \in todo[w] :
           AtHand(w, i) /\ EventOf(i) = e /\ pc[w] = "succeeded"
<1>1. PICK i \in Ids : Present(i)' /\ EventOf(i)' = e /\ outbox'[i].status = "PROCESSED"
  BY DEF Settled
<1>2. ASSUME NEW c \in Codes, Publish(c) PROVE FALSE
  <2>1. outbox'[i] = outbox[i] \/ outbox'[i].status = "PENDING"
    BY <1>2 DEF Publish, TypeInv, TypeOK, NewRow
  <2> QED
    BY <1>1, <2>1 DEF Settled, Present, EventOf
<1>3. PICK w \in Workers : Work(w) \/ Fault(w)
  BY <1>2 DEF Next, vars, Settled, Present, EventOf
<1>4. outbox' # outbox
  BY DEF Settled, Present, EventOf
<1>5. PICK k \in todo[w] : AtHand(w, k) /\ WriteOutcome(w, k)
  BY <1>3, <1>4, WorkerWrites
<1>6. Present(k)
  BY DEF TypeInv, BatchCommitted
<1>7. Present(i) /\ EventOf(i) = e
  BY <1>1, <1>3, WorkerKeepsRows
<1>8. i = k /\ Outcome(w) = "PROCESSED"
  BY <1>1, <1>5, <1>6, <1>7, WriteOutcomeType DEF Settled, TypeInv
<1> QED
  BY <1>5, <1>7, <1>8 DEF Outcome

\* A worker holds an answer after a step only if it held it before, for the
\* same batch, or if the step was its call.
LEMMA AnswerFromDispatch ==
  ASSUME TypeInv, [Next]_vars, NEW w \in Workers, pc'[w] \in {"succeeded", "failed"}
  PROVE  \/ pc'[w] = pc[w] /\ todo'[w] = todo[w]
         \/ Dispatch(w)
BY DEF TypeInv, TypeOK, Next, vars, Work, Fault, Publish, Poll, EndBatch, Fetch,
       Dispatch, Accept, LoseReply, Refuse, GiveUpOrRetry, Save, Exit, Start, DbError,
       Crash, Stop, loop

\* A batch is taken by a poll, emptied by a failure, and loses only the event
\* at hand once that is settled or answered.
LEMMA BatchShrinks ==
  ASSUME TypeInv, [Next]_vars, NEW w \in Workers, ~Poll(w)
  PROVE  \/ todo'[w] = todo[w]
         \/ todo'[w] = {}
         \/ \E i \in todo[w] :
              /\ AtHand(w, i)
              /\ todo'[w] = todo[w] \ {i}
              /\ outbox[i].status = "PROCESSED" \/ pc[w] \in {"succeeded", "failed"}
BY DEF TypeInv, TypeOK, Next, vars, Work, Fault, Publish, Poll, EndBatch, Fetch,
       Dispatch, Save, Exit, Start, DbError, Crash, Stop, loop

\* Each reservation keeps its two events: only Publish adds rows, in pairs.
LEMMA StepReservationHasItsEvents ==
  ASSUME DeliveryInv, [Next]_vars
  PROVE  ReservationHasItsEvents'
<1> USE DEF DeliveryInv
<1>1. ASSUME NEW c \in Codes, Publish(c) PROVE ReservationHasItsEvents'
  <2>1. PICK p, b \in Ids :
          /\ p < b
          /\ ~Present(p) /\ ~Present(b)
          /\ outbox' = [outbox EXCEPT ![p] = NewRow(c, "PAYMENT_REQUESTED"),
                                      ![b] = NewRow(c, "BOOKING_REQUESTED")]
    BY <1>1 DEF Publish
  <2>2. /\ outbox'[p] = NewRow(c, "PAYMENT_REQUESTED")
        /\ outbox'[b] = NewRow(c, "BOOKING_REQUESTED")
        /\ \A i \in Ids \ {p, b} : outbox'[i] = outbox[i]
    BY <2>1, OutboxAssumption DEF TypeInv, TypeOK
  <2>3. /\ Present(p)' /\ EventOf(p)' = <<c, "PAYMENT_REQUESTED">>
        /\ Present(b)' /\ EventOf(b)' = <<c, "BOOKING_REQUESTED">>
    <3>1. \A t \in EventTypes : NewRow(c, t) \in Row
      BY DEF NewRow, Row, Statuses
    <3> QED
      BY <2>2, <3>1, OutboxAssumption DEF Present, EventOf, NewRow, EventTypes
  <2>4. \A i \in Ids \ {p, b} : /\ Present(i)' <=> Present(i)
                                /\ EventOf(i)' = EventOf(i)
    BY <2>2 DEF Present, EventOf
  <2>5. c \notin reservations /\ reservations' = reservations \cup {c}
    BY <1>1 DEF Publish
  <2>6. \A i \in Ids : Present(i) => EventOf(i)[1] # c /\ outbox[i].code # c
    BY <2>5 DEF ReservationHasItsEvents, EventOf
  <2>7. \A i, j \in Ids :
          Present(i)' /\ Present(j)' /\ EventOf(i)' = EventOf(j)' => i = j
    BY <2>3, <2>4, <2>6 DEF ReservationHasItsEvents
  <2>8. ASSUME NEW d \in Codes
        PROVE  d \in reservations' <=>
                 \E q, r \in Ids :
                   /\ q < r
                   /\ Present(q)' /\ EventOf(q)' = <<d, "PAYMENT_REQUESTED">>
                   /\ Present(r)' /\ EventOf(r)' = <<d, "BOOKING_REQUESTED">>
    <3>1. CASE d = c
      BY <2>1, <2>3, <2>5, <3>1
    <3>2. CASE d # c
      <4>1. d \in reservations' <=> d \in reservations
        BY <2>5, <3>2
      <4>2. \A i \in Ids : i \in {p, b} => EventOf(i)'[1] = c
        BY <2>3
      <4>3. \A i \in {p, b} : ~Present(i)
        BY <2>1
      <4> QED
        BY <2>4, <3>2, <4>1, <4>2, <4>3 DEF ReservationHasItsEvents
    <3> QED
      BY <3>1, <3>2
  <2>9. \A i \in Ids : Present(i)' => outbox'[i].code \in reservations'
    BY <2>2, <2>4, <2>5 DEF ReservationHasItsEvents, NewRow, Present
  <2>10. \A e \in called' : e[1] \in reservations'
    BY <1>1, <2>5 DEF ReservationHasItsEvents, Publish, history
  <2> QED
    BY <2>7, <2>8, <2>9, <2>10 DEF ReservationHasItsEvents
<1>2. ASSUME NEW w \in Workers, Work(w) \/ Fault(w) PROVE ReservationHasItsEvents'
  <2>1. reservations' = reservations
    BY <1>2 DEF Work, Fault, Poll, EndBatch, Fetch, Dispatch, Save, Exit, Start,
                DbError, Crash, Stop, tables
  <2>2. \A i \in Ids : /\ Present(i) <=> Present(i)'
                       /\ Present(i) => EventOf(i)' = EventOf(i)
    BY <1>2, WorkerKeepsRows
  <2>3. \A i \in Ids : Present(i) => outbox'[i].code = outbox[i].code
    BY <2>2 DEF EventOf
  <2>4. \A e \in called' : e[1] \in reservations
    <3>1. called' = called \/ \E i \in todo[w] : called' = called \cup {EventOf(i)}
      BY <1>2 DEF Work, Fault, Poll, EndBatch, Fetch, Dispatch, Save, Exit, Start,
                  DbError, Crash, Stop, history
    <3>2. \A i \in todo[w] : EventOf(i)[1] \in reservations
      BY DEF ReservationHasItsEvents, EventOf, TypeInv, TypeOK, BatchCommitted
    <3> QED
      BY <3>1, <3>2 DEF ReservationHasItsEvents
  <2> QED
    BY <2>1, <2>2, <2>3, <2>4 DEF ReservationHasItsEvents
<1>3. CASE UNCHANGED vars
  BY <1>3 DEF vars, ReservationHasItsEvents, Present, EventOf
<1> QED
  BY <1>1, <1>2, <1>3 DEF Next

\* Payments stay ahead of bookings: a batch is a prefix of the due events, so
\* it cannot hold a booking without its payment unless the payment is settled.
LEMMA StepPaymentAheadInBatch ==
  ASSUME DeliveryInv, [Next]_vars
  PROVE  PaymentAheadInBatch'
<1> USE DEF DeliveryInv
<1> SUFFICES ASSUME NEW w \in Workers, NEW b \in todo'[w],
                    outbox'[b].type = "BOOKING_REQUESTED",
                    <<outbox'[b].code, "PAYMENT_REQUESTED">> \notin called'
             PROVE  \E p \in todo'[w] :
                      p < b /\ EventOf(p)' = <<outbox'[b].code, "PAYMENT_REQUESTED">>
  BY DEF PaymentAheadInBatch
<1> DEFINE payment == <<outbox[b].code, "PAYMENT_REQUESTED">>
<1>1. \A i \in Ids : Present(i) => EventOf(i)' = EventOf(i)
  BY RowsKept
<1>2. called \subseteq called'
  BY HistoryGrows
<1>3. CASE Poll(w)
  <2>1. PICK S \in SUBSET Due : IsBatch(S, Due) /\ todo'[w] = S
    BY <1>3 DEF Poll, TypeInv, TypeOK
  <2>2. b \in Ids /\ Present(b) /\ outbox[b] \in Row
    BY <2>1 DEF Due, TypeInv, TypeOK, Present
  <2>3. EventOf(b)' = EventOf(b) /\ outbox'[b].type = outbox[b].type
    BY <1>1, <2>2 DEF EventOf
  <2>4. payment \notin called /\ payment = <<outbox'[b].code, "PAYMENT_REQUESTED">>
    BY <1>2, <2>2, <2>3 DEF EventOf
  <2>5. EventOf(b) = <<outbox[b].code, "BOOKING_REQUESTED">>
    BY <2>3 DEF EventOf
  <2>6. outbox[b].code \in Codes /\ outbox[b].code \in reservations
    BY <2>2 DEF ReservationHasItsEvents, Row
  <2>7. PICK p, q \in Ids :
          /\ p < q
          /\ Present(p) /\ EventOf(p) = payment
          /\ Present(q) /\ EventOf(q) = <<outbox[b].code, "BOOKING_REQUESTED">>
    BY <2>6 DEF ReservationHasItsEvents
  <2>8. q = b
    BY <2>2, <2>5, <2>7 DEF ReservationHasItsEvents
  <2>9. outbox[p].status # "PROCESSED"
    <3>1. payment \in Events
      BY <2>6 DEF Events, EventTypes
    <3> QED
      BY <2>4, <2>7, <3>1 DEF SettledWasCalled, Settled
  <2>10. p \in Due
    BY <2>7, <2>9 DEF Due, TypeInv, TypeOK, Present, Row, Statuses
  <2>11. p \in S
    BY <2>1, <2>7, <2>8, <2>10, OutboxAssumption DEF IsBatch, Due
  <2> QED
    BY <1>1, <2>1, <2>4, <2>7, <2>8, <2>11
<1>4. CASE ~Poll(w)
  <2>1. b \in todo[w]
    BY <1>4, BatchShrinks
  <2>2. b \in Ids /\ Present(b) /\ EventOf(b)' = EventOf(b)
    BY <1>1, <2>1 DEF TypeInv, TypeOK, BatchCommitted
  <2>3. /\ outbox[b].type = "BOOKING_REQUESTED"
        /\ payment = <<outbox'[b].code, "PAYMENT_REQUESTED">>
        /\ payment \notin called
    BY <1>2, <2>2 DEF EventOf
  <2>4. PICK p \in todo[w] : p < b /\ EventOf(p) = payment
    BY <2>1, <2>3 DEF PaymentAheadInBatch
  <2>5. p \in Ids /\ Present(p) /\ EventOf(p)' = EventOf(p)
    BY <1>1, <2>4 DEF TypeInv, TypeOK, BatchCommitted
  <2>6. p \in todo'[w]
    <3>1. SUFFICES ASSUME p \notin todo'[w] PROVE FALSE
      OBVIOUS
    <3>2. AtHand(w, p) /\ (outbox[p].status = "PROCESSED" \/ pc[w] \in {"succeeded", "failed"})
      BY <1>4, <2>4, <3>1, BatchShrinks
    <3>3. CASE outbox[p].status = "PROCESSED"
      <4>1. EventOf(p) \in Events
        BY <2>5 DEF Events, EventOf, Present, TypeInv, TypeOK, Row
      <4> QED
        BY <2>3, <2>4, <2>5, <3>3, <4>1 DEF SettledWasCalled, Settled
    <3>4. CASE pc[w] \in {"succeeded", "failed"}
      BY <2>3, <2>4, <3>2, <3>4 DEF AnswerIsOfEventAtHand
    <3> QED
      BY <3>2, <3>3, <3>4
  <2> QED
    BY <2>3, <2>4, <2>5, <2>6
<1> QED
  BY <1>3, <1>4

\* The delivery invariant holds for every number of workers, with any crashes,
\* stops, database errors and lost replies: no event is PROCESSED that no
\* service accepted, each reservation has exactly its two events, and a
\* booking is never requested before its payment.
THEOREM DeliveryCorrect == Spec => []DeliveryInv
<1>1. Init => DeliveryInv
  <2> SUFFICES ASSUME Init PROVE DeliveryInv
    OBVIOUS
  <2>1. TypeInv
    BY OutboxAssumption DEF Init, TypeInv, TypeOK, BatchCommitted, PCs, Statuses
  <2> QED
    BY <2>1 DEF Init, DeliveryInv, AnswerIsOfEventAtHand, ProcessedWasDelivered,
       SettledWasCalled, Settled, ReservationHasItsEvents, PaymentAheadInBatch,
       PaymentCalledFirst, Present
<1>2. DeliveryInv /\ TypeInv' /\ [Next]_vars => DeliveryInv'
  <2> SUFFICES ASSUME DeliveryInv, TypeInv', [Next]_vars PROVE DeliveryInv'
    OBVIOUS
  <2> USE DEF DeliveryInv
  <2>1. \A w \in Workers : \A i \in todo[w] :
          i \in Ids /\ Present(i) /\ EventOf(i) \in Events /\ EventOf(i)' = EventOf(i)
    BY RowsKept DEF TypeInv, TypeOK, BatchCommitted, Present, Row, EventOf, Events
  <2>2. AnswerIsOfEventAtHand'
    <3> SUFFICES ASSUME NEW w \in Workers, NEW i \in todo'[w], AtHand(w, i)',
                        pc'[w] \in {"succeeded", "failed"}
                 PROVE  /\ pc'[w] = "succeeded" => delivered'[EventOf(i)'] > 0
                        /\ EventOf(i)' \in called'
      BY DEF AnswerIsOfEventAtHand
    <3>1. CASE pc'[w] = pc[w] /\ todo'[w] = todo[w]
      BY <2>1, <3>1, HistoryGrows DEF AnswerIsOfEventAtHand, AtHand
    <3>2. CASE Dispatch(w)
      <4>1. todo' = todo
        BY <3>2 DEF Dispatch
      <4>2. PICK k \in todo[w] :
              /\ AtHand(w, k)
              /\ called' = called \cup {EventOf(k)}
              /\ \/ Accept(w, EventOf(k))
                 \/ LoseReply(w, EventOf(k))
                 \/ Refuse(w, EventOf(k))
        BY <3>2 DEF Dispatch
      <4>3. k = i
        BY <4>1, <4>2, AtHandFirst DEF AtHand
      <4>4. pc[w] = "calling"
        BY <3>2 DEF Dispatch
      <4>5. pc'[w] = "succeeded" => Accept(w, EventOf(k))
        BY <4>2, <4>4 DEF LoseReply, Refuse, GiveUpOrRetry, TypeInv, TypeOK
      <4>6. Accept(w, EventOf(k)) => delivered'[EventOf(k)] > 0
        BY <2>1, <4>2, OutboxAssumption DEF Accept, CountUp, TypeInv, TypeOK
      <4> QED
        BY <2>1, <4>2, <4>3, <4>5, <4>6
    <3> QED
      BY <3>1, <3>2, AnswerFromDispatch
  <2>0. Settled \subseteq Events /\ Settled' \subseteq Events
    BY DEF Settled
  <2>3. ProcessedWasDelivered'
    BY <2>0, <2>1, SettledByGoodAnswer, HistoryGrows
    DEF ProcessedWasDelivered, AnswerIsOfEventAtHand
  <2>4. SettledWasCalled'
    BY <2>0, <2>1, SettledByGoodAnswer, HistoryGrows
    DEF SettledWasCalled, AnswerIsOfEventAtHand
  <2>5. ReservationHasItsEvents'
    BY StepReservationHasItsEvents
  <2>6. PaymentAheadInBatch'
    BY StepPaymentAheadInBatch
  <2>7. PaymentCalledFirst'
    <3> SUFFICES ASSUME NEW c \in Codes,
                        <<c, "BOOKING_REQUESTED">> \in called',
                        <<c, "BOOKING_REQUESTED">> \notin called
                 PROVE  <<c, "PAYMENT_REQUESTED">> \in called
      BY HistoryGrows DEF PaymentCalledFirst
    <3>1. PICK w \in Workers : Dispatch(w)
      BY DEF Next, vars, Work, Fault, Publish, Poll, EndBatch, Fetch, Save, Exit,
             Start, DbError, Crash, Stop, history
    <3>2. PICK i \in todo[w] : AtHand(w, i) /\ EventOf(i) = <<c, "BOOKING_REQUESTED">>
      BY <3>1 DEF Dispatch
    <3>3. \A p \in todo[w] : ~(p < i)
      BY <3>2, AtHandFirst
    <3> QED
      BY <3>2, <3>3 DEF PaymentAheadInBatch, EventOf
  <2> QED
    BY <2>2, <2>3, <2>4, <2>5, <2>6, <2>7
<1> QED
  BY <1>1, <1>2, TypeCorrect, PTL DEF Spec

\* What is marked PROCESSED has been accepted, whatever the faults.
THEOREM ProcessedIsDelivered == Spec => []ProcessedWasDelivered
<1>1. DeliveryInv => ProcessedWasDelivered
  BY DEF DeliveryInv
<1> QED
  BY <1>1, DeliveryCorrect, PTL

\* No booking is asked for ahead of its payment, however workers overtake one
\* another.
THEOREM PaymentsComeFirst == Spec => []PaymentCalledFirst
<1>1. DeliveryInv => PaymentCalledFirst
  BY DEF DeliveryInv
<1> QED
  BY <1>1, DeliveryCorrect, PTL

-----------------------------------------------------------------------------
(* A lone worker *)

\* What a lone worker read of the event at hand is still so when it records
\* the outcome, since nobody else writes the outbox of an existing event.
THEOREM LoneWorkerReadsCurrent ==
  ASSUME OneWorker
  PROVE  Spec => []LoneWorkerInv
<1>1. Init => LoneWorkerInv
  BY OutboxAssumption DEF Init, LoneWorkerInv, TypeInv, TypeOK, BatchCommitted,
     ReadIsCurrent, PCs, Statuses
<1>2. LoneWorkerInv /\ TypeInv' /\ [Next]_vars => LoneWorkerInv'
  <2> SUFFICES ASSUME LoneWorkerInv, TypeInv', [Next]_vars,
                      NEW w \in Workers, NEW i \in todo'[w], AtHand(w, i)',
                      pc'[w] \in {"calling", "succeeded", "failed"}
               PROVE  outbox'[i].status = seen'[w] /\ seen'[w] # "PROCESSED"
    BY DEF LoneWorkerInv, ReadIsCurrent
  <2> USE DEF LoneWorkerInv
  <2>1. ASSUME NEW c \in Codes, Publish(c)
        PROVE  outbox'[i].status = seen'[w] /\ seen'[w] # "PROCESSED"
    <3>1. UNCHANGED <<pc, todo, seen>>
      BY <2>1 DEF Publish, loop
    <3>2. i \in todo[w] /\ Present(i) /\ AtHand(w, i)
      BY <3>1 DEF TypeInv, BatchCommitted, AtHand
    <3>3. outbox'[i] = outbox[i]
      BY <2>1, <3>2 DEF Publish, Present, TypeInv, TypeOK
    <3> QED
      BY <3>1, <3>2, <3>3 DEF ReadIsCurrent
  <2>2. CASE Fetch(w)
    <3>1. PICK k \in todo[w] :
            /\ AtHand(w, k)
            /\ \/ pc'[w] = pc[w]
               \/ /\ outbox[k].status # "PROCESSED"
                  /\ seen' = [seen EXCEPT ![w] = outbox[k].status]
                  /\ todo' = todo
      BY <2>2 DEF Fetch
    <3>2. pc'[w] # pc[w]
      BY <2>2 DEF Fetch
    <3>3. k = i
      BY <3>1, <3>2, AtHandFirst DEF AtHand
    <3>4. outbox' = outbox
      BY <2>2 DEF Fetch, tables
    <3> QED
      BY <3>1, <3>2, <3>3, <3>4 DEF TypeInv, TypeOK
  <2>3. CASE Dispatch(w)
    <3>1. UNCHANGED <<outbox, todo, seen>> /\ pc[w] = "calling"
      BY <2>3 DEF Dispatch, tables
    <3> QED
      BY <3>1 DEF ReadIsCurrent, AtHand
  <2>4. CASE Stop(w)
    BY <2>4 DEF Stop, tables, loop, ReadIsCurrent, AtHand
  <2>5. CASE UNCHANGED vars
    BY <2>5 DEF vars, ReadIsCurrent, AtHand
  <2>6. ASSUME NEW v \in Workers,
               \/ Poll(v) \/ EndBatch(v) \/ Save(v) \/ Exit(v) \/ Start(v)
               \/ DbError(v) \/ Crash(v)
        PROVE  FALSE
    <3>1. v = w
      BY DEF OneWorker
    <3> QED
      BY <2>6, <3>1 DEF Poll, EndBatch, Save, Exit, Start, DbError, Crash,
                        TypeInv, TypeOK
  <2> QED
    BY <2>1, <2>2, <2>3, <2>4, <2>5, <2>6 DEF Next, Work, Fault, OneWorker
<1> QED
  BY <1>1, <1>2, TypeCorrect, PTL DEF Spec, LoneWorkerInv

\* A lone worker turns no PROCESSED event back.
LEMMA SettledGrows ==
  ASSUME LoneWorkerInv, [Next]_vars
  PROVE  Settled \subseteq Settled'
<1> SUFFICES ASSUME NEW i \in Ids,
                    Present(i), outbox[i].status = "PROCESSED"
             PROVE  /\ Present(i)' /\ EventOf(i)' = EventOf(i)
                    /\ outbox'[i].status = "PROCESSED"
  BY DEF Settled
<1> USE DEF LoneWorkerInv
<1>1. Present(i)' /\ EventOf(i)' = EventOf(i)
  BY RowsKept
<1>2. ASSUME NEW c \in Codes, Publish(c) PROVE outbox'[i].status = "PROCESSED"
  BY <1>2 DEF Publish, Present, TypeInv, TypeOK
<1>3. ASSUME NEW w \in Workers, Work(w) \/ Fault(w), outbox' # outbox
      PROVE  outbox'[i].status = "PROCESSED"
  <2>1. /\ pc[w] \in {"succeeded", "failed"}
        /\ \E k \in todo[w] : AtHand(w, k) /\ WriteOutcome(w, k)
    BY <1>3, WorkerWrites
  <2>2. PICK k \in todo[w] : AtHand(w, k) /\ WriteOutcome(w, k)
    BY <2>1
  <2>3. Present(k) /\ outbox[k].status # "PROCESSED"
    BY <2>1, <2>2 DEF ReadIsCurrent, TypeInv, BatchCommitted
  <2> QED
    BY <2>2, <2>3, WriteOutcomeType DEF TypeInv
<1> QED
  BY <1>1, <1>2, <1>3 DEF Next, vars

\* With a lone worker a PROCESSED event stays PROCESSED, crashes and database
\* errors included.
THEOREM LoneWorkerSettlesForGood ==
  ASSUME OneWorker
  PROVE  Spec => SettledStaysSettled
  BY SettledGrows, LoneWorkerReadsCurrent, PTL DEF Spec, SettledStaysSettled

\* A request is accepted for an event that is neither settled nor answered, and
\* recording the answer settles it.
LEMMA AcceptedStaysAccountedFor ==
  ASSUME OneWorker, LoneWorkerInv, DeliveryInv, AcceptedIsAccountedFor, [Next]_vars
  PROVE  AcceptedIsAccountedFor'
<1> DEFINE Answered(w, e) ==
      pc[w] = "succeeded" /\ \E i \in todo[w] : AtHand(w, i) /\ EventOf(i) = e
<1> SUFFICES ASSUME crashes' = 0, dbErrors' = 0, NEW e \in Events \ Lossy
             PROVE  /\ delivered'[e] <= 1
                    /\ delivered'[e] > 0 => e \in Settled' \/ \E w \in Workers : Answered(w, e)'
  BY DEF AcceptedIsAccountedFor
<1> USE DEF LoneWorkerInv
<1>1. \A w \in Workers : ~DbError(w) /\ ~Crash(w)
  BY OutboxAssumption DEF DbError, Crash, TypeInv, TypeOK
<1>2. crashes = 0 /\ dbErrors = 0
  BY <1>1 DEF Next, vars, Work, Fault, Publish, Poll, EndBatch, Fetch, Dispatch, Save, Exit,
              Start, Stop, budget
<1>3. /\ delivered[e] <= 1
      /\ delivered[e] > 0 => e \in Settled \/ \E w \in Workers : Answered(w, e)
  BY <1>2 DEF AcceptedIsAccountedFor
<1>4. Settled \subseteq Settled'
  BY SettledGrows
<1>5. ASSUME delivered' = delivered,
             \A w \in Workers : Answered(w, e) => e \in Settled' \/ Answered(w, e)'
      PROVE  /\ delivered'[e] <= 1
             /\ delivered'[e] > 0 => e \in Settled' \/ \E w \in Workers : Answered(w, e)'
  BY <1>3, <1>4, <1>5
<1>6. CASE UNCHANGED <<pc, todo, delivered>>
  <2>1. ASSUME NEW w \in Workers, NEW i \in todo[w], AtHand(w, i), EventOf(i) = e
        PROVE  i \in todo'[w] /\ AtHand(w, i)' /\ EventOf(i)' = e
    BY <1>6, <2>1, RowsKept DEF AtHand, TypeInv, TypeOK, BatchCommitted
  <2> QED
    BY <1>5, <1>6, <2>1
<1>7. ASSUME NEW w \in Workers, Poll(w) \/ EndBatch(w) \/ Fetch(w) \/ Exit(w) \/ Start(w)
      PROVE  delivered' = delivered /\ \A v \in Workers : ~Answered(v, e)
  BY <1>7 DEF Poll, EndBatch, Fetch, Exit, Start, history, OneWorker
<1>8. ASSUME NEW w \in Workers, Save(w)
      PROVE  delivered' = delivered /\ \A v \in Workers : Answered(v, e) => e \in Settled'
  <2>1. delivered' = delivered
    BY <1>8 DEF Save, history
  <2>2. ASSUME Answered(w, e) PROVE e \in Settled'
    <3>1. PICK i \in todo[w] : AtHand(w, i) /\ EventOf(i) = e /\ WriteOutcome(w, i)
      BY <1>8, <2>2, AtHandFirst DEF Save
    <3>2. /\ i \in Ids /\ Present(i)
          /\ Outcome(w) = "PROCESSED" /\ seen[w] # "PROCESSED"
      BY <2>2, <3>1 DEF Outcome, ReadIsCurrent, TypeInv, TypeOK, BatchCommitted
    <3>3. Present(i)' /\ EventOf(i)' = e
      BY <3>1, <3>2, RowsKept
    <3>4. outbox'[i].status = "PROCESSED"
      BY <3>1, <3>2 DEF WriteOutcome, TypeInv, TypeOK, Present, Row
    <3> QED
      BY <3>2, <3>3, <3>4 DEF Settled
  <2> QED
    BY <2>1, <2>2 DEF OneWorker
<1>9. ASSUME NEW w \in Workers, Dispatch(w)
      PROVE  /\ delivered'[e] <= 1
             /\ delivered'[e] > 0 => e \in Settled' \/ \E v \in Workers : Answered(v, e)'
  <2>1. \A v \in Workers : ~Answered(v, e)
    BY <1>9 DEF Dispatch, OneWorker
  <2>2. PICK i \in todo[w] :
          /\ AtHand(w, i)
          /\ \/ Accept(w, EventOf(i))
             \/ LoseReply(w, EventOf(i))
             \/ Refuse(w, EventOf(i))
    BY <1>9 DEF Dispatch
  <2>3. delivered \in [Events -> 0..MaxCount] /\ MaxCount \in Nat \ {0}
    BY OutboxAssumption DEF TypeInv, TypeOK
  <2>4. CASE delivered'[e] = delivered[e]
    BY <1>3, <1>4, <2>1, <2>4
  <2>5. CASE delivered'[e] # delivered[e]
    <3>1. Accept(w, EventOf(i)) /\ EventOf(i) = e
      BY <2>2, <2>3, <2>5 DEF Accept, LoseReply, Refuse
    <3>2. e \notin Settled
      <4>1. i \in Ids /\ Present(i) /\ outbox[i].status # "PROCESSED"
        BY <1>9, <2>2 DEF Dispatch, ReadIsCurrent, TypeInv, TypeOK, BatchCommitted
      <4> QED
        BY <3>1, <4>1 DEF Settled, DeliveryInv, ReservationHasItsEvents
    <3>3. delivered[e] = 0
      BY <1>3, <2>1, <2>3, <3>2
    <3>4. delivered'[e] = 1
      BY <2>3, <3>1, <3>3 DEF Accept, CountUp
    <3>5. UNCHANGED <<outbox, todo>>
      BY <1>9 DEF Dispatch, tables
    <3>6. pc'[w] = "succeeded"
      BY <3>1 DEF Accept, TypeInv, TypeOK
    <3>7. Answered(w, e)'
      BY <2>2, <3>1, <3>5, <3>6 DEF AtHand, EventOf
    <3> QED
      BY <3>4, <3>7
  <2> QED
    BY <2>4, <2>5
<1> QED
  <2>1. ASSUME NEW w \in Workers, Work(w) \/ Stop(w)
        PROVE  \/ UNCHANGED <<pc, todo, delivered>>
               \/ Dispatch(w) \/ Save(w)
               \/ Poll(w) \/ EndBatch(w) \/ Fetch(w) \/ Exit(w) \/ Start(w)
    BY <2>1 DEF Work, Stop, loop, history
  <2>2. ASSUME NEW c \in Codes, Publish(c) PROVE UNCHANGED <<pc, todo, delivered>>
    BY <2>2 DEF Publish, loop, history
  <2>3. CASE UNCHANGED vars
    BY <1>6, <2>3 DEF vars
  <2> HIDE DEF Answered
  <2> QED
    BY <1>1, <1>5, <1>6, <1>7, <1>8, <1>9, <2>1, <2>2, <2>3 DEF Next, Fault

\* A lone worker has an event accepted twice only after a lost reply, a crash
\* or a database error.
THEOREM LoneWorkerAsksOnce ==
  ASSUME OneWorker
  PROVE  Spec => []AtMostOnce
<1>1. Init => AcceptedIsAccountedFor
  BY DEF Init, AcceptedIsAccountedFor
<1>2. AcceptedIsAccountedFor /\ LoneWorkerInv /\ DeliveryInv /\ [Next]_vars =>
        AcceptedIsAccountedFor'
  BY AcceptedStaysAccountedFor
<1>3. AcceptedIsAccountedFor => AtMostOnce
  BY DEF AcceptedIsAccountedFor, AtMostOnce
<1> QED
  BY <1>1, <1>2, <1>3, LoneWorkerReadsCurrent, DeliveryCorrect, PTL DEF Spec

-----------------------------------------------------------------------------
(* Competing workers *)

\* A worker is at work on an event after a step only if it was before, on what it
\* had read then, or if the step was its read.
LEMMA AtWorkFrom ==
  ASSUME TypeInv, [Next]_vars, NEW w \in Workers,
         pc'[w] \in {"calling", "succeeded", "failed"}
  PROVE  /\ todo'[w] = todo[w]
         /\ \/ pc[w] \in {"calling", "succeeded", "failed"} /\ seen'[w] = seen[w]
            \/ \E j \in todo[w] : /\ AtHand(w, j)
                                  /\ outbox[j].status # "PROCESSED"
                                  /\ seen'[w] = outbox[j].status
BY DEF TypeInv, TypeOK, Next, vars, Work, Fault, Publish, Poll, EndBatch, Fetch,
       Dispatch, Accept, LoseReply, Refuse, GiveUpOrRetry, Save, Exit, Start, DbError,
       Crash, Stop, loop

\* Workers read events that are not settled, however many there are.
LEMMA NobodyReadsSettled == Spec => []ReadUnsettled
<1>1. Init => ReadUnsettled
  BY DEF Init, ReadUnsettled
<1>2. ReadUnsettled /\ TypeInv /\ [Next]_vars => ReadUnsettled'
  BY AtWorkFrom DEF ReadUnsettled
<1> QED
  BY <1>1, <1>2, TypeCorrect, PTL DEF Spec

\* Nothing takes an event back to PENDING.
LEMMA FirstOutcomeIsKept ==
  ASSUME TypeInv, [Next]_vars, NEW i \in Ids, Present(i), outbox[i].status # "PENDING"
  PROVE  outbox'[i].status # "PENDING"
<1>1. ASSUME NEW c \in Codes, Publish(c) PROVE outbox'[i] = outbox[i]
  BY <1>1 DEF Publish, TypeInv, TypeOK
<1>2. ASSUME NEW w \in Workers, Work(w) \/ Fault(w), outbox' # outbox
      PROVE  outbox'[i].status # "PENDING"
  <2>1. PICK k \in todo[w] : WriteOutcome(w, k)
    BY <1>2, WorkerWrites
  <2>2. Present(k) /\ Outcome(w) # "PENDING"
    BY DEF TypeInv, BatchCommitted, Outcome
  <2> QED
    BY <2>1, <2>2, WriteOutcomeType DEF TypeInv
<1>3. CASE UNCHANGED vars
  BY <1>3 DEF vars
<1> QED
  BY <1>1, <1>2, <1>3 DEF Next

\* A worker that reads the event now reads its outcome.
LEMMA RacersAreNotJoined ==
  ASSUME TypeInv, [Next]_vars, NEW i \in Ids, outbox[i].status # "PENDING"
  PROVE  Racers(i)' \subseteq Racers(i)
<1> SUFFICES ASSUME NEW w \in Workers, w \in Racers(i)' PROVE w \in Racers(i)
  BY DEF Racers
<1>1. pc'[w] \in {"calling", "succeeded", "failed"} /\ seen'[w] = "PENDING" /\ AtHand(w, i)'
  BY DEF Racers
<1>2. todo'[w] = todo[w]
  BY <1>1, AtWorkFrom
<1>3. AtHand(w, i)
  BY <1>1, <1>2 DEF AtHand
<1>4. \A j \in todo[w] : AtHand(w, j) => j = i
  BY <1>3, AtHandFirst DEF AtHand
<1>5. pc[w] \in {"calling", "succeeded", "failed"} /\ seen'[w] = seen[w]
  BY <1>1, <1>4, AtWorkFrom
<1> QED
  BY <1>1, <1>3, <1>5 DEF Racers

\* What was settled is reopened by a worker that had read PENDING, and is done with it.
LEMMA ReopeningTakesARacer ==
  ASSUME TypeInv, ReadUnsettled, [Next]_vars, NEW i \in Ids, Present(i),
         outbox[i].status = "PROCESSED", outbox'[i].status # "PROCESSED"
  PROVE  Racers(i)' # Racers(i)
<1>1. PICK w \in Workers : Work(w) \/ Fault(w)
  <2>1. ASSUME NEW c \in Codes, Publish(c) PROVE outbox'[i] = outbox[i]
    BY <2>1 DEF Publish, TypeInv, TypeOK
  <2> QED
    BY <2>1 DEF Next, vars
<1>2. pc[w] \in {"succeeded", "failed"}
  BY <1>1, WorkerWrites
<1>3. PICK k \in todo[w] : AtHand(w, k) /\ WriteOutcome(w, k)
  BY <1>1, WorkerWrites
<1>4. Present(k)
  BY DEF TypeInv, BatchCommitted
<1>5. k = i /\ Outcome(w) # "PROCESSED"
  BY <1>3, <1>4, WriteOutcomeType DEF TypeInv
<1>6. Outcome(w) = "FAILED" /\ Outcome(w) # seen[w]
  BY <1>3, <1>5 DEF Outcome, WriteOutcome
<1>7. seen[w] = "PENDING"
  BY <1>2, <1>6 DEF ReadUnsettled, TypeInv, TypeOK, Statuses
<1>8. w \in Racers(i)
  BY <1>2, <1>3, <1>5, <1>7 DEF Racers
<1>9. pc'[w] \in {"batch", "zombie"}
  BY <1>1
  DEF Work, Fault, Poll, EndBatch, Fetch, Dispatch, Save, Exit, Start, DbError, Crash, Stop,
      tables, TypeInv, TypeOK
<1>10. w \notin Racers(i)'
  BY <1>9 DEF Racers
<1> QED
  BY <1>8, <1>10

\* For any number of workers, crashes and lost commits: once an event has had its first
\* outcome, it is reopened at most once by each of the workers that were at work on it
\* then, and by no other.
THEOREM ReopeningsAreLimited == Spec => ReopeningsRunOut
<1>1. TypeInv /\ ReadUnsettled /\ [Next]_vars =>
        [\A i \in Ids : Present(i) /\ outbox[i].status # "PENDING" =>
           /\ outbox'[i].status # "PENDING"
           /\ Racers(i)' \subseteq Racers(i)
           /\ outbox[i].status = "PROCESSED" /\ outbox'[i].status # "PROCESSED" =>
                Racers(i)' # Racers(i)]_vars
  BY FirstOutcomeIsKept, RacersAreNotJoined, ReopeningTakesARacer
<1> QED
  BY <1>1, TypeCorrect, NobodyReadsSettled, PTL DEF Spec, ReopeningsRunOut

-----------------------------------------------------------------------------
(* Refinement *)

\* Recording an outcome settles or reopens the event at hand and no other; a
\* lone worker reopens none.
LEMMA OutcomeKeepsContract ==
  ASSUME DeliveryInv, OneWorker => LoneWorkerInv,
         NEW w \in Workers, Work(w) \/ Fault(w), outbox' # outbox
  PROVE  [Contract!Next]_(Contract!vars)
<1> USE DEF DeliveryInv, Contract!Events, Events, EventTypes
<1>1. pc[w] \in {"succeeded", "failed"}
  BY WorkerWrites
<1>2. PICK i \in todo[w] : AtHand(w, i) /\ WriteOutcome(w, i)
  BY WorkerWrites
<1>3. i \in Ids /\ Present(i) /\ EventOf(i) \in Events
  BY DEF TypeInv, TypeOK, BatchCommitted, Present, Row, EventOf
<1>4. /\ \A j \in Ids : Present(j) <=> Present(j)'
      /\ \A j \in Ids : Present(j) => EventOf(j)' = EventOf(j)
      /\ \A j \in Ids : j # i => outbox'[j] = outbox[j]
      /\ outbox'[i].status \in {outbox[i].status, Outcome(w)}
  BY <1>2, <1>3, WriteOutcomeType DEF TypeInv
<1>5. \A e \in Events : e # EventOf(i) => (e \in Settled <=> e \in Settled')
  BY <1>3, <1>4 DEF Settled
<1>6. /\ EventOf(i) \in Settled <=> outbox[i].status = "PROCESSED"
      /\ EventOf(i) \in Settled' <=> outbox'[i].status = "PROCESSED"
  BY <1>3, <1>4 DEF Settled, ReservationHasItsEvents
<1>7. UNCHANGED <<reservations, delivered>>
  BY <1>1 DEF Work, Fault, Poll, EndBatch, Fetch, Dispatch, Save, Exit, Start,
              DbError, Crash, Stop, tables, history
<1>0. Settled \subseteq Events /\ Settled' \subseteq Events
  BY DEF Settled
<1>8. CASE EventOf(i) \in Settled' /\ EventOf(i) \notin Settled
  <2>1. delivered[EventOf(i)] > 0
    BY <1>1, <1>2, <1>4, <1>6, <1>8 DEF AnswerIsOfEventAtHand, Outcome
  <2>2. Settled' = Settled \cup {EventOf(i)}
    BY <1>0, <1>3, <1>5, <1>8
  <2> QED
    BY <1>3, <1>7, <2>1, <2>2 DEF Contract!Next, Contract!Settle
<1>9. CASE EventOf(i) \notin Settled' /\ EventOf(i) \in Settled
  <2>1. ~OneWorker
    BY <1>1, <1>2, <1>6, <1>9 DEF LoneWorkerInv, ReadIsCurrent
  <2>2. Settled' = Settled \ {EventOf(i)}
    BY <1>0, <1>3, <1>5, <1>9
  <2> QED
    BY <1>3, <1>7, <2>1, <2>2 DEF Contract!Next, Contract!Reopen
<1>10. CASE EventOf(i) \in Settled' <=> EventOf(i) \in Settled
  <2>1. Settled' = Settled
    BY <1>0, <1>3, <1>5, <1>10
  <2> QED
    BY <1>7, <2>1 DEF Contract!vars
<1> QED
  BY <1>8, <1>9, <1>10

\* The outbox implements the at-least-once contract.
THEOREM OutboxKeepsContract == Spec => KeepsContract
<1> USE DEF Contract!Events, Events, EventTypes
<1>1. Init => Contract!Init
  BY DEF Init, Contract!Init, Settled, Present
<1>2. DeliveryInv /\ (OneWorker => LoneWorkerInv) /\ [Next]_vars
        => [Contract!Next]_(Contract!vars)
  <2> SUFFICES ASSUME DeliveryInv, OneWorker => LoneWorkerInv, [Next]_vars
               PROVE  [Contract!Next]_(Contract!vars)
    OBVIOUS
  <2>1. ASSUME NEW c \in Codes, Publish(c) PROVE Contract!Publish(c)
    <3>1. \A e \in Events : e \in Settled' => e \in Settled
      BY <2>1 DEF Publish, Settled, Present, EventOf, NewRow, DeliveryInv, TypeInv, TypeOK
    <3>2. Settled \subseteq Settled' /\ Settled' \subseteq Events
      BY <2>1 DEF Publish, Settled, Present, EventOf, DeliveryInv, TypeInv, TypeOK
    <3> QED
      BY <2>1, <3>1, <3>2 DEF Publish, Contract!Publish, history
  <2>2. ASSUME NEW w \in Workers, Dispatch(w)
        PROVE  [Contract!Next]_(Contract!vars)
    <3>1. UNCHANGED <<reservations, Settled>>
      BY <2>2 DEF Dispatch, tables, Settled, Present, EventOf
    <3>2. PICK i \in todo[w] : \/ Accept(w, EventOf(i))
                               \/ LoseReply(w, EventOf(i))
                               \/ Refuse(w, EventOf(i))
      BY <2>2 DEF Dispatch
    <3>3. EventOf(i) \in Events /\ EventOf(i)[1] \in reservations
      BY DEF DeliveryInv, TypeInv, TypeOK, BatchCommitted, Present, Row, EventOf,
             ReservationHasItsEvents
    <3>4. CASE Accept(w, EventOf(i)) \/ LoseReply(w, EventOf(i))
      BY <3>1, <3>3, <3>4
      DEF Accept, LoseReply, CountUp, Contract!Deliver, Contract!Next
    <3>5. CASE Refuse(w, EventOf(i))
      BY <3>1, <3>5 DEF Refuse, Contract!vars
    <3> QED
      BY <3>2, <3>4, <3>5
  <2>3. ASSUME NEW w \in Workers, Work(w) \/ Fault(w), ~Dispatch(w), outbox' = outbox
        PROVE  UNCHANGED Contract!vars
    BY <2>3 DEF Work, Fault, Poll, EndBatch, Fetch, Save, Exit, Start, DbError, Crash,
                Stop, tables, history, Contract!vars, Settled, Present, EventOf
  <2>4. CASE UNCHANGED vars
    BY <2>4 DEF vars, Contract!vars, Settled, Present, EventOf
  <2> QED
    BY <2>1, <2>2, <2>3, <2>4, OutcomeKeepsContract DEF Next, Contract!Next
<1>3. CASE OneWorker
  <2>1. Spec => []LoneWorkerInv
    BY <1>3, LoneWorkerReadsCurrent
  <2>2. DeliveryInv /\ LoneWorkerInv /\ [Next]_vars => [Contract!Next]_(Contract!vars)
    BY <1>2
  <2> QED
    BY <1>1, <2>1, <2>2, DeliveryCorrect, PTL DEF Spec, KeepsContract, Contract!Spec
<1>4. CASE ~OneWorker
  <2>1. DeliveryInv /\ [Next]_vars => [Contract!Next]_(Contract!vars)
    BY <1>2, <1>4
  <2> QED
    BY <1>1, <2>1, DeliveryCorrect, PTL DEF Spec, KeepsContract, Contract!Spec
<1> QED
  BY <1>3, <1>4
-----------------------------------------------------------------------------
(* Termination *)

\* Only a poll gives a worker a batch.
LEMMA BatchesShrink ==
  ASSUME TypeInv, [Next]_vars, NEW w \in Workers, ~Poll(w)
  PROVE  todo'[w] \subseteq todo[w]
BY BatchShrinks

\* A select of committed rows is finite, and as large as it may be.
LEMMA BatchesAreBounded ==
  ASSUME StopInv, [Next]_vars, NEW w \in Workers
  PROVE  IsFiniteSet(todo'[w]) /\ Cardinality(todo'[w]) <= BatchSize
<1> USE DEF StopInv, TypeInv
<1>1. CASE Poll(w)
  <2>1. PICK S \in SUBSET Due : IsBatch(S, Due) /\ todo' = [todo EXCEPT ![w] = S]
    BY <1>1 DEF Poll
  <2>2. todo'[w] = S
    BY <2>1 DEF TypeOK
  <2>3. IsFiniteSet(S)
    BY FS_Subset DEF Due
  <2>4. Cardinality(S) <= BatchSize
    BY <2>1, OutboxAssumption DEF IsBatch
  <2> QED
    BY <2>2, <2>3, <2>4
<1>2. CASE ~Poll(w)
  <2>1. todo'[w] \subseteq todo[w]
    BY <1>2, BatchesShrink
  <2>2. IsFiniteSet(todo'[w]) /\ Cardinality(todo'[w]) <= Cardinality(todo[w])
    BY <2>1, FS_Subset
  <2>3. Cardinality(todo[w]) \in Nat /\ Cardinality(todo'[w]) \in Nat
    BY <2>2, FS_CardinalityType
  <2> QED
    BY <2>2, <2>3, OutboxAssumption
<1> QED
  BY <1>1, <1>2

\* A batch never exceeds --batch-size, nor has a stopped worker come back.
THEOREM BatchesAreSmall == Spec => []StopInv
<1>1. Init => StopInv
  <2> SUFFICES ASSUME Init PROVE StopInv
    OBVIOUS
  <2>1. TypeInv
    BY OutboxAssumption DEF Init, TypeInv, TypeOK, BatchCommitted, PCs, Statuses
  <2>2. {i \in Ids : Present(i)} = {}
    BY DEF Init, Present
  <2>3. IsFiniteSet({}) /\ Cardinality({}) = 0
    BY FS_EmptySet
  <2> QED
    BY <2>1, <2>2, <2>3, OutboxAssumption DEF Init, StopInv
<1>2. StopInv /\ TypeInv' /\ [Next]_vars => StopInv'
  <2> SUFFICES ASSUME StopInv, TypeInv', [Next]_vars PROVE StopInv'
    OBVIOUS
  <2> DEFINE Rows == {i \in Ids : Present(i)}
  <2>1. IsFiniteSet(Rows')
    <3>1. ASSUME NEW c \in Codes, Publish(c) PROVE IsFiniteSet(Rows')
      <4>1. PICK p \in Ids, b \in Ids :
              outbox' = [outbox EXCEPT ![p] = NewRow(c, "PAYMENT_REQUESTED"),
                                       ![b] = NewRow(c, "BOOKING_REQUESTED")]
        BY <3>1 DEF Publish
      <4>2. Rows' \subseteq (Rows \cup {p}) \cup {b}
        BY <4>1 DEF Present, StopInv, TypeInv, TypeOK
      <4>3. IsFiniteSet((Rows \cup {p}) \cup {b})
        BY FS_AddElement DEF StopInv
      <4> QED
        BY <4>2, <4>3, FS_Subset
    <3>2. ASSUME NEW w \in Workers, Work(w) \/ Fault(w) PROVE Rows' = Rows
      BY <3>2, WorkerKeepsRows DEF StopInv
    <3>3. CASE UNCHANGED vars
      BY <3>3 DEF vars, StopInv, Present
    <3> QED
      BY <3>1, <3>2, <3>3 DEF Next, StopInv
  <2>2. \A w \in stopping' : pc'[w] # "down"
    BY DEF StopInv, TypeInv, TypeOK, Next, vars, Work, Fault, Publish, Poll, EndBatch, Fetch,
           Dispatch, Accept, LoseReply, Refuse, GiveUpOrRetry, Save, Exit, Start, DbError,
           Crash, Stop, loop
  <2> QED
    BY <2>1, <2>2, BatchesAreBounded DEF StopInv
<1> QED
  BY <1>1, <1>2, TypeCorrect, PTL DEF Spec

\* What other processes do is nothing to a worker.
LEMMA OthersLeaveWorker ==
  ASSUME TypeInv, [Next]_vars, NEW w \in Workers, ~Work(w), ~Fault(w)
  PROVE  UNCHANGED <<pc[w], todo[w], attempt[w]>>
BY DEF TypeInv, TypeOK, Next, vars, Work, Fault, Publish, Poll, EndBatch, Fetch,
       Dispatch, Accept, LoseReply, Refuse, GiveUpOrRetry, Save, Exit, Start, DbError,
       Crash, Stop, loop

\* Working makes the batch smaller or gets on with the event at hand.
LEMMA WorkRunsDown ==
  ASSUME TypeInv, NEW w \in Workers, w \in stopping, pc[w] # "down", Work(w),
         todo'[w] = todo[w]
  PROVE  StepsLeft(w)' < StepsLeft(w)
<1> USE OutboxAssumption DEF TypeInv, TypeOK
<1>1. attempt[w] \in 0..MaxRetries /\ MaxRetries \in Nat
  OBVIOUS
<1>2. ~Poll(w) /\ ~Start(w)
  BY DEF Poll, Start
<1>3. CASE EndBatch(w)
  <2>1. pc[w] = "batch" /\ pc'[w] = "idle"
    BY <1>3 DEF EndBatch
  <2> QED
    BY <1>1, <2>1 DEF StepsLeft
<1>4. CASE Fetch(w)
  <2>1. pc[w] = "batch" /\ pc'[w] = "calling" /\ attempt'[w] = 0
    BY <1>4 DEF Fetch
  <2> QED
    BY <1>1, <2>1 DEF StepsLeft
<1>5. CASE Dispatch(w)
  <2>1. /\ pc[w] = "calling"
        /\ \/ pc'[w] \in {"succeeded", "failed"}
           \/ pc'[w] = "calling" /\ attempt[w] < MaxRetries /\ attempt'[w] = attempt[w] + 1
    BY <1>5 DEF Dispatch, Accept, LoseReply, Refuse, GiveUpOrRetry
  <2> QED
    BY <1>1, <2>1 DEF StepsLeft
<1>6. CASE Save(w)
  BY <1>6 DEF Save
<1>7. CASE Exit(w)
  <2>1. pc[w] \in {"idle", "zombie"} /\ pc'[w] = "down"
    BY <1>7 DEF Exit
  <2> QED
    BY <2>1 DEF StepsLeft
<1> QED
  BY <1>2, <1>3, <1>4, <1>5, <1>6, <1>7 DEF Work

\* A fault takes a worker to the end of its loop, or only tells it to stop.
LEMMA FaultRunsDown ==
  ASSUME TypeInv, NEW w \in Workers, Fault(w)
  PROVE  StepsLeft(w)' <= StepsLeft(w)
<1> USE OutboxAssumption DEF TypeInv, TypeOK
<1>1. attempt[w] \in 0..MaxRetries /\ MaxRetries \in Nat /\ pc[w] \in PCs
  OBVIOUS
<1>2. CASE DbError(w)
  <2>1. pc[w] # "down" /\ pc'[w] = "zombie"
    BY <1>2 DEF DbError
  <2> QED
    BY <1>1, <2>1 DEF StepsLeft, PCs
<1>3. CASE Crash(w)
  <2>1. pc'[w] = "down"
    BY <1>3 DEF Crash
  <2>2. StepsLeft(w)' = 0 /\ StepsLeft(w) \in Nat
    BY <1>1, <2>1 DEF StepsLeft, PCs
  <2> QED
    BY <2>2
<1>4. CASE Stop(w)
  <2>1. StepsLeft(w) \in Nat /\ StepsLeft(w)' = StepsLeft(w)
    BY <1>1, <1>4 DEF Stop, loop, StepsLeft, PCs
  <2> QED
    BY <2>1
<1> QED
  BY <1>2, <1>3, <1>4 DEF Fault

\* A worker that is told to stop does no more than finish its batch, each event of it
\* in at most MaxRetries + 3 steps: for any batch size, and whatever the gateways
\* answer and the other workers and the clients do meanwhile.
THEOREM StoppedWorkersEnd == Spec => StopRunsDown
<1>1. StopInv /\ StopInv' /\ [Next]_vars =>
        [\A w \in stopping :
           /\ todo'[w] \subseteq todo[w]
           /\ \/ todo'[w] # todo[w]
              \/ /\ StepsLeft(w)' <= StepsLeft(w)
                 /\ Work(w) => StepsLeft(w)' < StepsLeft(w)]_vars
  <2> SUFFICES ASSUME StopInv, StopInv', Next, NEW w \in stopping
               PROVE  /\ todo'[w] \subseteq todo[w]
                      /\ todo'[w] = todo[w] =>
                           /\ StepsLeft(w)' <= StepsLeft(w)
                           /\ Work(w) => StepsLeft(w)' < StepsLeft(w)
    OBVIOUS
  <2>1. TypeInv /\ TypeInv' /\ w \in Workers /\ pc[w] # "down"
    BY DEF StopInv, TypeInv, TypeOK
  <2>2. todo'[w] \subseteq todo[w]
    BY <2>1, BatchesShrink DEF Poll
  <2>3. StepsLeft(w) \in Nat /\ StepsLeft(w)' \in Nat
    BY <2>1, OutboxAssumption DEF TypeInv, TypeOK, PCs, StepsLeft
  <2>4. ASSUME todo'[w] = todo[w]
        PROVE  /\ StepsLeft(w)' <= StepsLeft(w)
               /\ Work(w) => StepsLeft(w)' < StepsLeft(w)
    <3>1. CASE Work(w)
      <4>1. StepsLeft(w)' < StepsLeft(w)
        BY <2>1, <2>4, <3>1, WorkRunsDown
      <4>2. StepsLeft(w)' <= StepsLeft(w)
        BY <2>3, <4>1
      <4> QED
        BY <4>1, <4>2
    <3>2. CASE Fault(w) /\ ~Work(w)
      BY <2>1, <3>2, FaultRunsDown
    <3>3. CASE ~Work(w) /\ ~Fault(w)
      <4>1. StepsLeft(w)' = StepsLeft(w)
        BY <2>1, <3>3, OthersLeaveWorker DEF StepsLeft
      <4>2. StepsLeft(w)' <= StepsLeft(w)
        BY <2>3, <4>1
      <4> QED
        BY <3>3, <4>2
    <3> QED
      BY <3>1, <3>2, <3>3
  <2> QED
    BY <2>2, <2>4
<1> QED
  BY <1>1, BatchesAreSmall, PTL DEF Spec, StopRunsDown
=============================================================================
