---------------------- MODULE ReservationSystem_proofs ----------------------
(* Theorems about ReservationSystem: what is proved of its components holds *)
(* of the system, and what they do together, for any numbers of requests    *)
(* and workers.                                                             *)
EXTENDS ReservationSystem, CreateReservation_proofs

\* Requests cannot tell whether there are workers: to them the system makes
\* steps of CreateReservation only.
THEOREM SystemReserves == SystemSpec => Spec
<1>1. SystemInit => Init
  BY DEF SystemInit
<1>2. [SystemNext]_systemVars => [Next]_vars
  BY DEF SystemNext, systemVars
<1> QED
  BY <1>1, <1>2, PTL DEF SystemSpec, Spec

\* Workers cannot tell how reservations come about: to them the system makes
\* steps of Outbox only.
THEOREM SystemDelivers == SystemSpec => Box!Spec
<1>1. SystemInit => Box!Init
  BY DEF SystemInit
<1>2. [SystemNext]_systemVars => [Box!Next]_(Box!vars)
  <2> SUFFICES ASSUME SystemNext \/ UNCHANGED systemVars
               PROVE  Box!Next \/ UNCHANGED Box!vars
    OBVIOUS
  <2>1. CASE owner' = owner /\ UNCHANGED boxVars
    BY <2>1 DEF boxVars, Box!vars, Taken
  <2>2. ASSUME NEW c \in Codes, Box!Publish(c) PROVE Box!Next
    BY <2>2 DEF Box!Next
  <2>3. ASSUME NEW w \in Workers, Box!Work(w) \/ Box!Fault(w) PROVE Box!Next
    BY <2>3 DEF Box!Next
  <2>4. CASE UNCHANGED systemVars
    BY <2>1, <2>4 DEF systemVars, vars
  <2> QED
    BY <2>1, <2>2, <2>3, <2>4 DEF SystemNext, Publishing
<1> QED
  BY <1>1, <1>2, PTL DEF SystemSpec, Box!Spec

\* The constants of the outbox are as its theorems have them.
LEMMA BoxAssumption == Box!OutboxAssumption
  BY SystemAssumption DEF Box!OutboxAssumption, Box!Events, Box!EventTypes, EventTypes

\* The invariant of the outbox, with the reservations of the API for its own.
LEMMA SystemDeliversWell == SystemSpec => []Box!DeliveryInv
  BY SystemDelivers, BoxAssumption, Box!DeliveryCorrect, PTL

\* A lone worker of the system is a lone worker of the outbox.
LEMMA SystemLoneWorker == SystemSpec => [](Box!OneWorker => Box!LoneWorkerInv)
<1>1. CASE Box!OneWorker
  <2>1. Box!Spec => []Box!LoneWorkerInv
    BY <1>1, BoxAssumption, Box!LoneWorkerReadsCurrent
  <2> QED
    BY <2>1, SystemDelivers, PTL
<1>2. CASE ~Box!OneWorker
  BY <1>2, PTL
<1> QED
  BY <1>1, <1>2

\* With one worker nothing is paid for or booked twice without a lost reply or a
\* fault of that worker, however many requests and crashes of the API there are.
THEOREM SystemServesOnce == SystemSpec => []ServedOnce
<1>1. CASE Box!OneWorker
  <2>1. Box!Spec => []Box!AtMostOnce
    BY <1>1, BoxAssumption, Box!LoneWorkerAsksOnce
  <2> QED
    BY <2>1, SystemDelivers, PTL DEF ServedOnce
<1>2. CASE ~Box!OneWorker
  <2>1. ServedOnce
    BY <1>2 DEF ServedOnce, Box!AtMostOnce
  <2> QED
    BY <2>1, PTL
<1> QED
  BY <1>1, <1>2

\* With one worker an event that is settled is never opened again.
THEOREM SystemSettlesForGood ==
  ASSUME Box!OneWorker
  PROVE  SystemSpec => SettledForGood
<1>1. Box!Spec => Box!SettledStaysSettled
  BY BoxAssumption, Box!LoneWorkerSettlesForGood
<1> QED
  BY <1>1, SystemDelivers DEF SettledForGood

\* Whichever of its components one looks at, the system keeps its promise: that
\* of POST /reservations to its clients and that of the outbox to the services.
THEOREM SystemKeepsPromises == SystemSpec => KeepsBook /\ Box!KeepsContract
  BY SystemReserves, SystemDelivers, CreationKeepsBook, BoxAssumption, Box!OutboxKeepsContract, PTL

-----------------------------------------------------------------------------
(* The outbox as the API sees it *)

\* A commit adds the two events of its code.
LEMMA PublishedRows ==
  ASSUME Box!TypeInv, NEW c \in Codes, Box!Publish(c)
  PROVE  {Box!EventOf(i) : i \in {j \in Ids : Box!Present(j)}}' =
           {Box!EventOf(i) : i \in {j \in Ids : Box!Present(j)}} \cup ({c} \X EventTypes)
<1> DEFINE Rows == {i \in Ids : Box!Present(i)}
<1>1. PICK p \in Ids, b \in Ids :
        /\ p < b /\ ~Box!Present(p) /\ ~Box!Present(b)
        /\ outbox' = [outbox EXCEPT ![p] = Box!NewRow(c, "PAYMENT_REQUESTED"),
                                    ![b] = Box!NewRow(c, "BOOKING_REQUESTED")]
  BY DEF Box!Publish
<1>2. p # b /\ outbox \in [Ids -> Box!Row \cup {NoRow}]
  BY <1>1, SystemAssumption DEF Box!TypeInv, Box!TypeOK
<1>3. /\ outbox'[p] = Box!NewRow(c, "PAYMENT_REQUESTED")
      /\ outbox'[b] = Box!NewRow(c, "BOOKING_REQUESTED")
      /\ \A i \in Ids \ {p, b} : outbox'[i] = outbox[i]
  BY <1>1, <1>2
<1>4. \A t \in EventTypes : Box!NewRow(c, t) # NoRow
  BY SystemAssumption
  DEF Box!NewRow, Box!Row, Box!Statuses, Box!EventTypes, EventTypes
<1>5. /\ Box!Present(p)' /\ Box!EventOf(p)' = <<c, "PAYMENT_REQUESTED">>
      /\ Box!Present(b)' /\ Box!EventOf(b)' = <<c, "BOOKING_REQUESTED">>
  BY <1>3, <1>4 DEF Box!Present, Box!EventOf, Box!NewRow, EventTypes
<1>6. \A i \in Ids \ {p, b} : (Box!Present(i)' <=> Box!Present(i)) /\ Box!EventOf(i)' = Box!EventOf(i)
  BY <1>3 DEF Box!Present, Box!EventOf
<1>7. Rows' = Rows \cup {p, b}
  BY <1>1, <1>5, <1>6
<1>8. {c} \X EventTypes = {<<c, "PAYMENT_REQUESTED">>, <<c, "BOOKING_REQUESTED">>}
  BY DEF EventTypes
<1>9. {Box!EventOf(i)' : i \in Rows'} = {Box!EventOf(i)' : i \in Rows} \cup {Box!EventOf(p)', Box!EventOf(b)'}
  BY <1>7
<1>10. {Box!EventOf(i)' : i \in Rows} = {Box!EventOf(i) : i \in Rows}
  BY <1>1, <1>6
<1> QED
  BY <1>5, <1>8, <1>9, <1>10

\* A worker changes statuses, never what a row is about.
LEMMA WorkersKeepRows ==
  ASSUME Box!TypeInv, NEW w \in Workers, Box!Work(w) \/ Box!Fault(w)
  PROVE  {Box!EventOf(i) : i \in {j \in Ids : Box!Present(j)}}' =
           {Box!EventOf(i) : i \in {j \in Ids : Box!Present(j)}}
<1>1. \A i \in Ids : /\ Box!Present(i) <=> Box!Present(i)'
                     /\ Box!Present(i) => Box!EventOf(i)' = Box!EventOf(i)
  BY BoxAssumption, Box!WorkerKeepsRows
<1> QED
  BY <1>1

\* The events the API has saved are the rows the workers find.
LEMMA AgreementIsKept ==
  ASSUME TablesAgree, CreateInv, Box!TypeInv, [SystemNext]_systemVars
  PROVE  TablesAgree'
<1>1. CASE owner' = owner /\ UNCHANGED boxVars /\ UNCHANGED events
  BY <1>1 DEF TablesAgree, boxVars, Box!Present, Box!EventOf
<1>2. ASSUME NEW w \in Workers, Box!Work(w) \/ Box!Fault(w), UNCHANGED vars
      PROVE  TablesAgree'
  BY <1>2, WorkersKeepRows DEF TablesAgree, vars
<1>3. ASSUME Next, Publishing, NEW r \in Requests, Saves(r)
      PROVE  TablesAgree'
  <2>1. /\ code[r] \in Codes /\ owner[code[r]] = NoRequest
        /\ owner' = [owner EXCEPT ![code[r]] = r]
        /\ events' = events \cup ({code[r]} \X EventTypes)
    BY <1>3 DEF Saves, Persist, CreateInv, CodeDrawn, CommitIsAlone, Taken
  <2>2. owner'[code[r]] # owner[code[r]]
    BY <2>1, CreateAssumption DEF CreateInv, TypeOK
  <2>3. PICK c \in Codes : owner'[c] # owner[c] /\ Box!Publish(c)
    BY <1>3, <2>2 DEF Publishing
  <2>4. c = code[r]
    BY <2>1, <2>3 DEF CreateInv, TypeOK
  <2> QED
    BY <2>1, <2>3, <2>4, PublishedRows DEF TablesAgree
<1>4. ASSUME Next, Publishing, owner' = owner, events' = events
      PROVE  TablesAgree'
  BY <1>1, <1>4 DEF Publishing
<1>5. CASE UNCHANGED systemVars
  BY <1>1, <1>5 DEF systemVars, vars
<1> QED
  BY <1>2, <1>3, <1>4, <1>5, StepShape DEF SystemNext, SavesNothing, tables, CreateInv

\* For any requests, workers and faults: the invariants of both components hold
\* of the system, and both see the same outbox.
THEOREM SystemCorrect == SystemSpec => []SystemInv
<1>1. SystemInit => TablesAgree
  BY DEF SystemInit, Init, Box!Init, TablesAgree, Box!Present
<1>2. TablesAgree /\ CreateInv /\ Box!DeliveryInv /\ [SystemNext]_systemVars => TablesAgree'
  BY AgreementIsKept DEF Box!DeliveryInv
<1>3. CreateInv /\ NoOwnerWasRefused /\ OwnersWereChecked /\ Box!DeliveryInv
        /\ (Box!OneWorker => Box!LoneWorkerInv) /\ TablesAgree => SystemInv
  BY DEF SystemInv
<1> QED
  BY <1>1, <1>2, <1>3, SystemReserves, CreateCorrect, NobodyRefusedIsSaved, OnlyCheckedAreSaved,
     SystemDeliversWell, SystemLoneWorker, PTL DEF SystemSpec

\* A service that is called is called for a saved reservation.
LEMMA CalledIsSaved ==
  ASSUME SystemInv, NEW e \in called
  PROVE  e[1] \in Codes /\ Taken(e[1]) /\ Client(e) \in Requests
<1>1. e[1] \in {c \in Codes : Taken(c)}
  BY DEF SystemInv, Box!DeliveryInv, Box!ReservationHasItsEvents
<1> QED
  BY <1>1 DEF Client, Taken, SystemInv, CreateInv, TypeOK

\* No payment and no booking is asked for a request that failed its checks, or
\* that was told of a failure without being cut off from its commit.
THEOREM OnlyClientsAreEverServed == SystemSpec => []OnlyClientsAreServed
<1>1. SystemInv => OnlyClientsAreServed
  BY CalledIsSaved DEF OnlyClientsAreServed, SystemInv, NoOwnerWasRefused, OwnersWereChecked, Client
<1> QED
  BY <1>1, SystemCorrect, PTL
=============================================================================
