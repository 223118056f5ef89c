-------------------------- MODULE ReservationSystem --------------------------
(***************************************************************************)
(* The API and the outbox workers on one database: requests that reserve   *)
(* (CreateReservation) and processes that deliver what they have published *)
(* (Outbox).  The two share nothing but the tables.  A transaction that    *)
(* saves a reservation is a step of both; every other step is one of a     *)
(* single component.  What the workers take for the codes of committed     *)
(* reservations is the reservations table of the API.                      *)
(***************************************************************************)
EXTENDS CreateReservation

CONSTANTS
  Ids, Workers, BatchSize, MaxRetries, Poisoned, Lossy, NoRow, MaxCount,
  MaxWorkerCrashes, MaxStops, MaxWorkerDbErrors    \* those of Outbox

VARIABLES
  outbox, called, delivered, loop, todo, seen, attempt, stopping,
  workerCrashes, stops, workerDbErrors             \* those of Outbox

boxVars == <<outbox, called, delivered, loop, todo, seen, attempt, stopping,
             workerCrashes, stops, workerDbErrors>>
systemVars == <<vars, boxVars>>

\* The outbox, with the theorems about it.
Box == INSTANCE Outbox_proofs WITH
         reservations <- {c \in Codes : Taken(c)},
         pc <- loop,
         crashes <- workerCrashes, MaxCrashes <- MaxWorkerCrashes,
         dbErrors <- workerDbErrors, MaxDbErrors <- MaxWorkerDbErrors

\* That of Outbox for these values.
ASSUME SystemAssumption ==
  /\ Ids \subseteq Nat
  /\ BatchSize \in Nat \ {0}
  /\ MaxRetries \in Nat
  /\ Poisoned \subseteq Codes \X EventTypes
  /\ Lossy \subseteq Codes \X EventTypes
  /\ NoRow \notin Box!Row
  /\ MaxCount \in Nat \ {0}
  /\ MaxWorkerCrashes \in Nat
  /\ MaxStops \in Nat
  /\ MaxWorkerDbErrors \in Nat

SystemInit == Init /\ Box!Init

\* A reservation that is saved is published with it, and nothing else is.
Publishing ==
  IF owner' = owner
  THEN UNCHANGED boxVars
  ELSE \E c \in Codes : owner'[c] # owner[c] /\ Box!Publish(c)

SystemNext == \/ Next /\ Publishing
              \/ UNCHANGED vars /\ \E w \in Workers : Box!Work(w) \/ Box!Fault(w)

SystemSpec == SystemInit /\ [][SystemNext]_systemVars

-----------------------------------------------------------------------------
(* Properties *)

\* The API's view of the outbox is the workers': the events of the rows.
TablesAgree == events = {Box!EventOf(i) : i \in {j \in Ids : Box!Present(j)}}

\* Who asked for the reservation an event is about.
Client(e) == owner[e[1]]

\* No service hears of a reservation before it is saved, of one whose request
\* has not passed the checks, or of one whose client was refused or still waits.
OnlyClientsAreServed ==
  \A e \in called :
    /\ Client(e) \in clean
    /\ wanted[Client(e)] \subseteq Sellable
    /\ reply[Client(e)] \in {"201", "500", "lost"}

\* With a lone worker a service accepts the payment or the booking of a reservation
\* twice only after a lost reply or a fault of the worker: requests, their errors,
\* repetitions and crashes of the API make nothing happen twice.
ServedOnce == Box!AtMostOnce

\* With a lone worker an event that is settled stays so, whatever is reserved next.
SettledForGood == Box!SettledStaysSettled

-----------------------------------------------------------------------------
(* What they follow from *)

\* The invariants of the components, and what joins them.
SystemInv ==
  /\ CreateInv
  /\ NoOwnerWasRefused
  /\ OwnersWereChecked
  /\ Box!DeliveryInv
  /\ Box!OneWorker => Box!LoneWorkerInv
  /\ TablesAgree
=============================================================================
