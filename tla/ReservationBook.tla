-------------------------- MODULE ReservationBook --------------------------
(***************************************************************************)
(* What POST /reservations promises, without steps, transactions, locks or *)
(* an order of reads: there is a book with one entry per code, and one     *)
(* atomic step answers a request and either enters its reservation, whole  *)
(* and under a code nobody has, or leaves the book as it is.               *)
(***************************************************************************)

CONSTANTS
  Requests,   \* requests to the endpoint
  RetryOf,    \* request -> the request it retries, or NoRequest
  NoRequest,
  Codes,      \* reservation codes
  NoCode,
  Addons,     \* add-on codes
  Sellable    \* add-ons that can be reserved at all

VARIABLES
  book,    \* code -> entry: whose reservation it is, its add-ons, its events
  told,    \* request -> status and code of the response
  wanted,  \* request -> add-ons it asks for
  clean    \* requests whose payload passes sanitization and PCI rules

vars == <<book, told, wanted, clean>>

EventTypes == {"PAYMENT_REQUESTED", "BOOKING_REQUESTED"}

Free == [by |-> NoRequest, addons |-> {}, events |-> {}]
Reservation(r) == [by |-> r, addons |-> wanted[r], events |-> EventTypes]

Response(status, c) == [status |-> status, code |-> c]
Waiting == Response("none", NoCode)

Init ==
  /\ book = [c \in Codes |-> Free]
  /\ told = [r \in Requests |-> Waiting]
  /\ wanted \in [Requests -> SUBSET Addons]
  /\ clean \subseteq Requests

\* The client is waiting for an answer: it repeats a request only if the answer
\* to it was an error of the server or none.
Waits(r) ==
  /\ told[r] = Waiting
  /\ \A q \in Requests : RetryOf[r] = q => told[q].status \in {"500", "lost"}

\* The reservation is entered.  A client that is cut off from the answer is
\* told of an error, or of nothing.
Enter(r, c) ==
  /\ Waits(r)
  /\ r \in clean
  /\ wanted[r] \subseteq Sellable
  /\ book[c] = Free
  /\ book' = [book EXCEPT ![c] = Reservation(r)]
  /\ \E response \in {Response("201", c), Response("500", NoCode), Response("lost", NoCode)} :
       told' = [told EXCEPT ![r] = response]
  /\ UNCHANGED <<wanted, clean>>

Refuse(r) ==
  /\ Waits(r)
  /\ \E status \in {"400", "500", "lost"} :
       told' = [told EXCEPT ![r] = Response(status, NoCode)]
  /\ UNCHANGED <<book, wanted, clean>>

Next == \E r \in Requests : Refuse(r) \/ \E c \in Codes : Enter(r, c)

Spec == Init /\ [][Next]_vars
=============================================================================
