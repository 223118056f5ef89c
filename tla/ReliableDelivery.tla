-------------------------- MODULE ReliableDelivery --------------------------
(***************************************************************************)
(* What the transactional outbox promises, without workers, batches, ids   *)
(* or transactions: every published reservation has a payment event and a  *)
(* booking event, requests are made for published events only, an event    *)
(* may be delivered again at any time, and it is settled only once it has  *)
(* been delivered.                                                         *)
(***************************************************************************)
EXTENDS Naturals

CONSTANTS
  Codes,      \* reservation codes
  MaxCount,   \* deliveries are counted up to MaxCount
  Reopening   \* may a settled event be reopened?

VARIABLES
  published,  \* codes of the published reservations
  delivered,  \* event -> requests its external service accepted
  settled     \* events nobody has to deliver any more

Events == Codes \X {"PAYMENT_REQUESTED", "BOOKING_REQUESTED"}

vars == <<published, delivered, settled>>

Init ==
  /\ published = {}
  /\ delivered = [e \in Events |-> 0]
  /\ settled = {}

Publish(c) ==
  /\ c \notin published
  /\ published' = published \cup {c}
  /\ UNCHANGED <<delivered, settled>>

Deliver(e) ==
  /\ e[1] \in published
  /\ delivered' = [delivered EXCEPT ![e] = IF @ < MaxCount THEN @ + 1 ELSE @]
  /\ UNCHANGED <<published, settled>>

Settle(e) ==
  /\ delivered[e] > 0
  /\ settled' = settled \cup {e}
  /\ UNCHANGED <<published, delivered>>

Reopen(e) ==
  /\ Reopening
  /\ settled' = settled \ {e}
  /\ UNCHANGED <<published, delivered>>

Next == \/ \E c \in Codes : Publish(c)
        \/ \E e \in Events : Deliver(e) \/ Settle(e) \/ Reopen(e)

Spec == Init /\ [][Next]_vars
=============================================================================
