------------------------- MODULE MCReservationStatus -------------------------
(* Instances of ReservationStatus for TLC. *)
EXTENDS ReservationStatus, TLC

MCSymmetry == Permutations(Handlers)
MCAnyResponse == Response
MCSuccesses == {r \in Response : r.success}
=============================================================================
