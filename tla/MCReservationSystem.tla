------------------------ MODULE MCReservationSystem ------------------------
(* An instance of ReservationSystem for TLC. *)
EXTENDS ReservationSystem, TLC

CONSTANTS r1, r2

\* Codes are interchangeable; requests are not, one being the repetition of the other.
MCSymmetry == Permutations(Codes)
MCFourIds == 1..4
MCNoEvents == {}
MCBookings == Codes \X {"BOOKING_REQUESTED"}
\* r2 repeats r1.
MCOneRetry == [r \in Requests |-> IF r = r2 THEN r1 ELSE NoRequest]
=============================================================================
