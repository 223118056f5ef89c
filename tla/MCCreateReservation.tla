------------------------ MODULE MCCreateReservation ------------------------
(* Instances of CreateReservation for TLC. *)
EXTENDS CreateReservation, TLC

CONSTANTS r1, r2, r3

MCSymmetry == Permutations(Codes)
MCNoRetries == [r \in Requests |-> NoRequest]
\* r2 repeats r1.
MCOneRetry == [r \in Requests |-> IF r = r2 THEN r1 ELSE NoRequest]
=============================================================================
