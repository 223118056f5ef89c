------------------------------ MODULE MCOutbox ------------------------------
(* Instances of Outbox for TLC. *)
EXTENDS Outbox, TLC

\* Codes and workers are interchangeable where none is singled out.
MCSymmetry == Permutations(Codes) \cup Permutations(Workers)

MCFourIds == 1..4
MCTwoIds == 1..2
MCNoEvents == {}
MCAllEvents == Events
MCPayments == {e \in Events : e[2] = "PAYMENT_REQUESTED"}
=============================================================================
