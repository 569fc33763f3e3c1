------------------------------- MODULE MCFees -------------------------------
(* Instances of Fees for TLC. *)
EXTENDS Fees, TLC

MCAmount   == 1 .. 2
MCDue      == 2 .. 3
MCSymmetry == Permutations(Payment) \cup Permutations(Request)
=============================================================================
