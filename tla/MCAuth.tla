------------------------------- MODULE MCAuth -------------------------------
(* Instance of Auth for TLC. *)
EXTENDS Auth, TLC

MCSymmetry == Permutations(Token) \cup Permutations(Reset) \cup Permutations(Request)
=============================================================================
