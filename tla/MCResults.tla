----------------------------- MODULE MCResults -----------------------------
(* Instances of Results for TLC. *)
EXTENDS Results, TLC

MCAvg == 1 .. 2

(* Students none of whom moves are interchangeable, and so are requests.    *)
MCSymmetry == Permutations(Student) \cup Permutations(Request)
=============================================================================
