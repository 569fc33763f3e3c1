------------------------------ MODULE MCScores ------------------------------
(* Instances of Scores for TLC. *)
EXTENDS Scores

MCRaw      == 0 .. 2
MCMaxScore == [c \in Component |-> 1]
=============================================================================
