---------------------------- MODULE MCOnboarding ----------------------------
(* The instance of Onboarding alone for TLC.                                *)
EXTENDS Onboarding

CONSTANTS c1, c2

MCGrade == c1 :> "g1" @@ c2 :> "g1"
=============================================================================
