---------------------------- MODULE MCAttendance ----------------------------
(* Instance of Attendance for TLC. *)
EXTENDS Attendance, TLC

MCSymmetry ==
    Permutations(Student) \cup Permutations(Code) \cup Permutations(Request)
=============================================================================
