------------------------------ MODULE Sentinel ------------------------------
(* The value of a column or a field that holds none, one for every module   *)
(* that is composed with others.                                            *)
CONSTANT Null
=============================================================================
