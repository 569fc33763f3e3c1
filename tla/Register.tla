------------------------------ MODULE Register ------------------------------
(***************************************************************************)
(* What a class attendance register promises: while it is open a student   *)
(* is marked at most once, closing marks everyone missing ABSENT in the    *)
(* same step, and from then on no line is added; a line changes only by a  *)
(* correction.                                                             *)
(***************************************************************************)
CONSTANTS Student, Null

Attended == {"PRESENT", "LATE"}
Line     == [status : Attended \cup {"ABSENT"}, method : {"QR_SCAN", "MANUAL"}]

VARIABLES
    session,  \* Null before the register exists, then "OPEN", then "CLOSED"
    record    \* the lines, Null where there is none

Init ==
    /\ session = Null
    /\ record = [s \in Student |-> Null]

Open ==
    /\ session = Null
    /\ session' = "OPEN"
    /\ UNCHANGED record

Mark(s) ==
    /\ session = "OPEN"
    /\ record[s] = Null
    /\ \E a \in Attended : record' = [record EXCEPT ![s] = [status |-> a, method |-> "QR_SCAN"]]
    /\ UNCHANGED session

Missing == {s \in Student : record[s] = Null}

Close ==
    /\ session = "OPEN"
    /\ session' = "CLOSED"
    /\ \E absent \in SUBSET Missing :
          record' = [s \in Student |-> IF s \in absent
                                       THEN [status |-> "ABSENT", method |-> "MANUAL"]
                                       ELSE record[s]]

Correct(s) ==
    /\ record[s] # Null
    /\ \E a \in Attended \cup {"ABSENT"} : record' = [record EXCEPT ![s].status = a]
    /\ UNCHANGED session

Next ==
    \/ Open
    \/ Close
    \/ \E s \in Student : Mark(s) \/ Correct(s)

Spec == Init /\ [][Next]_<<session, record>>
=============================================================================
