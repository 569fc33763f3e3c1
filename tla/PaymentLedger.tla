---------------------------- MODULE PaymentLedger ----------------------------
(***************************************************************************)
(* What the bursar is promised about payments: a claim is logged under a   *)
(* bank reference no live claim uses, then decided once, and confirming it *)
(* and issuing its receipt are one step.                                   *)
(***************************************************************************)
EXTENDS Naturals

CONSTANTS Payment, Amount, Reference, Null

Claim == [amount : Amount, reference : Reference \cup {Null},
          status : {"PENDING", "CONFIRMED", "REJECTED"}]

VARIABLES
    payment,  \* Payment rows, Null where there is none
    receipts  \* receipts issued for each payment

Init ==
    /\ payment = [p \in Payment |-> Null]
    /\ receipts = [p \in Payment |-> 0]

(* A transfer funds one claim, unless the claim was rejected. *)
ReferenceFree(ref) ==
    \A p \in Payment : payment[p] # Null /\ payment[p].status # "REJECTED"
                           => payment[p].reference # ref

Log(p) ==
    /\ payment[p] = Null
    /\ \E a \in Amount, ref \in Reference \cup {Null} :
          /\ ref = Null \/ ReferenceFree(ref)
          /\ payment' = [payment EXCEPT ![p] =
                             [amount |-> a, reference |-> ref, status |-> "PENDING"]]
    /\ UNCHANGED receipts

Undecided(p) == payment[p] # Null /\ payment[p].status = "PENDING"

Confirm(p) ==
    /\ Undecided(p)
    /\ payment' = [payment EXCEPT ![p].status = "CONFIRMED"]
    /\ receipts' = [receipts EXCEPT ![p] = @ + 1]

Reject(p) ==
    /\ Undecided(p)
    /\ payment' = [payment EXCEPT ![p].status = "REJECTED"]
    /\ UNCHANGED receipts

Next == \E p \in Payment : Log(p) \/ Confirm(p) \/ Reject(p)

Spec == Init /\ [][Next]_<<payment, receipts>>
=============================================================================
