-------------------------------- MODULE Fees --------------------------------
(***************************************************************************)
(* One fee obligation and the payments claimed against it                  *)
(* (src/modules/fees/fees.service.ts): claims are logged, confirmed or     *)
(* rejected, and each decision recomputes the obligation's status inside   *)
(* its own transaction.  One action is one statement at READ COMMITTED, as *)
(* in Scores.  A request that has claimed a payment holds its row lock     *)
(* until it commits or rolls back.                                         *)
(***************************************************************************)
EXTENDS Naturals, FiniteSets, FiniteSetsExt, Functions

CONSTANTS
    Payment,    \* claims that may be logged (a bound)
    Amount,     \* kobo of a claim
    Due,        \* kobo the obligation may be set to
    Reference,  \* bank references
    Request,    \* concurrent decisions
    Null

Claim    == [amount : Amount, reference : Reference \cup {Null},
             status : {"PENDING", "CONFIRMED", "REJECTED"}]
Standing == {"PENDING", "PARTIALLY_PAID", "PAID", "WAIVED"}

ASSUME FeesAssumption ==
    /\ Amount \subseteq Nat \ {0}
    /\ Due \subseteq Nat
    /\ Null \notin Claim \cup Reference \cup Payment \cup Standing \cup Due
                     \cup {"CONFIRMED", "REJECTED"}

VARIABLES
    due,       \* FeeObligation.amountDueKobo
    status,    \* FeeObligation.status
    payment,   \* Payment rows, committed
    receipts,  \* Receipt rows of each payment, committed
    pc,        \* what each request does next
    claimed,   \* the payment a request has decided in its transaction
    decision,  \* .. and the status it gave it
    issued,    \* .. and whether it wrote the receipt
    owed,      \* amountDueKobo as its recompute read it
    verdict,   \* the status its recompute is to write, Null if WAIVED
    edited     \* history: an administrator edited the obligation by hand

rows  == <<due, status, payment, receipts>>
local == <<claimed, decision, issued, owed, verdict>>
vars  == <<rows, pc, local, edited>>

TypeOK ==
    /\ due \in Due
    /\ status \in Standing
    /\ payment \in [Payment -> Claim \cup {Null}]
    /\ receipts \in [Payment -> Nat]
    /\ pc \in [Request -> {"idle", "receipt", "obligation", "sum", "commit"}]
    /\ claimed \in [Request -> Payment \cup {Null}]
    /\ decision \in [Request -> {"CONFIRMED", "REJECTED", Null}]
    /\ issued \in [Request -> BOOLEAN]
    /\ owed \in [Request -> Due \cup {Null}]
    /\ verdict \in [Request -> Standing \cup {Null}]
    /\ edited \in BOOLEAN

Init ==
    /\ due \in Due
    /\ status = "PENDING"
    /\ payment = [p \in Payment |-> Null]
    /\ receipts = [p \in Payment |-> 0]
    /\ pc = [r \in Request |-> "idle"]
    /\ claimed = [r \in Request |-> Null]
    /\ decision = [r \in Request |-> Null]
    /\ issued = [r \in Request |-> FALSE]
    /\ owed = [r \in Request |-> Null]
    /\ verdict = [r \in Request |-> Null]
    /\ edited = FALSE

Finish(r) ==
    /\ pc' = [pc EXCEPT ![r] = "idle"]
    /\ claimed' = [claimed EXCEPT ![r] = Null]
    /\ decision' = [decision EXCEPT ![r] = Null]
    /\ issued' = [issued EXCEPT ![r] = FALSE]
    /\ owed' = [owed EXCEPT ![r] = Null]
    /\ verdict' = [verdict EXCEPT ![r] = Null]

-----------------------------------------------------------------------------
(* recordPayment *)

Live(p)   == payment[p] # Null /\ payment[p].status # "REJECTED"
Locked(p) == \E r \in Request : claimed[r] = p

(* Payment_bankReference_key: unique among the rows not REJECTED.  A row    *)
(* whose rejection is not committed still counts: the insert waits for it. *)
ReferenceFree(ref) == \A p \in Payment : Live(p) => payment[p].reference # ref

(* One INSERT.  The near-duplicate check before it only turns some claims   *)
(* of parents away.                                                        *)
Record(p) ==
    /\ payment[p] = Null
    /\ \E a \in Amount, ref \in Reference \cup {Null} :
          /\ ref = Null \/ ReferenceFree(ref)        \* else 409
          /\ payment' = [payment EXCEPT ![p] =
                             [amount |-> a, reference |-> ref, status |-> "PENDING"]]
    /\ UNCHANGED <<due, status, receipts, pc, local, edited>>

-----------------------------------------------------------------------------
(* confirmPayment and rejectPayment *)

(* updateMany .. WHERE status = 'PENDING', evaluated after any wait. *)
Claimable(p) == payment[p] # Null /\ payment[p].status = "PENDING"

ClaimCommittedFirst(r, p) ==
    /\ pc[r] = "idle"
    /\ ~Locked(p)
    /\ Claimable(p)
    /\ pc' = [pc EXCEPT ![r] = "receipt"]
    /\ claimed' = [claimed EXCEPT ![r] = p]
    /\ decision' = [decision EXCEPT ![r] = "CONFIRMED"]
    /\ payment' = [payment EXCEPT ![p].status = "CONFIRMED"]
    /\ UNCHANGED <<due, status, receipts, issued, owed, verdict, edited>>

ConfirmClaim(r, p) ==
    /\ pc[r] = "idle"
    /\ ~Locked(p)
    /\ Claimable(p)                                  \* else 409
    /\ pc' = [pc EXCEPT ![r] = "receipt"]
    /\ claimed' = [claimed EXCEPT ![r] = p]
    /\ decision' = [decision EXCEPT ![r] = "CONFIRMED"]
    /\ UNCHANGED <<rows, issued, owed, verdict, edited>>

RejectClaim(r, p) ==
    /\ pc[r] = "idle"
    /\ ~Locked(p)
    /\ Claimable(p)
    /\ pc' = [pc EXCEPT ![r] = "obligation"]
    /\ claimed' = [claimed EXCEPT ![r] = p]
    /\ decision' = [decision EXCEPT ![r] = "REJECTED"]
    /\ UNCHANGED <<rows, issued, owed, verdict, edited>>

IssueReceipt(r) ==
    /\ pc[r] = "receipt"
    /\ receipts[claimed[r]] = 0                      \* Receipt.paymentId is unique
    /\ pc' = [pc EXCEPT ![r] = "obligation"]
    /\ issued' = [issued EXCEPT ![r] = TRUE]
    /\ UNCHANGED <<rows, claimed, decision, owed, verdict, edited>>

(* recomputeObligationStatus: two reads and an update of the transaction,   *)
(* each on its own snapshot.                                               *)
ReadObligation(r) ==
    /\ pc[r] = "obligation"
    /\ \/ /\ status = "WAIVED"
          /\ pc' = [pc EXCEPT ![r] = "commit"]
          /\ UNCHANGED owed
       \/ /\ status # "WAIVED"
          /\ pc' = [pc EXCEPT ![r] = "sum"]
          /\ owed' = [owed EXCEPT ![r] = due]
    /\ UNCHANGED <<rows, claimed, decision, issued, verdict, edited>>

(* Confirmed payments, as committed and as this transaction made them. *)
Confirmed == {p \in Payment : payment[p] # Null /\ payment[p].status = "CONFIRMED"}
Total(paid) == SumFunction([p \in paid |-> payment[p].amount])

PaymentStatusOf(total, amountDue) ==
    IF total <= 0 THEN "PENDING"
    ELSE IF total >= amountDue THEN "CONFIRMED" ELSE "PARTIALLY_PAID"

StatusOf(total, amountDue) ==
    IF total <= 0 THEN "PENDING"
    ELSE IF total >= amountDue THEN "PAID" ELSE "PARTIALLY_PAID"

CountedWithPending(r) == {p \in Payment : Live(p)}

Counted(r) == Confirmed \cup {p \in Payment : p = claimed[r] /\ decision[r] = "CONFIRMED"}

SumPayments(r) ==
    /\ pc[r] = "sum"
    /\ pc' = [pc EXCEPT ![r] = "commit"]
    /\ verdict' = [verdict EXCEPT ![r] = StatusOf(Total(Counted(r)), owed[r])]
    /\ UNCHANGED <<rows, claimed, decision, issued, owed, edited>>

(* The update of the obligation, unconditional, and the commit: the row is  *)
(* locked in between, so nothing tells them apart.                         *)
CommitDecision(r) ==
    /\ pc[r] = "commit"
    /\ status' = IF verdict[r] = Null THEN status ELSE verdict[r]
    /\ payment' = [payment EXCEPT ![claimed[r]].status = decision[r]]
    /\ receipts' = [receipts EXCEPT ![claimed[r]] = IF issued[r] THEN @ + 1 ELSE @]
    /\ Finish(r)
    /\ UNCHANGED <<due, edited>>

-----------------------------------------------------------------------------

(* updateObligation: whatever the administrator sends, without a recompute. *)
Edit ==
    /\ due' \in Due
    /\ status' \in Standing
    /\ <<due', status'>> # <<due, status>>
    /\ edited' = TRUE
    /\ UNCHANGED <<payment, receipts, pc, local>>

(* Connection loss, crash or a failed statement: the transaction is undone. *)
Abort(r) ==
    /\ pc[r] # "idle"
    /\ Finish(r)
    /\ UNCHANGED <<rows, edited>>

Step(r) ==
    \/ IssueReceipt(r) \/ ReadObligation(r) \/ SumPayments(r) \/ CommitDecision(r)

Next ==
    \/ \E p \in Payment : Record(p)
    \/ \E r \in Request, p \in Payment : ConfirmClaim(r, p) \/ RejectClaim(r, p)
    \/ \E r \in Request : Step(r) \/ Abort(r)
    \/ Edit

Spec == Init /\ [][Next]_vars

-----------------------------------------------------------------------------
(* Properties *)

(* A decision is final, whoever decides concurrently: a payment confirmed   *)
(* or rejected keeps its row (fees.service.ts:329-341, 393-405).           *)
DecisionIsFinal ==
    [][\A p \in Payment : payment[p] # Null /\ payment[p].status # "PENDING"
          => payment'[p] = payment[p]]_vars

(* A confirmed payment has exactly one receipt and no other has any, over   *)
(* races and rollbacks (fees.service.ts:343-345).                          *)
OneReceiptPerConfirmation ==
    \A p \in Payment : receipts[p] = IF p \in Confirmed THEN 1 ELSE 0

(* A bank transfer funds one claim that is not rejected                     *)
(* (fees.service.ts:301-314).                                              *)
TransferFundsOneClaim ==
    \A p, q \in Payment :
        p # q /\ Live(p) /\ Live(q) /\ payment[p].reference # Null
            => payment[p].reference # payment[q].reference

(* The status never says more than the confirmed payments do: until someone *)
(* edits the obligation, PAID means covered and PARTIALLY_PAID means       *)
(* something was paid, whatever decisions overlap (fees.service.ts:218-232).*)
StatusNotOverstated ==
    ~edited =>
        /\ status = "PAID" => Total(Confirmed) >= due
        /\ status = "PARTIALLY_PAID" => Total(Confirmed) > 0

(* The handlers implement the ledger the bursar is promised. *)
Ledger == INSTANCE PaymentLedger WITH payment <- payment, receipts <- receipts
ImplementsLedger == Ledger!Spec

(* What fees.test.ts:201 says: PARTIALLY_PAID after an instalment, PAID     *)
(* once fully covered; here, once no decision is in progress.              *)
StatusTracksPayments ==
    (~edited /\ \A r \in Request : pc[r] = "idle")
        => status = StatusOf(Total(Confirmed), due)
=============================================================================
