----------------------------- MODULE Fees_proofs -----------------------------
(***************************************************************************)
(* Theorems about Fees, for any payments, references, amounts and number   *)
(* of concurrent decisions.  The inductive invariant IInv says what a      *)
(* decision that is not committed may rely on: the payment it claimed is   *)
(* still undecided, and nobody else is deciding it.                        *)
(***************************************************************************)
EXTENDS Fees, SumTheorems, TLAPS

Deciding(r) ==
    /\ claimed[r] # Null
    /\ Claimable(claimed[r])
    /\ decision[r] # Null
    /\ pc[r] = "receipt" => decision[r] = "CONFIRMED" /\ ~issued[r]
    /\ pc[r] # "receipt" => (issued[r] <=> decision[r] = "CONFIRMED")

DecisionsHold ==
    /\ \A r \in Request : pc[r] # "idle" => Deciding(r)
    /\ \A r \in Request : pc[r] = "idle" => claimed[r] = Null /\ ~issued[r]
    /\ \A q, r \in Request : q # r /\ claimed[r] # Null => claimed[q] # claimed[r]

IInv ==
    /\ TypeOK
    /\ DecisionsHold
    /\ OneReceiptPerConfirmation
    /\ TransferFundsOneClaim
-----------------------------------------------------------------------------
LEMMA InitIInv == Init => IInv
  <1> SUFFICES ASSUME Init PROVE IInv
    OBVIOUS
  <1>1. TypeOK
    BY DEF Init, TypeOK, Standing
  <1>2. DecisionsHold
    BY DEF Init, DecisionsHold
  <1>3. OneReceiptPerConfirmation /\ TransferFundsOneClaim
    BY DEF Init, OneReceiptPerConfirmation, Confirmed, TransferFundsOneClaim, Live
  <1> QED BY <1>1, <1>2, <1>3 DEF IInv

(* A request that breaks off leaves the payment it claimed undecided. *)
LEMMA AbortIInv ==
  ASSUME IInv, NEW r \in Request, Abort(r)
  PROVE  IInv'
  <1> USE DEF Abort, Finish, rows
  <1>1. TypeOK'
    BY DEF IInv, TypeOK
  <1>2. DecisionsHold'
    BY DEF IInv, TypeOK, DecisionsHold, Deciding, Claimable
  <1>3. OneReceiptPerConfirmation' /\ TransferFundsOneClaim'
    BY DEF IInv, OneReceiptPerConfirmation, Confirmed, TransferFundsOneClaim, Live
  <1> QED BY <1>1, <1>2, <1>3 DEF IInv

(* A new claim is PENDING and shares its reference with no live one.        *)
LEMMA RecordIInv ==
  ASSUME IInv, NEW p \in Payment, Record(p)
  PROVE  IInv'
  <1>1. PICK a \in Amount, ref \in Reference \cup {Null} :
           /\ ref = Null \/ ReferenceFree(ref)
           /\ payment' = [payment EXCEPT ![p] =
                              [amount |-> a, reference |-> ref, status |-> "PENDING"]]
    BY DEF Record
  <1> DEFINE new == [amount |-> a, reference |-> ref, status |-> "PENDING"]
  <1>2. new \in Claim
    BY DEF Claim
  <1>3. new # Null /\ new.reference = ref /\ new.status = "PENDING"
    BY <1>2, FeesAssumption
  <1>4. payment' = [payment EXCEPT ![p] = new]
    BY <1>1
  <1> HIDE DEF new
  <1>5. /\ payment[p] = Null
        /\ UNCHANGED <<due, status, receipts, pc, claimed, decision, issued, owed, verdict, edited>>
    BY DEF Record, local
  <1>6. TypeOK'
    BY <1>2, <1>4, <1>5 DEF IInv, TypeOK
  <1>7. DecisionsHold'
    BY <1>3, <1>4, <1>5 DEF IInv, TypeOK, DecisionsHold, Deciding, Claimable
  <1>8. Confirmed' = Confirmed /\ p \notin Confirmed
    BY <1>3, <1>4, <1>5 DEF IInv, TypeOK, Confirmed
  <1>9. OneReceiptPerConfirmation'
    BY <1>5, <1>8 DEF IInv, OneReceiptPerConfirmation
  <1>10. TransferFundsOneClaim'
    <2>1. \A q \in Payment \ {p} : payment'[q] = payment[q]
      BY <1>4 DEF IInv, TypeOK
    <2>2. payment'[p] = new
      BY <1>4 DEF IInv, TypeOK
    <2>3. ref # Null => \A q \in Payment : Live(q) => payment[q].reference # ref
      BY <1>1 DEF ReferenceFree
    <2> QED BY <1>3, <2>1, <2>2, <2>3 DEF IInv, TransferFundsOneClaim, Live
  <1> QED BY <1>6, <1>7, <1>9, <1>10 DEF IInv

(* The update by WHERE status = 'PENDING' claims a payment nobody claimed. *)
LEMMA ClaimIInv ==
  ASSUME IInv, NEW r \in Request, NEW p \in Payment, ConfirmClaim(r, p) \/ RejectClaim(r, p)
  PROVE  IInv'
  <1>1. PICK label \in {"receipt", "obligation"}, verb \in {"CONFIRMED", "REJECTED"} :
           /\ label = "receipt" <=> verb = "CONFIRMED"
           /\ pc[r] = "idle" /\ ~Locked(p) /\ Claimable(p)
           /\ pc' = [pc EXCEPT ![r] = label]
           /\ claimed' = [claimed EXCEPT ![r] = p]
           /\ decision' = [decision EXCEPT ![r] = verb]
           /\ UNCHANGED <<due, status, payment, receipts, issued, owed, verdict, edited>>
    BY DEF ConfirmClaim, RejectClaim, rows
  <1>2. TypeOK'
    BY <1>1 DEF IInv, TypeOK
  <1>3. p # Null
    BY FeesAssumption
  <1>4. ~issued[r]
    BY <1>1 DEF IInv, DecisionsHold
  <1>5. DecisionsHold'
    <2>1. \A q \in Request : pc'[q] # "idle" => Deciding(q)'
      <3>1. Deciding(r)'
        <4>1. /\ pc'[r] = label /\ claimed'[r] = p /\ decision'[r] = verb
              /\ issued'[r] = issued[r] /\ payment' = payment
          BY <1>1 DEF IInv, TypeOK
        <4>2. Claimable(p)'
          BY <1>1, <4>1 DEF Claimable
        <4>3. verb # Null
          BY FeesAssumption
        <4>4. /\ pc'[r] = "receipt" => decision'[r] = "CONFIRMED" /\ ~issued'[r]
              /\ pc'[r] # "receipt" => (issued'[r] <=> decision'[r] = "CONFIRMED")
          BY <1>1, <1>4, <4>1
        <4> QED BY <1>1, <1>3, <4>1, <4>2, <4>3, <4>4 DEF Deciding, Claimable
      <3>2. ASSUME NEW q \in Request \ {r}, pc'[q] # "idle" PROVE Deciding(q)'
        BY <1>1, <3>2 DEF IInv, TypeOK, DecisionsHold, Deciding, Claimable
      <3> QED BY <3>1, <3>2
    <2>2. \A q \in Request : pc'[q] = "idle" => claimed'[q] = Null /\ ~issued'[q]
      BY <1>1 DEF IInv, TypeOK, DecisionsHold
    <2>3. \A q \in Request : claimed[q] # p
      BY <1>1 DEF Locked
    <2>4. \A q, s \in Request : q # s /\ claimed'[s] # Null => claimed'[q] # claimed'[s]
      BY <1>1, <2>3 DEF IInv, TypeOK, DecisionsHold
    <2> QED BY <2>1, <2>2, <2>4 DEF DecisionsHold
  <1>6. OneReceiptPerConfirmation' /\ TransferFundsOneClaim'
    BY <1>1 DEF IInv, OneReceiptPerConfirmation, Confirmed, TransferFundsOneClaim, Live
  <1> QED BY <1>2, <1>5, <1>6 DEF IInv

LEMMA IssueReceiptIInv ==
  ASSUME IInv, NEW r \in Request, IssueReceipt(r)
  PROVE  IInv'
  <1> USE DEF IssueReceipt, rows
  <1>1. TypeOK'
    BY DEF IInv, TypeOK
  <1>2. DecisionsHold'
    BY DEF IInv, TypeOK, DecisionsHold, Deciding, Claimable
  <1>3. OneReceiptPerConfirmation' /\ TransferFundsOneClaim'
    BY DEF IInv, OneReceiptPerConfirmation, Confirmed, TransferFundsOneClaim, Live
  <1> QED BY <1>1, <1>2, <1>3 DEF IInv

LEMMA RecomputeIInv ==
  ASSUME IInv, NEW r \in Request, ReadObligation(r) \/ SumPayments(r)
  PROVE  IInv'
  <1>1. PICK label \in {"sum", "commit"} :
           /\ pc[r] \in {"obligation", "sum"}
           /\ pc' = [pc EXCEPT ![r] = label]
    BY DEF ReadObligation, SumPayments
  <1>2. UNCHANGED <<due, status, payment, receipts, claimed, decision, issued, edited>>
    BY DEF ReadObligation, SumPayments, rows
  <1>3. owed' \in [Request -> Due \cup {Null}]
    BY DEF ReadObligation, SumPayments, IInv, TypeOK
  <1>4. verdict' \in [Request -> Standing \cup {Null}]
    BY DEF ReadObligation, SumPayments, StatusOf, Standing, IInv, TypeOK
  <1>5. TypeOK'
    BY <1>1, <1>2, <1>3, <1>4 DEF IInv, TypeOK
  <1>6. DecisionsHold'
    BY <1>1, <1>2 DEF IInv, TypeOK, DecisionsHold, Deciding, Claimable
  <1>7. OneReceiptPerConfirmation' /\ TransferFundsOneClaim'
    BY <1>2 DEF IInv, OneReceiptPerConfirmation, Confirmed, TransferFundsOneClaim, Live
  <1> QED BY <1>5, <1>6, <1>7 DEF IInv

(* What a commit does to the payments: the one it claimed, still PENDING, is *)
(* decided, and has a receipt exactly if it was confirmed.                 *)
LEMMA CommitPayments ==
  ASSUME IInv, NEW r \in Request, CommitDecision(r)
  PROVE  \E p \in Payment, verb \in {"CONFIRMED", "REJECTED"} :
            /\ p = claimed[r] /\ Claimable(p) /\ receipts[p] = 0
            /\ payment' = [payment EXCEPT ![p].status = verb]
            /\ payment' \in [Payment -> Claim \cup {Null}]
            /\ \A q \in Payment \ {p} : payment'[q] = payment[q]
            /\ payment'[p] # Null /\ payment'[p].status = verb
            /\ payment'[p].reference = payment[p].reference
            /\ receipts' = [receipts EXCEPT ![p] = IF verb = "CONFIRMED" THEN @ + 1 ELSE @]
  <1>1. PICK p \in Payment, verb \in {"CONFIRMED", "REJECTED"} :
           /\ p = claimed[r] /\ verb = decision[r] /\ Claimable(p)
           /\ issued[r] <=> verb = "CONFIRMED"
    BY DEF CommitDecision, IInv, TypeOK, DecisionsHold, Deciding
  <1> DEFINE new == [payment[p] EXCEPT !.status = verb]
  <1>2. payment[p] \in Claim
    BY <1>1 DEF IInv, TypeOK, Claimable
  <1>3. /\ new \in Claim /\ new.status = verb /\ new.reference = payment[p].reference
    BY <1>2 DEF Claim
  <1>4. new # Null
    BY <1>3, FeesAssumption
  <1>5. payment' = [payment EXCEPT ![p].status = verb] /\ payment' = [payment EXCEPT ![p] = new]
    BY <1>1 DEF CommitDecision
  <1> HIDE DEF new
  <1>6. /\ payment' \in [Payment -> Claim \cup {Null}]
        /\ \A q \in Payment \ {p} : payment'[q] = payment[q]
        /\ payment'[p] = new
    BY <1>3, <1>5 DEF IInv, TypeOK
  <1>7. receipts' = [receipts EXCEPT ![p] = IF verb = "CONFIRMED" THEN @ + 1 ELSE @]
    BY <1>1 DEF CommitDecision
  <1>8. receipts[p] = 0
    BY <1>1 DEF IInv, OneReceiptPerConfirmation, Confirmed, Claimable
  <1> QED BY <1>1, <1>3, <1>4, <1>5, <1>6, <1>7, <1>8

LEMMA CommitDecisionIInv ==
  ASSUME IInv, NEW r \in Request, CommitDecision(r)
  PROVE  IInv'
  <1>1. PICK p \in Payment, verb \in {"CONFIRMED", "REJECTED"} :
            /\ p = claimed[r] /\ Claimable(p) /\ receipts[p] = 0
            /\ payment' \in [Payment -> Claim \cup {Null}]
            /\ \A q \in Payment \ {p} : payment'[q] = payment[q]
            /\ payment'[p] # Null /\ payment'[p].status = verb
            /\ payment'[p].reference = payment[p].reference
            /\ receipts' = [receipts EXCEPT ![p] = IF verb = "CONFIRMED" THEN @ + 1 ELSE @]
    BY CommitPayments
  <1>2. /\ pc' = [pc EXCEPT ![r] = "idle"]
        /\ claimed' = [claimed EXCEPT ![r] = Null]
        /\ decision' = [decision EXCEPT ![r] = Null]
        /\ issued' = [issued EXCEPT ![r] = FALSE]
        /\ owed' = [owed EXCEPT ![r] = Null]
        /\ verdict' = [verdict EXCEPT ![r] = Null]
        /\ UNCHANGED <<due, edited>>
    BY DEF CommitDecision, Finish
  <1>3. status' \in Standing
    BY DEF CommitDecision, IInv, TypeOK
  <1>4. receipts' \in [Payment -> Nat]
    BY <1>1 DEF IInv, TypeOK
  <1>5. TypeOK'
    BY <1>1, <1>2, <1>3, <1>4 DEF IInv, TypeOK
  <1>6. DecisionsHold'
    BY <1>1, <1>2 DEF IInv, TypeOK, DecisionsHold, Deciding, Claimable
  <1>7. OneReceiptPerConfirmation'
    BY <1>1 DEF IInv, TypeOK, OneReceiptPerConfirmation, Confirmed, Claimable
  <1>8. TransferFundsOneClaim'
    BY <1>1 DEF IInv, TypeOK, TransferFundsOneClaim, Live, Claimable
  <1> QED BY <1>5, <1>6, <1>7, <1>8 DEF IInv

LEMMA EditIInv ==
  ASSUME IInv, Edit
  PROVE  IInv'
  <1> USE DEF Edit, local
  <1>1. TypeOK'
    BY DEF IInv, TypeOK
  <1>2. DecisionsHold' /\ OneReceiptPerConfirmation' /\ TransferFundsOneClaim'
    BY DEF IInv, DecisionsHold, Deciding, Claimable, OneReceiptPerConfirmation, Confirmed,
       TransferFundsOneClaim, Live
  <1> QED BY <1>1, <1>2 DEF IInv

LEMMA NextIInv == IInv /\ [Next]_vars => IInv'
  <1> SUFFICES ASSUME IInv, [Next]_vars PROVE IInv'
    OBVIOUS
  <1>1. CASE UNCHANGED vars
    <2> USE <1>1 DEF vars, rows, local
    <2>1. TypeOK' /\ DecisionsHold'
      BY DEF IInv, TypeOK, DecisionsHold, Deciding, Claimable
    <2>2. OneReceiptPerConfirmation' /\ TransferFundsOneClaim'
      BY DEF IInv, OneReceiptPerConfirmation, Confirmed, TransferFundsOneClaim, Live
    <2> QED BY <2>1, <2>2 DEF IInv
  <1>2. ASSUME NEW r \in Request, Step(r) PROVE IInv'
    BY <1>2, IssueReceiptIInv, RecomputeIInv, CommitDecisionIInv DEF Step
  <1> QED BY <1>1, <1>2, RecordIInv, ClaimIInv, AbortIInv, EditIInv DEF Next

LEMMA Invariance == Spec => []IInv
  BY InitIInv, NextIInv, PTL DEF Spec

-----------------------------------------------------------------------------
(* Theorems *)

(* Every state is well typed. *)
THEOREM TypeCorrect == Spec => []TypeOK
  <1>1. IInv => TypeOK
    BY DEF IInv
  <1> QED BY <1>1, Invariance, PTL

(* Whatever decisions overlap or break off, a confirmed payment has exactly  *)
(* one receipt and no other has any (fees.service.ts:343-345).             *)
THEOREM ConfirmedHaveOneReceipt == Spec => []OneReceiptPerConfirmation
  <1>1. IInv => OneReceiptPerConfirmation
    BY DEF IInv
  <1> QED BY <1>1, Invariance, PTL

(* No bank reference is behind two claims that are not rejected              *)
(* (fees.service.ts:301-314).                                              *)
THEOREM ReferencesFundOneClaim == Spec => []TransferFundsOneClaim
  <1>1. IInv => TransferFundsOneClaim
    BY DEF IInv
  <1> QED BY <1>1, Invariance, PTL

LEMMA FinalStep ==
  ASSUME IInv, Next, NEW p \in Payment, payment[p] # Null, payment[p].status # "PENDING"
  PROVE  payment'[p] = payment[p]
  <1>1. ASSUME NEW q \in Payment, Record(q) PROVE payment'[p] = payment[p]
    BY <1>1 DEF Record, IInv, TypeOK
  <1>2. ASSUME NEW r \in Request, CommitDecision(r) PROVE payment'[p] = payment[p]
    BY <1>2, CommitPayments DEF Claimable
  <1>3. ASSUME NEW r \in Request, Step(r) \/ Abort(r), ~CommitDecision(r) PROVE payment'[p] = payment[p]
    BY <1>3 DEF Step, Abort, IssueReceipt, ReadObligation, SumPayments, rows
  <1>4. ASSUME NEW r \in Request, NEW q \in Payment, ConfirmClaim(r, q) \/ RejectClaim(r, q)
        PROVE  payment'[p] = payment[p]
    BY <1>4 DEF ConfirmClaim, RejectClaim, rows
  <1>5. CASE Edit
    BY <1>5 DEF Edit
  <1> QED BY <1>1, <1>2, <1>3, <1>4, <1>5 DEF Next

(* A decision is final: no step changes a payment confirmed or rejected      *)
(* (fees.service.ts:329-341, 393-405).                                     *)
THEOREM DecisionsAreFinal == Spec => DecisionIsFinal
  <1>1. IInv /\ [Next]_vars =>
          [\A p \in Payment : payment[p] # Null /\ payment[p].status # "PENDING"
              => payment'[p] = payment[p]]_vars
    BY FinalStep
  <1> QED BY <1>1, Invariance, PTL DEF Spec, DecisionIsFinal

(* A step of the handlers is a step of the ledger or leaves it alone; the    *)
(* commit of a decision is where the ledger confirms or rejects.           *)
LEMMA LedgerStep ==
  ASSUME IInv, Next
  PROVE  Ledger!Next \/ UNCHANGED <<payment, receipts>>
  <1>1. ASSUME NEW p \in Payment, Record(p) PROVE Ledger!Next
    <2>1. Ledger!Log(p)
      BY <1>1 DEF Record, ReferenceFree, Live, Ledger!Log, Ledger!ReferenceFree
    <2> QED BY <2>1 DEF Ledger!Next
  <1>2. ASSUME NEW r \in Request, CommitDecision(r) PROVE Ledger!Next
    <2>1. PICK p \in Payment, verb \in {"CONFIRMED", "REJECTED"} :
             /\ Claimable(p)
             /\ payment' = [payment EXCEPT ![p].status = verb]
             /\ receipts' = [receipts EXCEPT ![p] = IF verb = "CONFIRMED" THEN @ + 1 ELSE @]
      BY <1>2, CommitPayments
    <2>2. CASE verb = "CONFIRMED"
      <3>1. Ledger!Confirm(p)
        BY <2>1, <2>2 DEF Claimable, Ledger!Confirm, Ledger!Undecided
      <3> QED BY <3>1 DEF Ledger!Next
    <2>3. CASE verb = "REJECTED"
      <3>1. receipts' = receipts
        BY <2>1, <2>3 DEF IInv, TypeOK
      <3>2. Ledger!Reject(p)
        BY <2>1, <2>3, <3>1 DEF Claimable, Ledger!Reject, Ledger!Undecided
      <3> QED BY <3>2 DEF Ledger!Next
    <2> QED BY <2>2, <2>3
  <1>3. ASSUME NEW r \in Request, Step(r) \/ Abort(r), ~CommitDecision(r)
        PROVE  UNCHANGED <<payment, receipts>>
    BY <1>3 DEF Step, Abort, IssueReceipt, ReadObligation, SumPayments, rows
  <1>4. ASSUME NEW r \in Request, NEW q \in Payment, ConfirmClaim(r, q) \/ RejectClaim(r, q)
        PROVE  UNCHANGED <<payment, receipts>>
    BY <1>4 DEF ConfirmClaim, RejectClaim, rows
  <1>5. CASE Edit
    BY <1>5 DEF Edit
  <1> QED BY <1>1, <1>2, <1>3, <1>4, <1>5 DEF Next

(* The handlers implement the ledger, whatever races: a payment is confirmed *)
(* together with its receipt, or rejected, once.                           *)
THEOREM FeesIsALedger == Spec => ImplementsLedger
  <1>1. Init => Ledger!Init
    BY DEF Init, Ledger!Init
  <1>2. IInv /\ [Next]_vars => [Ledger!Next]_<<payment, receipts>>
    BY LedgerStep DEF vars, rows
  <1> QED BY <1>1, <1>2, Invariance, PTL DEF Spec, Ledger!Spec, ImplementsLedger

-----------------------------------------------------------------------------
(* The status of the obligation *)

(* What the payments S are enough for.                                      *)
Backed(s, S) ==
    /\ s = "PAID" => Total(S) >= due
    /\ s = "PARTIALLY_PAID" => Total(S) > 0

Recorded == {p \in Payment : payment[p] # Null}

(* A recompute decides from confirmed payments and its own, which stay      *)
(* confirmed until it writes: however late, its verdict is still backed.    *)
VerdictsHold ==
    /\ Backed(status, Confirmed)
    /\ \A r \in Request : Backed(verdict[r], Counted(r))
    /\ \A r \in Request : pc[r] = "sum" => owed[r] = due

SInv == IsFiniteSet(Recorded) /\ (~edited => VerdictsHold)

CountedIsRecorded ==
    /\ Confirmed \subseteq Recorded
    /\ \A r \in Request : Counted(r) \subseteq Recorded
    /\ \A p \in Recorded : payment[p] \in Claim /\ payment[p].amount \in Nat

LEMMA RecordedSets == IInv => CountedIsRecorded
  <1> SUFFICES ASSUME IInv PROVE CountedIsRecorded
    OBVIOUS
  <1>1. \A p \in Recorded : payment[p] \in Claim /\ payment[p].amount \in Nat
    BY FeesAssumption DEF IInv, TypeOK, Recorded, Claim
  <1>2. ASSUME NEW r \in Request, claimed[r] # Null PROVE claimed[r] \in Recorded
    <2>1. pc[r] # "idle" /\ claimed[r] \in Payment
      BY <1>2 DEF IInv, TypeOK, DecisionsHold
    <2> QED BY <2>1 DEF IInv, DecisionsHold, Deciding, Claimable, Recorded
  <1>3. \A p \in Payment : p # Null
    BY FeesAssumption
  <1> QED BY <1>1, <1>2, <1>3 DEF CountedIsRecorded, Confirmed, Counted, Recorded

LEMMA RecordedSetsNext == IInv' => CountedIsRecorded'
  BY RecordedSets, PTL

(* More payments, each of the amount it had, add up to no less.             *)
LEMMA TotalsGrow ==
  ASSUME IInv', IsFiniteSet(Recorded'), NEW T \in SUBSET Recorded', NEW S \in SUBSET T,
         \A p \in S : payment'[p].amount = payment[p].amount
  PROVE  /\ SumFunction([p \in S |-> payment[p].amount]) \in Nat
         /\ SumFunction([p \in T |-> payment'[p].amount]) \in Nat
         /\ SumFunction([p \in S |-> payment[p].amount]) <= SumFunction([p \in T |-> payment'[p].amount])
  <1>1. PICK F, G : F = [p \in S |-> payment[p].amount] /\ G = [p \in T |-> payment'[p].amount]
    OBVIOUS
  <1>2. DOMAIN F = S /\ DOMAIN G = T /\ \A p \in S : G[p] = F[p]
    BY <1>1
  <1>3. \A p \in T : G[p] \in Nat
    BY <1>1, RecordedSetsNext DEF CountedIsRecorded
  <1>4. IsFiniteSet(T) /\ IsFiniteSet(S)
    BY FS_Subset
  <1>5. SumFunctionOnSet(F, S) = SumFunctionOnSet(G, S)
    BY <1>2, <1>4, SumSame
  <1>6. SumFunctionOnSet(G, S) \in Nat /\ SumFunctionOnSet(G, S) <= SumFunctionOnSet(G, T)
    BY <1>3, <1>4, SumMonotone
  <1>7. SumFunctionOnSet(G, T) \in Nat
    BY <1>3, <1>4, SumMonotone
  <1> QED BY <1>1, <1>2, <1>5, <1>6, <1>7 DEF SumFunction

LEMMA BackingGrows ==
  ASSUME IInv', IsFiniteSet(Recorded'), due' = due, NEW T \in SUBSET Recorded', NEW S \in SUBSET T,
         \A p \in S : payment'[p].amount = payment[p].amount, NEW s, Backed(s, S)
  PROVE  /\ s = "PAID" => SumFunction([p \in T |-> payment'[p].amount]) >= due'
         /\ s = "PARTIALLY_PAID" => SumFunction([p \in T |-> payment'[p].amount]) > 0
  <1>1. PICK m, n \in Nat : /\ m = SumFunction([p \in S |-> payment[p].amount])
                            /\ n = SumFunction([p \in T |-> payment'[p].amount])
                            /\ m <= n
    BY TotalsGrow
  <1>2. /\ s = "PAID" => m >= due
        /\ s = "PARTIALLY_PAID" => m > 0
    BY <1>1 DEF Backed, Total
  <1>3. due \in Nat
    BY FeesAssumption DEF IInv, TypeOK
  <1> QED BY <1>1, <1>2, <1>3

(* What a step must not take away from a verdict and from the status.       *)
LEMMA StepSInv ==
  ASSUME IInv, IInv', SInv, IsFiniteSet(Recorded'), UNCHANGED <<due, edited>>,
         \A p \in Recorded : p \in Recorded' /\ payment'[p].amount = payment[p].amount,
         Confirmed \subseteq Confirmed',
         \/ status' = status
         \/ \E r \in Request : status' = verdict[r] /\ Counted(r) \subseteq Confirmed',
         \A r \in Request :
            \/ verdict'[r] = Null
            \/ /\ verdict'[r] = verdict[r] \/ (~edited => Backed(verdict'[r], Counted(r)))
               /\ Counted(r) \subseteq Counted(r)',
         \A r \in Request : pc'[r] = "sum" => owed'[r] = due \/ (pc[r] = "sum" /\ owed'[r] = owed[r])
  PROVE  SInv'
  <1> SUFFICES ASSUME ~edited PROVE VerdictsHold'
    BY DEF SInv
  <1>1. VerdictsHold
    BY DEF SInv
  <1>2. /\ Confirmed \subseteq Recorded /\ \A r \in Request : Counted(r) \subseteq Recorded
        /\ Confirmed' \subseteq Recorded' /\ \A r \in Request : Counted(r)' \subseteq Recorded'
    BY RecordedSets, RecordedSetsNext DEF CountedIsRecorded
  <1>3. Backed(status, Confirmed)'
    <2>1. CASE status' = status
      <3>1. Backed(status', Confirmed)
        BY <1>1, <2>1 DEF VerdictsHold
      <3> QED BY <1>2, <3>1, BackingGrows DEF Backed, Total
    <2>2. ASSUME NEW r \in Request, status' = verdict[r], Counted(r) \subseteq Confirmed'
          PROVE  Backed(status, Confirmed)'
      <3>1. Backed(status', Counted(r))
        BY <1>1, <2>2 DEF VerdictsHold
      <3> QED BY <1>2, <2>2, <3>1, BackingGrows DEF Backed, Total
    <2> QED BY <2>1, <2>2
  <1>4. ASSUME NEW r \in Request PROVE Backed(verdict[r], Counted(r))'
    <2>1. CASE verdict'[r] = Null
      BY <2>1, FeesAssumption DEF Backed, Standing
    <2>2. CASE verdict'[r] # Null
      <3>1. Backed(verdict'[r], Counted(r)) /\ Counted(r) \subseteq Counted(r)'
        BY <1>1, <2>2 DEF VerdictsHold
      <3> QED BY <1>2, <3>1, BackingGrows DEF Backed, Total
    <2> QED BY <2>1, <2>2
  <1>5. \A r \in Request : pc'[r] = "sum" => owed'[r] = due'
    BY <1>1 DEF VerdictsHold
  <1> QED BY <1>3, <1>4, <1>5 DEF VerdictsHold

(* Steps that leave the payments alone. *)
LEMMA QuietSInv ==
  ASSUME IInv, IInv', SInv, UNCHANGED <<due, status, payment, edited>>,
         \A r \in Request :
            \/ verdict'[r] = Null
            \/ /\ verdict'[r] = verdict[r] \/ (~edited => Backed(verdict'[r], Counted(r)))
               /\ claimed'[r] = claimed[r] /\ decision'[r] = decision[r],
         \A r \in Request : pc'[r] = "sum" => owed'[r] = due \/ (pc[r] = "sum" /\ owed'[r] = owed[r])
  PROVE  SInv'
  <1>1. Recorded' = Recorded /\ Confirmed' = Confirmed
    BY DEF Recorded, Confirmed
  <1>2. \A r \in Request : claimed'[r] = claimed[r] /\ decision'[r] = decision[r]
            => Counted(r) \subseteq Counted(r)'
    BY <1>1 DEF Counted
  <1> QED BY <1>1, <1>2, StepSInv DEF SInv

LEMMA RecordSInv ==
  ASSUME IInv, IInv', SInv, NEW p \in Payment, Record(p)
  PROVE  SInv'
  <1>1. PICK c \in Claim : /\ payment[p] = Null /\ c.status = "PENDING"
                           /\ payment' = [payment EXCEPT ![p] = c]
    BY DEF Record, Claim
  <1>2. UNCHANGED <<due, status, pc, claimed, decision, owed, verdict, edited>>
    BY DEF Record, local
  <1>3. c # Null /\ \A q \in Payment \ {p} : payment'[q] = payment[q]
    BY <1>1, FeesAssumption DEF IInv, TypeOK
  <1>4. Recorded' = Recorded \cup {p} /\ p \notin Recorded
    BY <1>1, <1>3 DEF Recorded, IInv, TypeOK
  <1>5. IsFiniteSet(Recorded')
    BY <1>4, FS_AddElement DEF SInv
  <1>6. Confirmed \subseteq Confirmed' /\ \A r \in Request : Counted(r) \subseteq Counted(r)'
    BY <1>1, <1>2, <1>3 DEF Confirmed, Counted
  <1>7. \A q \in Recorded : q \in Recorded' /\ payment'[q].amount = payment[q].amount
    BY <1>3, <1>4 DEF Recorded
  <1> QED BY <1>2, <1>5, <1>6, <1>7, StepSInv

LEMMA SumSInv ==
  ASSUME IInv, IInv', SInv, NEW r \in Request, SumPayments(r)
  PROVE  SInv'
  <1>1. /\ pc[r] = "sum" /\ pc' = [pc EXCEPT ![r] = "commit"]
        /\ verdict' = [verdict EXCEPT ![r] = StatusOf(Total(Counted(r)), owed[r])]
        /\ UNCHANGED <<due, status, payment, claimed, decision, owed, edited>>
    BY DEF SumPayments, rows
  <1>2. ~edited => Backed(verdict'[r], Counted(r))
    <2> SUFFICES ASSUME ~edited PROVE Backed(verdict'[r], Counted(r))
      OBVIOUS
    <2>1. owed[r] = due /\ verdict'[r] = StatusOf(Total(Counted(r)), due)
      BY <1>1 DEF SInv, VerdictsHold, IInv, TypeOK
    <2>2. PICK m : m = Total(Counted(r))
      OBVIOUS
    <2>3. m \in Nat /\ due \in Nat
      <3>1. Counted(r) \in SUBSET Recorded /\ Recorded' = Recorded /\ payment' = payment
        BY <1>1, RecordedSets DEF CountedIsRecorded, Recorded
      <3> QED BY <2>2, <3>1, TotalsGrow, FeesAssumption DEF Total, SInv, IInv, TypeOK
    <2> QED BY <2>1, <2>2, <2>3 DEF Backed, StatusOf
  <1>3. \A q \in Request \ {r} : verdict'[q] = verdict[q] /\ pc'[q] = pc[q]
    BY <1>1 DEF IInv, TypeOK
  <1>4. pc'[r] # "sum"
    BY <1>1 DEF IInv, TypeOK
  <1> QED BY <1>1, <1>2, <1>3, <1>4, QuietSInv

LEMMA CommitSInv ==
  ASSUME IInv, IInv', SInv, NEW r \in Request, CommitDecision(r)
  PROVE  SInv'
  <1>1. PICK p \in Payment, verb \in {"CONFIRMED", "REJECTED"} :
            /\ p = claimed[r] /\ Claimable(p)
            /\ payment' = [payment EXCEPT ![p].status = verb]
            /\ \A q \in Payment \ {p} : payment'[q] = payment[q]
            /\ payment'[p] # Null /\ payment'[p].status = verb
    BY CommitPayments
  <1>2. /\ pc[r] = "commit" /\ verb = decision[r]
        /\ status' = IF verdict[r] = Null THEN status ELSE verdict[r]
        /\ pc' = [pc EXCEPT ![r] = "idle"]
        /\ claimed' = [claimed EXCEPT ![r] = Null] /\ decision' = [decision EXCEPT ![r] = Null]
        /\ owed' = [owed EXCEPT ![r] = Null] /\ verdict' = [verdict EXCEPT ![r] = Null]
        /\ UNCHANGED <<due, edited>>
    <2>1. decision[r] \in {"CONFIRMED", "REJECTED"} /\ claimed[r] \in Payment
      BY <1>1, FeesAssumption DEF CommitDecision, IInv, TypeOK, DecisionsHold, Deciding
    <2>2. payment'[p].status = decision[r]
      BY <1>1, <2>1 DEF CommitDecision, IInv, TypeOK, Claim, Claimable
    <2> QED BY <1>1, <2>2 DEF CommitDecision, Finish
  <1>3. payment[p] \in Claim /\ payment'[p].amount = payment[p].amount
    BY <1>1 DEF IInv, TypeOK, Claimable, Claim
  <1>4. Recorded' = Recorded
    BY <1>1, <1>3, FeesAssumption DEF Recorded, Claimable
  <1>5. Confirmed \subseteq Confirmed' /\ Counted(r) \subseteq Confirmed'
    BY <1>1, <1>2 DEF Confirmed, Counted, Claimable
  <1>6. \A q \in Request \ {r} : /\ pc'[q] = pc[q] /\ owed'[q] = owed[q] /\ verdict'[q] = verdict[q]
                                 /\ claimed'[q] = claimed[q] /\ decision'[q] = decision[q]
    BY <1>2 DEF IInv, TypeOK
  <1>7. \A q \in Request \ {r} : Counted(q) \subseteq Counted(q)'
    BY <1>5, <1>6 DEF Counted
  <1>8. verdict'[r] = Null /\ pc'[r] # "sum"
    BY <1>2 DEF IInv, TypeOK
  <1>9. \A q \in Recorded : q \in Recorded' /\ payment'[q].amount = payment[q].amount
    BY <1>1, <1>3, <1>4 DEF Recorded
  <1>10. IsFiniteSet(Recorded')
    BY <1>4 DEF SInv
  <1> QED BY <1>2, <1>5, <1>6, <1>7, <1>8, <1>9, <1>10, StepSInv

LEMMA ClaimSInv ==
  ASSUME IInv, IInv', SInv, NEW r \in Request, NEW p \in Payment, ConfirmClaim(r, p) \/ RejectClaim(r, p)
  PROVE  SInv'
  <1>1. PICK label \in {"receipt", "obligation"}, verb \in {"CONFIRMED", "REJECTED"} :
           /\ pc[r] = "idle" /\ pc' = [pc EXCEPT ![r] = label]
           /\ claimed' = [claimed EXCEPT ![r] = p] /\ decision' = [decision EXCEPT ![r] = verb]
           /\ UNCHANGED <<due, status, payment, owed, verdict, edited>>
    BY DEF ConfirmClaim, RejectClaim, rows
  <1>2. /\ pc'[r] # "sum"
        /\ \A q \in Request \ {r} : pc'[q] = pc[q] /\ claimed'[q] = claimed[q] /\ decision'[q] = decision[q]
    BY <1>1 DEF IInv, TypeOK
  <1>3. Recorded' = Recorded /\ Confirmed' = Confirmed
    BY <1>1 DEF Recorded, Confirmed
  <1>4. claimed[r] = Null
    BY <1>1 DEF IInv, DecisionsHold
  <1>5. Counted(r) = Confirmed
    BY <1>4, FeesAssumption DEF Counted
  <1>6. \A q \in Request : Counted(q) \subseteq Counted(q)'
    BY <1>2, <1>3, <1>5 DEF Counted
  <1>7. IsFiniteSet(Recorded') /\ \A q \in Recorded : q \in Recorded' /\ payment'[q].amount = payment[q].amount
    BY <1>1, <1>3 DEF SInv
  <1> QED BY <1>1, <1>2, <1>3, <1>6, <1>7, StepSInv

LEMMA OtherStepsSInv ==
  ASSUME IInv, IInv', SInv, NEW r \in Request, IssueReceipt(r) \/ ReadObligation(r) \/ Abort(r)
  PROVE  SInv'
  <1>1. UNCHANGED <<due, status, payment, edited>>
    BY DEF IssueReceipt, ReadObligation, Abort, rows
  <1>2. ASSUME NEW q \in Request
        PROVE  \/ verdict'[q] = Null
               \/ verdict'[q] = verdict[q] /\ claimed'[q] = claimed[q] /\ decision'[q] = decision[q]
    BY DEF IssueReceipt, ReadObligation, Abort, Finish, IInv, TypeOK
  <1>3. ASSUME NEW q \in Request, pc'[q] = "sum"
        PROVE  owed'[q] = due \/ (pc[q] = "sum" /\ owed'[q] = owed[q])
    <2>1. CASE IssueReceipt(r)
      BY <1>3, <2>1 DEF IssueReceipt, IInv, TypeOK
    <2>2. CASE ReadObligation(r)
      <3>1. /\ pc \in [Request -> {"idle", "receipt", "obligation", "sum", "commit"}]
            /\ owed \in [Request -> Due \cup {Null}]
        BY DEF IInv, TypeOK
      <3>2. CASE pc' = [pc EXCEPT ![r] = "commit"] /\ owed' = owed
        <4>1. pc'[r] = "commit" /\ (q # r => pc'[q] = pc[q])
          BY <3>1, <3>2
        <4> QED BY <1>3, <3>2, <4>1
      <3>3. CASE pc' = [pc EXCEPT ![r] = "sum"] /\ owed' = [owed EXCEPT ![r] = due]
        <4>1. owed'[r] = due /\ (q # r => pc'[q] = pc[q] /\ owed'[q] = owed[q])
          BY <3>1, <3>3
        <4> QED BY <1>3, <4>1
      <3> QED BY <2>2, <3>2, <3>3 DEF ReadObligation
    <2>3. CASE Abort(r)
      BY <1>3, <2>3 DEF Abort, Finish, IInv, TypeOK
    <2> QED BY <2>1, <2>2, <2>3
  <1> QED BY <1>1, <1>2, <1>3, QuietSInv

LEMMA NextSInv == IInv /\ IInv' /\ SInv /\ [Next]_vars => SInv'
  <1> SUFFICES ASSUME IInv, IInv', SInv, [Next]_vars PROVE SInv'
    OBVIOUS
  <1>1. CASE Edit
    <2>1. Recorded' = Recorded /\ edited'
      BY <1>1 DEF Edit, Recorded
    <2> QED BY <2>1 DEF SInv
  <1>2. CASE UNCHANGED vars
    BY <1>2, QuietSInv DEF vars, rows, local
  <1>3. ASSUME NEW r \in Request, Step(r) PROVE SInv'
    BY <1>3, SumSInv, CommitSInv, OtherStepsSInv DEF Step
  <1> QED BY <1>1, <1>2, <1>3, RecordSInv, ClaimSInv, OtherStepsSInv DEF Next

LEMMA InitSInv == Init => SInv
  <1> SUFFICES ASSUME Init PROVE SInv
    OBVIOUS
  <1>1. Recorded = {} /\ IsFiniteSet(Recorded)
    BY FS_EmptySet DEF Init, Recorded
  <1>2. VerdictsHold
    BY FeesAssumption DEF Init, VerdictsHold, Backed, Standing
  <1> QED BY <1>1, <1>2 DEF SInv

(* Until someone edits the obligation by hand its status says no more than  *)
(* the confirmed payments, however many recomputes overlap and whichever    *)
(* commits last (fees.service.ts:218-232).                                  *)
THEOREM StatusIsBacked == Spec => []StatusNotOverstated
  <1>1. Spec => []SInv
    BY InitSInv, NextSInv, Invariance, PTL DEF Spec
  <1>2. SInv => StatusNotOverstated
    BY DEF SInv, VerdictsHold, Backed, StatusNotOverstated
  <1> QED BY <1>1, <1>2, PTL
=============================================================================
