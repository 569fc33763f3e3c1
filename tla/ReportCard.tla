----------------------------- MODULE ReportCard -----------------------------
(* The report card of one student in one session as it is read: which terms *)
(* are published, which are withheld for unpaid fees, the rollup of the     *)
(* session, and the ratings and comments written while a card is a draft.   *)
(*                                                                          *)
(* How marks are computed, finalized and ranked is the module Results, how  *)
(* an obligation gets its status the module Fees: here a status and a       *)
(* balance are two numbers that nothing but those handlers ties together.   *)
EXTENDS Sentinel, Naturals, Integers, FiniteSets, Functions

CONSTANTS
    Semester,          \* the terms of the session
    Debt, DebtTerm,    \* fee obligations, and the term of each (Null: the session's)
    Value,             \* RatingScaleLevel values
    Pen,               \* requests served at a time
    MaxOverrides       \* bound: overrides of a term's comment

ASSUME ReportCardAssumption ==
    /\ IsFiniteSet(Debt) /\ Debt = DOMAIN DebtTerm /\ \A d \in Debt : DebtTerm[d] \in Semester \cup {Null}
    /\ \A S \in {Semester, Debt, Pen, {"DRAFT", "FINALIZED"}} : Null \notin S
    /\ Value \subseteq Nat /\ MaxOverrides \in Nat

VARIABLES
    card,      \* status of the term's Result row, and feeWithholdingReleased
    debt,      \* per obligation: due less confirmed, and whether it is not PAID or WAIVED
    rating,    \* the rating of one trait per term
    comment,   \* a comment per term: the class teacher's, or the principal's
    overrides, \* ResultOverride rows of that comment
    trait,     \* Trait.isActive
    rollup,    \* SessionResult: the terms averaged, if there is a row
    unlocked,  \* history: terms rated by a request whose lock found no row
    pen        \* requests in progress

cardVars == <<card, debt, rating, comment, overrides, trait, rollup, unlocked, pen>>

NoCard == [status |-> Null, released |-> FALSE]
NoPen == [op |-> "idle", term |-> Null, value |-> Null, found |-> FALSE, terms |-> {}]

ReportCardTypeOK ==
    /\ card \in [Semester -> [status : {Null, "DRAFT", "FINALIZED"}, released : BOOLEAN]]
    /\ debt \in [Debt -> [balance : -1 .. 1, open : BOOLEAN]]
    /\ rating \in [Semester -> Value \cup {Null}] /\ comment \in [Semester -> Value \cup {Null}]
    /\ overrides \in [Semester -> 0 .. MaxOverrides]
    /\ trait \in BOOLEAN /\ unlocked \subseteq Semester
    /\ rollup \in SUBSET Semester
    /\ pen \in [Pen -> [op : {"idle", "lock", "rate", "roll"}, term : Semester \cup {Null},
                        value : Value \cup {Null}, found : BOOLEAN, terms : SUBSET Semester]]

ReportCardInit ==
    /\ card = [t \in Semester |-> NoCard]
    /\ debt = [d \in Debt |-> [balance |-> 0, open |-> FALSE]]
    /\ rating = [t \in Semester |-> Null] /\ comment = [t \in Semester |-> Null]
    /\ overrides = [t \in Semester |-> 0]
    /\ trait = TRUE /\ rollup = {} /\ unlocked = {}
    /\ pen = [r \in Pen |-> NoPen]

IsFinalized(t) == card[t].status = "FINALIZED"
LockedByRater(t) == \E r \in Pen : pen[r].op = "rate" /\ pen[r].term = t /\ pen[r].found

-----------------------------------------------------------------------------
(* The card *)

ComputeCard(t) ==
    /\ card[t].status = Null
    /\ card' = [card EXCEPT ![t].status = "DRAFT"]
    /\ UNCHANGED <<debt, rating, comment, overrides, trait, rollup, unlocked, pen>>

(* The update waits for whoever holds the row.                              *)
FinalizeCard(t) ==
    /\ card[t].status = "DRAFT" /\ ~LockedByRater(t)
    /\ card' = [card EXCEPT ![t].status = "FINALIZED"]
    /\ UNCHANGED <<debt, rating, comment, overrides, trait, rollup, unlocked, pen>>

ReleaseCard(t) ==
    /\ IsFinalized(t) /\ ~card[t].released
    /\ card' = [card EXCEPT ![t].released = TRUE]
    /\ UNCHANGED <<debt, rating, comment, overrides, trait, rollup, unlocked, pen>>

(* writeDraftResultField: an update that names the status it needs.         *)
WriteDraftResultField(t, v) ==
    /\ card[t].status = "DRAFT" /\ ~LockedByRater(t)
    /\ comment' = [comment EXCEPT ![t] = v]
    /\ UNCHANGED <<card, debt, rating, overrides, trait, rollup, unlocked, pen>>

(* overrideResult of a comment: only of a finalized result, which never is  *)
(* a draft again, and with a ResultOverride row in the same transaction.    *)
OverrideComment(t, v) ==
    /\ IsFinalized(t) /\ overrides[t] < MaxOverrides   \* bound
    /\ comment' = [comment EXCEPT ![t] = v]
    /\ overrides' = [overrides EXCEPT ![t] = @ + 1]
    /\ UNCHANGED <<card, debt, rating, trait, rollup, unlocked, pen>>

(* An obligation is created, paid, edited or waived (module Fees).          *)
ChangeDebt(d, b, o) ==
    /\ debt[d] # [balance |-> b, open |-> o]
    /\ debt' = [debt EXCEPT ![d] = [balance |-> b, open |-> o]]
    /\ UNCHANGED <<card, rating, comment, overrides, trait, rollup, unlocked, pen>>

(* computeSessionResultsForClass reads the finalized terms, and writes the  *)
(* rollup and its averages in a transaction of their own.                   *)
ReadFinalized(r) ==
    LET final == {t \in Semester : IsFinalized(t)} IN
    /\ pen[r] = NoPen /\ final # {}
    /\ pen' = [pen EXCEPT ![r].op = "roll", ![r].terms = final]
    /\ UNCHANGED <<card, debt, rating, comment, overrides, trait, rollup, unlocked>>
WriteRollup(r) ==
    /\ pen[r].op = "roll"
    /\ rollup' = pen[r].terms
    /\ pen' = [pen EXCEPT ![r] = NoPen]
    /\ UNCHANGED <<card, debt, rating, comment, overrides, trait, unlocked>>

-----------------------------------------------------------------------------
(* Ratings *)

SetTrait(on) ==
    /\ trait' = on
    /\ UNCHANGED <<card, debt, rating, comment, overrides, rollup, unlocked, pen>>

(* bulkUpsertRatings: the trait is seen active before the transaction, ...  *)
CheckTrait(r, t, v) ==
    /\ pen[r] = NoPen /\ trait
    /\ pen' = [pen EXCEPT ![r] = [NoPen EXCEPT !.op = "lock", !.term = t, !.value = v]]
    /\ UNCHANGED <<card, debt, rating, comment, overrides, trait, rollup, unlocked>>

RatableAlways(t) == TRUE

(* ... the Result row, where there is one, is locked and must be a draft,   *)
Ratable(t) == card[t].status \in {Null, "DRAFT"}

LockResultsForUpdate(r) ==
    LET t == pen[r].term IN
    /\ pen[r].op = "lock" /\ ~LockedByRater(t)
    /\ pen' = [pen EXCEPT ![r] = IF Ratable(t)
                                 THEN [@ EXCEPT !.op = "rate", !.found = (card[t].status # Null)]
                                 ELSE NoPen]
    /\ UNCHANGED <<card, debt, rating, comment, overrides, trait, rollup, unlocked>>

(* ... and the rating is written and committed.                             *)
WriteRating(r) ==
    LET t == pen[r].term IN
    /\ pen[r].op = "rate"
    /\ rating' = [rating EXCEPT ![t] = pen[r].value]
    /\ unlocked' = IF pen[r].found THEN unlocked ELSE unlocked \cup {t}
    /\ pen' = [pen EXCEPT ![r] = NoPen]
    /\ UNCHANGED <<card, debt, comment, overrides, trait, rollup>>

AbortPen(r) ==
    /\ pen[r] # NoPen
    /\ pen' = [pen EXCEPT ![r] = NoPen]
    /\ UNCHANGED <<card, debt, rating, comment, overrides, trait, rollup, unlocked>>

(* P: the requests that roll up the session.                                *)
PublishNext(P) ==
    \/ \E t \in Semester : ComputeCard(t) \/ FinalizeCard(t) \/ ReleaseCard(t)
    \/ \E d \in Debt, b \in -1 .. 1, o \in BOOLEAN : ChangeDebt(d, b, o)
    \/ \E r \in P : ReadFinalized(r) \/ WriteRollup(r)
RateNext ==
    \/ \E t \in Semester, v \in Value :
          WriteDraftResultField(t, v) \/ OverrideComment(t, v) \/ \E r \in Pen : CheckTrait(r, t, v)
    \/ \E t \in Semester : ComputeCard(t) \/ FinalizeCard(t)
    \/ \E r \in Pen : LockResultsForUpdate(r) \/ WriteRating(r) \/ AbortPen(r)
    \/ \E on \in BOOLEAN : SetTrait(on)
ReportCardNext == PublishNext(Pen) \/ RateNext
ReportCardSpec == ReportCardInit /\ [][ReportCardNext]_cardVars

-----------------------------------------------------------------------------
(* What a reader who is not on the staff sees *)

Outstanding(ds) == SumFunction([d \in ds |-> debt[d].balance])
Open(ds) == {d \in ds : debt[d].open}

InWithholdingMapOfTerms(terms) == Open({d \in Debt : DebtTerm[d] \in terms})

(* buildWithholdingMap: one query for all the terms asked about, then each  *)
(* term takes its own obligations and those of the whole session.           *)
InWithholdingMap(terms) == Open({d \in Debt : DebtTerm[d] \in terms \cup {Null}})

Matching(ds, t) == {d \in ds : DebtTerm[d] \in {t, Null}}
BuildWithholdingMap(terms) ==
    {t \in terms : Outstanding(Matching(InWithholdingMap(terms), t)) > 0}

GetResultForStudentTerm(t) ==
    IF ~IsFinalized(t) THEN "404"
    ELSE IF ~card[t].released /\ t \in BuildWithholdingMap({t}) THEN "WITHHELD" ELSE "shown"

ListResultsForStudent ==
    LET listed == {t \in Semester : IsFinalized(t)}
        withheld == BuildWithholdingMap({t \in listed : ~card[t].released})
    IN [t \in listed |-> IF t \in withheld THEN "WITHHELD" ELSE "shown"]

(* The rollup is withheld by any obligation of the session; releases are    *)
(* for a term and do not count.                                             *)
WithholdingForSession == Outstanding(Open(Debt)) > 0
GetSessionResult ==
    IF rollup = {} THEN "404" ELSE IF WithholdingForSession THEN "WITHHELD" ELSE "shown"

-----------------------------------------------------------------------------
(* Properties *)

(* The three routes agree. The list shows, withholds or leaves out a term   *)
(* exactly as the single route does, whatever other terms are in the batch; *)
(* and unless an overpaid obligation is still open, the rollup is withheld  *)
(* exactly when some term of the session is, or would be if it were         *)
(* published and not released (results.service.ts:20-98, 238-331, 739-765). *)
WithheldConsistently ==
    /\ \A t \in Semester :
          IF t \in DOMAIN ListResultsForStudent
          THEN ListResultsForStudent[t] = GetResultForStudentTerm(t)
          ELSE GetResultForStudentTerm(t) = "404"
    /\ ((\A d \in Open(Debt) : debt[d].balance >= 0) /\ rollup # {})
          => ((GetSessionResult = "WITHHELD") <=> \E t \in Semester : t \in BuildWithholdingMap({t}))

(* A published card is not edited, only overridden. However a rating or a   *)
(* comment in flight interleaves with the finalization, the comment changes *)
(* afterwards only in a step that leaves a ResultOverride row, and a rating *)
(* stays as it was, unless the request that rates began before the term had *)
(* a Result row to lock                                                     *)
(* (ratings.service.ts:77-146, results.service.ts:767-855).                 *)
RatingsFrozen ==
    [][\A t \in Semester : IsFinalized(t) =>
          /\ comment'[t] # comment[t] => overrides'[t] = overrides[t] + 1
          /\ rating'[t] = rating[t] \/ t \in unlocked']_cardVars
=============================================================================
