------------------------------- MODULE Billing -------------------------------
(* Who is billed for what, and what the office reads back: fee structures,  *)
(* the generation of obligations from them, and the summary, the defaulters *)
(* list, the statement and the payment detail computed from the same rows.  *)
(*                                                                          *)
(* A generation is three reads and one insert with nothing held between     *)
(* them. How a single payment is decided is the module Fees: here its       *)
(* status changes in one step.                                              *)
EXTENDS Sentinel, Naturals, Integers, Sequences, FiniteSets, FiniteSetsExt, Functions

CONSTANTS
    Child,
    Form, Level,      \* the classes, and the gradeName of each
    Structure,        \* fee structures that may be created
    Kobo,             \* the amounts structures and payments are tried with
    Offer,            \* bound: the scope, term and price structures are tried with
    MaxPayments,      \* bound: payments logged in all
    Bursar            \* requests served at a time

Target == {"everyone"} \cup Form \cup {Level[c] : c \in Form}
Tariff == [scope : Target, termly : BOOLEAN, kobo : Kobo]

ASSUME BillingAssumption ==
    /\ \A S \in {Child, Form, Structure, Bursar} : IsFiniteSet(S)
    /\ Kobo \subseteq Nat \ {0} /\ Offer \subseteq Tariff /\ MaxPayments \in Nat
    /\ Null \notin Form \cup Structure \cup Bursar \cup Kobo \cup Tariff \cup [form : Form, active : BOOLEAN]

VARIABLES
    structure,  \* FeeStructure rows
    gone,       \* .. and those of them deleted
    sits,       \* Enrollment of each child in the session billed
    billed,     \* per child and structure, the FeeObligation rows in order
    doubled,    \* history: structures two generations of which wrote from one read
    billing     \* generations in progress

billingVars == <<structure, gone, sits, billed, doubled, billing>>

NoRun == [op |-> "idle", of |-> Null, kobo |-> Null, scope |-> Null, among |-> {}, new |-> {}]
Obligation == [due : Kobo, waived : BOOLEAN,
               payments : Seq([kobo : Kobo, status : {"PENDING", "CONFIRMED", "REJECTED"}])]

BillingTypeOK ==
    /\ structure \in [Structure -> Tariff \cup {Null}] /\ gone \subseteq Structure
    /\ sits \in [Child -> [form : Form, active : BOOLEAN] \cup {Null}]
    /\ \A k \in Child, f \in Structure :
          /\ Len(billed[<<k, f>>]) <= Cardinality(Bursar)
          /\ \A i \in 1 .. Len(billed[<<k, f>>]) : billed[<<k, f>>][i] \in Obligation
    /\ doubled \subseteq Structure
    /\ billing \in [Bursar -> [op : {"idle", "enrolled", "existing", "write"},
                               of : Structure \cup {Null}, kobo : Kobo \cup {Null},
                               scope : Target \cup {Null}, among : SUBSET Child,
                               new : SUBSET Child]]

(* fs: the structures there are, ks: the enrolled children, and bill each   *)
(* of them as the generation does.                                          *)
BillingStart(fs, ks) ==
    /\ gone = {}
    /\ structure = [f \in Structure |-> IF f \in DOMAIN fs THEN fs[f] ELSE Null]
    /\ sits = [k \in Child |-> IF k \in DOMAIN ks THEN [form |-> ks[k], active |-> TRUE] ELSE Null]
    /\ billed = [x \in Child \X Structure |->
                    IF x[1] \in DOMAIN ks /\ x[2] \in DOMAIN fs
                    THEN <<[due |-> fs[x[2]].kobo, waived |-> FALSE, payments |-> <<>>]>> ELSE <<>>]
    /\ doubled = {}
    /\ billing = [r \in Bursar |-> NoRun]

-----------------------------------------------------------------------------
(* Fee structures and enrolments *)

CreateFeeStructure(f, x) ==
    /\ structure[f] = Null
    /\ structure' = [structure EXCEPT ![f] = x]
    /\ UNCHANGED <<gone, sits, billed, doubled, billing>>

OnOffer(f) == structure[f] # Null /\ f \notin gone
UpdateFeeStructure(f, scope, kobo) ==
    /\ OnOffer(f)
    /\ structure' = [structure EXCEPT ![f].scope = scope, ![f].kobo = kobo]
    /\ UNCHANGED <<gone, sits, billed, doubled, billing>>

(* Refused once a bill exists; the foreign key closes the race.             *)
DeleteFeeStructure(f) ==
    /\ OnOffer(f) /\ \A k \in Child : billed[<<k, f>>] = <<>>
    /\ gone' = gone \cup {f}
    /\ UNCHANGED <<structure, sits, billed, doubled, billing>>

Enrol(k, c) ==
    /\ sits[k] = Null
    /\ sits' = [sits EXCEPT ![k] = [form |-> c, active |-> TRUE]]
    /\ UNCHANGED <<structure, gone, billed, doubled, billing>>

MoveChild(k, c) ==
    /\ sits[k] # Null /\ sits[k].active /\ sits[k].form # c
    /\ sits' = [sits EXCEPT ![k].form = c]
    /\ UNCHANGED <<structure, gone, billed, doubled, billing>>

ChildLeaves(k) ==
    /\ sits[k] # Null /\ sits[k].active
    /\ sits' = [sits EXCEPT ![k].active = FALSE]
    /\ UNCHANGED <<structure, gone, billed, doubled, billing>>

-----------------------------------------------------------------------------
(* generateObligations *)

ReadStructure(r, f) ==
    /\ billing[r] = NoRun /\ OnOffer(f)
    /\ billing' = [billing EXCEPT ![r] = [NoRun EXCEPT !.op = "enrolled", !.of = f,
                      !.kobo = structure[f].kobo, !.scope = structure[f].scope]]
    /\ UNCHANGED <<structure, gone, sits, billed, doubled>>

(* The scope is resolved now, so a class added later is still covered.      *)
InScope(scope) ==
    {k \in Child : /\ sits[k] # Null /\ sits[k].active
                   /\ scope \in {"everyone", sits[k].form, Level[sits[k].form]}}
FindEnrolled(r) ==
    LET ks == InScope(billing[r].scope) IN
    /\ billing[r].op = "enrolled"
    /\ billing' = [billing EXCEPT ![r] = IF ks = {} THEN NoRun
                                         ELSE [@ EXCEPT !.op = "existing", !.among = ks]]
    /\ UNCHANGED <<structure, gone, sits, billed, doubled>>

BilledAlreadyIgnored(f) == {}

BilledAlready(f) == {k \in Child : billed[<<k, f>>] # <<>>}

FindExisting(r) ==
    LET new == billing[r].among \ BilledAlready(billing[r].of) IN
    /\ billing[r].op = "existing"
    /\ billing' = [billing EXCEPT ![r] = IF new = {} THEN NoRun
                                         ELSE [@ EXCEPT !.op = "write", !.new = new]]
    /\ UNCHANGED <<structure, gone, sits, billed, doubled>>

(* createMany with skipDuplicates: the unique index spans child, structure  *)
(* and term, and rows of no term never collide. A structure deleted since   *)
(* fails the foreign key, and with it the whole insert.                     *)
Collides(k, f) == structure[f].termly /\ billed[<<k, f>>] # <<>>
CreateMany(r) ==
    LET j == billing[r] IN
    /\ j.op = "write"
    /\ billing' = [billing EXCEPT ![r] = NoRun]
    /\ IF ~OnOffer(j.of) THEN UNCHANGED <<billed, doubled>>
       ELSE /\ billed' = [x \in DOMAIN billed |->
                  IF x[2] = j.of /\ x[1] \in j.new /\ ~Collides(x[1], x[2])
                  THEN Append(billed[x], [due |-> j.kobo, waived |-> FALSE, payments |-> <<>>])
                  ELSE billed[x]]
            /\ doubled' = IF \E q \in Bursar \ {r} : billing[q].op = "write" /\ billing[q].of = j.of
                          THEN doubled \cup {j.of} ELSE doubled
    /\ UNCHANGED <<structure, gone, sits>>

AbortRun(r) ==
    /\ billing[r] # NoRun
    /\ billing' = [billing EXCEPT ![r] = NoRun]
    /\ UNCHANGED <<structure, gone, sits, billed, doubled>>

(* K: the children who come, move and leave.                                *)
BillNext(K) ==
    \/ \E f \in Structure, x \in Offer :
          CreateFeeStructure(f, x) \/ UpdateFeeStructure(f, x.scope, x.kobo)
    \/ \E f \in Structure : DeleteFeeStructure(f)
    \/ \E k \in K : ChildLeaves(k) \/ \E c \in Form : Enrol(k, c) \/ MoveChild(k, c)
    \/ \E r \in Bursar :
          \/ \E f \in Structure : ReadStructure(r, f)
          \/ FindEnrolled(r) \/ FindExisting(r) \/ CreateMany(r) \/ AbortRun(r)

-----------------------------------------------------------------------------
(* Payments and waivers *)

Bills == {x \in Child \X Structure \X (1 .. Cardinality(Bursar)) : x[3] <= Len(billed[<<x[1], x[2]>>])}
At(x) == billed[<<x[1], x[2]>>][x[3]]
LogPayment(x, a) ==
    /\ SumFunction([y \in Bills |-> Len(At(y).payments)]) < MaxPayments
    /\ billed' = [billed EXCEPT ![<<x[1], x[2]>>][x[3]].payments =
                     Append(@, [kobo |-> a, status |-> "PENDING"])]
    /\ UNCHANGED <<structure, gone, sits, doubled, billing>>
DecidePayment(x, i, verdict) ==
    /\ At(x).payments[i].status = "PENDING"
    /\ billed' = [billed EXCEPT ![<<x[1], x[2]>>][x[3]].payments[i].status = verdict]
    /\ UNCHANGED <<structure, gone, sits, doubled, billing>>
UpdateObligation(x, due, waived) ==
    /\ billed' = [billed EXCEPT ![<<x[1], x[2]>>][x[3]].due = due, ![<<x[1], x[2]>>][x[3]].waived = waived]
    /\ UNCHANGED <<structure, gone, sits, doubled, billing>>

(* K: the children who move to another class.                               *)
PayNext(K) ==
    \/ \E x \in Bills :
          \/ \E a \in Kobo : LogPayment(x, a)
          \/ \E i \in 1 .. Len(At(x).payments), v \in {"CONFIRMED", "REJECTED"} : DecidePayment(x, i, v)
          \/ \E a \in Kobo, w \in BOOLEAN : UpdateObligation(x, a, w)
    \/ \E k \in K, c \in Form : MoveChild(k, c)

-----------------------------------------------------------------------------
(* What the office reads, over the structures `fs` a filter selects *)

Paid(x, status, but) ==
    LET of == {i \in 1 .. Len(At(x).payments) : At(x).payments[i].status = status /\ i # but}
    IN SumFunction([i \in of |-> At(x).payments[i].kobo])

(* withBalance, also the balance of a statement.                            *)
Balance(x) == At(x).due - Paid(x, "CONFIRMED", 0)

(* The CTE: an obligation is counted in the class its child is enrolled in  *)
(* for the session, active or not.                                          *)
ObligationScope(fs) == {x \in Bills : x[2] \in fs /\ sits[x[1]] # Null}
ClassRows(fs, c) == {x \in ObligationScope(fs) : sits[x[1]].form = c}

Charged(rows) == {x \in rows : ~At(x).waived}
Excused(rows) == rows \ Charged(rows)

ExpectedOverJoin(rows) ==
    SumFunction([x \in Charged(rows) |-> At(x).due * Max({1, Len(At(x).payments)})])

(* getFeesSummary: expected and waived without the join to payments,        *)
(* collected and pending with it, and collected over waived rows too.       *)
Expected(rows) == SumFunction([x \in Charged(rows) |-> At(x).due])

Waived(rows) == SumFunction([x \in Excused(rows) |-> At(x).due])
Collected(rows) == SumFunction([x \in rows |-> Paid(x, "CONFIRMED", 0)])
Pending(rows) == SumFunction([x \in rows |-> Paid(x, "PENDING", 0)])
BucketsFromRow(rows) ==
    [expected |-> Expected(rows), collected |-> Collected(rows), pending |-> Pending(rows),
     outstanding |-> Expected(rows) - Collected(rows), waived |-> Waived(rows)]
GetFeesSummary(fs) ==
    [c \in {d \in Form : ClassRows(fs, d) # {}} |-> BucketsFromRow(ClassRows(fs, c))]
SumBuckets(byClass) ==
    [b \in {"expected", "collected", "pending", "outstanding", "waived"} |->
        SumFunction([c \in DOMAIN byClass |-> byClass[c][b]])]

(* getDefaultersReport: per child, what is due and not waived less what is  *)
(* confirmed, when positive.                                                *)
Owes(fs, k) ==
    SumFunction([x \in Charged({y \in ObligationScope(fs) : y[1] = k}) |-> Balance(x)])
GetDefaultersReport(fs) == {k \in Child : sits[k] # Null /\ Owes(fs, k) > 0}

(* getPaymentById: the balance without this payment, and after it.          *)
BalanceBefore(x, i) == At(x).due - Paid(x, "CONFIRMED", i)
BalanceAfter(x, i) == BalanceBefore(x, i) - At(x).payments[i].kobo

(* getTermSummaryReport counts payments without the join to enrolments.     *)
PaymentCount(fs, status) ==
    SumFunction([x \in {y \in Bills : y[2] \in fs} |->
                    Cardinality({i \in 1 .. Len(At(x).payments) : At(x).payments[i].status = status})])

-----------------------------------------------------------------------------
(* Properties *)

(* However often and concurrently bills are generated while structures are  *)
(* re-scoped and re-priced and children move, a child has one bill for a    *)
(* structure; a second one needs a structure of no term and two generations *)
(* that both read before either wrote (fees.service.ts:146-171).            *)
BilledOnce ==
    \A k \in Child, f \in Structure :
        Len(billed[<<k, f>>]) > 1 => f \in doubled /\ ~structure[f].termly

(* The reports agree. What the summary calls outstanding in a class is what *)
(* its defaulters owe, less what others overpaid and less what was paid on  *)
(* obligations waived since, which it counts as collected; the detail of a  *)
(* confirmed payment ends at the balance of the statement; payments are     *)
(* counted where money is summed (fees.service.ts:587-719, 802-871,         *)
(* reports.service.ts:32-70, 142-174).                                      *)
SummaryMatchesDefaulters ==
    \A fs \in SUBSET Structure :
        LET byClass == GetFeesSummary(fs)  all == SumBuckets(byClass) IN
        /\ \A c \in DOMAIN byClass :
              LET here == {k \in Child : sits[k] # Null /\ sits[k].form = c}
                  late == here \cap GetDefaultersReport(fs)
              IN byClass[c].outstanding =
                    SumFunction([k \in late |-> Owes(fs, k)]) + SumFunction([k \in here \ late |-> Owes(fs, k)])
                    - Collected(Excused(ClassRows(fs, c)))
        /\ \A x \in ObligationScope(fs) : \A i \in 1 .. Len(At(x).payments) :
              At(x).payments[i].status = "CONFIRMED" => BalanceAfter(x, i) = Balance(x)
        /\ (all.pending = 0) <=> (PaymentCount(fs, "PENDING") = 0)
        /\ (all.collected = 0) <=> (PaymentCount(fs, "CONFIRMED") = 0)
=============================================================================
