--------------------------- MODULE Portal_proofs ---------------------------
(* Theorems about the portal as it is run, for any instance of every        *)
(* office: billing, the report card and the notices with their inductive    *)
(* invariants, and all the offices together, each in its scene.             *)
EXTENDS Portal, Records_proofs

-----------------------------------------------------------------------------
(* Billing *)

Run == [op : {"idle", "enrolled", "existing", "write"}, of : Structure \cup {Null}, kobo : Kobo \cup {Null},
        scope : Target \cup {Null}, among : SUBSET Child, new : SUBSET Child]
Place == [form : Form, active : BOOLEAN]

BillsTyped ==
    /\ structure \in [Structure -> Tariff \cup {Null}] /\ gone \subseteq Structure
    /\ sits \in [Child -> Place \cup {Null}]
    /\ billed \in [Child \X Structure -> Seq(Obligation)]
    /\ doubled \subseteq Structure /\ billing \in [Bursar -> Run]

(* The generations about to bill a child for a structure.                   *)
Writers(k, f) == {r \in Bursar : billing[r].op = "write" /\ billing[r].of = f /\ k \in billing[r].new}

(* Every bill has had its structure and its enrolment, and what it may grow *)
(* by is at most one for each generation that saw no bill.                  *)
BillKept(k, f) ==
    /\ Len(billed[<<k, f>>]) > 0 => structure[f] # Null /\ sits[k] # Null
    /\ Len(billed[<<k, f>>]) > 1 => f \in doubled /\ ~structure[f].termly
    /\ Len(billed[<<k, f>>]) + Cardinality(Writers(k, f)) <= Cardinality(Bursar)

(* A generation that will bill someone billed meanwhile is on record.       *)
RunKept(r) ==
    LET j == billing[r] IN
    j.op # "idle" =>
        /\ j.of \in Structure /\ structure[j.of] # Null /\ j.kobo \in Kobo /\ j.scope \in Target
        /\ \A k \in j.among \cup j.new : sits[k] # Null
        /\ j.op = "write" => \A k \in j.new : Len(billed[<<k, j.of>>]) > 0 => j.of \in doubled

BillingIInv ==
    /\ BillsTyped
    /\ \A k \in Child, f \in Structure : BillKept(k, f)
    /\ \A r \in Bursar : RunKept(r)

LEMMA BillingConstants ==
  /\ IsFiniteSet(Child) /\ IsFiniteSet(Form) /\ IsFiniteSet(Structure) /\ IsFiniteSet(Bursar)
  /\ Null \notin Tariff /\ Null \notin Place /\ NoRun \in Run /\ NoRun.op = "idle"
  /\ Kobo \subseteq Nat \ {0}
  BY BillingAssumption DEF Place, NoRun, Run

LEMMA BursarCount == ASSUME NEW T \in SUBSET Bursar
                     PROVE  /\ IsFiniteSet(T) /\ Cardinality(T) \in Nat
                            /\ Cardinality(Bursar) \in Nat /\ Cardinality(T) <= Cardinality(Bursar)
  BY BillingConstants, FS_Subset, FS_CardinalityType

LEMMA BillingTypes == BillingIInv => BillingTypeOK
  <1> SUFFICES ASSUME BillingIInv PROVE BillingTypeOK
    OBVIOUS
  <1>1. ASSUME NEW k \in Child, NEW f \in Structure
        PROVE  /\ Len(billed[<<k, f>>]) <= Cardinality(Bursar)
               /\ \A i \in 1 .. Len(billed[<<k, f>>]) : billed[<<k, f>>][i] \in Obligation
    <2>1. PICK b : b = billed[<<k, f>>]
      OBVIOUS
    <2>2. b \in Seq(Obligation)
      BY <2>1 DEF BillingIInv, BillsTyped
    <2>3. Len(b) \in Nat /\ \A i \in 1 .. Len(b) : b[i] \in Obligation
      BY <2>2
    <2>4. PICK n, m : n = Cardinality(Writers(k, f)) /\ m = Cardinality(Bursar)
      OBVIOUS
    <2>5. n \in Nat /\ m \in Nat
      BY <2>4, BursarCount DEF Writers
    <2>6. Len(b) + n <= m
      BY <2>1, <2>4 DEF BillingIInv, BillKept
    <2> QED BY <2>1, <2>3, <2>4, <2>5, <2>6
  <1> QED BY <1>1 DEF BillingIInv, BillsTyped, BillingTypeOK, Run, Place

(* Structures and children a term may begin with.                           *)
LEMMA BillingStartIInv ==
  ASSUME NEW fs, NEW ks, DOMAIN fs \subseteq Structure, DOMAIN ks \subseteq Child,
         \A f \in DOMAIN fs : fs[f] \in Tariff, \A k \in DOMAIN ks : ks[k] \in Form,
         Bursar # {}, BillingStart(fs, ks)
  PROVE  BillingIInv
  <1> DEFINE bill(f) == [due |-> fs[f].kobo, waived |-> FALSE, payments |-> <<>>]
  <1>1. \A f \in DOMAIN fs : bill(f) \in Obligation
    BY DEF Tariff, Obligation
  <1>2. billed = [x \in Child \X Structure |->
                     IF x[1] \in DOMAIN ks /\ x[2] \in DOMAIN fs THEN <<bill(x[2])>> ELSE <<>>]
    BY DEF BillingStart
  <1> HIDE DEF bill
  <1>3. billed \in [Child \X Structure -> Seq(Obligation)]
    BY <1>1, <1>2
  <1>4. structure \in [Structure -> Tariff \cup {Null}]
    BY DEF BillingStart
  <1>5. sits \in [Child -> Place \cup {Null}]
    BY DEF BillingStart, Place
  <1>6. BillsTyped /\ \A r \in Bursar : billing[r].op = "idle"
    BY <1>3, <1>4, <1>5, BillingConstants DEF BillingStart, BillsTyped
  <1>7. ASSUME NEW k \in Child, NEW f \in Structure PROVE BillKept(k, f)
    <2>1. Len(billed[<<k, f>>]) \in {0, 1} /\ (Len(billed[<<k, f>>]) > 0 => k \in DOMAIN ks /\ f \in DOMAIN fs)
      <3>1. billed[<<k, f>>] = IF k \in DOMAIN ks /\ f \in DOMAIN fs THEN <<bill(f)>> ELSE <<>>
        BY <1>2
      <3>2. Len(<<bill(f)>>) = 1 /\ Len(<<>>) = 0
        OBVIOUS
      <3> QED BY <3>1, <3>2
    <2>2. Writers(k, f) = {}
      BY <1>6 DEF Writers
    <2>3. Cardinality(Writers(k, f)) = 0 /\ Cardinality(Bursar) \in Nat /\ Cardinality(Bursar) # 0
      BY <2>2, BursarCount, BillingConstants, FS_EmptySet
    <2>4. k \in DOMAIN ks => sits[k] # Null
      <3>1. ASSUME k \in DOMAIN ks PROVE sits[k] \in Place
        BY <3>1 DEF BillingStart, Place
      <3> QED BY <3>1, BillingConstants
    <2>5. f \in DOMAIN fs => structure[f] # Null
      BY BillingConstants DEF BillingStart
    <2>6. PICK l, n, m : l = Len(billed[<<k, f>>]) /\ n = Cardinality(Writers(k, f)) /\ m = Cardinality(Bursar)
      OBVIOUS
    <2>7. l \in {0, 1} /\ n = 0 /\ m \in Nat /\ m # 0
      BY <2>1, <2>3, <2>6
    <2>8. l + n <= m
      BY <2>7
    <2> QED BY <2>1, <2>4, <2>5, <2>6, <2>8 DEF BillKept
  <1> QED BY <1>6, <1>7 DEF BillingIInv, RunKept

(* Structures and enrolments come and change, and none of them disappears.  *)
LEMMA BillingRowsIInv ==
  ASSUME BillingIInv, BillsTyped', UNCHANGED <<billed, doubled, billing>>,
         \A f \in Structure : structure[f] # Null =>
             structure'[f] # Null /\ structure'[f].termly = structure[f].termly,
         \A k \in Child : sits[k] # Null => sits'[k] # Null
  PROVE  BillingIInv'
  <1>1. \A k \in Child, f \in Structure : BillKept(k, f)'
    <2> SUFFICES ASSUME NEW k \in Child, NEW f \in Structure PROVE BillKept(k, f)'
      OBVIOUS
    <2>1. BillKept(k, f) /\ Writers(k, f)' = Writers(k, f)
      BY DEF BillingIInv, Writers
    <2>2. Len(billed[<<k, f>>]) \in Nat
      BY DEF BillingIInv, BillsTyped
    <2> QED BY <2>1, <2>2 DEF BillKept
  <1>2. \A r \in Bursar : RunKept(r)'
    BY DEF BillingIInv, RunKept, BillsTyped, Run
  <1> QED BY <1>1, <1>2 DEF BillingIInv

LEMMA FeeRowsIInv ==
  ASSUME BillingIInv,
         \/ \E f \in Structure, x \in Offer : CreateFeeStructure(f, x) \/ UpdateFeeStructure(f, x.scope, x.kobo)
         \/ \E f \in Structure : DeleteFeeStructure(f)
         \/ \E k \in Child : ChildLeaves(k) \/ \E c \in Form : Enrol(k, c) \/ MoveChild(k, c)
  PROVE  BillingIInv'
  <1>1. structure \in [Structure -> Tariff \cup {Null}] /\ sits \in [Child -> Place \cup {Null}]
    BY DEF BillingIInv, BillsTyped
  <1>2. ASSUME NEW f \in Structure, NEW x \in Tariff, structure' = [structure EXCEPT ![f] = x],
               structure[f] # Null => x.termly = structure[f].termly,
               UNCHANGED <<gone, sits, billed, doubled, billing>>
        PROVE  BillingIInv'
    BY <1>1, <1>2, BillingRowsIInv, BillingConstants DEF BillingIInv, BillsTyped
  <1>3. ASSUME NEW k \in Child, NEW x \in Place, sits' = [sits EXCEPT ![k] = x],
               UNCHANGED <<structure, gone, billed, doubled, billing>>
        PROVE  BillingIInv'
    BY <1>1, <1>3, BillingRowsIInv, BillingConstants DEF BillingIInv, BillsTyped
  <1>4. ASSUME NEW f \in Structure, NEW x \in Offer, CreateFeeStructure(f, x) PROVE BillingIInv'
    BY <1>2, <1>4, BillingAssumption DEF CreateFeeStructure
  <1>5. ASSUME NEW f \in Structure, NEW x \in Offer, UpdateFeeStructure(f, x.scope, x.kobo) PROVE BillingIInv'
    <2>1. PICK y : y = [[structure[f] EXCEPT !.scope = x.scope] EXCEPT !.kobo = x.kobo]
      OBVIOUS
    <2>2. structure[f] \in Tariff /\ x \in Tariff
      BY <1>1, <1>5, BillingAssumption DEF UpdateFeeStructure, OnOffer
    <2>3. y \in Tariff /\ y.termly = structure[f].termly
      BY <2>1, <2>2 DEF Tariff
    <2>4. structure' = [structure EXCEPT ![f] = y]
      BY <1>1, <1>5, <2>1 DEF UpdateFeeStructure
    <2> QED BY <1>2, <1>5, <2>3, <2>4 DEF UpdateFeeStructure
  <1>6. ASSUME NEW f \in Structure, DeleteFeeStructure(f) PROVE BillingIInv'
    BY <1>1, <1>6, BillingRowsIInv DEF DeleteFeeStructure, BillingIInv, BillsTyped
  <1>7. ASSUME NEW k \in Child, NEW c \in Form, Enrol(k, c) PROVE BillingIInv'
    BY <1>3, <1>7 DEF Enrol, Place
  <1>8. ASSUME NEW k \in Child, NEW c \in Form, MoveChild(k, c) PROVE BillingIInv'
    <2>1. PICK y : y = [sits[k] EXCEPT !.form = c]
      OBVIOUS
    <2>2. sits[k] \in Place
      BY <1>1, <1>8 DEF MoveChild
    <2>3. y \in Place /\ sits' = [sits EXCEPT ![k] = y]
      BY <1>8, <2>1, <2>2 DEF MoveChild, Place
    <2> QED BY <1>3, <1>8, <2>3 DEF MoveChild
  <1>9. ASSUME NEW k \in Child, ChildLeaves(k) PROVE BillingIInv'
    <2>1. PICK y : y = [sits[k] EXCEPT !.active = FALSE]
      OBVIOUS
    <2>2. sits[k] \in Place
      BY <1>1, <1>9 DEF ChildLeaves
    <2>3. y \in Place /\ sits' = [sits EXCEPT ![k] = y]
      BY <1>9, <2>1, <2>2 DEF ChildLeaves, Place
    <2> QED BY <1>3, <1>9, <2>3 DEF ChildLeaves
  <1> QED BY <1>4, <1>5, <1>6, <1>7, <1>8, <1>9

(* A generation takes its next step; one that is about to write now, and    *)
(* was not before, has seen no bill.                                        *)
LEMMA RunIInv ==
  ASSUME BillingIInv, NEW r \in Bursar, NEW j \in Run, billing' = [billing EXCEPT ![r] = j],
         UNCHANGED <<structure, gone, sits, billed, doubled>>,
         j.op # "idle" => /\ j.of \in Structure /\ structure[j.of] # Null /\ j.kobo \in Kobo /\ j.scope \in Target
                          /\ \A k \in j.among \cup j.new : sits[k] # Null,
         j.op = "write" => \A k \in j.new : billed[<<k, j.of>>] = <<>>
  PROVE  BillingIInv'
  <1>1. billing'[r] = j /\ \A q \in Bursar \ {r} : billing'[q] = billing[q]
    BY DEF BillingIInv, BillsTyped
  <1>2. BillsTyped'
    BY DEF BillingIInv, BillsTyped
  <1>3. ASSUME NEW k \in Child, NEW f \in Structure PROVE BillKept(k, f)'
    <2>1. BillKept(k, f) /\ Len(billed[<<k, f>>]) \in Nat /\ (billed[<<k, f>>] = <<>> => Len(billed[<<k, f>>]) = 0)
      BY DEF BillingIInv, BillsTyped
    <2>2. PICK W, V : W = Writers(k, f) /\ V = Writers(k, f)'
      OBVIOUS
    <2>3. W \in SUBSET Bursar /\ V \in SUBSET Bursar
      BY <2>2 DEF Writers
    <2>4. billed[<<k, f>>] # <<>> => V \subseteq W
      BY <1>1, <2>2 DEF Writers
    <2>5. Cardinality(V) \in Nat /\ Cardinality(W) \in Nat /\ Cardinality(Bursar) \in Nat
          /\ Cardinality(V) <= Cardinality(Bursar)
      BY <2>3, BursarCount
    <2>6. V \subseteq W => Cardinality(V) <= Cardinality(W)
      BY <2>3, BursarCount, FS_Subset
    <2>7. Len(billed[<<k, f>>]) + Cardinality(V) <= Cardinality(Bursar)
      BY <2>1, <2>2, <2>4, <2>5, <2>6 DEF BillKept
    <2> QED BY <2>1, <2>2, <2>7 DEF BillKept
  <1>4. \A q \in Bursar : RunKept(q)'
    <2>1. RunKept(r)'
      <3>1. j.op = "write" => \A k \in j.new : ~(Len(billed[<<k, j.of>>]) > 0)
        OBVIOUS
      <3> QED BY <1>1, <3>1 DEF RunKept
    <2> QED BY <1>1, <2>1 DEF BillingIInv, RunKept
  <1> QED BY <1>2, <1>3, <1>4 DEF BillingIInv

LEMMA GenerationIInv ==
  ASSUME BillingIInv, NEW r \in Bursar,
         (\E f \in Structure : ReadStructure(r, f)) \/ FindEnrolled(r) \/ FindExisting(r) \/ AbortRun(r)
  PROVE  BillingIInv'
  <1>1. structure \in [Structure -> Tariff \cup {Null}] /\ billing[r] \in Run /\ billing \in [Bursar -> Run]
    BY DEF BillingIInv, BillsTyped
  <1>2. RunKept(r)
    BY DEF BillingIInv
  <1>3. NoRun \in Run /\ NoRun.op = "idle"
    BY BillingConstants
  <1>4. ASSUME NEW f \in Structure, ReadStructure(r, f) PROVE BillingIInv'
    <2>1. PICK j : j = [NoRun EXCEPT !.op = "enrolled", !.of = f,
                           !.kobo = structure[f].kobo, !.scope = structure[f].scope]
      OBVIOUS
    <2>2. structure[f] # Null /\ structure[f] \in Tariff
      BY <1>1, <1>4 DEF ReadStructure, OnOffer
    <2>3. j = [op |-> "enrolled", of |-> f, kobo |-> structure[f].kobo, scope |-> structure[f].scope,
               among |-> {}, new |-> {}]
      BY <2>1 DEF NoRun
    <2>4. /\ j \in Run /\ j.op = "enrolled" /\ j.of = f /\ j.kobo \in Kobo /\ j.scope \in Target
          /\ j.among \cup j.new = {}
      BY <2>2, <2>3 DEF Run, Tariff
    <2>5. billing' = [billing EXCEPT ![r] = j] /\ UNCHANGED <<structure, gone, sits, billed, doubled>>
      BY <1>4, <2>1 DEF ReadStructure
    <2> QED BY <2>2, <2>4, <2>5, RunIInv
  <1>5. ASSUME FindEnrolled(r) PROVE BillingIInv'
    <2>1. PICK ks : ks = InScope(billing[r].scope)
      OBVIOUS
    <2>2. ks \subseteq Child /\ \A k \in ks : sits[k] # Null
      BY <2>1 DEF InScope
    <2>3. PICK j : j = IF ks = {} THEN NoRun ELSE [[billing[r] EXCEPT !.op = "existing"] EXCEPT !.among = ks]
      OBVIOUS
    <2>4. billing' = [billing EXCEPT ![r] = j] /\ UNCHANGED <<structure, gone, sits, billed, doubled>>
          /\ billing[r].op = "enrolled"
      BY <1>1, <1>5, <2>1, <2>3 DEF FindEnrolled
    <2>5. /\ j \in Run /\ j.op \in {"idle", "existing"}
          /\ j.op # "idle" => /\ j.of = billing[r].of /\ j.kobo = billing[r].kobo /\ j.scope = billing[r].scope
                             /\ j.among = ks /\ j.new = billing[r].new
      BY <1>1, <1>3, <2>2, <2>3 DEF Run
    <2>6. j.op # "idle" => /\ j.of \in Structure /\ structure[j.of] # Null /\ j.kobo \in Kobo /\ j.scope \in Target
                           /\ \A k \in j.among \cup j.new : sits[k] # Null
      BY <1>2, <2>2, <2>4, <2>5 DEF RunKept
    <2> QED BY <2>4, <2>5, <2>6, RunIInv
  <1>6. ASSUME FindExisting(r) PROVE BillingIInv'
    <2>1. PICK new : new = billing[r].among \ BilledAlready(billing[r].of)
      OBVIOUS
    <2>2. PICK j : j = IF new = {} THEN NoRun ELSE [[billing[r] EXCEPT !.op = "write"] EXCEPT !.new = new]
      OBVIOUS
    <2>3. billing' = [billing EXCEPT ![r] = j] /\ UNCHANGED <<structure, gone, sits, billed, doubled>>
          /\ billing[r].op = "existing"
      BY <1>1, <1>6, <2>1, <2>2 DEF FindExisting
    <2>4. new \subseteq billing[r].among /\ new \subseteq Child /\ \A k \in new : billed[<<k, billing[r].of>>] = <<>>
      BY <1>1, <2>1 DEF BilledAlready, Run
    <2>5. /\ j \in Run /\ j.op \in {"idle", "write"}
          /\ j.op # "idle" => /\ j.of = billing[r].of /\ j.kobo = billing[r].kobo /\ j.scope = billing[r].scope
                             /\ j.among = billing[r].among /\ j.new = new
      BY <1>1, <1>3, <2>2, <2>4 DEF Run
    <2>6. j.op # "idle" => /\ j.of \in Structure /\ structure[j.of] # Null /\ j.kobo \in Kobo /\ j.scope \in Target
                           /\ \A k \in j.among \cup j.new : sits[k] # Null
      BY <1>2, <2>3, <2>4, <2>5 DEF RunKept
    <2> QED BY <2>3, <2>4, <2>5, <2>6, RunIInv
  <1>7. ASSUME AbortRun(r) PROVE BillingIInv'
    BY <1>3, <1>7, RunIInv DEF AbortRun
  <1> QED BY <1>4, <1>5, <1>6, <1>7

(* createMany adds at most one bill for a child and a structure, and one    *)
(* more generation is done.                                                 *)
LEMMA CreateManyIInv == ASSUME BillingIInv, NEW r \in Bursar, CreateMany(r) PROVE BillingIInv'
  <1> DEFINE j == billing[r]
             bill == [due |-> j.kobo, waived |-> FALSE, payments |-> <<>>]
  <1>1. /\ billing \in [Bursar -> Run] /\ billed \in [Child \X Structure -> Seq(Obligation)]
        /\ structure \in [Structure -> Tariff \cup {Null}] /\ doubled \subseteq Structure
    BY DEF BillingIInv, BillsTyped
  <1>2. /\ j.op = "write" /\ j.of \in Structure /\ structure[j.of] # Null /\ j.kobo \in Kobo
        /\ \A k \in j.new : sits[k] # Null /\ (Len(billed[<<k, j.of>>]) > 0 => j.of \in doubled)
    <2>1. RunKept(r) /\ j.op = "write"
      BY DEF BillingIInv, CreateMany
    <2> QED BY <2>1 DEF RunKept
  <1>3. CASE ~OnOffer(j.of)
    <2>1. billing' = [billing EXCEPT ![r] = NoRun] /\ UNCHANGED <<structure, gone, sits, billed, doubled>>
      BY <1>3 DEF CreateMany
    <2> QED BY <2>1, BillingConstants, RunIInv
  <1>4. CASE OnOffer(j.of)
    <2>1. /\ billing' = [billing EXCEPT ![r] = NoRun] /\ UNCHANGED <<structure, gone, sits>>
          /\ billed' = [x \in Child \X Structure |->
                  IF x[2] = j.of /\ x[1] \in j.new /\ ~Collides(x[1], x[2])
                  THEN Append(billed[x], bill) ELSE billed[x]]
          /\ doubled' = IF \E q \in Bursar \ {r} : billing[q].op = "write" /\ billing[q].of = j.of
                        THEN doubled \cup {j.of} ELSE doubled
      <3>1. DOMAIN billed = Child \X Structure
        BY <1>1
      <3> QED BY <1>4, <3>1 DEF CreateMany
    <2>2. bill \in Obligation
      BY <1>2 DEF Obligation
    <2> HIDE DEF bill
    <2>3. billed' \in [Child \X Structure -> Seq(Obligation)]
      <3>1. \A x \in Child \X Structure : Append(billed[x], bill) \in Seq(Obligation)
        BY <1>1, <2>2
      <3> QED BY <1>1, <2>1, <3>1
    <2>4. /\ billing' \in [Bursar -> Run] /\ billing'[r] = NoRun /\ \A q \in Bursar \ {r} : billing'[q] = billing[q]
          /\ doubled \subseteq doubled' /\ doubled' \subseteq Structure
      BY <1>1, <1>2, <2>1, BillingConstants
    <2>5. BillsTyped'
      BY <2>1, <2>3, <2>4 DEF BillingIInv, BillsTyped
    <2>6. ASSUME NEW k \in Child, NEW f \in Structure
          PROVE  /\ BillKept(k, f)'
                 /\ Len(billed'[<<k, f>>]) > 0 => \/ Len(billed[<<k, f>>]) > 0
                                                 \/ (f = j.of /\ k \in j.new)
      <3>1. PICK b, c : b = billed[<<k, f>>] /\ c = billed'[<<k, f>>]
        OBVIOUS
      <3>2. b \in Seq(Obligation) /\ (b = <<>> <=> Len(b) = 0) /\ Len(b) \in Nat
        BY <1>1, <3>1
      <3>3. Len(Append(b, bill)) = Len(b) + 1
        BY <2>2, <3>2
      <3>4. PICK W, V : W = Writers(k, f) /\ V = Writers(k, f)'
        OBVIOUS
      <3>5. /\ W \in SUBSET Bursar /\ V = W \ {r}
            /\ r \in W <=> f = j.of /\ k \in j.new
        BY <1>2, <2>4, <3>4, BillingConstants DEF Writers
      <3>6. /\ IsFiniteSet(W) /\ Cardinality(V) \in Nat /\ Cardinality(W) \in Nat /\ Cardinality(Bursar) \in Nat
            /\ Cardinality(V) <= Cardinality(W)
        BY <3>5, BursarCount, FS_Subset
      <3>7. r \in W => Cardinality(V) = Cardinality(W) - 1
        BY <3>5, <3>6, FS_RemoveElement
      <3>8. BillKept(k, f)
        BY DEF BillingIInv
      <3>9. CASE c = b
        <4>1. Len(c) + Cardinality(V) <= Cardinality(Bursar)
          BY <3>1, <3>2, <3>4, <3>6, <3>8, <3>9 DEF BillKept
        <4>2. Len(c) > 0 => structure'[f] # Null /\ sits'[k] # Null
          BY <2>1, <3>1, <3>8, <3>9 DEF BillKept
        <4>3. Len(c) > 1 => f \in doubled' /\ ~structure'[f].termly
          BY <2>1, <2>4, <3>1, <3>8, <3>9 DEF BillKept
        <4> QED BY <3>1, <3>4, <3>9, <4>1, <4>2, <4>3 DEF BillKept
      <3>10. CASE c # b
        <4>1. f = j.of /\ k \in j.new /\ ~Collides(k, f) /\ c = Append(b, bill)
          BY <2>1, <3>1, <3>10
        <4>2. Len(c) = Len(b) + 1 /\ r \in W /\ Cardinality(V) = Cardinality(W) - 1
          BY <3>3, <3>5, <3>7, <4>1
        <4>3. Len(c) + Cardinality(V) <= Cardinality(Bursar)
          BY <3>1, <3>2, <3>4, <3>6, <3>8, <4>2 DEF BillKept
        <4>4. structure'[f] # Null /\ sits'[k] # Null
          BY <1>2, <2>1, <4>1
        <4>5. Len(c) > 1 => f \in doubled' /\ ~structure'[f].termly
          <5>1. Len(c) > 1 => b # <<>> /\ Len(b) > 0
            BY <3>2, <4>2
          <5> QED BY <1>2, <2>1, <2>4, <3>1, <4>1, <5>1 DEF Collides
        <4> QED BY <3>1, <3>4, <4>1, <4>3, <4>4, <4>5 DEF BillKept
      <3> QED BY <3>9, <3>10
    <2>7. ASSUME NEW q \in Bursar PROVE RunKept(q)'
      <3>1. CASE q = r
        BY <2>4, <3>1, BillingConstants DEF RunKept
      <3>2. CASE q # r
        <4>1. PICK h : h = billing[q]
          OBVIOUS
        <4>2. h = billing'[q] /\ RunKept(q) /\ h \in Run
          BY <1>1, <2>4, <3>2, <4>1 DEF BillingIInv
        <4>3. ASSUME h.op = "write", NEW k \in h.new, Len(billed'[<<k, h.of>>]) > 0 PROVE h.of \in doubled'
          <5>1. h.of \in Structure /\ k \in Child
            BY <4>1, <4>2, <4>3 DEF RunKept, Run
          <5>2. Len(billed[<<k, h.of>>]) > 0 \/ h.of = j.of
            BY <2>6, <4>3, <5>1
          <5>3. Len(billed[<<k, h.of>>]) > 0 => h.of \in doubled
            BY <4>1, <4>2, <4>3 DEF RunKept
          <5>4. h.of = j.of => h.of \in doubled'
            BY <2>1, <3>2, <4>1, <4>3
          <5> QED BY <2>4, <5>2, <5>3, <5>4
        <4> QED BY <2>1, <4>1, <4>2, <4>3 DEF RunKept
      <3> QED BY <3>1, <3>2
    <2> QED BY <2>5, <2>6, <2>7 DEF BillingIInv
  <1> QED BY <1>3, <1>4

-----------------------------------------------------------------------------
(* Payments and waivers *)

LEMMA Bill == ASSUME BillsTyped, NEW x \in Bills
              PROVE  /\ x[1] \in Child /\ x[2] \in Structure /\ x[3] \in Nat /\ <<x[1], x[2]>> \in Child \X Structure
                     /\ billed[<<x[1], x[2]>>] \in Seq(Obligation) /\ x[3] \in 1 .. Len(billed[<<x[1], x[2]>>])
                     /\ At(x) = billed[<<x[1], x[2]>>][x[3]] /\ At(x) \in Obligation
  <1>1. /\ x \in Child \X Structure \X (1 .. Cardinality(Bursar)) /\ x[3] <= Len(billed[<<x[1], x[2]>>])
    BY DEF Bills
  <1>2. x[1] \in Child /\ x[2] \in Structure /\ x[3] \in Nat \ {0}
    BY <1>1, BursarCount
  <1>3. billed[<<x[1], x[2]>>] \in Seq(Obligation)
    BY <1>2 DEF BillsTyped
  <1>4. x[3] \in 1 .. Len(billed[<<x[1], x[2]>>])
    BY <1>1, <1>2, <1>3
  <1> QED BY <1>2, <1>3, <1>4 DEF At

(* A bill changes in place.                                                 *)
LEMMA BillIInv ==
  ASSUME BillingIInv, NEW x \in Bills, NEW o \in Obligation,
         billed' = [billed EXCEPT ![<<x[1], x[2]>>] = [@ EXCEPT ![x[3]] = o]],
         UNCHANGED <<structure, gone, sits, doubled, billing>>
  PROVE  BillingIInv'
  <1>1. BillsTyped
    BY DEF BillingIInv
  <1>2. PICK y, b, c : y = <<x[1], x[2]>> /\ b = billed[y] /\ c = [b EXCEPT ![x[3]] = o]
    OBVIOUS
  <1>3. y \in Child \X Structure /\ b \in Seq(Obligation) /\ x[3] \in 1 .. Len(b)
    BY <1>1, <1>2, Bill
  <1>4. c \in Seq(Obligation) /\ Len(c) = Len(b)
    BY <1>2, <1>3
  <1>5. billed' = [billed EXCEPT ![y] = c]
    BY <1>2
  <1>6. billed' \in [Child \X Structure -> Seq(Obligation)]
        /\ \A z \in Child \X Structure : Len(billed'[z]) = Len(billed[z])
    BY <1>1, <1>2, <1>3, <1>4, <1>5 DEF BillsTyped
  <1>7. BillsTyped'
    BY <1>1, <1>6 DEF BillsTyped
  <1>8. ASSUME NEW k \in Child, NEW f \in Structure PROVE BillKept(k, f)'
    <2>1. BillKept(k, f) /\ Writers(k, f)' = Writers(k, f) /\ Len(billed'[<<k, f>>]) = Len(billed[<<k, f>>])
      BY <1>6 DEF BillingIInv, Writers
    <2> QED BY <2>1 DEF BillKept
  <1>9. ASSUME NEW r \in Bursar PROVE RunKept(r)'
    <2>1. RunKept(r) /\ billing[r] \in Run
      BY <1>1 DEF BillingIInv, BillsTyped
    <2>2. billing[r].op # "idle" => \A k \in billing[r].new : Len(billed'[<<k, billing[r].of>>]) = Len(billed[<<k, billing[r].of>>])
      BY <1>6, <2>1 DEF RunKept, Run
    <2> QED BY <2>1, <2>2 DEF RunKept
  <1> QED BY <1>7, <1>8, <1>9 DEF BillingIInv

LEMMA PaymentsIInv ==
  ASSUME BillingIInv, NEW x \in Bills,
         \/ \E a \in Kobo : LogPayment(x, a)
         \/ \E i \in 1 .. Len(At(x).payments), v \in {"CONFIRMED", "REJECTED"} : DecidePayment(x, i, v)
         \/ \E a \in Kobo, w \in BOOLEAN : UpdateObligation(x, a, w)
  PROVE  BillingIInv'
  <1>1. BillsTyped
    BY DEF BillingIInv
  <1>2. PICK y, b, d : y = <<x[1], x[2]>> /\ b = billed[y] /\ d = b[x[3]]
    OBVIOUS
  <1>3. /\ y \in Child \X Structure /\ b \in Seq(Obligation) /\ x[3] \in 1 .. Len(b) /\ d \in Obligation
        /\ At(x) = d /\ billed \in [Child \X Structure -> Seq(Obligation)]
    BY <1>1, <1>2, Bill DEF BillsTyped
  <1>4. ASSUME NEW o \in Obligation, billed' = [billed EXCEPT ![y] = [b EXCEPT ![x[3]] = o]],
               UNCHANGED <<structure, gone, sits, doubled, billing>>
        PROVE  BillingIInv'
    BY <1>2, <1>4, BillIInv
  <1>5. PICK P : P = [kobo : Kobo, status : {"PENDING", "CONFIRMED", "REJECTED"}]
    OBVIOUS
  <1>6. Obligation = [due : Kobo, waived : BOOLEAN, payments : Seq(P)]
    BY <1>5 DEF Obligation
  <1>7. ASSUME NEW a \in Kobo, LogPayment(x, a) PROVE BillingIInv'
    <2>1. PICK p, ps, o : /\ p = [kobo |-> a, status |-> "PENDING"] /\ ps = Append(d.payments, p)
                          /\ o = [d EXCEPT !.payments = ps]
      OBVIOUS
    <2>2. p \in P
      BY <1>5, <2>1
    <2>3. ps \in Seq(P)
      BY <1>3, <1>6, <2>1, <2>2
    <2>4. o \in Obligation
      BY <1>3, <1>6, <2>1, <2>3
    <2>5. billed' = [billed EXCEPT ![y] = [b EXCEPT ![x[3]] = o]]
      BY <1>2, <1>3, <1>7, <2>1 DEF LogPayment
    <2> QED BY <1>4, <1>7, <2>4, <2>5 DEF LogPayment
  <1>8. ASSUME NEW i \in 1 .. Len(At(x).payments), NEW v \in {"CONFIRMED", "REJECTED"}, DecidePayment(x, i, v)
        PROVE  BillingIInv'
    <2>1. PICK p, ps, o : /\ p = [d.payments[i] EXCEPT !.status = v] /\ ps = [d.payments EXCEPT ![i] = p]
                          /\ o = [d EXCEPT !.payments = ps]
      OBVIOUS
    <2>2. d.payments \in Seq(P) /\ i \in 1 .. Len(d.payments)
      BY <1>3, <1>6
    <2>3. p \in P
      <3>1. PICK q : q = d.payments[i]
        OBVIOUS
      <3>2. q \in P /\ p = [q EXCEPT !.status = v]
        BY <2>1, <2>2, <3>1
      <3> QED BY <1>5, <3>2
    <2>4. ps \in Seq(P)
      BY <2>1, <2>2, <2>3
    <2>5. o \in Obligation
      BY <1>3, <1>6, <2>1, <2>4
    <2>6. billed' = [billed EXCEPT ![y] = [b EXCEPT ![x[3]] = o]]
      BY <1>2, <1>3, <1>8, <2>1 DEF DecidePayment
    <2> QED BY <1>4, <1>8, <2>5, <2>6 DEF DecidePayment
  <1>9. ASSUME NEW a \in Kobo, NEW w \in BOOLEAN, UpdateObligation(x, a, w) PROVE BillingIInv'
    <2>1. PICK o : o = [[d EXCEPT !.due = a] EXCEPT !.waived = w]
      OBVIOUS
    <2>2. o \in Obligation
      BY <1>3, <1>6, <2>1
    <2>3. PICK u, e : u = [d EXCEPT !.due = a] /\ e = [billed EXCEPT ![y] = [b EXCEPT ![x[3]] = u]]
      OBVIOUS
    <2>4. billed' = [e EXCEPT ![y][x[3]].waived = w]
      BY <1>2, <1>3, <1>9, <2>3 DEF UpdateObligation
    <2>5. e \in [Child \X Structure -> Seq(Obligation)] /\ e[y] = [b EXCEPT ![x[3]] = u] /\ e[y][x[3]] = u
      <3>1. u \in Obligation
        BY <1>3, <1>6, <2>3
      <3>2. [b EXCEPT ![x[3]] = u] \in Seq(Obligation)
        BY <1>3, <3>1
      <3> QED BY <1>3, <2>3, <3>2
    <2>6. [e[y] EXCEPT ![x[3]] = o] = [b EXCEPT ![x[3]] = o]
      BY <1>3, <2>5
    <2>7. billed' = [e EXCEPT ![y] = [e[y] EXCEPT ![x[3]] = o]]
      BY <2>1, <2>3, <2>4, <2>5
    <2>8. billed' = [billed EXCEPT ![y] = [b EXCEPT ![x[3]] = o]]
      BY <1>3, <2>3, <2>6, <2>7
    <2> QED BY <1>4, <1>9, <2>2, <2>8 DEF UpdateObligation
  <1> QED BY <1>7, <1>8, <1>9

LEMMA BillingNextIInv ==
  ASSUME NEW K \in SUBSET Child,
         BillingIInv, BillNext(K) \/ PayNext(K) \/ UNCHANGED billingVars
  PROVE  BillingIInv'
  <1>1. CASE BillNext(K)
    BY <1>1, FeeRowsIInv, GenerationIInv, CreateManyIInv DEF BillNext
  <1>2. CASE PayNext(K)
    BY <1>2, FeeRowsIInv, PaymentsIInv DEF PayNext
  <1>3. CASE UNCHANGED billingVars
    <2>1. BillsTyped'
      BY <1>3 DEF billingVars, BillingIInv, BillsTyped
    <2> QED BY <1>3, <2>1, BillingRowsIInv DEF billingVars
  <1> QED BY <1>1, <1>2, <1>3

LEMMA BilledOnceByBillingIInv == BillingIInv => BilledOnce
  BY DEF BillingIInv, BillKept, BilledOnce

-----------------------------------------------------------------------------
(* What the office reads *)

LEMMA BillsFinite == ASSUME NEW S \in SUBSET Bills PROVE IsFiniteSet(S)
  <1> DEFINE C == 1 .. Cardinality(Bursar)
             T == (Child \X Structure) \X C
             f == [x \in S |-> <<<<x[1], x[2]>>, x[3]>>]
  <1>1. IsFiniteSet(C)
    BY BursarCount, FS_Interval
  <1>2. IsFiniteSet(T)
    BY <1>1, BillingConstants, FS_Product
  <1>3. S \subseteq Child \X Structure \X C
    BY DEF Bills
  <1>4. f \in Injection(S, T)
    <2>1. f \in [S -> T]
      BY <1>3
    <2>2. \A x, y \in S : f[x] = f[y] => x = y
      BY <1>3
    <2> QED BY <2>1, <2>2 DEF Injection, IsInjective
  <1> HIDE DEF f, T
  <1> QED BY <1>2, <1>4, FS_Injection

(* Payments of a bill with status v, and what each is for.                  *)
Decided(x, v) == {i \in 1 .. Len(At(x).payments) : At(x).payments[i].status = v}
Amounts(x) == [i \in 1 .. Len(At(x).payments) |-> At(x).payments[i].kobo]

LEMMA PaymentsCount ==
  ASSUME BillsTyped, NEW x \in Bills, NEW v
  PROVE  /\ IsFiniteSet(Decided(x, v)) /\ 0 \notin Decided(x, v)
         /\ \A i \in Decided(x, v) : Amounts(x)[i] \in Nat \ {0} /\ Amounts(x)[i] = At(x).payments[i].kobo
  <1>1. PICK ps : ps = At(x).payments
    OBVIOUS
  <1>2. ps \in Seq([kobo : Kobo, status : {"PENDING", "CONFIRMED", "REJECTED"}])
    BY <1>1, Bill DEF Obligation
  <1>3. Len(ps) \in Nat /\ \A i \in 1 .. Len(ps) : ps[i].kobo \in Nat \ {0}
    <2>1. PICK P : P = [kobo : Kobo, status : {"PENDING", "CONFIRMED", "REJECTED"}]
      OBVIOUS
    <2>2. ps \in Seq(P)
      BY <1>2, <2>1
    <2>3. Len(ps) \in Nat /\ \A i \in 1 .. Len(ps) : ps[i] \in P
      BY <2>2
    <2>4. \A q \in P : q.kobo \in Nat \ {0}
      BY <2>1, BillingConstants
    <2> QED BY <2>3, <2>4
  <1>4. IsFiniteSet(1 .. Len(ps)) /\ Decided(x, v) \subseteq 1 .. Len(ps)
    BY <1>1, <1>3, FS_Interval DEF Decided
  <1>5. IsFiniteSet(Decided(x, v)) /\ 0 \notin Decided(x, v)
    BY <1>3, <1>4, FS_Subset
  <1>6. \A i \in 1 .. Len(ps) : Amounts(x)[i] = ps[i].kobo
    BY <1>1 DEF Amounts
  <1> QED BY <1>1, <1>3, <1>4, <1>5, <1>6

LEMMA PaidIs ==
  ASSUME BillsTyped, NEW x \in Bills, NEW v, NEW but
  PROVE  Paid(x, v, but) = SumFunctionOnSet(Amounts(x), Decided(x, v) \ {but})
  <1> DEFINE of == Decided(x, v) \ {but}
             F == [i \in of |-> At(x).payments[i].kobo]
  <1>1. Paid(x, v, but) = SumFunctionOnSet(F, of)
    <2>1. of = {i \in 1 .. Len(At(x).payments) : At(x).payments[i].status = v /\ i # but}
      BY DEF Decided
    <2>2. DOMAIN F = of
      OBVIOUS
    <2> QED BY <2>1, <2>2 DEF Paid, SumFunction
  <1>2. IsFiniteSet(of)
    BY PaymentsCount, FS_Subset
  <1>3. \A i \in of : F[i] = Amounts(x)[i]
    BY PaymentsCount
  <1> HIDE DEF F, of
  <1>4. SumFunctionOnSet(F, of) = SumFunctionOnSet(Amounts(x), of)
    BY <1>2, <1>3, SumSame
  <1> QED BY <1>1, <1>4 DEF of

(* What is paid of a bill, and what is not, are amounts.                    *)
LEMMA PaidType ==
  ASSUME BillsTyped, NEW x \in Bills, NEW v
  PROVE  /\ Paid(x, v, 0) \in Nat
         /\ Paid(x, v, 0) = 0 <=> Decided(x, v) = {}
         /\ At(x).due \in Nat /\ Balance(x) \in Int /\ Balance(x) = At(x).due - Paid(x, "CONFIRMED", 0)
  <1>1. /\ Paid(x, v, 0) \in Nat
        /\ Paid(x, v, 0) = 0 <=> Decided(x, v) = {}
    <2>1. PICK S, F, p : S = Decided(x, v) /\ F = Amounts(x) /\ p = SumFunctionOnSet(F, S)
      OBVIOUS
    <2>2. S \ {0} = S /\ IsFiniteSet(S) /\ \A i \in S : F[i] \in Nat /\ F[i] # 0
      BY <2>1, PaymentsCount
    <2>3. p \in Nat /\ (p = 0 <=> \A i \in S : F[i] = 0)
      BY <2>1, <2>2, SumZero
    <2>4. Paid(x, v, 0) = p
      BY <2>1, <2>2, PaidIs
    <2> QED BY <2>1, <2>2, <2>3, <2>4
  <1>2. At(x).due \in Nat
    BY Bill, BillingConstants DEF Obligation
  <1>3. Paid(x, "CONFIRMED", 0) \in Nat
    <2>1. PICK S, F, p : S = Decided(x, "CONFIRMED") /\ F = Amounts(x) /\ p = SumFunctionOnSet(F, S)
      OBVIOUS
    <2>2. S \ {0} = S /\ IsFiniteSet(S) /\ \A i \in S : F[i] \in Nat
      BY <2>1, PaymentsCount
    <2>3. p \in Nat
      BY <2>1, <2>2, SumZero
    <2>4. Paid(x, "CONFIRMED", 0) = p
      BY <2>1, <2>2, PaidIs
    <2> QED BY <2>3, <2>4
  <1> QED BY <1>1, <1>2, <1>3 DEF Balance

LEMMA DetailEndsAtBalance ==
  ASSUME BillsTyped, NEW x \in Bills, NEW i \in Decided(x, "CONFIRMED")
  PROVE  BalanceAfter(x, i) = Balance(x)
  <1>1. PICK S, F : S = Decided(x, "CONFIRMED") /\ F = Amounts(x)
    OBVIOUS
  <1>2. /\ S \ {0} = S /\ IsFiniteSet(S) /\ IsFiniteSet(S \ {i}) /\ i \in S
        /\ \A a \in S : F[a] \in Int /\ F[i] = At(x).payments[i].kobo
    BY <1>1, PaymentsCount, FS_Subset
  <1>3. PICK p, q : p = SumFunctionOnSet(F, S) /\ q = SumFunctionOnSet(F, S \ {i})
    OBVIOUS
  <1>4. p = F[i] + q /\ p \in Int /\ q \in Int /\ F[i] \in Int
    <2>1. p = F[i] + q
      BY <1>2, <1>3, SumRemove
    <2>2. p \in Int /\ q \in Int
      BY <1>2, <1>3, SumType
    <2> QED BY <1>2, <2>1, <2>2
  <1>5. Paid(x, "CONFIRMED", 0) = p /\ Paid(x, "CONFIRMED", i) = q
    BY <1>1, <1>2, <1>3, PaidIs
  <1>6. At(x).due \in Nat
    BY PaidType
  <1>7. PICK d, k : d = At(x).due /\ k = F[i]
    OBVIOUS
  <1>8. d - p = (d - q) - k
    BY <1>4, <1>6, <1>7
  <1> QED BY <1>2, <1>5, <1>7, <1>8 DEF BalanceAfter, BalanceBefore, Balance

(* The sums of the summary, as sums over one set of bills.                  *)
Dues == [x \in Bills |-> At(x).due]
Pays(v) == [x \in Bills |-> Paid(x, v, 0)]
Balances == [x \in Bills |-> Balance(x)]

LEMMA RowSums ==
  ASSUME BillsTyped, NEW rows \in SUBSET Bills
  PROVE  /\ IsFiniteSet(rows)
         /\ \A x \in rows : /\ Dues[x] \in Nat /\ \A v : Pays(v)[x] \in Nat
                            /\ Balances[x] \in Int /\ Balances[x] = Dues[x] - Pays("CONFIRMED")[x]
         /\ Expected(rows) = SumFunctionOnSet(Dues, Charged(rows))
         /\ Collected(rows) = SumFunctionOnSet(Pays("CONFIRMED"), rows)
         /\ Pending(rows) = SumFunctionOnSet(Pays("PENDING"), rows)
         /\ SumFunction([x \in rows |-> Balance(x)]) = SumFunctionOnSet(Balances, rows)
  <1>1. IsFiniteSet(rows) /\ Charged(rows) \subseteq rows /\ IsFiniteSet(Charged(rows))
    BY BillsFinite, FS_Subset DEF Charged
  <1>2. \A v : \A x \in rows :
           Dues[x] = At(x).due /\ Pays(v)[x] = Paid(x, v, 0) /\ Balances[x] = Balance(x)
    BY DEF Dues, Pays, Balances
  <1>3. \A v : \A x \in rows :
           /\ Dues[x] \in Nat /\ Pays(v)[x] \in Nat
           /\ Balances[x] \in Int /\ Balances[x] = Dues[x] - Pays("CONFIRMED")[x]
    BY <1>2, PaidType
  <1>4. Expected(rows) = SumFunctionOnSet(Dues, Charged(rows))
    <2> DEFINE F == [x \in Charged(rows) |-> At(x).due]
    <2>1. Expected(rows) = SumFunctionOnSet(F, Charged(rows))
      BY DEF Expected, SumFunction
    <2>2. \A x \in Charged(rows) : F[x] = Dues[x]
      BY <1>1, <1>2
    <2> HIDE DEF F
    <2> QED BY <1>1, <2>1, <2>2, SumSame
  <1>5. Collected(rows) = SumFunctionOnSet(Pays("CONFIRMED"), rows)
    <2> DEFINE F == [x \in rows |-> Paid(x, "CONFIRMED", 0)]
    <2>1. Collected(rows) = SumFunctionOnSet(F, rows)
      BY DEF Collected, SumFunction
    <2>2. \A x \in rows : F[x] = Pays("CONFIRMED")[x]
      BY <1>2
    <2> HIDE DEF F
    <2> QED BY <1>1, <2>1, <2>2, SumSame
  <1>6. Pending(rows) = SumFunctionOnSet(Pays("PENDING"), rows)
    <2> DEFINE F == [x \in rows |-> Paid(x, "PENDING", 0)]
    <2>1. Pending(rows) = SumFunctionOnSet(F, rows)
      BY DEF Pending, SumFunction
    <2>2. \A x \in rows : F[x] = Pays("PENDING")[x]
      BY <1>2
    <2> HIDE DEF F
    <2> QED BY <1>1, <2>1, <2>2, SumSame
  <1>7. SumFunction([x \in rows |-> Balance(x)]) = SumFunctionOnSet(Balances, rows)
    <2> DEFINE F == [x \in rows |-> Balance(x)]
    <2>1. SumFunction([x \in rows |-> Balance(x)]) = SumFunctionOnSet(F, rows)
      BY DEF SumFunction
    <2>2. \A x \in rows : F[x] = Balances[x]
      BY <1>2
    <2> HIDE DEF F
    <2> QED BY <1>1, <2>1, <2>2, SumSame
  <1> QED BY <1>1, <1>3, <1>4, <1>5, <1>6, <1>7

(* Expected less collected: what is charged and unpaid, less what was paid  *)
(* on rows not charged any more.                                            *)
LEMMA OutstandingIs ==
  ASSUME BillsTyped, NEW rows \in SUBSET Bills
  PROVE  /\ Expected(rows) - Collected(rows)
                = SumFunctionOnSet(Balances, Charged(rows)) - Collected(Excused(rows))
         /\ SumFunctionOnSet(Balances, Charged(rows)) \in Int /\ Collected(Excused(rows)) \in Int
  <1>1. /\ Charged(rows) \in SUBSET rows /\ Charged(rows) \in SUBSET Bills
        /\ Excused(rows) = rows \ Charged(rows) /\ Excused(rows) \in SUBSET Bills
    BY DEF Charged, Excused
  <1>2. PICK C, E, P, D, B : /\ C = Charged(rows) /\ E = Excused(rows) /\ P = Pays("CONFIRMED")
                             /\ D = Dues /\ B = Balances
    OBVIOUS
  <1>3. /\ IsFiniteSet(rows) /\ IsFiniteSet(C) /\ IsFiniteSet(E) /\ C \in SUBSET rows /\ E = rows \ C
        /\ \A x \in rows : P[x] \in Nat /\ D[x] \in Nat /\ B[x] = D[x] - P[x]
    BY <1>1, <1>2, RowSums
  <1>4. Expected(rows) = SumFunctionOnSet(D, C) /\ Collected(rows) = SumFunctionOnSet(P, rows)
        /\ Collected(E) = SumFunctionOnSet(P, E)
    BY <1>1, <1>2, RowSums
  <1>5. SumFunctionOnSet(P, rows) = SumFunctionOnSet(P, C) + SumFunctionOnSet(P, E)
    <2>1. \A x \in rows : P[x] \in Int
      BY <1>3
    <2> QED BY <1>3, <2>1, SumSplit
  <1>6. SumFunctionOnSet(B, C) = SumFunctionOnSet(D, C) - SumFunctionOnSet(P, C)
    <2>1. \A x \in C : D[x] \in Int /\ P[x] \in Int /\ B[x] = D[x] - P[x]
      BY <1>3
    <2> QED BY <1>3, <2>1, SumMinus
  <1>7. PICK dc, pc, pe, pr, bc : /\ dc = SumFunctionOnSet(D, C) /\ pc = SumFunctionOnSet(P, C)
                                  /\ pe = SumFunctionOnSet(P, E) /\ pr = SumFunctionOnSet(P, rows)
                                  /\ bc = SumFunctionOnSet(B, C)
    OBVIOUS
  <1>8. dc \in Int /\ pc \in Int /\ pe \in Int
    <2>1. \A x \in C : D[x] \in Int /\ P[x] \in Int
      BY <1>3
    <2>2. \A x \in E : P[x] \in Int
      BY <1>3
    <2> QED BY <1>3, <1>7, <2>1, <2>2, SumType
  <1>9. dc - pr = bc - pe /\ bc \in Int
    BY <1>5, <1>6, <1>7, <1>8
  <1> QED BY <1>2, <1>4, <1>7, <1>8, <1>9

(* The rows of a class, child by child.                                     *)
LEMMA ClassIsItsChildren ==
  ASSUME BillsTyped, NEW fs, NEW c \in Form,
         NEW here, here = {k \in Child : sits[k] # Null /\ sits[k].form = c}
  PROVE  SumFunctionOnSet(Balances, Charged(ClassRows(fs, c))) = SumFunction([k \in here |-> Owes(fs, k)])
  <1> DEFINE G == [k \in here |-> Owes(fs, k)]
             g == [x \in Bills |-> x[1]]
             Of(k) == Charged({y \in ObligationScope(fs) : y[1] = k})
  <1>1. PICK S : S = Charged(ClassRows(fs, c))
    OBVIOUS
  <1>2. S \in SUBSET Bills /\ \A x \in S : x[1] \in here /\ g[x] = x[1]
    BY <1>1, Bill DEF Charged, ClassRows, ObligationScope
  <1>3. \A k \in here : {x \in S : g[x] = k} = Of(k) /\ Of(k) \in SUBSET Bills
    BY <1>1, <1>2 DEF Charged, ClassRows, ObligationScope
  <1>4. \A k \in here : G[k] = SumFunctionOnSet(Balances, Of(k))
    <2> SUFFICES ASSUME NEW k \in here PROVE G[k] = SumFunctionOnSet(Balances, Of(k))
      OBVIOUS
    <2>1. G[k] = SumFunction([x \in Of(k) |-> Balance(x)])
      BY DEF Owes
    <2> HIDE DEF Of
    <2> QED BY <1>3, <2>1, RowSums
  <1>5. IsFiniteSet(here) /\ IsFiniteSet(S) /\ \A x \in S : Balances[x] \in Int
    BY <1>2, BillingConstants, FS_Subset, RowSums
  <1>6. SumFunction([k \in here |-> Owes(fs, k)]) = SumFunctionOnSet(G, here)
    BY DEF SumFunction
  <1> HIDE DEF G, g, Of
  <1>7. \A k \in here : G[k] = SumFunctionOnSet(Balances, {x \in S : g[x] = k})
    BY <1>3, <1>4
  <1>8. \A x \in S : g[x] \in here
    BY <1>2
  <1>9. SumFunctionOnSet(G, here) = SumFunctionOnSet(Balances, S)
    <2>1. PICK P : P = [k \in here |-> {x \in S : g[x] = k}]
      OBVIOUS
    <2>2. \A k \in here : P[k] = {x \in S : g[x] = k} /\ G[k] = SumFunctionOnSet(Balances, P[k])
      BY <1>7, <2>1
    <2>3. \A k \in here : P[k] \subseteq S /\ \A x \in S : x \in P[k] <=> g[x] = k
      BY <2>2
    <2> QED BY <1>5, <1>8, <2>2, <2>3, SumGroup
  <1> QED BY <1>1, <1>6, <1>9

(* Nothing pending, or nothing collected: no such payment on any bill.      *)
LEMMA NothingOnRows ==
  ASSUME BillsTyped, NEW rows \in SUBSET Bills, NEW v
  PROVE  /\ SumFunctionOnSet(Pays(v), rows) \in Nat
         /\ SumFunctionOnSet(Pays(v), rows) = 0 <=> \A x \in rows : Decided(x, v) = {}
  <1>1. PICK P : P = Pays(v)
    OBVIOUS
  <1>2. IsFiniteSet(rows) /\ \A x \in rows : P[x] \in Nat
    BY <1>1, RowSums
  <1>3. \A x \in rows : P[x] = 0 <=> Decided(x, v) = {}
    BY <1>1, PaidType DEF Pays
  <1>4. /\ SumFunctionOnSet(P, rows) \in Nat
        /\ SumFunctionOnSet(P, rows) = 0 <=> \A x \in rows : P[x] = 0
    BY <1>2, SumZero
  <1> QED BY <1>1, <1>3, <1>4

LEMMA NothingCounted ==
  ASSUME BillsTyped, NEW fs, NEW v
  PROVE  PaymentCount(fs, v) = 0 <=> \A x \in Bills : x[2] \in fs => Decided(x, v) = {}
  <1> DEFINE rows == {y \in Bills : y[2] \in fs}
             F == [x \in rows |-> Cardinality(Decided(x, v))]
  <1>1. PaymentCount(fs, v) = SumFunctionOnSet(F, rows)
    BY DEF PaymentCount, SumFunction, Decided
  <1>2. \A x \in rows : F[x] \in Nat /\ (F[x] = 0 <=> Decided(x, v) = {})
    BY PaymentsCount, FS_CardinalityType, FS_EmptySet
  <1>3. IsFiniteSet(rows)
    BY BillsFinite
  <1> HIDE DEF F
  <1>4. SumFunctionOnSet(F, rows) = 0 <=> \A x \in rows : F[x] = 0
    BY <1>2, <1>3, SumZero
  <1> QED BY <1>1, <1>2, <1>4

(* Every bill is in the scope of the summary, in the class of its child.    *)
LEMMA EveryBillHasAClass ==
  ASSUME BillingIInv, NEW fs, NEW x \in Bills, x[2] \in fs
  PROVE  \E c \in DOMAIN GetFeesSummary(fs) : x \in ClassRows(fs, c)
  <1>1. BillsTyped
    BY DEF BillingIInv
  <1>2. x[1] \in Child /\ x[2] \in Structure /\ x[3] \in 1 .. Len(billed[<<x[1], x[2]>>])
        /\ billed[<<x[1], x[2]>>] \in Seq(Obligation)
    BY <1>1, Bill
  <1>3. Len(billed[<<x[1], x[2]>>]) > 0
    BY <1>2
  <1>4. sits[x[1]] # Null /\ sits[x[1]].form \in Form
    <2>1. BillKept(x[1], x[2])
      BY <1>2 DEF BillingIInv
    <2>2. sits[x[1]] \in Place
      BY <1>1, <1>2, <1>3, <2>1 DEF BillKept, BillsTyped
    <2> QED BY <2>2, BillingConstants DEF Place
  <1>5. x \in ClassRows(fs, sits[x[1]].form)
    BY <1>4 DEF ClassRows, ObligationScope
  <1> QED BY <1>4, <1>5 DEF GetFeesSummary

(* The whole school's pending and collected money, and its payments.        *)
LEMMA NothingInAll ==
  ASSUME BillingIInv, NEW fs, NEW b \in {"pending", "collected"}, NEW v,
         v = IF b = "pending" THEN "PENDING" ELSE "CONFIRMED"
  PROVE  SumBuckets(GetFeesSummary(fs))[b] = 0 <=> PaymentCount(fs, v) = 0
  <1> DEFINE byClass == GetFeesSummary(fs)
             F == [c \in DOMAIN byClass |-> byClass[c][b]]
  <1>1. BillsTyped
    BY DEF BillingIInv
  <1>2. SumBuckets(byClass)[b] = SumFunctionOnSet(F, DOMAIN byClass)
    BY DEF SumBuckets, SumFunction
  <1>3. DOMAIN byClass = {d \in Form : ClassRows(fs, d) # {}}
    BY DEF GetFeesSummary
  <1>4. ASSUME NEW c \in DOMAIN byClass
        PROVE  /\ ClassRows(fs, c) \in SUBSET Bills
               /\ F[c] = SumFunctionOnSet(Pays(v), ClassRows(fs, c))
    <2>1. ClassRows(fs, c) \in SUBSET Bills
      BY DEF ClassRows, ObligationScope
    <2>2. byClass[c] = BucketsFromRow(ClassRows(fs, c))
      BY <1>3 DEF GetFeesSummary
    <2>3. F[c] = IF b = "pending" THEN Pending(ClassRows(fs, c)) ELSE Collected(ClassRows(fs, c))
      BY <2>2 DEF BucketsFromRow
    <2> QED BY <1>1, <2>1, <2>3, RowSums
  <1>5. \A c \in DOMAIN byClass : /\ F[c] \in Nat
                                  /\ F[c] = 0 <=> \A x \in ClassRows(fs, c) : Decided(x, v) = {}
    BY <1>1, <1>4, NothingOnRows
  <1>6. IsFiniteSet(DOMAIN byClass)
    BY <1>3, BillingConstants, FS_Subset
  <1>7. SumFunctionOnSet(F, DOMAIN byClass) = 0 <=> \A c \in DOMAIN byClass : F[c] = 0
    <2>1. PICK G, S : G = F /\ S = DOMAIN byClass
      OBVIOUS
    <2>2. IsFiniteSet(S) /\ \A c \in S : G[c] \in Nat
      BY <1>5, <1>6, <2>1
    <2>3. SumFunctionOnSet(G, S) = 0 <=> \A c \in S : G[c] = 0
      BY <2>2, SumZero
    <2> QED BY <2>1, <2>3
  <1>8. (\A c \in DOMAIN byClass : \A x \in ClassRows(fs, c) : Decided(x, v) = {})
            <=> \A x \in Bills : x[2] \in fs => Decided(x, v) = {}
    <2>1. \A c : \A x \in ClassRows(fs, c) : x \in Bills /\ x[2] \in fs
      BY DEF ClassRows, ObligationScope
    <2> QED BY <2>1, EveryBillHasAClass
  <1> QED BY <1>1, <1>2, <1>5, <1>7, <1>8, NothingCounted

LEMMA SummaryByBillingIInv == BillingIInv => SummaryMatchesDefaulters
  <1> SUFFICES ASSUME BillingIInv, NEW fs \in SUBSET Structure PROVE
        LET byClass == GetFeesSummary(fs)  all == SumBuckets(byClass) IN
        /\ \A c \in DOMAIN byClass :
              LET here == {k \in Child : sits[k] # Null /\ sits[k].form = c}
                  late == here \cap GetDefaultersReport(fs)
              IN byClass[c].outstanding =
                    SumFunction([k \in late |-> Owes(fs, k)]) + SumFunction([k \in here \ late |-> Owes(fs, k)])
                    - Collected(Excused(ClassRows(fs, c)))
        /\ \A x \in ObligationScope(fs) : \A i \in 1 .. Len(At(x).payments) :
              At(x).payments[i].status = "CONFIRMED" => BalanceAfter(x, i) = Balance(x)
        /\ (all.pending = 0) <=> (PaymentCount(fs, "PENDING") = 0)
        /\ (all.collected = 0) <=> (PaymentCount(fs, "CONFIRMED") = 0)
    BY DEF SummaryMatchesDefaulters
  <1> DEFINE byClass == GetFeesSummary(fs)
             all == SumBuckets(byClass)
  <1>1. BillsTyped
    BY DEF BillingIInv
  <1>2. ASSUME NEW c \in DOMAIN byClass,
               NEW here, here = {k \in Child : sits[k] # Null /\ sits[k].form = c},
               NEW late, late = here \cap GetDefaultersReport(fs)
        PROVE  byClass[c].outstanding =
                  SumFunction([k \in late |-> Owes(fs, k)]) + SumFunction([k \in here \ late |-> Owes(fs, k)])
                  - Collected(Excused(ClassRows(fs, c)))
    <2>1. c \in Form /\ ClassRows(fs, c) \in SUBSET Bills
      BY DEF GetFeesSummary, ClassRows, ObligationScope
    <2>2. byClass[c].outstanding = Expected(ClassRows(fs, c)) - Collected(ClassRows(fs, c))
      BY DEF GetFeesSummary, BucketsFromRow
    <2>3. PICK O : O = [k \in here |-> Owes(fs, k)]
      OBVIOUS
    <2>4. \A k \in here : O[k] \in Int
      <3> SUFFICES ASSUME NEW k \in here PROVE O[k] \in Int
        OBVIOUS
      <3>1. PICK S : S = Charged({y \in ObligationScope(fs) : y[1] = k})
        OBVIOUS
      <3>2. S \in SUBSET Bills
        BY <3>1 DEF Charged, ObligationScope
      <3>3. O[k] = SumFunctionOnSet(Balances, S)
        BY <1>1, <2>3, <3>1, <3>2, RowSums DEF Owes
      <3>4. IsFiniteSet(S) /\ \A x \in S : Balances[x] \in Int
        BY <1>1, <3>2, RowSums
      <3> QED BY <3>3, <3>4, SumType
    <2>5. late \in SUBSET here /\ IsFiniteSet(here) /\ IsFiniteSet(late) /\ IsFiniteSet(here \ late)
      BY <1>2, BillingConstants, FS_Subset
    <2>6. ASSUME NEW S \in SUBSET here PROVE SumFunction([k \in S |-> Owes(fs, k)]) = SumFunctionOnSet(O, S)
      <3>1. PICK F : F = [k \in S |-> Owes(fs, k)]
        OBVIOUS
      <3>2. SumFunction(F) = SumFunctionOnSet(F, S) /\ \A k \in S : F[k] = O[k]
        BY <2>3, <3>1 DEF SumFunction
      <3>3. IsFiniteSet(S)
        BY <2>5, FS_Subset
      <3> QED BY <3>1, <3>2, <3>3, SumSame
    <2>7. SumFunctionOnSet(O, here) = SumFunctionOnSet(O, late) + SumFunctionOnSet(O, here \ late)
      BY <2>4, <2>5, SumSplit
    <2>8. SumFunctionOnSet(Balances, Charged(ClassRows(fs, c))) = SumFunction([k \in here |-> Owes(fs, k)])
      BY <1>1, <1>2, <2>1, ClassIsItsChildren
    <2>9. Expected(ClassRows(fs, c)) - Collected(ClassRows(fs, c))
             = SumFunctionOnSet(Balances, Charged(ClassRows(fs, c))) - Collected(Excused(ClassRows(fs, c)))
      BY <1>1, <2>1, OutstandingIs
    <2>10. SumFunction([k \in here |-> Owes(fs, k)])
             = SumFunction([k \in late |-> Owes(fs, k)]) + SumFunction([k \in here \ late |-> Owes(fs, k)])
      BY <2>5, <2>6, <2>7
    <2>11. PICK l, r, w : /\ l = SumFunction([k \in late |-> Owes(fs, k)])
                          /\ r = SumFunction([k \in here \ late |-> Owes(fs, k)])
                          /\ w = Collected(Excused(ClassRows(fs, c)))
      OBVIOUS
    <2>12. byClass[c].outstanding = (l + r) - w
      BY <2>2, <2>8, <2>9, <2>10, <2>11
    <2>13. l \in Int /\ r \in Int /\ w \in Int
      <3>1. l = SumFunctionOnSet(O, late) /\ r = SumFunctionOnSet(O, here \ late)
        BY <2>5, <2>6, <2>11
      <3>2. l \in Int /\ r \in Int
        BY <2>4, <2>5, <3>1, SumType
      <3> QED BY <1>1, <2>1, <2>11, <3>2, OutstandingIs
    <2>14. byClass[c].outstanding = l + (r - w)
      BY <2>12, <2>13
    <2> QED BY <2>11, <2>14
  <1>3. ASSUME NEW x \in ObligationScope(fs), NEW i \in 1 .. Len(At(x).payments), At(x).payments[i].status = "CONFIRMED"
        PROVE  BalanceAfter(x, i) = Balance(x)
    BY <1>1, <1>3, DetailEndsAtBalance DEF ObligationScope, Decided
  <1>4. all.pending = 0 <=> PaymentCount(fs, "PENDING") = 0
    <2>1. SumBuckets(GetFeesSummary(fs))["pending"] = 0 <=> PaymentCount(fs, "PENDING") = 0
      BY NothingInAll
    <2> QED BY <2>1
  <1>5. all.collected = 0 <=> PaymentCount(fs, "CONFIRMED") = 0
    <2>1. SumBuckets(GetFeesSummary(fs))["collected"] = 0 <=> PaymentCount(fs, "CONFIRMED") = 0
      BY NothingInAll
    <2> QED BY <2>1
  <1> QED BY <1>2, <1>3, <1>4, <1>5

-----------------------------------------------------------------------------
(* Report cards *)

PenRow == [op : {"idle", "lock", "rate", "roll"}, term : Semester \cup {Null},
           value : Value \cup {Null}, found : BOOLEAN, terms : SUBSET Semester]

(* A request that rates has a term; one that holds its row keeps it a draft. *)
HoldsDraft(r) ==
    /\ pen[r].op \in {"lock", "rate"} => pen[r].term \in Semester /\ pen[r].value \in Value
    /\ pen[r].op = "rate" /\ pen[r].found => card[pen[r].term].status = "DRAFT"

ReportCardIInv == ReportCardTypeOK /\ \A r \in Pen : HoldsDraft(r)

LEMMA Pens == NoPen \in PenRow /\ NoPen.op = "idle"
  BY DEF NoPen, PenRow

LEMMA ReportCardInitIInv == ReportCardInit => ReportCardIInv
  <1> SUFFICES ASSUME ReportCardInit PROVE ReportCardIInv
    OBVIOUS
  <1>1. ReportCardTypeOK
    BY Pens, ReportCardAssumption DEF ReportCardInit, ReportCardTypeOK, NoCard, PenRow
  <1> QED BY <1>1, Pens DEF ReportCardInit, ReportCardIInv, HoldsDraft

(* The rows a rating in flight does not look at.                            *)
LEMMA OtherCardsIInv ==
  ASSUME ReportCardIInv, ReportCardTypeOK', UNCHANGED pen,
         \A t \in Semester : LockedByRater(t) => card'[t].status = card[t].status
  PROVE  ReportCardIInv'
  BY DEF ReportCardIInv, HoldsDraft, LockedByRater

LEMMA CardRowIInv ==
  ASSUME ReportCardIInv, NEW t \in Semester, ComputeCard(t) \/ FinalizeCard(t) \/ ReleaseCard(t)
  PROVE  ReportCardIInv'
  <1>1. /\ card' \in [Semester -> [status : {Null, "DRAFT", "FINALIZED"}, released : BOOLEAN]]
        /\ \A u \in Semester \ {t} : card'[u] = card[u]
        /\ UNCHANGED <<debt, rating, comment, overrides, trait, rollup, unlocked, pen>>
    <2>1. CASE ComputeCard(t)
      BY <2>1 DEF ComputeCard, ReportCardIInv, ReportCardTypeOK
    <2>2. CASE FinalizeCard(t)
      BY <2>2 DEF FinalizeCard, ReportCardIInv, ReportCardTypeOK
    <2>3. CASE ReleaseCard(t)
      BY <2>3 DEF ReleaseCard, ReportCardIInv, ReportCardTypeOK
    <2> QED BY <2>1, <2>2, <2>3
  <1>2. ReportCardTypeOK'
    BY <1>1 DEF ReportCardIInv, ReportCardTypeOK
  <1>3. LockedByRater(t) => card'[t].status = card[t].status
    <2>1. LockedByRater(t) => card[t].status = "DRAFT"
      BY DEF LockedByRater, ReportCardIInv, HoldsDraft
    <2>2. ~ReleaseCard(t) => ~LockedByRater(t)
      BY <2>1, ReportCardAssumption DEF ComputeCard, FinalizeCard
    <2>3. ReleaseCard(t) => card'[t].status = card[t].status
      BY DEF ReleaseCard, ReportCardIInv, ReportCardTypeOK
    <2> QED BY <2>2, <2>3
  <1> QED BY <1>1, <1>2, <1>3, OtherCardsIInv

LEMMA CardRowsIInv ==
  ASSUME ReportCardIInv,
         \/ \E t \in Semester, v \in Value : WriteDraftResultField(t, v) \/ OverrideComment(t, v)
         \/ \E d \in Debt, b \in -1 .. 1, o \in BOOLEAN : ChangeDebt(d, b, o)
         \/ \E on \in BOOLEAN : SetTrait(on)
         \/ UNCHANGED cardVars
  PROVE  ReportCardIInv'
  <1>1. ReportCardTypeOK' /\ UNCHANGED <<pen, card>>
    <2>1. CASE \E t \in Semester, v \in Value : WriteDraftResultField(t, v)
      BY <2>1 DEF WriteDraftResultField, ReportCardIInv, ReportCardTypeOK
    <2>2. CASE \E d \in Debt, b \in -1 .. 1, o \in BOOLEAN : ChangeDebt(d, b, o)
      BY <2>2 DEF ChangeDebt, ReportCardIInv, ReportCardTypeOK
    <2>3. CASE (\E on \in BOOLEAN : SetTrait(on)) \/ UNCHANGED cardVars
      BY <2>3 DEF SetTrait, cardVars, ReportCardIInv, ReportCardTypeOK
    <2>4. CASE \E t \in Semester, v \in Value : OverrideComment(t, v)
      <3>1. PICK t \in Semester, v \in Value : OverrideComment(t, v)
        BY <2>4
      <3>2. comment' \in [Semester -> Value \cup {Null}]
        BY <3>1 DEF OverrideComment, ReportCardIInv, ReportCardTypeOK
      <3>3. overrides' \in [Semester -> 0 .. MaxOverrides]
        BY <3>1, ReportCardAssumption DEF OverrideComment, ReportCardIInv, ReportCardTypeOK
      <3> QED BY <3>1, <3>2, <3>3 DEF OverrideComment, ReportCardIInv, ReportCardTypeOK
    <2> QED BY <2>1, <2>2, <2>3, <2>4
  <1> QED BY <1>1, OtherCardsIInv

(* A request goes on to `c`.                                                *)
LEMMA PenIInv ==
  ASSUME ReportCardIInv, NEW r \in Pen, NEW c \in PenRow, pen' = [pen EXCEPT ![r] = c], UNCHANGED card,
         c.op \in {"lock", "rate"} => c.term \in Semester /\ c.value \in Value,
         c.op = "rate" /\ c.found => card[c.term].status = "DRAFT",
         UNCHANGED <<debt, comment, overrides, trait>>, rating' \in [Semester -> Value \cup {Null}],
         rollup' \in SUBSET Semester, unlocked' \in SUBSET Semester
  PROVE  ReportCardIInv'
  <1>1. ReportCardTypeOK'
    BY DEF ReportCardIInv, ReportCardTypeOK, PenRow
  <1>2. pen'[r] = c /\ \A q \in Pen \ {r} : pen'[q] = pen[q]
    BY DEF ReportCardIInv, ReportCardTypeOK
  <1> QED BY <1>1, <1>2 DEF ReportCardIInv, HoldsDraft

LEMMA PenStepIInv ==
  ASSUME ReportCardIInv, NEW r \in Pen,
         \/ ReadFinalized(r) \/ WriteRollup(r) \/ AbortPen(r)
         \/ \E t \in Semester, v \in Value : CheckTrait(r, t, v)
         \/ LockResultsForUpdate(r) \/ WriteRating(r)
  PROVE  ReportCardIInv'
  <1>1. /\ pen[r] \in PenRow /\ rating \in [Semester -> Value \cup {Null}]
        /\ rollup \in SUBSET Semester /\ unlocked \in SUBSET Semester
    BY DEF ReportCardIInv, ReportCardTypeOK, PenRow
  <1>2. CASE ReadFinalized(r)
    <2> DEFINE final == {t \in Semester : IsFinalized(t)}
    <2>1. PICK c : c = [pen[r] EXCEPT !.op = "roll", !.terms = final]
      OBVIOUS
    <2>2. pen' = [pen EXCEPT ![r] = c]
      BY <1>2, <2>1 DEF ReadFinalized, ReportCardIInv, ReportCardTypeOK
    <2>3. c \in PenRow /\ c.op = "roll"
      BY <1>1, <2>1 DEF PenRow
    <2> QED BY <1>1, <1>2, <2>2, <2>3, PenIInv DEF ReadFinalized
  <1>3. CASE WriteRollup(r)
    <2>1. rollup' \in SUBSET Semester
      BY <1>1, <1>3 DEF WriteRollup, PenRow
    <2> QED BY <1>1, <1>3, <2>1, Pens, PenIInv DEF WriteRollup
  <1>4. CASE AbortPen(r)
    BY <1>1, <1>4, Pens, PenIInv DEF AbortPen
  <1>5. CASE \E t \in Semester, v \in Value : CheckTrait(r, t, v)
    <2>1. PICK t \in Semester, v \in Value : CheckTrait(r, t, v)
      BY <1>5
    <2> DEFINE c == [NoPen EXCEPT !.op = "lock", !.term = t, !.value = v]
    <2>2. c \in PenRow /\ c.op = "lock" /\ c.term = t /\ c.value = v
      BY DEF NoPen, PenRow
    <2> HIDE DEF c
    <2> QED BY <1>1, <2>1, <2>2, PenIInv DEF CheckTrait, c
  <1>6. CASE LockResultsForUpdate(r)
    <2>1. PICK t \in Semester : t = pen[r].term /\ pen[r].op = "lock" /\ pen[r].value \in Value
      BY <1>6 DEF LockResultsForUpdate, ReportCardIInv, HoldsDraft
    <2>2. CASE Ratable(t)
      <3>1. PICK c : c = [pen[r] EXCEPT !.op = "rate", !.found = (card[t].status # Null)]
        OBVIOUS
      <3>2. pen' = [pen EXCEPT ![r] = c]
        BY <1>6, <2>1, <2>2, <3>1 DEF LockResultsForUpdate, ReportCardIInv, ReportCardTypeOK
      <3>3. /\ c \in PenRow /\ c.op = "rate" /\ c.term = t /\ c.value \in Value
            /\ c.found => card[t].status # Null
        BY <1>1, <2>1, <3>1 DEF PenRow
      <3> QED BY <1>1, <1>6, <2>2, <3>2, <3>3, PenIInv DEF LockResultsForUpdate, Ratable
    <2>3. CASE ~Ratable(t)
      BY <1>1, <1>6, <2>1, <2>3, Pens, PenIInv DEF LockResultsForUpdate
    <2> QED BY <2>2, <2>3
  <1>7. CASE WriteRating(r)
    <2>1. pen[r].term \in Semester /\ pen[r].value \in Value
      BY <1>7 DEF WriteRating, ReportCardIInv, HoldsDraft
    <2>2. rating' \in [Semester -> Value \cup {Null}] /\ unlocked' \in SUBSET Semester
      BY <1>1, <1>7, <2>1 DEF WriteRating
    <2> QED BY <1>1, <1>7, <2>2, Pens, PenIInv DEF WriteRating
  <1> QED BY <1>2, <1>3, <1>4, <1>5, <1>6, <1>7

-----------------------------------------------------------------------------
LEMMA ReportCardNextIInv == ReportCardIInv /\ [ReportCardNext]_cardVars => ReportCardIInv'
  BY CardRowIInv, CardRowsIInv, PenStepIInv DEF ReportCardNext, PublishNext, RateNext

LEMMA ReportCardInvariance == ReportCardSpec => []ReportCardIInv
  BY ReportCardInitIInv, ReportCardNextIInv, PTL DEF ReportCardSpec

(* What a step leaves alone on a published card.                            *)
FrozenStep ==
    \A t \in Semester : IsFinalized(t) =>
        /\ comment'[t] # comment[t] => overrides'[t] = overrides[t] + 1
        /\ rating'[t] = rating[t] \/ t \in unlocked'

LEMMA FrozenByStep == ReportCardIInv /\ [ReportCardNext]_cardVars => FrozenStep
  <1> SUFFICES ASSUME ReportCardIInv, [ReportCardNext]_cardVars, NEW t \in Semester, IsFinalized(t)
               PROVE  /\ comment'[t] # comment[t] => overrides'[t] = overrides[t] + 1
                      /\ rating'[t] = rating[t] \/ t \in unlocked'
    BY DEF FrozenStep
  <1>1. CASE \E u \in Semester, v \in Value : WriteDraftResultField(u, v)
    BY <1>1 DEF WriteDraftResultField, IsFinalized, ReportCardIInv, ReportCardTypeOK
  <1>2. CASE \E r \in Pen : WriteRating(r)
    <2>1. PICK r \in Pen : WriteRating(r)
      BY <1>2
    <2>2. CASE pen[r].term = t
      BY <2>1, <2>2 DEF WriteRating, IsFinalized, ReportCardIInv, HoldsDraft
    <2>3. CASE pen[r].term # t
      BY <2>1, <2>3 DEF WriteRating, ReportCardIInv, ReportCardTypeOK
    <2> QED BY <2>1, <2>2, <2>3 DEF WriteRating
  <1>3. CASE UNCHANGED <<comment, rating>>
    BY <1>3
  <1>4. CASE \E u \in Semester, v \in Value : OverrideComment(u, v)
    BY <1>4 DEF OverrideComment, ReportCardIInv, ReportCardTypeOK
  <1> QED BY <1>1, <1>2, <1>3, <1>4 DEF ReportCardNext, PublishNext, RateNext, ComputeCard, FinalizeCard, ReleaseCard,
          ChangeDebt, ReadFinalized, WriteRollup, CheckTrait, LockResultsForUpdate, AbortPen, SetTrait, cardVars

(* A published card keeps its ratings, and its comments but for a recorded  *)
(* override, whatever was in flight when it was finalized, unless a rating  *)
(* was begun before the term had a Result row                               *)
(* (ratings.service.ts:77-146, results.service.ts:767-855).                 *)
THEOREM PublishedCardsAreFinal == ReportCardSpec => RatingsFrozen
  <1>1. ReportCardIInv /\ [ReportCardNext]_cardVars => [FrozenStep]_cardVars
    BY FrozenByStep
  <1>2. ReportCardSpec => [][FrozenStep]_cardVars
    BY <1>1, ReportCardInvariance, PTL DEF ReportCardSpec
  <1> QED BY <1>2 DEF RatingsFrozen, FrozenStep

(* What is withheld                                                         *)

(* Money owed on a set of obligations none of which is overpaid.            *)
LEMMA OutstandingPositive ==
  ASSUME ReportCardIInv, NEW ds \in SUBSET Debt, \A d \in ds : debt[d].balance >= 0
  PROVE  Outstanding(ds) > 0 <=> \E d \in ds : debt[d].balance > 0
  <1> DEFINE F == [d \in ds |-> debt[d].balance]
  <1>1. IsFiniteSet(ds)
    BY FS_Subset, ReportCardAssumption
  <1>2. \A d \in ds : F[d] = debt[d].balance /\ F[d] \in Nat
    BY DEF ReportCardIInv, ReportCardTypeOK
  <1>3. Outstanding(ds) = SumFunctionOnSet(F, ds)
    BY DEF Outstanding, SumFunction
  <1> HIDE DEF F
  <1> QED BY <1>1, <1>2, <1>3, SumPositive

LEMMA ListAgrees ==
  ASSUME ReportCardIInv, NEW t \in Semester
  PROVE  IF t \in DOMAIN ListResultsForStudent
         THEN ListResultsForStudent[t] = GetResultForStudentTerm(t)
         ELSE GetResultForStudentTerm(t) = "404"
  <1> DEFINE asked == {u \in {v \in Semester : IsFinalized(v)} : ~card[u].released}
  <1>1. DOMAIN ListResultsForStudent = {u \in Semester : IsFinalized(u)}
    BY DEF ListResultsForStudent
  <1>2. \A u \in DOMAIN ListResultsForStudent :
            ListResultsForStudent[u] = IF u \in BuildWithholdingMap(asked) THEN "WITHHELD" ELSE "shown"
    BY <1>1 DEF ListResultsForStudent
  <1>3. \A terms : BuildWithholdingMap(terms) \subseteq terms
    BY DEF BuildWithholdingMap
  <1>4. ASSUME t \in asked
        PROVE  t \in BuildWithholdingMap(asked) <=> t \in BuildWithholdingMap({t})
    <2>1. \A terms : t \in terms =>
             Matching(InWithholdingMap(terms), t) = {d \in Open(Debt) : DebtTerm[d] \in {t, Null}}
      BY DEF Matching, InWithholdingMap, Open
    <2>2. Matching(InWithholdingMap(asked), t) = Matching(InWithholdingMap({t}), t)
      BY <1>4, <2>1
    <2> QED BY <1>4, <2>2 DEF BuildWithholdingMap
  <1> QED BY <1>1, <1>2, <1>3, <1>4 DEF GetResultForStudentTerm

LEMMA RollupAgrees ==
  ASSUME ReportCardIInv, \A d \in Open(Debt) : debt[d].balance >= 0, rollup # {}
  PROVE  GetSessionResult = "WITHHELD" <=> \E t \in Semester : t \in BuildWithholdingMap({t})
  <1> DEFINE of(t) == {d \in Open(Debt) : DebtTerm[d] \in {t, Null}}
  <1>1. \A t : Matching(InWithholdingMap({t}), t) = of(t)
    BY DEF Matching, InWithholdingMap, Open
  <1>2. \A t : of(t) \in SUBSET Debt /\ \A d \in of(t) : debt[d].balance >= 0
    BY DEF Open
  <1>3. \A t \in Semester : t \in BuildWithholdingMap({t}) <=> \E d \in of(t) : debt[d].balance > 0
    BY <1>1, <1>2, OutstandingPositive DEF BuildWithholdingMap
  <1>4. GetSessionResult = "WITHHELD" <=> \E d \in Open(Debt) : debt[d].balance > 0
    <2>1. Open(Debt) \in SUBSET Debt
      BY DEF Open
    <2> QED BY <2>1, OutstandingPositive DEF GetSessionResult, WithholdingForSession
  <1>5. PICK u \in Semester : TRUE
    BY DEF ReportCardIInv, ReportCardTypeOK
  <1>6. \A d \in Open(Debt) : d \in of(DebtTerm[d]) /\ DebtTerm[d] \in Semester \cup {Null}
    BY ReportCardAssumption DEF Open
  <1>7. \A d \in Open(Debt) : DebtTerm[d] = Null => d \in of(u)
    OBVIOUS
  <1>8. \A t : of(t) \subseteq Open(Debt)
    OBVIOUS
  <1> HIDE DEF of
  <1> QED BY <1>3, <1>4, <1>5, <1>6, <1>7, <1>8

LEMMA WithheldByReportCardIInv == ReportCardIInv => WithheldConsistently
  BY ListAgrees, RollupAgrees DEF WithheldConsistently

-----------------------------------------------------------------------------
(* Notices *)

TaskRow == [op : {"idle", "post", "send", "rest", "update"}, kind : Kind \cup {Null},
            user : Addressee \cup {Null}, new : Address \cup {Null},
            queue : SUBSET Addressee, id : 0 .. MaxNotices, todo : SUBSET Channel,
            out : SUBSET Channel, to : Address \cup {Null}]

(* A change of e-mail has told, by the time its notice is sent, the address *)
(* it replaces; a task with a failed delivery goes on to nothing.           *)
Kept(t) ==
    /\ t.op \in {"idle", "rest"} => t.kind = Null /\ t.new = Null /\ t.queue = {}
    /\ t.op \notin {"idle", "rest"} => t.kind \in Kind
    /\ t.op # "idle" => t.user \in Addressee
    /\ t.kind = "EMAIL_CHANGED" => t.new \in Address /\ mailbox[t.user] # Null
    /\ t.op = "update" => t.kind = "EMAIL_CHANGED"
    /\ t.op \in Dispatching => t.id \in Id
    /\ /\ t.kind = "EMAIL_CHANGED"
       /\ t.op = "update" \/ (t.op = "send" /\ "EMAIL" \notin t.todo)
       => t.user \in mixed \/ t.to = mailbox[t.user]
SameAccount(s, t) == s.kind = "EMAIL_CHANGED" /\ t.kind = "EMAIL_CHANGED" /\ s.user = t.user
NoticesIInv ==
    /\ NoticesTypeOK
    /\ \A m \in Task : Kept(task[m])
    /\ \A m, q \in Task : m # q /\ SameAccount(task[m], task[q]) => task[m].user \in mixed

LEMMA NoticesConstants ==
  /\ NoTask \in TaskRow /\ NoTask.op = "idle" /\ NoTask.kind = Null /\ NoTask.new = Null /\ NoTask.queue = {}
  /\ Null \notin Addressee /\ Null \notin Address /\ Null \notin Kind
  /\ Kind = {"EMAIL_CHANGED", "CREDENTIALS_ISSUED", "FEE_REMINDER"}
  /\ \A k \in Kind : ChannelsOf[k] \subseteq Channel /\ "EMAIL" \in ChannelsOf[k]
  /\ MaxNotices \in Nat \ {0} /\ MaxExits \in Nat
  <1>1. Kind = {"EMAIL_CHANGED", "CREDENTIALS_ISSUED", "FEE_REMINDER"}
    BY DEF Kind, ChannelsOf
  <1>2. \A k \in Kind : ChannelsOf[k] \subseteq Channel /\ "EMAIL" \in ChannelsOf[k]
    BY <1>1 DEF ChannelsOf, Channel
  <1>3. /\ Null \notin Addressee /\ Null \notin Address /\ Null \notin Kind
        /\ MaxNotices \in Nat \ {0} /\ MaxExits \in Nat
    BY NoticesAssumption
  <1>4. NoTask \in TaskRow
    BY <1>3 DEF NoTask, TaskRow
  <1>5. NoTask.op = "idle" /\ NoTask.kind = Null /\ NoTask.new = Null /\ NoTask.queue = {}
    BY DEF NoTask
  <1> QED BY <1>1, <1>2, <1>3, <1>4, <1>5

LEMMA NoticesStartIInv ==
  ASSUME NEW held, DOMAIN held \subseteq Addressee, \A u \in DOMAIN held : held[u] \in Address, NoticesStart(held)
  PROVE  NoticesIInv
  <1>1. NoticesTypeOK
    <2>1. mailbox \in [Addressee -> Address \cup {Null}]
      BY DEF NoticesStart
    <2>2. loginOf \in [Addressee -> Address \cup {Null}]
      BY <2>1 DEF NoticesStart
    <2>3. server \in [open : BOOLEAN, exits : 0 .. MaxExits]
      BY NoticesConstants DEF NoticesStart
    <2>4. task \in [Task -> TaskRow]
      BY NoticesConstants DEF NoticesStart
    <2> QED BY <2>1, <2>2, <2>3, <2>4 DEF NoticesStart, NoticesTypeOK, TaskRow
  <1>2. \A m \in Task : task[m] = NoTask
    BY DEF NoticesStart
  <1> QED BY <1>1, <1>2, NoticesConstants DEF NoticesIInv, Kept, SameAccount, Dispatching

(* One task goes on, and no address changes.                                *)
LEMMA TaskIInv ==
  ASSUME NoticesIInv, NoticesTypeOK', NEW m \in Task, NEW j, task' = [task EXCEPT ![m] = j],
         mailbox' = mailbox, mixed \subseteq mixed', Kept(j)',
         j.kind = "EMAIL_CHANGED" =>
            \A q \in Task \ {m} : SameAccount(j, task[q]) => j.user \in mixed'
  PROVE  NoticesIInv'
  <1>1. task'[m] = j /\ \A q \in Task \ {m} : task'[q] = task[q]
    BY DEF NoticesIInv, NoticesTypeOK
  <1>2. ASSUME NEW q \in Task PROVE Kept(task[q])'
    <2>1. CASE q = m
      BY <1>1, <2>1 DEF Kept, Dispatching
    <2>2. CASE q # m
      BY <1>1, <2>2 DEF Kept, NoticesIInv
    <2> QED BY <2>1, <2>2
  <1>3. ASSUME NEW p \in Task, NEW q \in Task, p # q, SameAccount(task[p], task[q])' PROVE task'[p].user \in mixed'
    BY <1>1, <1>3 DEF NoticesIInv, SameAccount
  <1> QED BY <1>2, <1>3 DEF NoticesIInv

(* The address of an account changes: by the one task that is changing it,  *)
(* or where there was none.                                                 *)
LEMMA AddressIInv ==
  ASSUME NoticesIInv, NoticesTypeOK', NEW m \in Task, NEW j, task' = [task EXCEPT ![m] = j],
         NEW u \in Addressee, NEW x \in Address, mailbox' = [mailbox EXCEPT ![u] = x], mixed' = mixed,
         j.op = "post", j.kind \in Kind \ {"EMAIL_CHANGED"}, j.user \in Addressee,
         mailbox[u] = Null \/ (task[m].kind = "EMAIL_CHANGED" /\ task[m].user = u)
  PROVE  NoticesIInv'
  <1>1. task'[m] = j /\ \A q \in Task \ {m} : task'[q] = task[q]
    BY DEF NoticesIInv, NoticesTypeOK
  <1>2. ASSUME NEW q \in Task, q # m, task[q].kind = "EMAIL_CHANGED", task[q].user = u PROVE u \in mixed
    BY <1>2 DEF NoticesIInv, SameAccount, Kept
  <1>3. mailbox'[u] = x /\ x # Null /\ \A v \in Addressee \ {u} : mailbox'[v] = mailbox[v]
    BY NoticesConstants DEF NoticesIInv, NoticesTypeOK
  <1>4. ASSUME NEW q \in Task PROVE Kept(task[q])'
    <2>1. CASE q = m
      BY <1>1, <2>1 DEF Kept, Dispatching
    <2>2. CASE q # m
      <3>1. Kept(task[q]) /\ task'[q] = task[q]
        BY <1>1, <2>2 DEF NoticesIInv
      <3>2. task[q].kind = "EMAIL_CHANGED" => task[q].user \in Addressee
        BY <3>1, NoticesConstants DEF Kept
      <3> QED BY <1>2, <1>3, <2>2, <3>1, <3>2 DEF Kept
    <2> QED BY <2>1, <2>2
  <1>5. ASSUME NEW p \in Task, NEW q \in Task, p # q, SameAccount(task[p], task[q])' PROVE task'[p].user \in mixed'
    BY <1>1, <1>5 DEF NoticesIInv, SameAccount
  <1> QED BY <1>4, <1>5 DEF NoticesIInv

(* What a task is before and after its step.                                *)
LEMMA TaskIs ==
  ASSUME NoticesIInv, NEW m \in Task
  PROVE  /\ task[m] \in TaskRow /\ Kept(task[m]) /\ task \in [Task -> TaskRow]
         /\ \A j : task' = [task EXCEPT ![m] = j] /\ j \in TaskRow => task' \in [Task -> TaskRow]
  BY DEF NoticesIInv, NoticesTypeOK, TaskRow

LEMMA NewTaskIInv ==
  ASSUME NoticesIInv, NEW m \in Task,
         \/ \E U \in SUBSET Addressee : RemindFamilies(m, U)
         \/ \E u \in Addressee, x \in Address : CreateAccount(m, u, x) \/ ChangeEmail(m, u, x)
  PROVE  NoticesIInv'
  <1>1. ASSUME NEW U \in SUBSET Addressee, RemindFamilies(m, U) PROVE NoticesIInv'
    <2>1. PICK u \in U : Start(m, [NoTask EXCEPT !.op = "post", !.kind = "FEE_REMINDER", !.user = u, !.queue = U \ {u}])
      BY <1>1 DEF RemindFamilies
    <2>2. PICK j : j = [NoTask EXCEPT !.op = "post", !.kind = "FEE_REMINDER", !.user = u, !.queue = U \ {u}]
      OBVIOUS
    <2>3. task' = [task EXCEPT ![m] = j]
          /\ UNCHANGED <<mailbox, loginOf, event, delivery, unread, server, cut, failed, mixed>>
      BY <1>1, <2>1, <2>2 DEF Start, RemindFamilies
    <2>4. j \in TaskRow /\ j.op = "post" /\ j.kind = "FEE_REMINDER" /\ j.user = u
      BY <2>2, NoticesConstants DEF NoTask, TaskRow
    <2>5. NoticesTypeOK'
      BY <2>3, <2>4, TaskIs DEF NoticesIInv, NoticesTypeOK, TaskRow
    <2>6. Kept(j)'
      BY <2>4, NoticesConstants DEF Kept, Dispatching
    <2> QED BY <2>3, <2>4, <2>5, <2>6, TaskIInv
  <1>2. ASSUME NEW u \in Addressee, NEW x \in Address, CreateAccount(m, u, x) PROVE NoticesIInv'
    <2>1. PICK j : j = [NoTask EXCEPT !.op = "post", !.kind = "CREDENTIALS_ISSUED", !.user = u]
      OBVIOUS
    <2>2. /\ task' = [task EXCEPT ![m] = j] /\ mailbox' = [mailbox EXCEPT ![u] = x] /\ mailbox[u] = Null
          /\ loginOf' = [loginOf EXCEPT ![u] = x]
          /\ UNCHANGED <<event, delivery, unread, server, cut, failed, mixed>>
      BY <1>2, <2>1 DEF Start, CreateAccount
    <2>3. j \in TaskRow /\ j.op = "post" /\ j.kind = "CREDENTIALS_ISSUED" /\ j.user = u
      BY <2>1, NoticesConstants DEF NoTask, TaskRow
    <2>4. NoticesTypeOK'
      BY <2>2, <2>3, TaskIs DEF NoticesIInv, NoticesTypeOK, TaskRow
    <2> QED BY <2>2, <2>3, <2>4, NoticesConstants, AddressIInv
  <1>3. ASSUME NEW u \in Addressee, NEW x \in Address, ChangeEmail(m, u, x) PROVE NoticesIInv'
    <2>1. PICK j : j = [NoTask EXCEPT !.op = "post", !.kind = "EMAIL_CHANGED", !.user = u, !.new = x]
      OBVIOUS
    <2>2. /\ task' = [task EXCEPT ![m] = j] /\ mailbox[u] # Null
          /\ mixed' = IF \E other \in Task : Changing(other, u) THEN mixed \cup {u} ELSE mixed
          /\ UNCHANGED <<mailbox, loginOf, event, delivery, unread, server, cut, failed>>
      BY <1>3, <2>1 DEF Start, ChangeEmail, Holders
    <2>3. j \in TaskRow /\ j.op = "post" /\ j.kind = "EMAIL_CHANGED" /\ j.user = u /\ j.new = x
      BY <2>1, NoticesConstants DEF NoTask, TaskRow
    <2>4. NoticesTypeOK'
      BY <2>2, <2>3, TaskIs DEF NoticesIInv, NoticesTypeOK, TaskRow
    <2>5. Kept(j)'
      BY <2>2, <2>3, NoticesConstants DEF Kept, Dispatching
    <2>6. \A q \in Task \ {m} : SameAccount(j, task[q]) => j.user \in mixed'
      BY <2>2, <2>3, NoticesConstants DEF NoticesIInv, Kept, SameAccount, Changing
    <2> QED BY <2>2, <2>4, <2>5, <2>6, TaskIInv
  <1> QED BY <1>1, <1>2, <1>3

LEMMA PostIInv == ASSUME NoticesIInv, NEW m \in Task, Post(m) PROVE NoticesIInv'
  <1>1. PICK t, n, cs : t = task[m] /\ n = Cardinality(Posted) + 1 /\ cs = ChannelsOf[t.kind] \cup {"IN_APP"}
    OBVIOUS
  <1>2. /\ t.op = "post" /\ n \in Id /\ event' = [event EXCEPT ![n] = [kind |-> t.kind, user |-> t.user]]
        /\ delivery' = [x \in DOMAIN delivery |-> IF x[1] = n /\ x[2] \in cs THEN "PENDING" ELSE delivery[x]]
        /\ unread' = unread \cup {n}
        /\ task' = [task EXCEPT ![m].op = "send", ![m].id = n, ![m].todo = cs]
        /\ UNCHANGED <<mailbox, loginOf, server, cut, failed, mixed>>
    BY <1>1 DEF Post
  <1>3. t \in TaskRow /\ Kept(t) /\ task \in [Task -> TaskRow]
    BY <1>1, TaskIs
  <1>4. PICK j : j = [[[t EXCEPT !.op = "send"] EXCEPT !.id = n] EXCEPT !.todo = cs]
    OBVIOUS
  <1>5. task' = [task EXCEPT ![m] = j]
    BY <1>1, <1>2, <1>3, <1>4
  <1>6. t.kind \in Kind /\ t.user \in Addressee /\ cs \subseteq Channel /\ "EMAIL" \in cs /\ n \in 0 .. MaxNotices
    BY <1>1, <1>2, <1>3, NoticesConstants DEF Kept, Channel, Id
  <1>7. j \in TaskRow /\ j.op = "send" /\ j.kind = t.kind /\ j.user = t.user /\ j.new = t.new /\ j.todo = cs
        /\ j.id = n
    BY <1>3, <1>4, <1>6 DEF TaskRow
  <1>8. NoticesTypeOK'
    <2>1. event' \in [Id -> [kind : Kind, user : Addressee] \cup {Null}]
      BY <1>2, <1>6 DEF NoticesIInv, NoticesTypeOK
    <2>2. delivery' \in [Id \X Channel -> {Null, "PENDING"} \cup Settled]
      BY <1>2 DEF NoticesIInv, NoticesTypeOK
    <2>3. task' \in [Task -> TaskRow]
      BY <1>5, <1>7, TaskIs
    <2> QED BY <1>2, <2>1, <2>2, <2>3 DEF NoticesIInv, NoticesTypeOK, TaskRow
  <1>9. Kept(j)'
    BY <1>2, <1>3, <1>6, <1>7 DEF Kept
  <1>10. j.kind = "EMAIL_CHANGED" => \A q \in Task \ {m} : SameAccount(j, task[q]) => j.user \in mixed'
    BY <1>1, <1>2, <1>7 DEF NoticesIInv, SameAccount
  <1> QED BY <1>2, <1>5, <1>8, <1>9, <1>10, TaskIInv

LEMMA DispatchIInv == ASSUME NoticesIInv, NEW m \in Task, NEW c \in Channel, Dispatch(m, c) PROVE NoticesIInv'
  <1>1. PICK t, s : t = task[m] /\ s = Unsent(t.user, c)
    OBVIOUS
  <1>2. /\ t.op \in Dispatching /\ c \in t.todo /\ delivery' = [delivery EXCEPT ![<<t.id, c>>] = s]
        /\ task' = [task EXCEPT ![m].todo = @ \ {c}, ![m].out = IF s = "PENDING" THEN @ \cup {c} ELSE @,
                                ![m].to = IF c = "EMAIL" THEN mailbox[t.user] ELSE @]
        /\ UNCHANGED <<mailbox, loginOf, event, unread, server, cut, failed, mixed>>
    BY <1>1 DEF Dispatch, Dispatching
  <1>3. t \in TaskRow /\ Kept(t) /\ task \in [Task -> TaskRow]
    BY <1>1, TaskIs
  <1>4. PICK td, o, to : /\ td = t.todo \ {c} /\ o = IF s = "PENDING" THEN t.out \cup {c} ELSE t.out
                         /\ to = IF c = "EMAIL" THEN mailbox[t.user] ELSE t.to
    OBVIOUS
  <1>5. PICK j : j = [[[t EXCEPT !.todo = td] EXCEPT !.out = o] EXCEPT !.to = to]
    OBVIOUS
  <1>6. task' = [task EXCEPT ![m] = j]
    BY <1>1, <1>2, <1>3, <1>4, <1>5
  <1>7. t.user \in Addressee /\ to \in Address \cup {Null} /\ td \subseteq Channel /\ o \subseteq Channel
    BY <1>2, <1>3, <1>4 DEF Kept, NoticesIInv, NoticesTypeOK, TaskRow, Dispatching
  <1>8. /\ j \in TaskRow /\ j.op = t.op /\ j.queue = t.queue /\ j.kind = t.kind /\ j.user = t.user /\ j.new = t.new
        /\ j.todo = td /\ j.to = to /\ j.id = t.id
    BY <1>2, <1>3, <1>5, <1>7 DEF TaskRow
  <1>9. NoticesTypeOK'
    <2>1. s \in {"PENDING"} \cup Settled
      BY <1>1 DEF Unsent, Settled
    <2>2. delivery' \in [Id \X Channel -> {Null, "PENDING"} \cup Settled]
      BY <1>2, <2>1 DEF NoticesIInv, NoticesTypeOK
    <2>3. task' \in [Task -> TaskRow]
      BY <1>6, <1>8, TaskIs
    <2> QED BY <1>2, <2>2, <2>3 DEF NoticesIInv, NoticesTypeOK, TaskRow
  <1>10. Kept(j)'
    BY <1>2, <1>3, <1>4, <1>8 DEF Kept, Dispatching
  <1>11. j.kind = "EMAIL_CHANGED" => \A q \in Task \ {m} : SameAccount(j, task[q]) => j.user \in mixed'
    BY <1>1, <1>2, <1>8 DEF NoticesIInv, SameAccount
  <1> QED BY <1>2, <1>6, <1>9, <1>10, <1>11, TaskIInv

LEMMA AnswerIInv ==
  ASSUME NoticesIInv, NEW m \in Task, NEW c \in Channel, NEW v \in {"SENT", "FAILED"}, ProviderAnswers(m, c, v)
  PROVE  NoticesIInv'
  <1>1. PICK t : t = task[m]
    OBVIOUS
  <1>2. /\ c \in t.out /\ delivery' = [delivery EXCEPT ![<<t.id, c>>] = v] /\ task' = [task EXCEPT ![m].out = @ \ {c}]
        /\ UNCHANGED <<mailbox, loginOf, event, unread, server, cut, failed, mixed>>
    BY <1>1 DEF ProviderAnswers, Recorded
  <1>3. t \in TaskRow /\ Kept(t) /\ task \in [Task -> TaskRow]
    BY <1>1, TaskIs
  <1>4. PICK j : j = [t EXCEPT !.out = @ \ {c}]
    OBVIOUS
  <1>5. task' = [task EXCEPT ![m] = j]
    BY <1>1, <1>2, <1>3, <1>4
  <1>6. /\ j \in TaskRow /\ j.op = t.op /\ j.queue = t.queue /\ j.kind = t.kind /\ j.user = t.user /\ j.new = t.new
        /\ j.todo = t.todo /\ j.to = t.to /\ j.id = t.id
    BY <1>3, <1>4 DEF TaskRow
  <1>7. NoticesTypeOK'
    <2>1. delivery' \in [Id \X Channel -> {Null, "PENDING"} \cup Settled]
      BY <1>2 DEF NoticesIInv, NoticesTypeOK, Settled
    <2>2. task' \in [Task -> TaskRow]
      BY <1>5, <1>6, TaskIs
    <2> QED BY <1>2, <2>1, <2>2 DEF NoticesIInv, NoticesTypeOK, TaskRow
  <1>8. Kept(j)'
    BY <1>2, <1>3, <1>6 DEF Kept
  <1>9. j.kind = "EMAIL_CHANGED" => \A q \in Task \ {m} : SameAccount(j, task[q]) => j.user \in mixed'
    BY <1>1, <1>2, <1>6 DEF NoticesIInv, SameAccount
  <1> QED BY <1>2, <1>5, <1>7, <1>8, <1>9, TaskIInv

LEMMA ContinueIInv == ASSUME NoticesIInv, NEW m \in Task, Continue(m) PROVE NoticesIInv'
  <1>1. PICK t : t = task[m]
    OBVIOUS
  <1>2. /\ t.op \in {"send", "rest"} /\ t.todo = {}
        /\ UNCHANGED <<mailbox, loginOf, event, delivery, unread, server, cut, failed, mixed>>
    BY <1>1 DEF Continue, AllAwaited, Dispatching
  <1>3. t \in TaskRow /\ Kept(t) /\ task \in [Task -> TaskRow]
    BY <1>1, TaskIs
  <1>4. ASSUME NEW j \in TaskRow, task' = [task EXCEPT ![m] = j], Kept(j)',
               j.kind = "EMAIL_CHANGED" => t.kind = "EMAIL_CHANGED" /\ j.user = t.user
        PROVE  NoticesIInv'
    <2>1. NoticesTypeOK'
      BY <1>2, <1>4, TaskIs DEF NoticesIInv, NoticesTypeOK, TaskRow
    <2>2. j.kind = "EMAIL_CHANGED" => \A q \in Task \ {m} : SameAccount(j, task[q]) => j.user \in mixed'
      BY <1>1, <1>2, <1>4 DEF NoticesIInv, SameAccount
    <2> QED BY <1>2, <1>4, <2>1, <2>2, TaskIInv
  <1>5. CASE t.kind = "EMAIL_CHANGED"
    <2>1. PICK j : j = [t EXCEPT !.op = "update"]
      OBVIOUS
    <2>2. task' = [task EXCEPT ![m] = j]
      BY <1>1, <1>3, <1>5, <2>1 DEF Continue
    <2>3. j \in TaskRow /\ j.op = "update" /\ j.kind = t.kind /\ j.user = t.user /\ j.new = t.new /\ j.to = t.to
      BY <1>3, <2>1 DEF TaskRow
    <2>4. Kept(j)'
      BY <1>2, <1>3, <1>5, <2>3, NoticesConstants DEF Kept, Dispatching
    <2> QED BY <1>4, <1>5, <2>2, <2>3, <2>4
  <1>6. CASE t.kind # "EMAIL_CHANGED" /\ t.queue = {}
    <2>1. task' = [task EXCEPT ![m] = NoTask]
      BY <1>1, <1>6 DEF Continue
    <2>2. Kept(NoTask)'
      BY NoticesConstants DEF Kept, Dispatching
    <2> QED BY <1>4, <2>1, <2>2, NoticesConstants
  <1>7. CASE t.kind # "EMAIL_CHANGED" /\ t.queue # {}
    <2>1. PICK u \in t.queue : task' = [task EXCEPT ![m].op = "post", ![m].user = u, ![m].queue = @ \ {u}]
      BY <1>1, <1>7 DEF Continue
    <2>2. PICK j : j = [[[t EXCEPT !.op = "post"] EXCEPT !.user = u] EXCEPT !.queue = t.queue \ {u}]
      OBVIOUS
    <2>3. task' = [task EXCEPT ![m] = j]
      BY <1>1, <1>3, <2>1, <2>2
    <2>4. u \in Addressee
      BY <1>3 DEF TaskRow
    <2>5. j \in TaskRow /\ j.op = "post" /\ j.kind = t.kind /\ j.user = u /\ j.new = t.new
      BY <1>3, <2>2, <2>4 DEF TaskRow
    <2>6. Kept(j)'
      BY <1>2, <1>3, <1>7, <2>4, <2>5 DEF Kept, Dispatching
    <2> QED BY <1>4, <1>7, <2>3, <2>5, <2>6
  <1> QED BY <1>5, <1>6, <1>7

LEMMA UpdateIInv == ASSUME NoticesIInv, NEW m \in Task, UpdateEmail(m) PROVE NoticesIInv'
  <1>1. PICK t, u : t = task[m] /\ u = t.user
    OBVIOUS
  <1>2. t \in TaskRow /\ Kept(t) /\ task \in [Task -> TaskRow] /\ t.op = "update"
        /\ UNCHANGED <<event, delivery, unread, server, cut, failed, mixed>>
    BY <1>1, TaskIs DEF UpdateEmail
  <1>3. t.kind = "EMAIL_CHANGED" /\ t.new \in Address /\ u \in Addressee
    BY <1>1, <1>2 DEF Kept
  <1>4. CASE Taken(t.new, u)
    <2>1. task' = [task EXCEPT ![m] = NoTask] /\ UNCHANGED <<mailbox, loginOf>>
      BY <1>1, <1>4 DEF UpdateEmail
    <2>2. Kept(NoTask)'
      BY NoticesConstants DEF Kept, Dispatching
    <2>3. NoticesTypeOK'
      BY <1>2, <2>1, NoticesConstants, TaskIs DEF NoticesIInv, NoticesTypeOK, TaskRow
    <2> QED BY <1>2, <2>1, <2>2, <2>3, NoticesConstants, TaskIInv
  <1>5. CASE ~Taken(t.new, u)
    <2>1. PICK j : j = [NoTask EXCEPT !.op = "post", !.user = u, !.kind = "CREDENTIALS_ISSUED"]
      OBVIOUS
    <2>2. /\ mailbox' = [mailbox EXCEPT ![u] = t.new] /\ task' = [task EXCEPT ![m] = j]
          /\ loginOf' = IF u \in OnStaff THEN loginOf ELSE [loginOf EXCEPT ![u] = t.new]
      BY <1>1, <1>5, <2>1 DEF UpdateEmail
    <2>3. j \in TaskRow /\ j.op = "post" /\ j.kind = "CREDENTIALS_ISSUED" /\ j.user = u
      BY <1>3, <2>1, NoticesConstants DEF NoTask, TaskRow
    <2>4. NoticesTypeOK'
      BY <1>2, <1>3, <2>2, <2>3, TaskIs DEF NoticesIInv, NoticesTypeOK, TaskRow
    <2>5. mixed' = mixed /\ j.kind \in Kind \ {"EMAIL_CHANGED"} /\ task[m].kind = "EMAIL_CHANGED" /\ task[m].user = u
      BY <1>1, <1>2, <1>3, <2>3, NoticesConstants
    <2> QED BY <1>3, <2>2, <2>3, <2>4, <2>5, AddressIInv
  <1> QED BY <1>4, <1>5

LEMMA FailureIInv ==
  ASSUME NoticesIInv, NEW m \in Task, RequestFails(m) \/ \E c \in Channel : DeliveryFails(m, c)
  PROVE  NoticesIInv'
  <1>1. PICK t : t = task[m]
    OBVIOUS
  <1>2. t \in TaskRow /\ Kept(t) /\ task \in [Task -> TaskRow]
    BY <1>1, TaskIs
  <1>3. CASE RequestFails(m)
    <2>1. /\ task' = [task EXCEPT ![m] = NoTask]
          /\ UNCHANGED <<mailbox, loginOf, event, delivery, unread, server, cut, failed, mixed>>
      BY <1>3 DEF RequestFails
    <2>2. NoticesTypeOK'
      BY <2>1, NoticesConstants, TaskIs DEF NoticesIInv, NoticesTypeOK, TaskRow
    <2>3. Kept(NoTask)'
      BY NoticesConstants DEF Kept, Dispatching
    <2> QED BY <2>1, <2>2, <2>3, NoticesConstants, TaskIInv
  <1>4. ASSUME NEW c \in Channel, DeliveryFails(m, c) PROVE NoticesIInv'
    <2>1. PICK td, o : td = t.todo \ {c} /\ o = t.out \ {c}
      OBVIOUS
    <2>2. PICK j : j = [NoTask EXCEPT !.op = "rest", !.user = t.user, !.id = t.id, !.todo = td, !.out = o]
      OBVIOUS
    <2>3. /\ t.op \in Dispatching /\ failed' = failed \cup {<<t.id, c>>} /\ task' = [task EXCEPT ![m] = j]
          /\ UNCHANGED <<mailbox, loginOf, event, delivery, unread, server, cut, mixed>>
      BY <1>1, <1>4, <2>1, <2>2 DEF DeliveryFails
    <2>4. t.user \in Addressee /\ t.id \in Id
      BY <1>2, <2>3 DEF Kept, Dispatching
    <2>5. /\ j \in TaskRow /\ j.op = "rest" /\ j.kind = Null /\ j.new = Null /\ j.queue = {}
          /\ j.user = t.user /\ j.id = t.id
      BY <1>2, <2>1, <2>2, NoticesConstants DEF NoTask, TaskRow
    <2>6. NoticesTypeOK'
      <3>1. failed' \subseteq Id \X Channel
        BY <2>3, <2>4 DEF NoticesIInv, NoticesTypeOK
      <3>2. task' \in [Task -> TaskRow]
        BY <2>3, <2>5, TaskIs
      <3> QED BY <2>3, <3>1, <3>2 DEF NoticesIInv, NoticesTypeOK, TaskRow
    <2>7. Kept(j)'
      BY <2>4, <2>5, NoticesConstants DEF Kept, Dispatching
    <2> QED BY <2>3, <2>5, <2>6, <2>7, NoticesConstants, TaskIInv
  <1> QED BY <1>3, <1>4

(* Reading a notice, and the end of the process, drop no address.           *)
LEMMA ServerIInv ==
  ASSUME NoticesIInv, Shutdown \/ Exit \/ (\E n \in Id : MarkNotificationRead(n))
                      \/ (\E u \in Addressee : MarkAllNotificationsRead(u)) \/ UNCHANGED noticeVars
  PROVE  NoticesIInv'
  <1>1. CASE Exit
    <2>1. /\ server.exits < MaxExits /\ server' = [open |-> TRUE, exits |-> server.exits + 1]
          /\ cut' = cut \cup CutOff /\ task' = [m \in Task |-> NoTask]
          /\ UNCHANGED <<mailbox, loginOf, event, delivery, unread, failed, mixed>>
      BY <1>1 DEF Exit
    <2>2. server' \in [open : BOOLEAN, exits : 0 .. MaxExits]
      <3>1. server.exits \in 0 .. MaxExits
        BY DEF NoticesIInv, NoticesTypeOK
      <3>2. server.exits + 1 \in 0 .. MaxExits
        BY <2>1, <3>1, NoticesConstants
      <3> QED BY <2>1, <3>2
    <2>3. CutOff \subseteq Id
      BY DEF NoticesIInv, Kept, CutOff, Dispatching
    <2>4. task' \in [Task -> TaskRow] /\ \A m \in Task : task'[m] = NoTask
      BY <2>1, NoticesConstants
    <2>5. NoticesTypeOK'
      BY <2>1, <2>2, <2>3, <2>4 DEF NoticesIInv, NoticesTypeOK, TaskRow
    <2> QED BY <2>4, <2>5, NoticesConstants DEF NoticesIInv, Kept, SameAccount, Dispatching
  <1>2. ASSUME NoticesTypeOK', UNCHANGED <<mailbox, mixed, task>> PROVE NoticesIInv'
    BY <1>2 DEF NoticesIInv, Kept, SameAccount
  <1>3. CASE Shutdown
    <2>1. server' = [server EXCEPT !.open = FALSE]
          /\ UNCHANGED <<mailbox, loginOf, event, delivery, unread, cut, failed, mixed, task>>
      BY <1>3 DEF Shutdown
    <2> QED BY <1>2, <2>1 DEF NoticesIInv, NoticesTypeOK
  <1>4. CASE \E N : MarkRead(N)
    BY <1>2, <1>4 DEF MarkRead, NoticesIInv, NoticesTypeOK
  <1>5. CASE UNCHANGED noticeVars
    BY <1>2, <1>5 DEF noticeVars, NoticesIInv, NoticesTypeOK
  <1> QED BY <1>1, <1>3, <1>4, <1>5 DEF MarkNotificationRead, MarkAllNotificationsRead

LEMMA NoticesNextIInv ==
  ASSUME NEW M \in SUBSET Task, NoticesIInv, MailNext \/ InboxNext(M) \/ UNCHANGED noticeVars
  PROVE  NoticesIInv'
  <1>1. ASSUME NEW m \in Task, TaskStep(m) PROVE NoticesIInv'
    <2>1. "EMAIL" \in Channel
      BY DEF Channel
    <2> QED BY <1>1, <2>1, PostIInv, ContinueIInv, UpdateIInv, DispatchIInv, AnswerIInv DEF TaskStep
  <1>2. ASSUME NEW m \in Task, TaskFails(m) PROVE NoticesIInv'
    BY <1>2, FailureIInv DEF TaskFails
  <1>3. CASE MailNext
    BY <1>1, <1>2, <1>3, NewTaskIInv, ServerIInv DEF MailNext
  <1>4. CASE InboxNext(M)
    BY <1>1, <1>2, <1>4, NewTaskIInv, ServerIInv DEF InboxNext
  <1>5. CASE UNCHANGED noticeVars
    BY <1>5, ServerIInv
  <1> QED BY <1>3, <1>4, <1>5

(* ChangeIsAnnounced, of one step.                                          *)
AnnouncedStep ==
    \A u \in Addressee : mailbox[u] # Null /\ mailbox'[u] # mailbox[u] =>
        \/ u \in mixed
        \/ \E m \in Task : task[m].op = "update" /\ task[m].user = u /\ task[m].to = mailbox[u]

LEMMA AnnouncedByStep ==
  ASSUME NEW M \in SUBSET Task, NoticesIInv, MailNext \/ InboxNext(M) \/ UNCHANGED noticeVars
  PROVE  AnnouncedStep
  <1> SUFFICES ASSUME NEW u \in Addressee, mailbox[u] # Null, mailbox'[u] # mailbox[u]
               PROVE  u \in mixed \/ \E m \in Task : task[m].op = "update" /\ task[m].user = u /\ task[m].to = mailbox[u]
    BY DEF AnnouncedStep
  <1>1. mailbox \in [Addressee -> Address \cup {Null}]
    BY DEF NoticesIInv, NoticesTypeOK
  <1>2. ASSUME NEW m \in Task, UpdateEmail(m)
        PROVE  task[m].op = "update" /\ task[m].user = u /\ (u \in mixed \/ task[m].to = mailbox[u])
    <2>1. task[m].user = u /\ task[m].op = "update"
      BY <1>1, <1>2 DEF UpdateEmail
    <2> QED BY <2>1 DEF NoticesIInv, Kept
  <1>3. \E m \in Task : UpdateEmail(m)
    <2>1. ~UNCHANGED mailbox
      OBVIOUS
    <2>2. ~UNCHANGED noticeVars /\ ~Shutdown /\ ~Exit /\ ~\E N : MarkRead(N)
      BY <2>1 DEF noticeVars, Shutdown, Exit, MarkRead
    <2>3. ASSUME NEW m \in Task PROVE ~Post(m) /\ ~Continue(m) /\ ~(\E c \in Channel : Dispatch(m, c))
                                     /\ ~(\E c \in Channel, v \in {"SENT", "FAILED"} : ProviderAnswers(m, c, v))
                                     /\ ~(\E U \in SUBSET Addressee : RemindFamilies(m, U))
      BY <2>1 DEF Post, Continue, Dispatch, ProviderAnswers, RemindFamilies
    <2>4. ASSUME NEW m \in Task, NEW v \in Addressee, NEW x \in Address
          PROVE  ~CreateAccount(m, v, x) /\ ~ChangeEmail(m, v, x)
      BY <1>1, <2>1 DEF CreateAccount, ChangeEmail
    <2>5. ASSUME NEW m \in Task, TaskStep(m) PROVE UpdateEmail(m)
      BY <2>3, <2>5 DEF TaskStep, Channel
    <2>6. ASSUME NEW m \in Task PROVE ~TaskFails(m)
      BY <2>1 DEF TaskFails, RequestFails, DeliveryFails
    <2> QED BY <2>2, <2>3, <2>4, <2>5, <2>6 DEF MailNext, InboxNext, MarkNotificationRead, MarkAllNotificationsRead
  <1> QED BY <1>2, <1>3

-----------------------------------------------------------------------------
(* Who may call what *)

(* The scoped operations, those of one scope and one set of roles together. *)
PupilOps == {"getStudent", "listEnrollments", "getAttendanceForStudent", "getScoresForStudent",
             "listProgress", "getResultForStudentTerm", "listResultsForStudent", "getSessionResult"}
StatementOps == {"listObligations", "listStudentPayments", "getStudentStatement"}
SheetOps == {"getRoster", "getScoresForAssignment", "bulkUpsertScores", "submitScores"}
ScopedOps ==
    PupilOps \cup StatementOps \cup SheetOps
    \cup {"listStudentParents", "rotateQrCode", "getActiveQrCode", "listChildren", "getFeeObligation",
          "getReceipt", "getPayment", "recordPayment", "getStaff", "getTeacherTimetable",
          "getClassTimetable", "listClassStudents", "writeClassTeacherComment", "listResultsForClass",
          "bulkUpsertRatings", "markRead"}

PupilDesk == {"ADMIN", "STUDENT"}
ParentDesk == {"ADMIN", "PARENT"}
ClassDesk == {"ADMIN", "BURSAR", "TEACHER"}

OpensTo(r, roles, scope) ==
    r.roles = roles /\ r.scope = scope /\ r.under \in {"api", "students", "parents", "staff"}

(* What the routers say of each operation whose scope is a relationship.    *)
Documented(r) ==
    /\ r.op \in PupilOps => OpensTo(r, AllRoles, "student")
    /\ r.op \in StatementOps => OpensTo(r, AllRoles, "financials")
    /\ r.op \in SheetOps => OpensTo(r, Staffroom, "assignment")
    /\ r.op = "listStudentParents" => OpensTo(r, AllRoles, "studentParents")
    /\ r.op \in {"rotateQrCode", "getActiveQrCode"} => OpensTo(r, PupilDesk, "qrCode")
    /\ r.op = "listChildren" => OpensTo(r, ParentDesk, "parent")
    /\ r.op = "getFeeObligation" => OpensTo(r, AllRoles, "obligation")
    /\ r.op \in {"getReceipt", "getPayment"} => OpensTo(r, AllRoles, "payment")
    /\ r.op = "recordPayment" => OpensTo(r, AllRoles, "pay")
    /\ r.op \in {"getStaff", "getTeacherTimetable"} => OpensTo(r, AllRoles, "staff")
    /\ r.op = "getClassTimetable" => OpensTo(r, AllRoles, "timetable")
    /\ r.op = "listClassStudents" => OpensTo(r, ClassDesk, "roster")
    /\ r.op = "writeClassTeacherComment" => OpensTo(r, Staffroom, "comment")
    /\ r.op \in {"listResultsForClass", "bulkUpsertRatings"} => OpensTo(r, Staffroom, "classResults")
    /\ r.op = "markRead" => OpensTo(r, AllRoles, "notification")

LEMMA RolesOnlyDocumented ==
  \A r \in AuthRoutes \cup AdminRoutes \cup UsersRoutes \cup AuditRoutes \cup SchoolRoutes
           \cup AdmissionsRoutes \cup GradingRoutes \cup ReportsRoutes : Documented(r)
  <1>1. \A r \in AuthRoutes \cup AdminRoutes \cup UsersRoutes \cup AuditRoutes \cup SchoolRoutes
           \cup AdmissionsRoutes \cup GradingRoutes \cup ReportsRoutes : r.op \notin ScopedOps
    BY DEF AuthRoutes, AdminRoutes, UsersRoutes, AuditRoutes, SchoolRoutes, AdmissionsRoutes,
       GradingRoutes, ReportsRoutes, Public, Only, Routes, ScopedOps, PupilOps, StatementOps, SheetOps
  <1> QED BY <1>1 DEF Documented, ScopedOps

LEMMA ScopedDocumented ==
  \A r \in StudentsRoutes \cup ParentsRoutes \cup StaffRoutes \cup AcademicStructureRoutes
           \cup ScoresRoutes \cup ResultsRoutes \cup RatingsRoutes \cup AttendanceRoutes
           \cup FeesRoutes \cup NotificationsRoutes \cup MadrassahRoutes \cup TimetableRoutes :
     Documented(r)
  <1> USE DEF Only, Scoped, Routes, Documented, OpensTo, PupilDesk, ParentDesk, ClassDesk, PupilOps,
          StatementOps, SheetOps
  <1>1. \A r \in StudentsRoutes : Documented(r)
    BY DEF StudentsRoutes
  <1>2. \A r \in ParentsRoutes \cup StaffRoutes : Documented(r)
    BY DEF ParentsRoutes, StaffRoutes
  <1>3. \A r \in AcademicStructureRoutes : Documented(r)
    BY DEF AcademicStructureRoutes
  <1>4. \A r \in ScoresRoutes \cup ResultsRoutes : Documented(r)
    BY DEF ScoresRoutes, ResultsRoutes
  <1>5. \A r \in RatingsRoutes \cup AttendanceRoutes : Documented(r)
    BY DEF RatingsRoutes, AttendanceRoutes
  <1>6. \A r \in FeesRoutes : Documented(r)
    BY DEF FeesRoutes
  <1>7. \A r \in NotificationsRoutes \cup MadrassahRoutes \cup TimetableRoutes : Documented(r)
    BY DEF NotificationsRoutes, MadrassahRoutes, TimetableRoutes
  <1> HIDE DEF Documented
  <1> QED BY <1>1, <1>2, <1>3, <1>4, <1>5, <1>6, <1>7

(* The order of the mounts, and that none on the way to a scoped operation  *)
(* turns away anyone with a role.                                           *)
LEMMA MountsAre ==
  /\ DOMAIN Mounts = 1 .. 20
  /\ \A i \in 1 .. 20 :
        /\ Mounts[i].at \in {"api", "students", "parents", "staff"} => AllRoles \subseteq Mounts[i].blanket
        /\ \A r \in Mounts[i].routes : Documented(r)
  <1>1. /\ DOMAIN Mounts = 1 .. 20
        /\ \A i \in 1 .. 20 : Mounts[i].at \in {"api", "students", "parents", "staff"}
                              => AllRoles \subseteq Mounts[i].blanket
    BY DEF Mounts, Mount, Anyone, AllRoles, Admin, Bursary
  <1>2. \A i \in 1 .. 20 : \A r \in Mounts[i].routes : Documented(r)
    BY RolesOnlyDocumented, ScopedDocumented DEF Mounts, Mount
  <1> QED BY <1>1, <1>2

LEMMA RoutesDocumented == \A r \in AllRoutes : Documented(r)
  BY MountsAre DEF AllRoutes

LEMMA ScopedRouted == ScopedOps \subseteq DOMAIN RouteOf
  <1>1. StudentsRoutes \cup ParentsRoutes \cup StaffRoutes \cup AcademicStructureRoutes
           \cup ScoresRoutes \cup ResultsRoutes \cup RatingsRoutes \cup AttendanceRoutes
           \cup FeesRoutes \cup NotificationsRoutes \cup MadrassahRoutes \cup TimetableRoutes \subseteq AllRoutes
    <2>1. /\ StudentsRoutes = Mounts[4].routes /\ ParentsRoutes = Mounts[5].routes
          /\ StaffRoutes = Mounts[6].routes /\ AcademicStructureRoutes = Mounts[10].routes
          /\ ScoresRoutes = Mounts[12].routes /\ ResultsRoutes = Mounts[13].routes
          /\ RatingsRoutes = Mounts[14].routes /\ AttendanceRoutes = Mounts[15].routes
          /\ FeesRoutes = Mounts[16].routes /\ NotificationsRoutes = Mounts[17].routes
          /\ MadrassahRoutes = Mounts[18].routes /\ TimetableRoutes = Mounts[19].routes
      BY DEF Mounts, Mount
    <2> QED BY <2>1, MountsAre DEF AllRoutes
  <1>2. \A o \in ScopedOps : \E r \in AllRoutes : r.op = o
    <2> DEFINE Found(o) == \E r \in AllRoutes : r.op = o
               Free(o, under, scope) == [op |-> o, under |-> under, roles |-> AllRoles, scope |-> scope]
               For(o, under, roles, scope) == [op |-> o, under |-> under, roles |-> roles, scope |-> scope]
    <2>1. \A o \in {"getStudent", "listEnrollments", "listStudentParents"} : Found(o)
      <3>1. /\ \A o \in {"getStudent", "listEnrollments"} : Free(o, "students", "student") \in StudentsRoutes
            /\ Free("listStudentParents", "students", "studentParents") \in StudentsRoutes
        BY DEF StudentsRoutes, Scoped, Routes
      <3> QED BY <1>1, <3>1
    <2>2. \A o \in {"listChildren", "getStaff", "listClassStudents", "bulkUpsertRatings"} : Found(o)
      <3>1. /\ For("listChildren", "parents", {"ADMIN", "PARENT"}, "parent") \in ParentsRoutes
            /\ Free("getStaff", "staff", "staff") \in StaffRoutes
        BY DEF ParentsRoutes, StaffRoutes, Scoped, Routes
      <3>2. /\ For("listClassStudents", "api", {"ADMIN", "BURSAR", "TEACHER"}, "roster")
                  \in AcademicStructureRoutes
            /\ For("bulkUpsertRatings", "api", Staffroom, "classResults") \in RatingsRoutes
        BY DEF AcademicStructureRoutes, RatingsRoutes, Scoped, Routes
      <3> QED BY <1>1, <3>1, <3>2
    <2>3. \A o \in {"markRead", "listProgress", "getClassTimetable", "getTeacherTimetable"} : Found(o)
      <3>1. /\ Free("markRead", "api", "notification") \in NotificationsRoutes
            /\ Free("listProgress", "students", "student") \in MadrassahRoutes
            /\ Free("getClassTimetable", "api", "timetable") \in TimetableRoutes
            /\ Free("getTeacherTimetable", "staff", "staff") \in TimetableRoutes
        BY DEF NotificationsRoutes, MadrassahRoutes, TimetableRoutes, Scoped, Routes
      <3> QED BY <1>1, <3>1
    <2>4. \A o \in SheetOps \cup {"getScoresForStudent"} : Found(o)
      <3>1. /\ \A o \in SheetOps : For(o, "api", Staffroom, "assignment") \in ScoresRoutes
            /\ Free("getScoresForStudent", "students", "student") \in ScoresRoutes
        BY DEF ScoresRoutes, SheetOps, Scoped, Routes
      <3> QED BY <1>1, <3>1
    <2>5. \A o \in {"getResultForStudentTerm", "getSessionResult", "listResultsForStudent",
                    "listResultsForClass", "writeClassTeacherComment"} : Found(o)
      <3>1. /\ \A o \in {"getResultForStudentTerm", "getSessionResult"} : Free(o, "api", "student") \in ResultsRoutes
            /\ Free("listResultsForStudent", "students", "student") \in ResultsRoutes
            /\ For("listResultsForClass", "api", Staffroom, "classResults") \in ResultsRoutes
            /\ For("writeClassTeacherComment", "api", Staffroom, "comment") \in ResultsRoutes
        BY DEF ResultsRoutes, Scoped, Routes
      <3> QED BY <1>1, <3>1
    <2>6. \A o \in {"getAttendanceForStudent", "rotateQrCode", "getActiveQrCode"} : Found(o)
      <3>1. /\ Free("getAttendanceForStudent", "students", "student") \in AttendanceRoutes
            /\ \A o \in {"rotateQrCode", "getActiveQrCode"} :
                  For(o, "students", {"ADMIN", "STUDENT"}, "qrCode") \in AttendanceRoutes
        BY DEF AttendanceRoutes, Scoped, Routes
      <3> QED BY <1>1, <3>1
    <2>7. \A o \in StatementOps \cup {"getFeeObligation", "recordPayment", "getReceipt", "getPayment"} :
              Found(o)
      <3>1. /\ \A o \in StatementOps : Free(o, "students", "financials") \in FeesRoutes
            /\ Free("getFeeObligation", "api", "obligation") \in FeesRoutes
            /\ Free("recordPayment", "api", "pay") \in FeesRoutes
            /\ \A o \in {"getReceipt", "getPayment"} : Free(o, "api", "payment") \in FeesRoutes
        BY DEF FeesRoutes, StatementOps, Scoped, Routes
      <3> QED BY <1>1, <3>1
    <2> QED BY <2>1, <2>2, <2>3, <2>4, <2>5, <2>6, <2>7 DEF ScopedOps, PupilOps
  <1> QED BY <1>2 DEF RouteOf

LEMMA ScopedRoute ==
  ASSUME NEW o \in ScopedOps
  PROVE  /\ RouteOf[o] \in AllRoutes /\ RouteOf[o].op = o /\ Documented(RouteOf[o])
         /\ o \in DOMAIN RouteOf
  <1>1. PICK r \in AllRoutes : r.op = o
    BY ScopedRouted DEF RouteOf
  <1>2. RouteOf[o] \in AllRoutes /\ RouteOf[o].op = o
    BY <1>1, ScopedRouted DEF RouteOf
  <1> QED BY <1>2, ScopedRouted, RoutesDocumented

(* The guards before the scope ask no more than one of the route's roles.   *)
LEMMA GateIsRoles ==
  ASSUME NEW o \in ScopedOps, NEW u \in Caller
  PROVE  u \in LetIn[o] <=> Claims[u].roles \cap RouteOf[o].roles # {}
  <1> DEFINE R == RouteOf[o].roles
             holder == Claims[u].roles \cup {"anyone"}
  <1>1. /\ R \subseteq AllRoles /\ RouteOf[o].under \in {"api", "students", "parents", "staff"}
    <2>1. PICK r : r = RouteOf[o]
      OBVIOUS
    <2>2. Documented(r) /\ r.op \in ScopedOps
      BY <2>1, ScopedRoute
    <2>3. r.roles \subseteq AllRoles /\ r.under \in {"api", "students", "parents", "staff"}
      BY <2>2 DEF Documented, OpensTo, ScopedOps, AllRoles, Staffroom, PupilDesk, ParentDesk, ClassDesk
    <2> QED BY <2>1, <2>3
  <1>2. Claims[u].roles \subseteq AllRoles /\ Claims[u].roles # {} /\ "anyone" \notin AllRoles
    BY AccessAssumption DEF Issuable, AllRoles
  <1>3. MountOf[o] \in 1 .. 20
    <2>1. \E i \in DOMAIN Mounts : RouteOf[o] \in Mounts[i].routes
      BY ScopedRoute DEF AllRoutes
    <2> QED BY <2>1, ScopedRoute, MountsAre DEF MountOf
  <1>4. \A i \in 1 .. MountOf[o] : Mounts[i].at \in {"api", RouteOf[o].under} => AllRoles \subseteq Mounts[i].blanket
    BY <1>1, <1>3, MountsAre
  <1>5. Gates[o] = {R} \cup {Mounts[j].blanket : j \in {i \in 1 .. MountOf[o] :
                                                          Mounts[i].at \in {"api", RouteOf[o].under}}}
    BY ScopedRoute DEF Gates
  <1>6. PassesGate(holder, o) <=> holder \cap R # {}
    <2>1. \A allowed \in Gates[o] : allowed = R \/ AllRoles \subseteq allowed
      BY <1>4, <1>5
    <2>2. R \in Gates[o]
      BY <1>5
    <2> QED BY <1>2, <2>1, <2>2 DEF PassesGate, RequireRole
  <1>7. u \in LetIn[o] <=> PassesGate(holder, o)
    BY ScopedRoute DEF LetIn
  <1> QED BY <1>1, <1>2, <1>6, <1>7

(* Whoever has been given classes was allowed to teach.                     *)
TeachersMayTeach ==
    /\ \A a \in teaching : MayTeach(a[1])
    /\ \A y \in Room \X Session : formOf[y] # Null => MayTeach(formOf[y])

LEMMA WorldIs ==
  ASSUME AccessTypeOK, NEW x \in World
  PROVE  /\ x.pupil \in Pupil /\ x.parent \in Guardian /\ <<x.pupil, x.parent>> \in linked
         /\ x.staff \in Teacher /\ x.room \in Room /\ x.session = now /\ now \in Session
         /\ x.assignment \in teaching /\ x.assignment = <<x.staff, x.room, now>>
         /\ x.assignment[1] = x.staff
         /\ Sits(x.pupil, now) /\ seat[<<x.pupil, now>>].room = x.room
         /\ x.pupil \in Classmates(x)
         /\ DOMAIN x = {"pupil", "parent", "assignment", "staff", "room", "session"}
  <1>1. PICK l \in linked, a \in teaching :
           /\ a[3] = now
           /\ x = [pupil |-> l[1], parent |-> l[2], assignment |-> a, staff |-> a[1], room |-> a[2],
                   session |-> a[3]]
    BY DEF World
  <1>2. /\ x.pupil = l[1] /\ x.parent = l[2] /\ x.assignment = a /\ x.staff = a[1] /\ x.room = a[2]
        /\ x.session = now
        /\ DOMAIN x = {"pupil", "parent", "assignment", "staff", "room", "session"}
    BY <1>1
  <1>3. l \in Pupil \X Guardian /\ a \in Teacher \X Room \X Session
    BY DEF AccessTypeOK
  <1>4. /\ x.pupil \in Pupil /\ x.parent \in Guardian /\ <<x.pupil, x.parent>> = l
        /\ x.staff \in Teacher /\ x.room \in Room /\ now \in Session
        /\ a = <<x.staff, x.room, now>>
    BY <1>1, <1>2, <1>3
  <1>5. Sits(x.pupil, now) /\ seat[<<x.pupil, now>>].room = x.room
    BY DEF World
  <1> QED BY <1>2, <1>4, <1>5 DEF Classmates

LEMMA FacingIs ==
  ASSUME NEW x, DOMAIN x = {"pupil", "parent", "assignment", "staff", "room", "session"}, NEW k
  PROVE  LET f == Facing(k, x) IN
         /\ f.pupil = x.pupil /\ f.parent = x.parent /\ f.assignment = x.assignment
         /\ f.staff = x.staff /\ f.room = x.room /\ f.session = x.session
         /\ f.mine = (k.parent = x.parent)
  BY DEF Facing

Held(k, roles) == k.roles \cap roles # {}

(* Who may call each scoped operation, in terms of its resolver.            *)
LEMMA CallsAre ==
  ASSUME NEW u \in Caller, NEW x
  PROVE  /\ \A o \in PupilOps : MayCall(u, o, x) <=> CanReadStudent(Claims[u], x.pupil)
         /\ \A o \in StatementOps : MayCall(u, o, x) <=> CanReadStudentFinancials(Claims[u], x.pupil)
         /\ \A o \in SheetOps :
               MayCall(u, o, x) <=> Held(Claims[u], Staffroom) /\ CanActOnAssignment(Claims[u], x.assignment)
         /\ MayCall(u, "listStudentParents", x) <=> CanReadStudentParents(Claims[u], x.pupil)
         /\ \A o \in {"rotateQrCode", "getActiveQrCode"} :
               MayCall(u, o, x) <=>
                   Held(Claims[u], PupilDesk) /\ CanManageStudentQrCode(Claims[u], x.pupil)
         /\ MayCall(u, "listChildren", x) <=>
               Held(Claims[u], ParentDesk) /\ CanReadParent(Claims[u], x.parent)
         /\ \A o \in {"getReceipt", "getPayment", "getFeeObligation"} :
               MayCall(u, o, x) <=> CanReadStudentFinancials(Claims[u], x.pupil)
         /\ MayCall(u, "recordPayment", x) <=> CanCreatePaymentForObligation(Claims[u], x.pupil)
         /\ \A o \in {"getStaff", "getTeacherTimetable"} :
               MayCall(u, o, x) <=> CanReadStaff(Claims[u], x.staff)
         /\ MayCall(u, "getClassTimetable", x) <=> CanReadClassTimetable(Claims[u], x.room)
         /\ MayCall(u, "listClassStudents", x) <=>
               /\ Held(Claims[u], ClassDesk)
               /\ CanReadClassRoster(Claims[u], x.room, x.session)
         /\ MayCall(u, "writeClassTeacherComment", x) <=>
               Held(Claims[u], Staffroom) /\ CanWriteClassTeacherComment(Claims[u], x.pupil, x.session)
         /\ \A o \in {"listResultsForClass", "bulkUpsertRatings"} :
               MayCall(u, o, x) <=>
                   Held(Claims[u], Staffroom) /\ CanReadClassResults(Claims[u], x.room, x.session)
         /\ MayCall(u, "markRead", x) <=> CanManageOwnNotification(Claims[u], x.mine)
  <1> DEFINE k == Claims[u]
             Passes(roles, scope) == Held(k, roles) /\ RequireScope(k, scope, x)
  <1>1. Held(k, AllRoles)
    BY AccessAssumption DEF Held, Issuable
  <1>2. \A o \in ScopedOps : MayCall(u, o, x) <=> Passes(RouteOf[o].roles, RouteOf[o].scope)
    BY GateIsRoles DEF MayCall, Held
  <1>3. \A o \in ScopedOps : RouteOf[o].op = o /\ Documented(RouteOf[o])
    BY ScopedRoute
  <1> HIDE DEF k, Passes
  <1>4. /\ \A o \in PupilOps : MayCall(u, o, x) <=> Passes(AllRoles, "student")
        /\ \A o \in StatementOps : MayCall(u, o, x) <=> Passes(AllRoles, "financials")
        /\ \A o \in SheetOps : MayCall(u, o, x) <=> Passes(Staffroom, "assignment")
    BY <1>2, <1>3 DEF Documented, OpensTo, ScopedOps
  <1>5. /\ MayCall(u, "listStudentParents", x) <=> Passes(AllRoles, "studentParents")
        /\ MayCall(u, "rotateQrCode", x) <=> Passes(PupilDesk, "qrCode")
        /\ MayCall(u, "getActiveQrCode", x) <=> Passes(PupilDesk, "qrCode")
        /\ MayCall(u, "listChildren", x) <=> Passes(ParentDesk, "parent")
    BY <1>2, <1>3 DEF Documented, OpensTo, ScopedOps
  <1>6. /\ MayCall(u, "getFeeObligation", x) <=> Passes(AllRoles, "obligation")
        /\ MayCall(u, "getReceipt", x) <=> Passes(AllRoles, "payment")
        /\ MayCall(u, "getPayment", x) <=> Passes(AllRoles, "payment")
        /\ MayCall(u, "recordPayment", x) <=> Passes(AllRoles, "pay")
    BY <1>2, <1>3 DEF Documented, OpensTo, ScopedOps
  <1>7. /\ MayCall(u, "getStaff", x) <=> Passes(AllRoles, "staff")
        /\ MayCall(u, "getTeacherTimetable", x) <=> Passes(AllRoles, "staff")
        /\ MayCall(u, "getClassTimetable", x) <=> Passes(AllRoles, "timetable")
        /\ MayCall(u, "listClassStudents", x) <=> Passes(ClassDesk, "roster")
    BY <1>2, <1>3 DEF Documented, OpensTo, ScopedOps
  <1>8. /\ MayCall(u, "writeClassTeacherComment", x) <=> Passes(Staffroom, "comment")
        /\ MayCall(u, "listResultsForClass", x) <=> Passes(Staffroom, "classResults")
        /\ MayCall(u, "bulkUpsertRatings", x) <=> Passes(Staffroom, "classResults")
        /\ MayCall(u, "markRead", x) <=> Passes(AllRoles, "notification")
    BY <1>2, <1>3 DEF Documented, OpensTo, ScopedOps
  <1>9. \A roles :
        /\ Passes(roles, "student") <=> Held(k, roles) /\ CanReadStudent(k, x.pupil)
        /\ Passes(roles, "studentParents") <=> Held(k, roles) /\ CanReadStudentParents(k, x.pupil)
        /\ Passes(roles, "financials") <=> Held(k, roles) /\ CanReadStudentFinancials(k, x.pupil)
        /\ Passes(roles, "payment") <=> Held(k, roles) /\ CanReadPayment(k, x.pupil)
        /\ Passes(roles, "obligation") <=> Held(k, roles) /\ CanReadFeeObligation(k, x.pupil)
        /\ Passes(roles, "pay") <=> Held(k, roles) /\ CanCreatePaymentForObligation(k, x.pupil)
        /\ Passes(roles, "qrCode") <=> Held(k, roles) /\ CanManageStudentQrCode(k, x.pupil)
        /\ Passes(roles, "comment") <=> Held(k, roles) /\ CanWriteClassTeacherComment(k, x.pupil, x.session)
    BY DEF Passes, RequireScope
  <1>10. \A roles :
        /\ Passes(roles, "parent") <=> Held(k, roles) /\ CanReadParent(k, x.parent)
        /\ Passes(roles, "staff") <=> Held(k, roles) /\ CanReadStaff(k, x.staff)
        /\ Passes(roles, "assignment") <=> Held(k, roles) /\ CanActOnAssignment(k, x.assignment)
        /\ Passes(roles, "roster") <=> Held(k, roles) /\ CanReadClassRoster(k, x.room, x.session)
        /\ Passes(roles, "classResults") <=> Held(k, roles) /\ CanReadClassResults(k, x.room, x.session)
        /\ Passes(roles, "timetable") <=> Held(k, roles) /\ CanReadClassTimetable(k, x.room)
        /\ Passes(roles, "notification") <=> Held(k, roles) /\ CanManageOwnNotification(k, x.mine)
    BY DEF Passes, RequireScope
  <1>11. /\ CanReadPayment(k, x.pupil) <=> CanReadStudentFinancials(k, x.pupil)
         /\ CanReadFeeObligation(k, x.pupil) <=> CanReadStudentFinancials(k, x.pupil)
    BY DEF CanReadPayment, CanReadFeeObligation, CanReadStudentFinancials
  <1> QED BY <1>1, <1>4, <1>5, <1>6, <1>7, <1>8, <1>9, <1>10, <1>11 DEF k

(* Every row of the matrix follows from the types of the relationships and  *)
(* from who may be given a class.                                           *)
LEMMA MatrixFollows ==
  ASSUME AccessTypeOK, TeachersMayTeach
  PROVE  MatrixHolds
  <1> SUFFICES ASSUME NEW x \in World, NEW u \in Caller, NEW actor \in Actors, Plays(Claims[u], actor, x)
               PROVE  /\ \A op \in AllowedTo[actor] : MayCall(u, op, Facing(Claims[u], x))
                      /\ \A op \in DeniedTo[actor] : ~MayCall(u, op, Facing(Claims[u], x))
    BY DEF MatrixHolds
  <1> DEFINE k == Claims[u]
             f == Facing(k, x)
             Is(role) == role \in k.roles
             Teaches == Is("TEACHER") /\ k.staff # Null /\ TeachesPupil(k.staff, x.pupil)
             Leads == IsFormTeacherOfClass(k.staff, x.room, now)
             Own == IsOwn(k, x.pupil)
             Raises == IsParentOf(k, x.pupil)
             Sees == \E p \in Pupil : (IsOwn(k, p) \/ IsParentOf(k, p)) /\ p \in Classmates(x)
             Fits(op, cases) == /\ actor \in cases.allowed => MayCall(u, op, f)
                                /\ actor \in cases.denied => ~MayCall(u, op, f)
  <1>1. /\ x.pupil \in Pupil /\ x.parent \in Guardian /\ <<x.pupil, x.parent>> \in linked
        /\ x.staff \in Teacher /\ x.room \in Room /\ x.session = now /\ now \in Session
        /\ x.assignment \in teaching /\ x.assignment = <<x.staff, x.room, now>>
        /\ x.assignment[1] = x.staff
        /\ Sits(x.pupil, now) /\ seat[<<x.pupil, now>>].room = x.room
        /\ x.pupil \in Classmates(x)
        /\ DOMAIN x = {"pupil", "parent", "assignment", "staff", "room", "session"}
    BY WorldIs
  <1>2. /\ f.pupil = x.pupil /\ f.parent = x.parent /\ f.assignment = x.assignment
        /\ f.staff = x.staff /\ f.room = x.room /\ f.session = x.session
        /\ f.mine = (k.parent = x.parent)
    BY <1>1, FacingIs
  <1>3. /\ k.roles \subseteq AllRoles /\ Issuable(k)
        /\ \A S \in {Pupil, Guardian, Teacher, Room, Session, Caller} : Null \notin S
    BY AccessAssumption
  <1>4. k.staff = x.staff => Is("TEACHER") \/ Is("ADMIN")
    BY <1>1 DEF TeachersMayTeach, MayTeach
  <1>5. /\ Teaches <=> Is("TEACHER") /\ <<k.staff, x.room, now>> \in teaching
        /\ Raises <=> Is("PARENT") /\ <<x.pupil, k.parent>> \in linked
        /\ Own <=> Is("STUDENT") /\ k.student = x.pupil
        /\ Sees <=> \E p \in Classmates(x) : \/ Is("STUDENT") /\ k.student = p
                                             \/ Is("PARENT") /\ <<p, k.parent>> \in linked
    <2>1. k.staff # Null \/ <<k.staff, x.room, now>> \notin teaching
      BY <1>3 DEF AccessTypeOK
    <2>2. "PARENT" \in k.roles => k.parent # Null
      BY <1>3 DEF Issuable
    <2>3. Teaches <=> Is("TEACHER") /\ <<k.staff, x.room, now>> \in teaching
      BY <1>1, <1>3, <2>1 DEF TeachesPupil
    <2> QED BY <2>2, <2>3 DEF IsParentOf, IsOwn, Has, Classmates
  <1>6. /\ CanReadStudent(k, x.pupil) <=> Is("ADMIN") \/ Teaches \/ Own \/ Raises
        /\ CanReadStudentParents(k, x.pupil) <=> Is("ADMIN") \/ Own \/ Teaches
        /\ CanReadStudentFinancials(k, x.pupil) <=> Is("ADMIN") \/ Is("BURSAR") \/ Own \/ Raises
        /\ CanCreatePaymentForObligation(k, x.pupil) <=> Is("ADMIN") \/ Is("BURSAR") \/ Raises
        /\ CanManageStudentQrCode(k, x.pupil) <=> Is("ADMIN") \/ k.student = x.pupil
        /\ CanReadParent(k, x.parent) <=> Is("ADMIN") \/ k.parent = x.parent
        /\ CanReadStaff(k, x.staff) <=> Is("ADMIN") \/ k.staff = x.staff
        /\ CanActOnAssignment(k, x.assignment) <=> Is("ADMIN") \/ (Is("TEACHER") /\ k.staff = x.staff)
    BY <1>1 DEF CanReadStudent, StudentAccessLevel, CanReadStudentParents, CanReadStudentFinancials, Office,
       CanCreatePaymentForObligation, CanManageStudentQrCode, CanReadParent, CanReadStaff,
       CanActOnAssignment, Has
  <1>7. /\ CanReadClassRoster(k, x.room, now) <=>
              Is("ADMIN") \/ Is("BURSAR") \/ (Is("TEACHER") /\ <<k.staff, x.room, now>> \in teaching)
        /\ CanWriteClassTeacherComment(k, x.pupil, now) <=> Is("ADMIN") \/ (Is("TEACHER") /\ Leads)
        /\ CanReadClassResults(k, x.room, now) <=> Is("ADMIN") \/ (Is("TEACHER") /\ Leads)
        /\ CanReadClassTimetable(k, x.room) <=> Is("ADMIN") \/ Is("TEACHER") \/ Sees
    BY <1>1, <1>3 DEF CanReadClassRoster, CanWriteClassTeacherComment, CanReadClassResults,
       CanReadClassTimetable, Has, Sits, Classmates
  <1>8. /\ k.parent = x.parent => Is("PARENT")
        /\ k.student = x.pupil => Is("STUDENT")
        /\ k.staff = x.staff => k.roles # {"PARENT"} /\ k.roles # {"STUDENT"} /\ k.roles # {"BURSAR"}
        /\ <<x.staff, x.room, now>> \in teaching
    BY <1>1, <1>3, <1>4 DEF Issuable
  <1>9. /\ actor = "admin" => Is("ADMIN")
        /\ actor = "bursar" => k.roles = {"BURSAR"} /\ k.staff # x.staff
        /\ actor = "assignedTeacher" => k.roles = {"TEACHER"} /\ k.staff = x.staff /\ Teaches /\ ~Leads
        /\ actor = "formTeacher" => k.roles = {"TEACHER"} /\ Leads
        /\ actor = "unassignedTeacher" => k.roles = {"TEACHER"} /\ k.staff # x.staff /\ ~Teaches /\ ~Leads
        /\ actor = "linkedParent" => k.roles = {"PARENT"} /\ k.parent = x.parent /\ Raises /\ Sees
        /\ actor = "unlinkedParent" =>
              k.roles = {"PARENT"} /\ k.parent # x.parent /\ k.staff # x.staff /\ ~Raises /\ ~Sees
        /\ actor = "ownStudent" => k.roles = {"STUDENT"} /\ k.student = x.pupil /\ Own /\ Sees
        /\ actor = "otherStudent" =>
              k.roles = {"STUDENT"} /\ k.student # x.pupil /\ k.staff # x.staff /\ ~Own /\ ~Sees
        /\ actor = "staffParent" => k.roles = {"TEACHER", "PARENT"} /\ Raises
        /\ actor = "staffParentTeaching" => k.roles = {"TEACHER", "PARENT"} /\ k.staff = x.staff
        /\ actor = "disjointStaffParent" => k.roles = {"TEACHER", "PARENT"} /\ ~Raises /\ ~Teaches
    <2>1. Connected(k.staff, x) <=> <<k.staff, x.room, now>> \in teaching \/ Leads
      BY <1>1 DEF Connected
    <2>2. /\ actor = "admin" => k.roles = {"ADMIN"}
          /\ actor = "bursar" => k.roles = {"BURSAR"}
      BY DEF Plays
    <2>3. /\ actor = "assignedTeacher" => k.roles = {"TEACHER"} /\ k.staff = x.staff /\ ~Leads
          /\ actor = "formTeacher" => k.roles = {"TEACHER"} /\ Leads
          /\ actor = "unassignedTeacher" => k.roles = {"TEACHER"} /\ ~Connected(k.staff, x)
      <3>1. actor = "assignedTeacher" => k.roles = {"TEACHER"} /\ k.staff = x.staff
        BY DEF Plays
      <3>2. actor = "assignedTeacher" => ~IsFormTeacherOfClass(k.staff, x.room, x.session)
        BY DEF Plays
      <3>3. actor = "formTeacher" => k.roles = {"TEACHER"} /\ IsFormTeacherOfClass(k.staff, x.room, x.session)
        BY DEF Plays
      <3>4. actor = "unassignedTeacher" => k.roles = {"TEACHER"} /\ ~Connected(k.staff, x)
        BY DEF Plays
      <3> QED BY <1>1, <3>1, <3>2, <3>3, <3>4
    <2>4. /\ actor = "linkedParent" => k.roles = {"PARENT"} /\ k.parent = x.parent
          /\ actor = "unlinkedParent" =>
                k.roles = {"PARENT"} /\ \A p \in Classmates(x) : <<p, k.parent>> \notin linked
          /\ actor = "ownStudent" => k.roles = {"STUDENT"} /\ k.student = x.pupil
          /\ actor = "otherStudent" => k.roles = {"STUDENT"} /\ k.student \notin Classmates(x)
      <3>1. actor = "linkedParent" => k.roles = {"PARENT"} /\ k.parent = x.parent
        BY DEF Plays
      <3>2. actor = "unlinkedParent" => k.roles = {"PARENT"}
        BY DEF Plays
      <3>3. actor = "unlinkedParent" => \A p \in Classmates(x) : <<p, k.parent>> \notin linked
        BY DEF Plays
      <3>4. /\ actor = "ownStudent" => k.roles = {"STUDENT"} /\ k.student = x.pupil
            /\ actor = "otherStudent" => k.roles = {"STUDENT"} /\ k.student \notin Classmates(x)
        BY DEF Plays
      <3> QED BY <3>1, <3>2, <3>3, <3>4
    <2>5. /\ actor = "staffParent" => k.roles = {"TEACHER", "PARENT"} /\ <<x.pupil, k.parent>> \in linked
          /\ actor = "staffParentTeaching" => k.roles = {"TEACHER", "PARENT"} /\ k.staff = x.staff
          /\ actor = "disjointStaffParent" => /\ k.roles = {"TEACHER", "PARENT"} /\ ~Connected(k.staff, x)
                                              /\ <<x.pupil, k.parent>> \notin linked
      BY DEF Plays
    <2> HIDE DEF Leads, Teaches, Own, Raises, Sees
    <2>6. actor \in {"assignedTeacher", "formTeacher", "unassignedTeacher"} =>
              /\ actor = "assignedTeacher" => Teaches
              /\ actor = "unassignedTeacher" => k.staff # x.staff /\ ~Teaches /\ ~Leads
      BY <1>5, <1>8, <2>1, <2>3
    <2>7. /\ actor = "linkedParent" => Raises /\ Sees
          /\ actor = "unlinkedParent" => k.parent # x.parent /\ k.staff # x.staff /\ ~Raises /\ ~Sees
          /\ actor = "ownStudent" => Own /\ Sees
          /\ actor = "otherStudent" => k.student # x.pupil /\ k.staff # x.staff /\ ~Own /\ ~Sees
      BY <1>1, <1>5, <1>8, <2>4
    <2>8. /\ actor = "staffParent" => Raises
          /\ actor = "disjointStaffParent" => ~Raises /\ ~Teaches
      BY <1>5, <2>1, <2>5
    <2>9. actor = "bursar" => k.staff # x.staff
      BY <1>8, <2>2
    <2> QED BY <2>2, <2>3, <2>4, <2>5, <2>6, <2>7, <2>8, <2>9
  <1> HIDE DEF k, f, Teaches, Leads, Own, Raises, Sees
  <1>10. /\ \A o \in PupilOps : MayCall(u, o, f) <=> CanReadStudent(k, x.pupil)
         /\ \A o \in StatementOps : MayCall(u, o, f) <=> CanReadStudentFinancials(k, x.pupil)
         /\ \A o \in SheetOps :
               MayCall(u, o, f) <=> Held(k, Staffroom) /\ CanActOnAssignment(k, x.assignment)
         /\ MayCall(u, "listStudentParents", f) <=> CanReadStudentParents(k, x.pupil)
         /\ \A o \in {"rotateQrCode", "getActiveQrCode"} :
               MayCall(u, o, f) <=> Held(k, PupilDesk) /\ CanManageStudentQrCode(k, x.pupil)
         /\ MayCall(u, "listChildren", f) <=> Held(k, ParentDesk) /\ CanReadParent(k, x.parent)
         /\ \A o \in {"getReceipt", "getPayment", "getFeeObligation"} :
               MayCall(u, o, f) <=> CanReadStudentFinancials(k, x.pupil)
         /\ MayCall(u, "recordPayment", f) <=> CanCreatePaymentForObligation(k, x.pupil)
    BY <1>2, CallsAre DEF k
  <1>11. /\ \A o \in {"getStaff", "getTeacherTimetable"} : MayCall(u, o, f) <=> CanReadStaff(k, x.staff)
         /\ MayCall(u, "getClassTimetable", f) <=> CanReadClassTimetable(k, x.room)
         /\ MayCall(u, "listClassStudents", f) <=> Held(k, ClassDesk) /\ CanReadClassRoster(k, x.room, now)
         /\ MayCall(u, "writeClassTeacherComment", f) <=>
               Held(k, Staffroom) /\ CanWriteClassTeacherComment(k, x.pupil, now)
         /\ \A o \in {"listResultsForClass", "bulkUpsertRatings"} :
               MayCall(u, o, f) <=> Held(k, Staffroom) /\ CanReadClassResults(k, x.room, now)
         /\ MayCall(u, "markRead", f) <=> Is("ADMIN") \/ k.parent = x.parent
    BY <1>1, <1>2, CallsAre DEF k, CanManageOwnNotification, Has
  <1>12. \A o \in PupilOps : Fits(o, StudentScopeCases) /\ Fits(o, StaffParentDenied)
    <2>1. actor \in StudentScopeCases.allowed => CanReadStudent(k, x.pupil)
      BY <1>6, <1>9 DEF StudentScopeCases, Cases
    <2>2. actor \in StudentScopeCases.denied \cup StaffParentDenied.denied => ~CanReadStudent(k, x.pupil)
      BY <1>5, <1>6, <1>9 DEF StudentScopeCases, StaffParentDenied, Cases, Strangers
    <2> QED BY <1>10, <2>1, <2>2 DEF StaffParentDenied, Cases
  <1>13. \A o \in StatementOps \cup {"getReceipt", "getPayment", "getFeeObligation"} : Fits(o, StudentFinancialsCases)
    <2>1. actor \in StudentFinancialsCases.allowed => CanReadStudentFinancials(k, x.pupil)
      BY <1>5, <1>6, <1>7, <1>8, <1>9 DEF StudentFinancialsCases, Cases
    <2>2. actor \in StudentFinancialsCases.denied => ~(CanReadStudentFinancials(k, x.pupil))
      BY <1>5, <1>6, <1>7, <1>8, <1>9 DEF StudentFinancialsCases, Cases, Strangers
    <2> QED BY <1>10, <1>11, <2>1, <2>2
  <1>14. \A o \in StatementOps \cup {"getReceipt"} : Fits(o, StaffParentDenied)
    <2>1. actor = "disjointStaffParent" => ~CanReadStudentFinancials(k, x.pupil)
      BY <1>5, <1>6, <1>9
    <2> QED BY <1>10, <2>1 DEF StaffParentDenied, Cases
  <1>15. \A o \in {"recordPayment"} : Fits(o, PaymentCreateCases)
    <2>1. actor \in PaymentCreateCases.allowed => CanCreatePaymentForObligation(k, x.pupil)
      BY <1>5, <1>6, <1>7, <1>8, <1>9 DEF PaymentCreateCases, Cases
    <2>2. actor \in PaymentCreateCases.denied => ~(CanCreatePaymentForObligation(k, x.pupil))
      BY <1>5, <1>6, <1>7, <1>8, <1>9 DEF PaymentCreateCases, Cases, Strangers
    <2> QED BY <1>10, <1>11, <2>1, <2>2
  <1>16. \A o \in SheetOps : Fits(o, AssignmentCases)
    <2>1. actor \in AssignmentCases.allowed => Held(k, Staffroom) /\ CanActOnAssignment(k, x.assignment)
      BY <1>5, <1>6, <1>7, <1>8, <1>9 DEF AssignmentCases, Cases, Held, Staffroom
    <2>2. actor \in AssignmentCases.denied => ~(Held(k, Staffroom) /\ CanActOnAssignment(k, x.assignment))
      BY <1>5, <1>6, <1>7, <1>8, <1>9 DEF AssignmentCases, Cases, Strangers, Held, Staffroom
    <2> QED BY <1>10, <1>11, <2>1, <2>2
  <1>17. Fits("getRoster", Cases({"staffParentTeaching"}, {}))
    <2>1. actor = "staffParentTeaching" => Held(k, Staffroom) /\ CanActOnAssignment(k, x.assignment)
      BY <1>6, <1>9 DEF Held, Staffroom
    <2> QED BY <1>10, <2>1 DEF Cases, SheetOps
  <1>18. \A o \in {"getStaff", "getTeacherTimetable"} : Fits(o, StaffScopeCases)
    <2>1. actor \in StaffScopeCases.allowed => CanReadStaff(k, x.staff)
      BY <1>5, <1>6, <1>7, <1>8, <1>9 DEF StaffScopeCases, Cases
    <2>2. actor \in StaffScopeCases.denied => ~(CanReadStaff(k, x.staff))
      BY <1>5, <1>6, <1>7, <1>8, <1>9 DEF StaffScopeCases, Cases, Strangers
    <2> QED BY <1>10, <1>11, <2>1, <2>2
  <1>19. \A o \in {"getClassTimetable"} : Fits(o, TimetableCases)
    <2>1. actor \in TimetableCases.allowed => CanReadClassTimetable(k, x.room)
      BY <1>5, <1>6, <1>7, <1>8, <1>9 DEF TimetableCases, Cases
    <2>2. actor = "bursar" => ~Is("STUDENT") /\ ~Is("PARENT") /\ ~Is("ADMIN") /\ ~Is("TEACHER")
      BY <1>9
    <2>3. actor \in {"bursar", "unlinkedParent", "otherStudent"} => ~Sees
      BY <1>5, <1>9, <2>2
    <2>4. actor \in TimetableCases.denied => ~CanReadClassTimetable(k, x.room)
      BY <1>7, <1>9, <2>2, <2>3 DEF TimetableCases, Cases
    <2> QED BY <1>11, <2>1, <2>4
  <1>20. \A o \in {"listClassStudents"} : Fits(o, ClassRosterCases)
    <2>1. actor \in ClassRosterCases.allowed => Held(k, ClassDesk) /\ CanReadClassRoster(k, x.room, now)
      BY <1>5, <1>6, <1>7, <1>8, <1>9 DEF ClassRosterCases, Cases, Held, ClassDesk
    <2>2. actor \in ClassRosterCases.denied => ~(Held(k, ClassDesk) /\ CanReadClassRoster(k, x.room, now))
      BY <1>5, <1>6, <1>7, <1>8, <1>9 DEF ClassRosterCases, Cases, Strangers, Held, ClassDesk
    <2> QED BY <1>10, <1>11, <2>1, <2>2
  <1>21. /\ CanWriteClassTeacherComment(k, x.pupil, now) <=> CanReadClassResults(k, x.room, now)
         /\ actor \in ClassTeacherCommentCases.allowed =>
                Held(k, Staffroom) /\ CanReadClassResults(k, x.room, now)
         /\ actor \in ClassTeacherCommentCases.denied => ~CanReadClassResults(k, x.room, now)
    BY <1>7, <1>9 DEF ClassTeacherCommentCases, Cases, Strangers, Held, Staffroom
  <1>22. \A o \in {"writeClassTeacherComment", "listResultsForClass", "bulkUpsertRatings"} :
            Fits(o, ClassTeacherCommentCases)
    BY <1>11, <1>21
  <1>23. \A o \in {"listStudentParents"} : Fits(o, StudentParentsCases)
    <2>1. actor \in StudentParentsCases.allowed => CanReadStudentParents(k, x.pupil)
      BY <1>5, <1>6, <1>7, <1>8, <1>9 DEF StudentParentsCases, Cases
    <2>2. actor \in StudentParentsCases.denied => ~(CanReadStudentParents(k, x.pupil))
      BY <1>5, <1>6, <1>7, <1>8, <1>9 DEF StudentParentsCases, Cases, Strangers
    <2> QED BY <1>10, <1>11, <2>1, <2>2
  <1>24. \A o \in {"rotateQrCode", "getActiveQrCode"} : Fits(o, QrCodeCases)
    <2>1. actor \in QrCodeCases.allowed => Held(k, PupilDesk) /\ CanManageStudentQrCode(k, x.pupil)
      BY <1>5, <1>6, <1>7, <1>8, <1>9 DEF QrCodeCases, Cases, Held, PupilDesk
    <2>2. actor \in QrCodeCases.denied => ~(Held(k, PupilDesk) /\ CanManageStudentQrCode(k, x.pupil))
      BY <1>5, <1>6, <1>7, <1>8, <1>9 DEF QrCodeCases, Cases, Strangers, Held, PupilDesk
    <2> QED BY <1>10, <1>11, <2>1, <2>2
  <1>25. \A o \in {"listChildren"} : Fits(o, ParentScopeCases)
    <2>1. actor \in ParentScopeCases.allowed => Held(k, ParentDesk) /\ CanReadParent(k, x.parent)
      BY <1>5, <1>6, <1>7, <1>8, <1>9 DEF ParentScopeCases, Cases, Held, ParentDesk
    <2>2. actor \in ParentScopeCases.denied => ~(Held(k, ParentDesk) /\ CanReadParent(k, x.parent))
      BY <1>5, <1>6, <1>7, <1>8, <1>9 DEF ParentScopeCases, Cases, Strangers, Held, ParentDesk
    <2> QED BY <1>10, <1>11, <2>1, <2>2
  <1>26. \A o \in {"markRead"} : Fits(o, NotificationCases)
    <2>1. actor \in NotificationCases.allowed => Is("ADMIN") \/ k.parent = x.parent
      BY <1>5, <1>6, <1>7, <1>8, <1>9 DEF NotificationCases, Cases
    <2>2. actor \in NotificationCases.denied => ~(Is("ADMIN") \/ k.parent = x.parent)
      BY <1>5, <1>6, <1>7, <1>8, <1>9 DEF NotificationCases, Cases, Strangers
    <2> QED BY <1>10, <1>11, <2>1, <2>2
  <1> HIDE DEF Fits
  <1>27. \A row \in BespokeRows : Fits(row.op, row.cases)
    <2>1. \A row \in PupilRows : Fits(row.op, row.cases)
      BY <1>12, <1>13, <1>15, <1>23, <1>24, <1>25 DEF PupilRows, Rows, PupilOps, StatementOps
    <2>2. \A row \in TeacherRows : Fits(row.op, row.cases)
      BY <1>16, <1>17, <1>18, <1>19, <1>20, <1>22 DEF TeacherRows, Rows, SheetOps
    <2>3. \A row \in NotificationRows \cup DisjointRows : Fits(row.op, row.cases)
      BY <1>12, <1>14, <1>26 DEF NotificationRows, DisjointRows, Rows, PupilOps, StatementOps
    <2> QED BY <2>1, <2>2, <2>3 DEF BespokeRows
  <1>28. \A row \in BespokeRows : /\ actor \in row.cases.allowed => MayCall(u, row.op, f)
                                  /\ actor \in row.cases.denied => ~MayCall(u, row.op, f)
    BY <1>27 DEF Fits
  <1> QED BY <1>28 DEF AllowedTo, DeniedTo, f, k

(* What GuardsAgree says of money and of teachers.                          *)
LEMMA RecipientsFollow ==
  ASSUME AccessTypeOK
  PROVE  RecipientsAreReaders
  <1> SUFFICES ASSUME NEW p \in Pupil, NEW u \in Caller, ~Office(Claims[u])
               PROVE  /\ \A op \in AboutMoney :
                            MayCall(u, op, About(p)) <=>
                                u \in Recipients(p) \cup {v \in Caller : Claims[v].student = p}
                      /\ MayCall(u, "recordPayment", About(p)) <=> u \in Recipients(p)
    BY DEF RecipientsAreReaders
  <1> DEFINE k == Claims[u]
  <1>1. About(p).pupil = p
    BY DEF About
  <1>2. Issuable(k) /\ Null \notin Pupil
    BY AccessAssumption
  <1>3. /\ \A op \in AboutMoney : MayCall(u, op, About(p)) <=> CanReadStudentFinancials(k, p)
        /\ MayCall(u, "recordPayment", About(p)) <=> CanCreatePaymentForObligation(k, p)
    BY <1>1, CallsAre DEF AboutMoney, StatementOps
  <1>4. IsParentOf(k, p) <=> u \in Recipients(p)
    BY <1>2 DEF IsParentOf, Has, Recipients, Issuable
  <1>5. IsOwn(k, p) <=> k.student = p
    BY <1>2 DEF IsOwn, Has, Issuable
  <1> QED BY <1>3, <1>4, <1>5 DEF CanReadStudentFinancials, CanCreatePaymentForObligation

LEMMA TeachersFollow ==
  ASSUME AccessTypeOK
  PROVE  TeachersSeeTheirClasses
  <1> SUFFICES ASSUME NEW u \in Caller
               PROVE  /\ \A a \in teaching :
                            LET x == [assignment |-> a, room |-> a[2], session |-> a[3]] IN
                            a[3] = now /\ MayCall(u, "bulkUpsertScores", x) =>
                                /\ MayCall(u, "listClassStudents", x)
                                /\ \A p \in Pupil : Sits(p, now) /\ seat[<<p, now>>].room = a[2]
                                                     => StudentAccessLevel(Claims[u], p) = "FULL"
                      /\ \A p \in Pupil :
                            /\ \A s \in Session :
                                  /\ seat[<<p, s>>] # Null
                                  /\ MayCall(u, "writeClassTeacherComment", [pupil |-> p, session |-> s])
                                  => MayCall(u, "listResultsForClass",
                                             [room |-> seat[<<p, s>>].room, session |-> s])
                            /\ StudentAccessLevel(Claims[u], p) = "FULL" /\ ~Has(Claims[u], "ADMIN")
                               => \E a \in teaching : /\ a[1] = Claims[u].staff /\ a[3] = now
                                                      /\ seat[<<p, now>>].room = a[2]
    BY DEF TeachersSeeTheirClasses
  <1> DEFINE k == Claims[u]
  <1>1. /\ now \in Session \cup {Null} /\ teaching \subseteq Teacher \X Room \X Session
        /\ Null \notin Session /\ Null \notin Teacher
    BY AccessAssumption DEF AccessTypeOK
  <1>2. ASSUME NEW a \in teaching, a[3] = now,
               MayCall(u, "bulkUpsertScores", [assignment |-> a, room |-> a[2], session |-> a[3]])
        PROVE  /\ MayCall(u, "listClassStudents", [assignment |-> a, room |-> a[2], session |-> a[3]])
               /\ \A p \in Pupil : Sits(p, now) /\ seat[<<p, now>>].room = a[2]
                                    => StudentAccessLevel(k, p) = "FULL"
    <2> DEFINE x == [assignment |-> a, room |-> a[2], session |-> a[3]]
    <2>1. x.assignment = a /\ x.room = a[2] /\ x.session = now
      BY <1>2
    <2>2. a = <<a[1], a[2], now>> /\ a[1] \in Teacher /\ now \in Session
      BY <1>1, <1>2
    <2>3. Has(k, "ADMIN") \/ (Has(k, "TEACHER") /\ k.staff = a[1])
      BY <1>2, <2>1, CallsAre DEF SheetOps, CanActOnAssignment
    <2>4. MayCall(u, "listClassStudents", x) <=> Held(k, ClassDesk) /\ CanReadClassRoster(k, a[2], now)
      BY <2>1, CallsAre
    <2>5. Held(k, ClassDesk) /\ CanReadClassRoster(k, a[2], now)
      BY <1>1, <1>2, <2>2, <2>3 DEF Held, ClassDesk, Has, CanReadClassRoster
    <2>6. \A p \in Pupil : Sits(p, now) /\ seat[<<p, now>>].room = a[2] => StudentAccessLevel(k, p) = "FULL"
      BY <1>1, <1>2, <2>2, <2>3 DEF StudentAccessLevel, TeachesPupil
    <2> QED BY <2>4, <2>5, <2>6
  <1>3. ASSUME NEW p \in Pupil, NEW s \in Session, seat[<<p, s>>] # Null,
               MayCall(u, "writeClassTeacherComment", [pupil |-> p, session |-> s])
        PROVE  MayCall(u, "listResultsForClass", [room |-> seat[<<p, s>>].room, session |-> s])
    <2> DEFINE x == [pupil |-> p, session |-> s]
               y == [room |-> seat[<<p, s>>].room, session |-> s]
    <2>1. x.pupil = p /\ x.session = s /\ y.room = seat[<<p, s>>].room /\ y.session = s
      OBVIOUS
    <2>2. Held(k, Staffroom) /\ CanWriteClassTeacherComment(k, p, s)
      BY <1>3, <2>1, CallsAre
    <2>3. CanReadClassResults(k, seat[<<p, s>>].room, s)
      BY <2>2 DEF CanWriteClassTeacherComment, CanReadClassResults
    <2>4. MayCall(u, "listResultsForClass", y) <=>
              Held(k, Staffroom) /\ CanReadClassResults(k, seat[<<p, s>>].room, s)
      BY <2>1, CallsAre
    <2> QED BY <2>2, <2>3, <2>4
  <1>4. ASSUME NEW p \in Pupil, StudentAccessLevel(k, p) = "FULL", ~Has(k, "ADMIN")
        PROVE  \E a \in teaching : a[1] = k.staff /\ a[3] = now /\ seat[<<p, now>>].room = a[2]
    <2>1. TeachesPupil(k.staff, p)
      BY <1>4 DEF StudentAccessLevel
    <2>2. <<k.staff, seat[<<p, now>>].room, now>> \in teaching
      BY <2>1 DEF TeachesPupil
    <2> QED BY <2>2
  <1> QED BY <1>2, <1>3, <1>4

AccessIInv == AccessTypeOK /\ TeachersMayTeach

LEMMA GuardsFollow == AccessIInv => GuardsAgree /\ MatrixHolds
  BY RecipientsFollow, TeachersFollow, MatrixFollows DEF AccessIInv, GuardsAgree

LEMMA AccessInitIInv == AccessInit => AccessIInv
  BY AccessAssumption DEF AccessInit, AccessIInv, AccessTypeOK, TeachersMayTeach

LEMMA AccessNextTypes == AccessTypeOK /\ [AccessNext]_accessVars => AccessTypeOK'
  <1> SUFFICES ASSUME AccessTypeOK, [AccessNext]_accessVars PROVE AccessTypeOK'
    OBVIOUS
  <1>1. CASE UNCHANGED accessVars
    BY <1>1 DEF accessVars, AccessTypeOK
  <1>2. ASSUME NEW x \in LinkRow, LinkPupil(x[1], x[2]) \/ UnlinkPupil(x[1], x[2]) PROVE AccessTypeOK'
    <2>1. x[1] \in Pupil /\ x[2] \in Guardian
      BY AccessAssumption
    <2> QED BY <1>2, <2>1 DEF LinkPupil, UnlinkPupil, AccessTypeOK
  <1>3. ASSUME NEW x \in SeatRow, SeatPupil(x[1], x[2], x[3]) PROVE AccessTypeOK'
    <2>1. x[3] \in Room
      BY AccessAssumption
    <2>2. [room |-> x[3], active |-> TRUE] \in Seat
      BY <2>1 DEF Seat
    <2> QED BY <1>3, <2>2 DEF SeatPupil, AccessTypeOK
  <1>4. ASSUME NEW p \in Pupil, PupilLeaves(p) PROVE AccessTypeOK'
    <2>1. \A x \in Pupil \X Session : seat[x] # Null => [seat[x] EXCEPT !.active = FALSE] \in Seat
      BY DEF AccessTypeOK, Seat
    <2> QED BY <1>4, <2>1 DEF PupilLeaves, AccessTypeOK
  <1>5. ASSUME NEW p \in Pupil, NEW c \in Room, MovePupil(p, c) PROVE AccessTypeOK'
    <2>1. PICK y : y = [seat[<<p, now>>] EXCEPT !.room = c]
      OBVIOUS
    <2>2. seat[<<p, now>>] \in Seat /\ seat' = [seat EXCEPT ![<<p, now>>] = y]
      BY <1>5, <2>1 DEF MovePupil, AccessTypeOK
    <2>3. y \in Seat
      BY <2>1, <2>2 DEF Seat
    <2> QED BY <1>5, <2>2, <2>3 DEF MovePupil, AccessTypeOK
  <1>6. ASSUME NEW x \in TeachRow, AssignTeacher(x[1], x[2], x[3]) \/ UnassignTeacher(x) PROVE AccessTypeOK'
    <2>1. <<x[1], x[2], x[3]>> \in Teacher \X Room \X Session
      BY AccessAssumption
    <2> QED BY <1>6, <2>1 DEF AssignTeacher, UnassignTeacher, AccessTypeOK
  <1>7. ASSUME NEW x \in FormRow, AppointForm(x[1], x[2], x[3]) \/ EndForm(x[1], x[2]) PROVE AccessTypeOK'
    <2>1. x[3] \in Teacher
      BY AccessAssumption
    <2> QED BY <1>7, <2>1 DEF AppointForm, EndForm, AccessTypeOK
  <1>8. ASSUME NEW s \in Session, SwitchNow(s) PROVE AccessTypeOK'
    BY <1>8 DEF SwitchNow, AccessTypeOK
  <1> QED BY <1>1, <1>2, <1>3, <1>4, <1>5, <1>6, <1>7, <1>8 DEF AccessNext

LEMMA AccessNextIInv == AccessIInv /\ [AccessNext]_accessVars => AccessIInv'
  <1> SUFFICES ASSUME AccessIInv, [AccessNext]_accessVars PROVE TeachersMayTeach'
    BY AccessNextTypes DEF AccessIInv
  <1>1. \A t : MayTeach(t)' = MayTeach(t)
    BY DEF MayTeach
  <1>2. CASE UNCHANGED <<teaching, formOf>>
    BY <1>1, <1>2 DEF AccessIInv, TeachersMayTeach
  <1>3. ASSUME NEW x \in TeachRow, AssignTeacher(x[1], x[2], x[3]) PROVE TeachersMayTeach'
    <2>1. MayTeach(x[1]) /\ teaching' = teaching \cup {<<x[1], x[2], x[3]>>} /\ formOf' = formOf
      BY <1>3 DEF AssignTeacher
    <2>2. \A a \in teaching' : MayTeach(a[1])
      BY <2>1 DEF AccessIInv, TeachersMayTeach
    <2> QED BY <1>1, <2>1, <2>2 DEF AccessIInv, TeachersMayTeach
  <1>4. ASSUME NEW x \in TeachRow, UnassignTeacher(x) PROVE TeachersMayTeach'
    BY <1>1, <1>4 DEF UnassignTeacher, AccessIInv, TeachersMayTeach
  <1>5. ASSUME NEW x \in FormRow, AppointForm(x[1], x[2], x[3]) \/ EndForm(x[1], x[2])
        PROVE  TeachersMayTeach'
    <2>1. /\ teaching' = teaching
          /\ \A y \in Room \X Session :
                formOf'[y] = formOf[y] \/ formOf'[y] = Null \/ (formOf'[y] = x[3] /\ MayTeach(x[3]))
      BY <1>5 DEF AppointForm, EndForm, AccessIInv, AccessTypeOK
    <2> QED BY <1>1, <2>1 DEF AccessIInv, TeachersMayTeach
  <1>6. AccessNext /\ ~UNCHANGED <<teaching, formOf>>
          => \/ \E x \in TeachRow : AssignTeacher(x[1], x[2], x[3]) \/ UnassignTeacher(x)
             \/ \E x \in FormRow : AppointForm(x[1], x[2], x[3]) \/ EndForm(x[1], x[2])
    BY DEF AccessNext, LinkPupil, UnlinkPupil, SeatPupil, PupilLeaves, MovePupil, SwitchNow
  <1> QED BY <1>2, <1>3, <1>4, <1>5, <1>6 DEF accessVars

-----------------------------------------------------------------------------
(* The offices together *)

PortalIInv ==
    /\ scene \in Scene
    /\ OnboardingIInv /\ OfficeIInv
    /\ CalendarIInv /\ GradingIInv /\ furnished \subseteq Furniture
    /\ BillingIInv /\ AccessIInv /\ ReportCardIInv /\ NoticesIInv

LEMMA PortalTypes == PortalIInv => PortalTypeOK
  BY OfficeTypes, BillingTypes DEF PortalIInv, PortalTypeOK, SetupTypeOK, CalendarIInv, GradingIInv,
     AccessIInv, ReportCardIInv, NoticesIInv

(* What the offices open with is what their invariants allow.               *)
LEMMA FirstRecords ==
  ASSUME PortalInit
  PROVE  OnboardingIInv /\ OfficeIInv /\ CalendarIInv /\ GradingIInv /\ furnished \subseteq Furniture
  <1>1. OnboardingIInv /\ OfficeIInv
    <2>1. PICK y : y = CHOOSE x \in Year : TRUE
      OBVIOUS
    <2>2. y \in Year
      BY <2>1, PortalAssumption
    <2>3. CASE scene \in {"logins", "enrolment"}
      <3>1. PICK known : known = [s \in {KnownStudent} |-> FirstNumber]
        OBVIOUS
      <3>2. OnboardingStart(known, y)
        BY <2>1, <2>3, <3>1 DEF PortalInit
      <3>3. Registry(known)
        BY <2>1, <2>2, <3>1, PortalAssumption, OnboardingAssumption DEF Registry, FirstNumber, Person, Number, Prefix
      <3> QED BY <2>2, <3>2, <3>3, OnboardingStartIInv, OfficeStartIInv DEF Opt
    <2>4. CASE scene = "registry"
      BY <2>4, OnboardingInitIInv, OfficeStartIInv DEF PortalInit, OnboardingInit
    <2>5. CASE scene \notin {"logins", "enrolment", "registry"}
      <3>1. PICK known : known = Nothing
        OBVIOUS
      <3>2. OnboardingStart(known, Null) /\ Registry(known)
        BY <2>5, <3>1 DEF PortalInit, Registry, Nothing
      <3> QED BY <3>2, OnboardingStartIInv, OfficeStartIInv DEF Opt
    <2> QED BY <2>3, <2>4, <2>5
  <1>2. CalendarIInv
    <2>1. ASSUME NEW ps \in SUBSET Period, CalendarStart(ps, {}, {}, {}) PROVE CalendarIInv
      <3>1. /\ {} \in SUBSET Assignment /\ {} \in SUBSET School /\ {} \in SUBSET ps
            /\ \A p, q \in {} : ScopeOf[p] = ScopeOf[q] => p = q
            /\ \A s, t \in {} : s = t
        OBVIOUS
      <3> QED BY <2>1, <3>1, CalendarStartIInv
    <2>2. CASE scene \in {"bands", "components"}
      <3>1. PICK h : h = CHOOSE s \in School : TRUE
        OBVIOUS
      <3>2. CalendarStart(FirstPeriods, {}, {h}, FirstPeriods)
        BY <2>2, <3>1 DEF PortalInit
      <3>3. /\ FirstPeriods \in SUBSET Period /\ {} \in SUBSET Assignment /\ {h} \in SUBSET School
            /\ FirstPeriods \in SUBSET FirstPeriods /\ \A s, t \in {h} : s = t
            /\ \A p, q \in FirstPeriods : ScopeOf[p] = ScopeOf[q] => p = q
        BY <3>1, PortalAssumption
      <3> QED BY <3>2, <3>3, CalendarStartIInv
    <2>3. CASE scene \notin {"bands", "components"}
      <3>1. PICK ps : ps = IF scene = "calendar" THEN FirstPeriods ELSE {}
        OBVIOUS
      <3>2. CalendarStart(ps, {}, {}, {}) /\ ps \in SUBSET Period
        BY <2>3, <3>1, PortalAssumption DEF PortalInit
      <3> QED BY <2>1, <3>2
    <2> QED BY <2>2, <2>3
  <1>3. GradingIInv
    <2>1. PICK bs, cs : /\ bs = IF scene \in {"calendar", "components"} THEN FirstBands ELSE Nothing
                        /\ cs = IF scene \in {"calendar", "bands"} THEN FirstComponents ELSE Nothing
      OBVIOUS
    <2>2. GradingStart(bs, cs)
      BY <2>1 DEF PortalInit
    <2>3. ScaleOf(bs)
      BY <2>1, PortalAssumption DEF ScaleOf, Nothing
    <2>4. WeightsOf(cs)
      BY <2>1, PortalAssumption DEF WeightsOf, Nothing
    <2> QED BY <2>2, <2>3, <2>4, GradingStartIInv
  <1>4. furnished \subseteq Furniture
    BY DEF PortalInit
  <1> QED BY <1>1, <1>2, <1>3, <1>4

LEMMA FirstBusiness == PortalInit => BillingIInv /\ AccessIInv /\ ReportCardIInv /\ NoticesIInv
  <1> SUFFICES ASSUME PortalInit PROVE BillingIInv /\ AccessIInv /\ ReportCardIInv /\ NoticesIInv
    OBVIOUS
  <1>1. BillingIInv
    <2>1. PICK fs, ks : /\ fs = IF scene = "payments" THEN FirstBills.structures ELSE Nothing
                        /\ ks = IF scene = "payments" THEN FirstBills.children
                               ELSE IF scene = "bills" THEN Settlers ELSE Nothing
      OBVIOUS
    <2>2. BillingStart(fs, ks)
      BY <2>1 DEF PortalInit
    <2>3. DOMAIN fs \subseteq Structure /\ \A f \in DOMAIN fs : fs[f] \in Tariff
      BY <2>1, PortalAssumption DEF Nothing
    <2>4. DOMAIN ks \subseteq Child /\ \A k \in DOMAIN ks : ks[k] \in Form
      BY <2>1, PortalAssumption DEF Nothing, Settlers
    <2>5. Bursar # {}
      BY PortalAssumption
    <2> QED BY <2>2, <2>3, <2>4, <2>5, BillingStartIInv
  <1>2. AccessIInv /\ ReportCardIInv
    BY AccessInitIInv, ReportCardInitIInv DEF PortalInit
  <1>3. NoticesIInv
    <2>1. PICK held : held = IF scene \in {"mail", "inbox"} THEN FirstMailbox[scene] ELSE Nothing
      OBVIOUS
    <2>2. NoticesStart(held)
      BY <2>1 DEF PortalInit
    <2>3. DOMAIN held \subseteq Addressee /\ \A u \in DOMAIN held : held[u] \in Address
      BY <2>1, PortalAssumption DEF Nothing
    <2> QED BY <2>2, <2>3, NoticesStartIInv
  <1> QED BY <1>1, <1>2, <1>3

LEMMA PortalInitIInv == PortalInit => PortalIInv
  BY FirstRecords, FirstBusiness DEF PortalIInv, PortalInit

(* One office steps, as its own specification lets it, and the rest wait.   *)
LEMMA OneOffice ==
  ASSUME [PortalNext]_portalVars
  PROVE  /\ scene' = scene
         /\ [OnboardingNext]_onboardingVars /\ [CalendarNext]_calendarVars /\ [GradingNext]_gradingVars
         /\ FurnishNext \/ UNCHANGED furnished
         /\ \E K \in SUBSET Child : BillNext(K) \/ PayNext(K) \/ UNCHANGED billingVars
         /\ [AccessNext]_accessVars /\ [ReportCardNext]_cardVars
         /\ \E M \in SUBSET Task : MailNext \/ InboxNext(M) \/ UNCHANGED noticeVars
  <1>1. /\ {Newcomer} \in SUBSET Child /\ One(Task) \in SUBSET Task
        /\ PublishNext(One(Pen)) => ReportCardNext
    <2>1. One(Task) \in SUBSET Task /\ One(Pen) \in SUBSET Pen
      BY PortalAssumption DEF One
    <2> QED BY <2>1, PortalAssumption DEF PublishNext, ReportCardNext
  <1>2. ASSUME UNCHANGED setupVars PROVE UNCHANGED <<calendarVars, gradingVars, furnished>>
    BY <1>2 DEF setupVars
  <1>3. CASE OnboardingScene /\ scene' = scene
    <2>1. OnboardingNext /\ UNCHANGED setupVars /\ UNCHANGED <<billingVars, accessVars, cardVars, noticeVars>>
      BY <1>3 DEF OnboardingScene, OnboardingNext
    <2> QED BY <1>1, <1>2, <1>3, <2>1
  <1>4. CASE CalendarScene /\ scene' = scene
    <2>1. CalendarNext /\ UNCHANGED <<onboardingVars, gradingVars, furnished, billingVars, accessVars, cardVars, noticeVars>>
      BY <1>4 DEF CalendarScene, CalendarNext
    <2> QED BY <1>1, <1>4, <2>1
  <1>5. CASE GradingScene /\ scene' = scene
    <2>1. /\ \/ GradingNext /\ UNCHANGED <<calendarVars, furnished>>
             \/ FurnishNext /\ UNCHANGED <<calendarVars, gradingVars>>
          /\ UNCHANGED <<onboardingVars, billingVars, accessVars, cardVars, noticeVars>>
      BY <1>5 DEF GradingScene, GradingNext, FurnishNext, Furnish, RetireAdmin
    <2> QED BY <1>1, <1>5, <2>1
  <1>6. CASE BillingScene /\ scene' = scene
    <2>1. /\ BillNext({Newcomer}) \/ PayNext({Newcomer})
          /\ UNCHANGED setupVars /\ UNCHANGED <<onboardingVars, accessVars, cardVars, noticeVars>>
      BY <1>6 DEF BillingScene
    <2> QED BY <1>1, <1>2, <1>6, <2>1
  <1>7. CASE AccessScene /\ scene' = scene
    <2>1. AccessNext /\ UNCHANGED setupVars /\ UNCHANGED <<onboardingVars, billingVars, cardVars, noticeVars>>
      BY <1>7 DEF AccessScene
    <2> QED BY <1>1, <1>2, <1>7, <2>1
  <1>8. CASE CardScene /\ scene' = scene
    <2>1. ReportCardNext /\ UNCHANGED setupVars /\ UNCHANGED <<onboardingVars, billingVars, accessVars, noticeVars>>
      BY <1>1, <1>8 DEF CardScene, ReportCardNext
    <2> QED BY <1>1, <1>2, <1>8, <2>1
  <1>9. CASE NoticeScene /\ scene' = scene
    <2>1. /\ MailNext \/ InboxNext(One(Task))
          /\ UNCHANGED setupVars /\ UNCHANGED <<onboardingVars, billingVars, accessVars, cardVars>>
      BY <1>9 DEF NoticeScene
    <2> QED BY <1>1, <1>2, <1>9, <2>1
  <1>10. CASE UNCHANGED portalVars
    <2>1. /\ UNCHANGED setupVars
          /\ UNCHANGED <<scene, onboardingVars, billingVars, accessVars, cardVars, noticeVars>>
      BY <1>10 DEF portalVars
    <2> QED BY <1>1, <1>2, <2>1
  <1> QED BY <1>3, <1>4, <1>5, <1>6, <1>7, <1>8, <1>9, <1>10 DEF PortalNext

LEMMA PortalNextIInv == PortalIInv /\ [PortalNext]_portalVars => PortalIInv'
  <1> SUFFICES ASSUME PortalIInv, [PortalNext]_portalVars PROVE PortalIInv'
    OBVIOUS
  <1>1. scene' = scene /\ OnboardingIInv' /\ CalendarIInv' /\ GradingIInv'
    BY OneOffice, OnboardingNextIInv, CalendarNextIInv, GradingNextIInv DEF PortalIInv
  <1>2. OfficeIInv'
    BY <1>1, OneOffice, OfficeNextIInv DEF PortalIInv
  <1>3. furnished' \subseteq Furniture
    BY OneOffice DEF FurnishNext, Furnish, RetireAdmin, PortalIInv
  <1>4. BillingIInv'
    BY OneOffice, BillingNextIInv DEF PortalIInv
  <1>5. AccessIInv' /\ ReportCardIInv'
    BY OneOffice, AccessNextIInv, ReportCardNextIInv DEF PortalIInv
  <1>6. NoticesIInv'
    BY OneOffice, NoticesNextIInv DEF PortalIInv
  <1> QED BY <1>1, <1>2, <1>3, <1>4, <1>5, <1>6 DEF PortalIInv

LEMMA PortalSteps == PortalSpec => PortalInit /\ [][PortalNext]_portalVars
  BY DEF PortalSpec

LEMMA PortalInvariance == PortalSpec => []PortalIInv
  BY PortalSteps, PortalInitIInv, PortalNextIInv, PTL

(* Every reachable state of the portal has the stated types, whatever scene *)
(* it opens in and however many requests each office serves at a time.      *)
THEOREM PortalTypeCorrect == PortalSpec => []PortalTypeOK
  <1> QED BY PortalTypes, PortalInvariance, PTL

(* A scale reported ready grades every total below full marks once, and one *)
(* turned down without an editing race leaves a mark ungraded               *)
(* (admin.service.ts:56-352, grading.service.ts:142-228).                   *)
THEOREM ReadySchoolsGrade == PortalSpec => []ReadyMeansGraded
  <1>1. PortalIInv => ReadyMeansGraded
    BY ReadyByGradingIInv DEF PortalIInv
  <1> QED BY <1>1, PortalInvariance, PTL

(* A second bill of a child for a structure needs a structure of no term    *)
(* and two generations that both read before either wrote                   *)
(* (fees.service.ts:146-171).                                               *)
THEOREM ChildrenAreBilledOnce == PortalSpec => []BilledOnce
  <1>1. PortalIInv => BilledOnce
    BY BilledOnceByBillingIInv DEF PortalIInv
  <1> QED BY <1>1, PortalInvariance, PTL

(* The summary's outstanding, pending and collected amounts agree with the  *)
(* defaulters list, the payment detail and the term's payment counts, for   *)
(* every filter of structures (fees.service.ts:587-719, 802-871,            *)
(* reports.service.ts:32-70, 142-174).                                      *)
THEOREM ReportsAgree == PortalSpec => []SummaryMatchesDefaulters
  <1>1. PortalIInv => SummaryMatchesDefaulters
    BY SummaryByBillingIInv DEF PortalIInv
  <1> QED BY <1>1, PortalInvariance, PTL

(* One term's result, the list of terms and the session's result withhold   *)
(* by the same money owed (results.service.ts:1003-1140).                   *)
THEOREM WithholdingAgrees == PortalSpec => []WithheldConsistently
  <1>1. PortalIInv => WithheldConsistently
    BY WithheldByReportCardIInv DEF PortalIInv
  <1> QED BY <1>1, PortalInvariance, PTL

(* What each office promises alone holds of the offices together: numbers   *)
(* are not reissued, an enquiry becomes one student, credentials open the   *)
(* account they are sent for and reach someone, a login ID is the number,   *)
(* and bands overlap only after a race.                                     *)
THEOREM OfficesKeepTheirPromises ==
  PortalSpec => [](NeverReissued /\ CredentialsOpenTheAccount /\ PasswordReachesSomeone /\ LoginIsNumber
                   /\ OverlapNeedsARace)
  <1>1. PortalIInv => NeverReissued /\ CredentialsOpenTheAccount /\ PasswordReachesSomeone /\ LoginIsNumber
                      /\ OverlapNeedsARace
    BY OverlapByGradingIInv DEF PortalIInv, OnboardingIInv, Mail, CredentialsOpenTheAccount
  <1> QED BY <1>1, PortalInvariance, PTL

(* Every row of the authorization matrix holds for every account that plays *)
(* one of its actors, in every state of links, enrolments, assignments, form *)
(* classes and sessions, however many of each there are                     *)
(* (authMatrix.data.ts:439-656).                                            *)
THEOREM MatrixIsKept == PortalSpec => []MatrixHolds
  <1>1. PortalIInv => MatrixHolds
    BY GuardsFollow DEF PortalIInv
  <1> QED BY <1>1, PortalInvariance, PTL

(* Whoever is told about a pupil's money can open it and pay it, and the    *)
(* guards of a teacher agree with each other (scopeResolvers.ts:9-273,      *)
(* 330-381).                                                                *)
THEOREM AccessIsCoherent == PortalSpec => []AccessAgrees
  <1>1. PortalIInv => AccessAgrees
    BY GuardsFollow DEF PortalIInv, AccessAgrees
  <1> QED BY <1>1, PortalInvariance, PTL

(* No e-mail address is replaced before the provider answered for a notice  *)
(* to it, whichever statements fail, unless two changes of the same account *)
(* overlapped (users.service.ts:366-424).                                   *)
THEOREM ReplacedAddressIsTold == PortalSpec => ChangeIsAnnounced
  <1>1. PortalIInv /\ [PortalNext]_portalVars => [AnnouncedStep]_noticeVars
    BY OneOffice, AnnouncedByStep DEF PortalIInv
  <1>2. PortalSpec => [][AnnouncedStep]_noticeVars
    BY <1>1, PortalSteps, PortalInvariance, PTL
  <1> QED BY <1>2 DEF ChangeIsAnnounced, AnnouncedStep

(* The offices together keep what the calendar and the report card promise  *)
(* of a step: a current session, assignments deleted whole, ratings frozen  *)
(* with the card, and comments changed after it by recorded overrides only  *)
(* (academics.service.ts, results.service.ts:767-855).                      *)
THEOREM OfficesStepTogether == PortalSpec => CurrentIsKept /\ DeletedWhole /\ RatingsFrozen
  <1>1. PortalIInv /\ PortalIInv' /\ [PortalNext]_portalVars
          => [KeptStep]_calendarVars /\ [WholeStep]_calendarVars /\ [FrozenStep]_cardVars
    BY OneOffice, KeptByStep, WholeByStep, FrozenByStep DEF PortalIInv
  <1>2. PortalSpec => [][KeptStep]_calendarVars /\ [][WholeStep]_calendarVars /\ [][FrozenStep]_cardVars
    BY <1>1, PortalSteps, PortalInvariance, PTL
  <1> QED BY <1>2 DEF CurrentIsKept, KeptStep, DeletedWhole, WholeStep, RatingsFrozen, FrozenStep
=============================================================================
