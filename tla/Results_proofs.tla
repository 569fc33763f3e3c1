--------------------------- MODULE Results_proofs ---------------------------
(* Theorems about Results, for any students, averages and number of         *)
(* concurrent requests. The inductive invariant says what row locks protect *)
(* (a row about to be written agrees with the committed one in whatever is  *)
(* final) and that one request at most is about to record a release. The    *)
(* last part strengthens it to what keeps a complete class ranked: a pass   *)
(* that would miss a finalization has the request that made it behind it.   *)
EXTENDS Results, FiniteSetTheorems, TLAPS

Writing == {"computeWrite", "rankWrite"}
Targeting == Finalizing \cup {"override", "audit"}
Statement == {"idle", "override", "audit"} \cup Computing \cup Finalizing \cup Ranking

TypedRows ==
    /\ standing \in [Student -> Avg \cup {Null}]
    /\ attended \in [Student -> 0 .. MaxDays]
    /\ result \in [Student -> Row \cup {Null}]
    /\ overrides \in [Student -> Nat]
    /\ releases \in [Student -> Nat]
TypedLocal ==
    /\ pc \in [Request -> Statement]
    /\ target \in [Request -> Student \cup {Null}]
    /\ days \in [Request -> (0 .. MaxDays) \cup {Null}]
    /\ computed \in [Request -> [Student -> Computed \cup {Null}]]
    /\ toCreate \in [Request -> SUBSET Student]
    /\ toWrite \in [Request -> SUBSET Student]
    /\ buf \in [Request -> [Student -> Row \cup {Null}]]

(* What a request remembers fits the statement it comes to next.            *)
Recalls(r) ==
    /\ pc[r] \notin Writing => buf[r] = None /\ toCreate[r] = {} /\ toWrite[r] = {}
    /\ pc[r] \in Targeting => target[r] \in Student /\ Exists(target[r])
    /\ \A s \in toCreate[r] \cup toWrite[r] : computed[r][s] # Null
    /\ \A s \in toWrite[r] : Exists(s)

(* A buffered row is locked, and so its result has been neither finalized   *)
(* nor released nor overridden since it was read.                           *)
Buffers(r, s) ==
    buf[r][s] # Null =>
        /\ \A q \in Request \ {r} : buf[q][s] = Null
        /\ Exists(s) => buf[r][s].released = result[s].released
        /\ IsFinal(s) => buf[r][s].status = "FINALIZED" /\ buf[r][s].avg = result[s].avg

(* A release is recorded after it was claimed, by whoever claimed it.       *)
Recorded(s) ==
    /\ releases[s] <= 1
    /\ releases[s] = 1 => Exists(s) /\ result[s].released
Records(r) ==
    pc[r] = "audit" =>
        /\ result[target[r]].released
        /\ releases[target[r]] = 0
        /\ \A q \in Request \ {r} : pc[q] = "audit" => target[q] # target[r]

Own(r) == Recalls(r) /\ Records(r) /\ \A s \in Student : Buffers(r, s)

IInv ==
    /\ TypedRows /\ TypedLocal
    /\ \A r \in Request : Own(r)
    /\ \A s \in Student : Recorded(s)

-----------------------------------------------------------------------------
(* Places *)

LEMMA Counts ==
  /\ N \in Nat
  /\ \A S : S \subseteq Student => IsFiniteSet(S) /\ Cardinality(S) \in Nat /\ Cardinality(S) <= N
  BY ResultsAssumption, FS_Subset, FS_CardinalityType DEF N

LEMMA LivePlaces ==
  ASSUME NEW p \in LiveOrders, NEW s \in Scored
  PROVE  LivePlace(p[s]) \in Place
  <1>1. Cardinality(Scored) \in Nat /\ Cardinality(Scored) <= N
    BY Counts DEF Scored, Active
  <1>2. p[s] \in 1 .. Cardinality(Scored)
    BY DEF LiveOrders
  <1> QED BY <1>1, <1>2, Counts DEF LivePlace, Place

LEMMA CompetitionPlaces ==
  ASSUME TypedRows, NEW s \in Rankable
  PROVE  CompetitionPlace(s) \in Place
  <1> DEFINE above == {t \in Rankable : result[t].avg > result[s].avg}
  <1>1. IsFiniteSet(Rankable) /\ Cardinality(Rankable) \in Nat /\ Cardinality(Rankable) <= N
    BY Counts DEF Rankable
  <1>2. result[s].avg \in Nat
    BY ResultsAssumption DEF Rankable, IsFinal, Exists, TypedRows, Row
  <1>3. above \subseteq Rankable \ {s}
    BY <1>2
  <1>4. IsFiniteSet(Rankable \ {s}) /\ Cardinality(Rankable \ {s}) = Cardinality(Rankable) - 1
    BY <1>1, FS_RemoveElement
  <1>5. Cardinality(above) \in Nat /\ Cardinality(above) <= Cardinality(Rankable) - 1
    BY <1>3, <1>4, FS_Subset, FS_CardinalityType
  <1> HIDE DEF above
  <1>6. 1 + Cardinality(above) \in 1 .. N /\ Cardinality(Rankable) \in 1 .. N
    BY <1>1, <1>5, Counts
  <1> QED BY <1>6 DEF CompetitionPlace, Place, above

-----------------------------------------------------------------------------
(* Steps of one request, and of none *)

(* The other requests keep what they remember.                              *)
Alone(r) ==
    \A q \in Request \ {r} :
        /\ pc'[q] = pc[q] /\ target'[q] = target[q] /\ computed'[q] = computed[q]
        /\ toCreate'[q] = toCreate[q] /\ toWrite'[q] = toWrite[q] /\ buf'[q] = buf[q]

(* What a step may do to the committed rows.                                *)
RowsKept(r) ==
    /\ \A s \in Student : Exists(s) => result'[s] # Null
    /\ \A s \in Student : result'[s] # result[s] => \A q \in Request \ {r} : buf[q][s] = Null
    /\ \A s \in Student : Exists(s) /\ result[s].released => result'[s].released
    /\ \A s \in Student : releases'[s] # releases[s] => pc[r] = "audit" /\ target[r] = s

LEMMA StepIInv ==
  ASSUME IInv, NEW r \in Request, TypedRows', TypedLocal', Alone(r), RowsKept(r), Own(r)',
         \A s \in Student : Recorded(s)'
  PROVE  IInv'
  <1> SUFFICES ASSUME NEW q \in Request \ {r} PROVE Own(q)'
    BY DEF IInv
  <1>1. Recalls(q)'
    BY DEF IInv, Own, Recalls, Alone, RowsKept, Exists, TypedLocal
  <1>2. ASSUME NEW s \in Student, buf'[q][s] # Null PROVE Buffers(q, s)'
    <2>1. buf[q][s] # Null /\ result'[s] = result[s] /\ Buffers(q, s)
      BY <1>2 DEF IInv, Own, Alone, RowsKept
    <2>2. \A p \in Request \ {q} : buf'[p][s] = Null
      <3>1. buf'[r][s] = Null
        BY <1>2 DEF Own, Buffers
      <3> QED BY <2>1, <3>1 DEF Buffers, Alone
    <2> QED BY <2>1, <2>2 DEF Buffers, Alone, Exists, IsFinal
  <1>3. ASSUME pc'[q] = "audit" PROVE Records(q)'
    <2>1. /\ pc[q] = "audit" /\ target'[q] = target[q] /\ target[q] \in Student
          /\ Exists(target[q]) /\ Records(q)
      BY <1>3 DEF IInv, Own, Recalls, Targeting, Alone
    <2>2. result'[target'[q]].released /\ releases'[target'[q]] = 0
      BY <2>1 DEF Records, RowsKept
    <2>3. \A p \in Request \ {q} : pc'[p] = "audit" => target'[p] # target'[q]
      BY <1>3, <2>1 DEF Records, Alone, Own
    <2> QED BY <2>2, <2>3 DEF Records
  <1> QED BY <1>1, <1>2, <1>3 DEF Own, Buffers, Records

(* The world changes and no request takes a step.                           *)
LEMMA WorldIInv ==
  ASSUME IInv, \/ \E s \in Student : Submit(s) \/ CloseSession(s)
               \/ \E s \in Mover : Join(s) \/ Leave(s)
               \/ UNCHANGED vars
  PROVE  IInv'
  <1>1. UNCHANGED <<rows, pc, local>>
    BY DEF Submit, CloseSession, Join, Leave, vars
  <1>2. TypedRows'
    <2>1. standing' \in [Student -> Avg \cup {Null}]
      BY DEF Submit, CloseSession, Join, Leave, vars, world, IInv, TypedRows
    <2>2. attended' \in [Student -> 0 .. MaxDays]
      <3>1. CASE \E s \in Student : CloseSession(s)
        <4>1. PICK s \in Student : CloseSession(s)
          BY <3>1
        <4>2. attended[s] + 1 \in 0 .. MaxDays
          BY <4>1, ResultsAssumption DEF CloseSession, IInv, TypedRows
        <4> QED BY <4>1, <4>2 DEF CloseSession, IInv, TypedRows
      <3>2. CASE ~\E s \in Student : CloseSession(s)
        BY <3>2 DEF Submit, Join, Leave, vars, world, IInv, TypedRows
      <3> QED BY <3>1, <3>2
    <2> QED BY <1>1, <2>1, <2>2 DEF rows, IInv, TypedRows
  <1> QED BY <1>1, <1>2 DEF rows, local, IInv, TypedLocal, Own, Recalls, Records, Buffers, Recorded,
             Exists, IsFinal

(* A step that commits nothing.                                             *)
LEMMA SilentIInv ==
  ASSUME IInv, NEW r \in Request, UNCHANGED <<world, rows>>, TypedLocal', Alone(r), Own(r)'
  PROVE  IInv'
  <1>1. TypedRows' /\ RowsKept(r) /\ \A s \in Student : Recorded(s)'
    BY DEF world, rows, IInv, TypedRows, RowsKept, Exists, Recorded
  <1> QED BY <1>1, StepIInv

(* A request ends, whatever it leaves behind.                               *)
LEMMA FinishLocal ==
  ASSUME IInv, NEW r \in Request, Finish(r)
  PROVE  TypedLocal' /\ Alone(r) /\ Own(r)' /\ pc'[r] = "idle"
  <1>1. None \in [Student -> Row \cup {Null}] /\ None \in [Student -> Computed \cup {Null}]
    BY DEF None
  <1>2. TypedLocal' /\ Alone(r)
    BY <1>1 DEF Finish, IInv, TypedLocal, Alone, Statement
  <1>3. pc'[r] = "idle" /\ toCreate'[r] = {} /\ toWrite'[r] = {} /\ buf'[r] = None
    BY DEF Finish, IInv, TypedLocal
  <1>4. \A s \in Student : buf'[r][s] = Null
    BY <1>3 DEF None
  <1> QED BY <1>2, <1>3, <1>4 DEF Own, Recalls, Records, Buffers, Writing, Targeting, Finalizing

LEMMA GiveUpIInv ==
  ASSUME IInv, NEW r \in Request, Finish(r), UNCHANGED <<world, rows>>
  PROVE  IInv'
  BY FinishLocal, SilentIInv

-----------------------------------------------------------------------------
(* Compute and rank *)

LEMMA ComputeReadIInv ==
  ASSUME IInv, NEW r \in Request, ComputeRead(r)
  PROVE  IInv'
  <1>1. PICK p \in LiveOrders : computed' = [computed EXCEPT ![r] =
            [s \in Student |->
                IF s \in Active
                THEN [avg |-> standing[s], place |-> IF s \in Scored THEN LivePlace(p[s]) ELSE Null]
                ELSE Null]]
    BY DEF ComputeRead
  <1>2. \A s \in Student :
           [avg |-> standing[s], place |-> IF s \in Scored THEN LivePlace(p[s]) ELSE Null] \in Computed
    BY LivePlaces DEF Computed, IInv, TypedRows
  <1>3. TypedLocal' /\ Alone(r)
    BY <1>1, <1>2 DEF ComputeRead, IInv, TypedLocal, Alone, Statement, Computing
  <1>4. pc'[r] = "existing" /\ Recalls(r) /\ pc[r] = "idle"
    BY DEF ComputeRead, IInv, TypedLocal, Own
  <1>5. Own(r)'
    BY <1>4 DEF ComputeRead, rows, IInv, Own, Recalls, Records, Buffers, Exists, IsFinal, Writing,
       Targeting, Finalizing
  <1> QED BY <1>3, <1>5, SilentIInv DEF ComputeRead

LEMMA ComputeExistingIInv ==
  ASSUME IInv, NEW r \in Request, ComputeExisting(r)
  PROVE  IInv'
  <1>1. TypedLocal' /\ Alone(r)
    BY DEF ComputeExisting, IInv, TypedLocal, Alone, Statement, Computing, Roster
  <1>2. /\ pc'[r] = "computeWrite" /\ UNCHANGED <<rows, computed, buf>>
        /\ toCreate'[r] = {s \in Roster(r) : ~Exists(s)} /\ toWrite'[r] = {s \in Roster(r) : Exists(s)}
    BY DEF ComputeExisting, IInv, TypedLocal
  <1>3. Own(r)'
    BY <1>2 DEF rows, IInv, Own, Recalls, Records, Buffers, Exists, IsFinal, Writing, Targeting,
       Finalizing, Roster
  <1> QED BY <1>1, <1>3, SilentIInv DEF ComputeExisting

(* One row of a multi-row statement: dropped, or buffered as `x`.           *)
LEMMA RowIInv ==
  ASSUME IInv, NEW r \in Request, NEW s \in Student, pc[r] \in Writing, Alone(r),
         UNCHANGED <<world, rows, pc, target, days, computed>>,
         toCreate' \in [Request -> SUBSET Student], toCreate'[r] \subseteq toCreate[r],
         toWrite' \in [Request -> SUBSET Student], toWrite'[r] \subseteq toWrite[r],
         \/ UNCHANGED buf
         \/ \E x \in Row :
               /\ buf' = [buf EXCEPT ![r][s] = x] /\ ~HeldByOther(r, s)
               /\ Exists(s) => x.released = result[s].released
               /\ IsFinal(s) => x.status = "FINALIZED" /\ x.avg = result[s].avg
  PROVE  IInv'
  <1>0. buf' \in [Request -> [Student -> Row \cup {Null}]]
    <2>1. buf \in [Request -> [Student -> Row \cup {Null}]]
      BY DEF IInv, TypedLocal
    <2>2. ASSUME NEW x \in Row, buf' = [buf EXCEPT ![r][s] = x]
          PROVE  buf' \in [Request -> [Student -> Row \cup {Null}]]
      BY <2>1, <2>2
    <2> QED BY <2>1, <2>2
  <1>1. TypedLocal'
    BY <1>0 DEF IInv, TypedLocal
  <1>2. Recalls(r)' /\ Records(r)'
    BY DEF rows, IInv, Own, Recalls, Records, Exists, Writing, Targeting, Finalizing
  <1>3. ASSUME NEW t \in Student PROVE Buffers(r, t)'
    <2>1. CASE UNCHANGED buf
      BY <2>1 DEF rows, IInv, Own, Buffers, Exists, IsFinal
    <2>2. CASE ~UNCHANGED buf
      <3>1. PICK x \in Row :
               /\ buf' = [buf EXCEPT ![r][s] = x] /\ ~HeldByOther(r, s)
               /\ Exists(s) => x.released = result[s].released
               /\ IsFinal(s) => x.status = "FINALIZED" /\ x.avg = result[s].avg
        BY <2>2
      <3>2. buf'[r][s] = x /\ (t # s => buf'[r][t] = buf[r][t]) /\ \A q \in Request \ {r} : buf'[q] = buf[q]
        BY <3>1 DEF IInv, TypedLocal
      <3> QED BY <3>1, <3>2 DEF rows, HeldByOther, IInv, Own, Buffers, Exists, IsFinal
    <2> QED BY <2>1, <2>2
  <1> QED BY <1>1, <1>2, <1>3, SilentIInv DEF Own

LEMMA ComputeCreateIInv ==
  ASSUME IInv, NEW r \in Request, NEW s \in Student, ComputeCreate(r, s)
  PROVE  IInv'
  <1> DEFINE x == [status |-> "DRAFT", avg |-> computed[r][s].avg, place |-> computed[r][s].place,
                   days |-> Null, released |-> FALSE]
  <1>1. computed[r][s] \in Computed
    BY DEF ComputeCreate, IInv, TypedLocal, Own, Recalls
  <1>2. x \in Row
    BY <1>1 DEF Row, Computed
  <1>3. Alone(r)
    BY DEF ComputeCreate, IInv, TypedLocal, Alone
  <1>4. /\ toCreate' \in [Request -> SUBSET Student] /\ toCreate'[r] \subseteq toCreate[r]
        /\ toWrite' \in [Request -> SUBSET Student] /\ toWrite'[r] \subseteq toWrite[r]
    BY DEF ComputeCreate, IInv, TypedLocal
  <1>5. UNCHANGED buf \/ (buf' = [buf EXCEPT ![r][s] = x] /\ ~HeldByOther(r, s) /\ ~Exists(s))
    BY DEF ComputeCreate
  <1> HIDE DEF x
  <1> QED BY <1>2, <1>3, <1>4, <1>5, RowIInv DEF ComputeCreate, IsFinal, Writing

LEMMA ComputeUpdateIInv ==
  ASSUME IInv, NEW r \in Request, NEW s \in Student, ComputeUpdate(r, s)
  PROVE  IInv'
  <1>1. computed[r][s] \in Computed /\ result[s] \in Row
    BY DEF ComputeUpdate, IInv, TypedLocal, TypedRows, Own, Recalls, Exists
  <1>2. PICK x : x = [result[s] EXCEPT !.avg = computed[r][s].avg, !.place = computed[r][s].place]
    OBVIOUS
  <1>3. x \in Row /\ x.released = result[s].released
    BY <1>1, <1>2 DEF Row, Computed
  <1>4. Alone(r)
    BY DEF ComputeUpdate, IInv, TypedLocal, Alone
  <1>5. /\ toCreate' \in [Request -> SUBSET Student] /\ toCreate'[r] \subseteq toCreate[r]
        /\ toWrite' \in [Request -> SUBSET Student] /\ toWrite'[r] \subseteq toWrite[r]
    BY DEF ComputeUpdate, IInv, TypedLocal
  <1>6. UNCHANGED buf \/ (buf' = [buf EXCEPT ![r][s] = x] /\ ~HeldByOther(r, s) /\ ~IsFinal(s))
    BY <1>2 DEF ComputeUpdate, Recomputable
  <1> QED BY <1>3, <1>4, <1>5, <1>6, RowIInv DEF ComputeUpdate, Writing

LEMMA RankReadIInv ==
  ASSUME IInv, NEW r \in Request, RankRead(r)
  PROVE  IInv'
  <1> DEFINE c == [s \in Student |-> IF s \in Rankable
                                     THEN [avg |-> result[s].avg, place |-> CompetitionPlace(s)]
                                     ELSE Null]
  <1>0. \A s \in Rankable : [avg |-> result[s].avg, place |-> CompetitionPlace(s)] \in Computed
    <2>1. \A s \in Rankable : result[s].avg \in Avg \cup {Null}
      BY DEF Rankable, IsFinal, Exists, IInv, TypedRows, Row
    <2> QED BY <2>1, CompetitionPlaces DEF Computed, IInv
  <1>1. c \in [Student -> Computed \cup {Null}]
    BY <1>0
  <1>2. \A s \in Rankable : c[s] # Null /\ s \in Student /\ Exists(s)
    <2>1. \A s \in Rankable : s \in Student /\ Exists(s)
      BY DEF Rankable, IsFinal
    <2>2. \A s \in Rankable : c[s] \in Computed
      BY <1>0, <2>1
    <2> QED BY <2>1, <2>2, ResultsAssumption
  <1>3. computed' = [computed EXCEPT ![r] = c]
    BY DEF RankRead
  <1> HIDE DEF c
  <1>4. TypedLocal' /\ Alone(r)
    BY <1>1, <1>3 DEF RankRead, IInv, TypedLocal, Alone, Statement, Ranking, Rankable
  <1>5. /\ pc'[r] = "rankWrite" /\ toWrite'[r] = Rankable /\ computed'[r] = c
        /\ toCreate'[r] = {} /\ UNCHANGED <<rows, buf>>
    BY <1>3 DEF RankRead, IInv, TypedLocal, Own, Recalls, Writing
  <1>6. Own(r)'
    BY <1>2, <1>5 DEF rows, IInv, Own, Recalls, Records, Buffers, Exists, IsFinal, Writing,
       Targeting, Finalizing
  <1> QED BY <1>4, <1>6, SilentIInv DEF RankRead

LEMMA RankWriteIInv ==
  ASSUME IInv, NEW r \in Request, NEW s \in Student, RankWrite(r, s)
  PROVE  IInv'
  <1>1. computed[r][s] \in Computed /\ result[s] \in Row
    BY DEF RankWrite, IInv, TypedLocal, TypedRows, Own, Recalls, Exists
  <1>2. PICK x : x = [result[s] EXCEPT !.place = computed[r][s].place]
    OBVIOUS
  <1>3. /\ x \in Row /\ x.released = result[s].released /\ x.status = result[s].status
        /\ x.avg = result[s].avg
    BY <1>1, <1>2 DEF Row, Computed
  <1>4. Alone(r)
    BY DEF RankWrite, IInv, TypedLocal, Alone
  <1>5. /\ toCreate' \in [Request -> SUBSET Student] /\ toCreate'[r] \subseteq toCreate[r]
        /\ toWrite' \in [Request -> SUBSET Student] /\ toWrite'[r] \subseteq toWrite[r]
    BY DEF RankWrite, IInv, TypedLocal
  <1>6. buf' = [buf EXCEPT ![r][s] = x] /\ ~HeldByOther(r, s)
    BY <1>2 DEF RankWrite
  <1> QED BY <1>3, <1>4, <1>5, <1>6, RowIInv DEF RankWrite, Writing, IsFinal

LEMMA CommitIInv ==
  ASSUME IInv, NEW r \in Request, Commit(r), pc[r] \in Writing
  PROVE  IInv'
  <1>1. TypedLocal' /\ Alone(r) /\ Own(r)'
    BY FinishLocal DEF Commit
  <1>2. ASSUME NEW s \in Student
        PROVE  /\ result'[s] = IF buf[r][s] # Null THEN buf[r][s] ELSE result[s]
               /\ result'[s] \in Row \cup {Null}
    BY DEF Commit, IInv, TypedRows, TypedLocal
  <1>3. TypedRows'
    BY <1>2 DEF Commit, world, IInv, TypedRows
  <1>4. RowsKept(r)
    BY <1>2 DEF Commit, RowsKept, IInv, Own, Buffers, Exists
  <1>5. \A s \in Student : Recorded(s)'
    BY <1>4 DEF Commit, RowsKept, IInv, Recorded, Exists
  <1> QED BY <1>1, <1>3, <1>4, <1>5, StepIInv

-----------------------------------------------------------------------------
(* Finalize *)

LEMMA FinalizeReadIInv ==
  ASSUME IInv, NEW r \in Request, NEW s \in Student, FinalizeRead(r, s)
  PROVE  IInv'
  <1>1. TypedLocal' /\ Alone(r)
    BY DEF FinalizeRead, IInv, TypedLocal, Alone, Statement, Finalizing
  <1>2. pc[r] = "idle" /\ pc'[r] = "attendance" /\ target'[r] = s /\ Exists(s)
    BY DEF FinalizeRead, IInv, TypedLocal
  <1>3. Own(r)'
    BY <1>2 DEF FinalizeRead, rows, IInv, Own, Recalls, Records, Buffers, Exists, IsFinal, Writing
  <1> QED BY <1>1, <1>3, SilentIInv DEF FinalizeRead

LEMMA FinalizeAttendanceIInv ==
  ASSUME IInv, NEW r \in Request, FinalizeAttendance(r)
  PROVE  IInv'
  <1>1. target[r] \in Student /\ Exists(target[r]) /\ pc'[r] = "finalize" /\ pc[r] = "attendance"
    BY DEF FinalizeAttendance, IInv, TypedLocal, Own, Recalls, Targeting, Finalizing
  <1>2. attended[target[r]] \in 0 .. MaxDays
    BY <1>1 DEF IInv, TypedRows
  <1>3. TypedLocal' /\ Alone(r)
    BY <1>2 DEF FinalizeAttendance, IInv, TypedLocal, Alone, Statement, Finalizing
  <1>4. Own(r)'
    BY <1>1 DEF FinalizeAttendance, rows, IInv, Own, Recalls, Records, Buffers, Exists, IsFinal, Writing
  <1> QED BY <1>3, <1>4, SilentIInv DEF FinalizeAttendance

(* One committed row changes, which nobody else is about to write.          *)
LEMMA WriteIInv ==
  ASSUME IInv, NEW r \in Request, NEW s \in Student, NEW x \in Row, Exists(s),
         result' = [result EXCEPT ![s] = x], result[s].released => x.released,
         ~HeldByOther(r, s), UNCHANGED <<world, releases>>,
         overrides' \in [Student -> Nat], TypedLocal', Alone(r), Own(r)'
  PROVE  IInv'
  <1>1. result'[s] = x /\ \A t \in Student \ {s} : result'[t] = result[t]
    BY DEF IInv, TypedRows
  <1>2. x # Null
    BY ResultsAssumption
  <1>3. TypedRows'
    BY DEF world, IInv, TypedRows
  <1>4. RowsKept(r)
    BY <1>1, <1>2 DEF RowsKept, HeldByOther, Exists
  <1>5. \A t \in Student : Recorded(t)'
    BY <1>4 DEF RowsKept, IInv, Recorded, Exists
  <1> QED BY <1>3, <1>4, <1>5, StepIInv

LEMMA FinalizeWriteIInv ==
  ASSUME IInv, NEW r \in Request, FinalizeWrite(r)
  PROVE  IInv'
  <1>1. /\ pc[r] = "finalize" /\ target[r] \in Student /\ Exists(target[r]) /\ buf[r] = None
        /\ toCreate[r] = {} /\ toWrite[r] = {} /\ result[target[r]] \in Row
        /\ days[r] \in (0 .. MaxDays) \cup {Null}
    BY DEF FinalizeWrite, IInv, TypedRows, TypedLocal, Own, Recalls, Exists, Targeting, Finalizing, Writing
  <1>2. PICK x : x = [result[target[r]] EXCEPT !.status = "FINALIZED", !.days = days[r]]
    OBVIOUS
  <1>3. x \in Row /\ x.released = result[target[r]].released
    BY <1>1, <1>2 DEF Row
  <1>4. result' = [result EXCEPT ![target[r]] = x]
    BY <1>1, <1>2 DEF FinalizeWrite, IInv, TypedRows
  <1>5. TypedLocal' /\ Alone(r) /\ Own(r)'
    <2>1. CASE Finish(r)
      BY <2>1, FinishLocal
    <2>2. CASE ~Finish(r)
      <3>1. TypedLocal' /\ Alone(r)
        BY <2>2 DEF FinalizeWrite, local, IInv, TypedLocal, Alone, Statement, Ranking
      <3>2. pc'[r] = "lock" /\ UNCHANGED local
        BY <2>2 DEF FinalizeWrite, IInv, TypedLocal
      <3>3. \A s \in Student : buf'[r][s] = Null
        BY <1>1, <3>2 DEF local, None
      <3> QED BY <1>1, <3>1, <3>2, <3>3 DEF local, Own, Recalls, Records, Buffers, Writing, Targeting,
                 Finalizing
    <2> QED BY <2>1, <2>2
  <1>6. ~HeldByOther(r, target[r]) /\ UNCHANGED <<world, releases, overrides>>
    BY DEF FinalizeWrite
  <1>7. overrides' \in [Student -> Nat]
    BY <1>6 DEF IInv, TypedRows
  <1> QED BY <1>1, <1>3, <1>4, <1>5, <1>6, <1>7, WriteIInv

-----------------------------------------------------------------------------
(* Override and release *)

LEMMA OverrideReadIInv ==
  ASSUME IInv, NEW r \in Request, NEW s \in Student, OverrideRead(r, s)
  PROVE  IInv'
  <1>1. TypedLocal' /\ Alone(r)
    BY DEF OverrideRead, IInv, TypedLocal, Alone, Statement
  <1>2. pc[r] = "idle" /\ pc'[r] = "override" /\ target'[r] = s /\ Exists(s)
    BY DEF OverrideRead, IsFinal, IInv, TypedLocal
  <1>3. Own(r)'
    BY <1>2 DEF OverrideRead, rows, IInv, Own, Recalls, Records, Buffers, Exists, IsFinal, Writing
  <1> QED BY <1>1, <1>3, SilentIInv DEF OverrideRead

(* What an override leaves of the row it changes.                           *)
LEMMA OverriddenRow ==
  ASSUME IInv, NEW r \in Request, OverrideWrite(r)
  PROVE  /\ target[r] \in Student /\ Exists(target[r])
         /\ \E x \in Row : /\ result' = [result EXCEPT ![target[r]] = x]
                           /\ x.released = result[target[r]].released
                           /\ x.status = result[target[r]].status
  <1>1. /\ pc[r] = "override" /\ target[r] \in Student /\ Exists(target[r])
        /\ result[target[r]] \in Row /\ result \in [Student -> Row \cup {Null}]
    BY DEF OverrideWrite, IInv, TypedRows, TypedLocal, Own, Recalls, Exists, Targeting
  <1>2. CASE \E a \in Avg : result' = [result EXCEPT ![target[r]].avg = a]
    <2>1. PICK a \in Avg : result' = [result EXCEPT ![target[r]].avg = a]
      BY <1>2
    <2>2. PICK x : x = [result[target[r]] EXCEPT !.avg = a]
      OBVIOUS
    <2>3. x \in Row /\ x.released = result[target[r]].released /\ x.status = result[target[r]].status
      BY <1>1, <2>2 DEF Row
    <2> QED BY <1>1, <2>1, <2>2, <2>3
  <1>3. CASE ~\E a \in Avg : result' = [result EXCEPT ![target[r]].avg = a]
    <2>1. PICK p \in 1 .. N : result' = [result EXCEPT ![target[r]].place.position = p]
      BY <1>3 DEF OverrideWrite
    <2>2. result[target[r]].place \in Place
      BY <1>1, <1>3 DEF OverrideWrite, Row
    <2>3. PICK y : y = [result[target[r]].place EXCEPT !.position = p]
      OBVIOUS
    <2>4. y \in Place
      BY <2>2, <2>3 DEF Place
    <2>5. PICK x : x = [result[target[r]] EXCEPT !.place = y]
      OBVIOUS
    <2>6. x \in Row /\ x.released = result[target[r]].released /\ x.status = result[target[r]].status
      BY <1>1, <2>4, <2>5 DEF Row
    <2>7. result' = [result EXCEPT ![target[r]] = x]
      BY <1>1, <2>1, <2>3, <2>5
    <2> QED BY <1>1, <2>6, <2>7
  <1> QED BY <1>2, <1>3

LEMMA OverrideWriteIInv ==
  ASSUME IInv, NEW r \in Request, OverrideWrite(r)
  PROVE  IInv'
  <1>1. overrides' \in [Student -> Nat]
    <2>1. target[r] \in Student
      BY OverriddenRow
    <2>2. overrides \in [Student -> Nat] /\ overrides[target[r]] + 1 \in Nat
      BY <2>1 DEF IInv, TypedRows
    <2> QED BY <2>2 DEF OverrideWrite
  <1> QED BY <1>1, OverriddenRow, FinishLocal, WriteIInv DEF OverrideWrite

LEMMA ReleaseClaimIInv ==
  ASSUME IInv, NEW r \in Request, NEW s \in Student, ReleaseClaim(r, s)
  PROVE  IInv'
  <1>1. TypedLocal' /\ Alone(r)
    BY DEF ReleaseClaim, IInv, TypedLocal, Alone, Statement
  <1>2. /\ pc[r] = "idle" /\ pc'[r] = "audit" /\ target'[r] = s /\ Exists(s) /\ result[s] \in Row
        /\ ~result[s].released /\ result \in [Student -> Row \cup {Null}]
    BY DEF ReleaseClaim, Releasable, IsFinal, Exists, IInv, TypedLocal, TypedRows
  <1>3. PICK x : x = [result[s] EXCEPT !.released = TRUE]
    OBVIOUS
  <1>4. x \in Row /\ x.released
    BY <1>2, <1>3 DEF Row
  <1>5. result' = [result EXCEPT ![s] = x] /\ result'[s] = x
    BY <1>2, <1>3 DEF ReleaseClaim
  <1>6. Recalls(r)'
    <2>1. toCreate'[r] = {} /\ toWrite'[r] = {} /\ buf'[r] = None
      BY <1>2 DEF ReleaseClaim, IInv, Own, Recalls, Writing
    <2>2. x # Null
      BY <1>4, ResultsAssumption
    <2> QED BY <1>2, <1>5, <2>1, <2>2 DEF Recalls, Exists
  <1>7. Records(r)'
    <2>1. releases'[s] = 0
      BY <1>2 DEF ReleaseClaim, IInv, TypedRows, Recorded
    <2>2. ASSUME NEW q \in Request \ {r}, pc'[q] = "audit" PROVE target'[q] # s
      BY <1>2, <2>2 DEF ReleaseClaim, IInv, TypedLocal, Own, Records
    <2> QED BY <1>2, <1>4, <1>5, <2>1, <2>2 DEF Records
  <1>8. \A t \in Student : Buffers(r, t)'
    BY <1>2 DEF ReleaseClaim, IInv, Own, Recalls, Buffers, Writing, None
  <1> QED BY <1>1, <1>2, <1>4, <1>5, <1>6, <1>7, <1>8, WriteIInv DEF ReleaseClaim, Own, IInv, TypedRows

LEMMA ReleaseAuditIInv ==
  ASSUME IInv, NEW r \in Request, ReleaseAudit(r)
  PROVE  IInv'
  <1>1. /\ pc[r] = "audit" /\ target[r] \in Student /\ Exists(target[r])
        /\ result[target[r]].released /\ releases[target[r]] = 0
    BY DEF ReleaseAudit, IInv, TypedLocal, Own, Recalls, Records, Targeting
  <1>2. releases' = [releases EXCEPT ![target[r]] = 1]
    BY <1>1 DEF ReleaseAudit, IInv, TypedRows
  <1>3. TypedRows' /\ RowsKept(r)
    BY <1>1, <1>2 DEF ReleaseAudit, world, IInv, TypedRows, RowsKept, Exists
  <1>4. \A s \in Student : Recorded(s)'
    BY <1>1, <1>2 DEF ReleaseAudit, IInv, TypedRows, Recorded, Exists
  <1> QED BY <1>3, <1>4, FinishLocal, StepIInv DEF ReleaseAudit

-----------------------------------------------------------------------------
(* The way to a ranking *)

(* A request that has nothing to write goes on to a statement in M.         *)
LEMMA RankingIInv ==
  ASSUME IInv, NEW r \in Request, UNCHANGED <<world, rows>>, TypedLocal', Alone(r),
         pc[r] \notin Writing, pc'[r] \in Ranking \ Writing,
         UNCHANGED <<target, computed, toCreate, toWrite, buf>>
  PROVE  IInv'
  <1>1. \A s \in Student : buf'[r][s] = Null
    BY DEF IInv, Own, Recalls, None
  <1>2. Own(r)'
    BY <1>1 DEF rows, IInv, Own, Recalls, Records, Buffers, Exists, Writing, Targeting, Finalizing, Ranking
  <1> QED BY <1>2, SilentIInv

LEMMA TowardsRankingIInv ==
  ASSUME IInv, NEW r \in Request, RankRequest(r) \/ TakePositionLock(r) \/ CountActive(r) \/ CountFinalized(r)
  PROVE  IInv'
  <1>1. CASE Finish(r) /\ UNCHANGED <<world, rows>>
    BY <1>1, GiveUpIInv
  <1>2. CASE ~(Finish(r) /\ UNCHANGED <<world, rows>>)
    <2>1. /\ UNCHANGED <<world, rows, target, days, computed, toCreate, toWrite, buf>>
          /\ pc[r] \notin Writing /\ \E p \in Ranking \ Writing : pc' = [pc EXCEPT ![r] = p]
      BY <1>2 DEF RankRequest, TakePositionLock, CountActive, CountFinalized, Incomplete, local, Writing, Ranking
    <2>2. TypedLocal' /\ Alone(r) /\ pc'[r] \in Ranking \ Writing
      BY <2>1 DEF IInv, TypedLocal, Alone, Statement
    <2> QED BY <2>1, <2>2, RankingIInv
  <1> QED BY <1>1, <1>2

-----------------------------------------------------------------------------
LEMMA InitIInv == Init => IInv
  <1> SUFFICES ASSUME Init PROVE IInv
    OBVIOUS
  <1>1. TypedRows
    BY ResultsAssumption DEF Init, TypedRows, None
  <1>2. TypedLocal
    BY DEF Init, TypedLocal, None, Statement
  <1> QED BY <1>1, <1>2 DEF Init, IInv, Own, Recalls, Records, Buffers, Recorded, None, Targeting, Finalizing

LEMMA NextIInv == IInv /\ [Next]_vars => IInv'
  <1> SUFFICES ASSUME IInv, [Next]_vars PROVE IInv'
    OBVIOUS
  <1>1. ASSUME NEW r \in Request, Step(r) PROVE IInv'
    BY <1>1, ComputeExistingIInv, ComputeCreateIInv, ComputeUpdateIInv, RankWriteIInv, CommitIInv,
       FinalizeAttendanceIInv, FinalizeWriteIInv, TowardsRankingIInv, RankReadIInv, OverrideWriteIInv,
       ReleaseAuditIInv DEF Step, ComputeCommit, RankCommit, Writing
  <1>2. ASSUME NEW r \in Request,
               \/ ComputeRead(r) \/ RankRequest(r)
               \/ \E s \in Student : FinalizeRead(r, s) \/ OverrideRead(r, s) \/ ReleaseClaim(r, s)
        PROVE  IInv'
    BY <1>2, ComputeReadIInv, TowardsRankingIInv, FinalizeReadIInv, OverrideReadIInv, ReleaseClaimIInv
  <1>3. ASSUME NEW r \in Request, Abort(r) \/ DeadlockVictim(r) PROVE IInv'
    BY <1>3, GiveUpIInv DEF Abort, DeadlockVictim
  <1> QED BY <1>1, <1>2, <1>3, WorldIInv DEF Next

LEMMA Invariance == Spec => []IInv
  BY InitIInv, NextIInv, PTL DEF Spec

(* A release is recorded once, however many administrators release the      *)
(* result and whatever else overlaps (results.service.ts:545-549).          *)
THEOREM ReleasesRecordedOnce == Spec => []ReleaseRecordedOnce
  <1>1. IInv => ReleaseRecordedOnce
    BY DEF IInv, Recorded, ReleaseRecordedOnce
  <1> QED BY <1>1, Invariance, PTL

-----------------------------------------------------------------------------
(* What a step does to a final result.                                      *)
FinalStep ==
    \A s \in Student : IsFinal(s) =>
        /\ IsFinal(s)'
        /\ result'[s].avg # result[s].avg => overrides'[s] = overrides[s] + 1

LEMMA FinalByStep == IInv /\ [Next]_vars => FinalStep
  <1> SUFFICES ASSUME IInv, [Next]_vars, NEW s \in Student, IsFinal(s)
               PROVE  IsFinal(s)' /\ (result'[s].avg # result[s].avg => overrides'[s] = overrides[s] + 1)
    BY DEF FinalStep
  <1>0. result[s] \in Row /\ result \in [Student -> Row \cup {Null}]
    BY DEF IInv, TypedRows, IsFinal, Exists
  <1>1. CASE \E r \in Request : FinalizeWrite(r)
    <2>1. PICK r \in Request : FinalizeWrite(r)
      BY <1>1
    <2>2. PICK x : x = [result[target[r]] EXCEPT !.status = "FINALIZED", !.days = days[r]]
      OBVIOUS
    <2>3. CASE target[r] = s
      <3>1. x \in Row /\ x.status = "FINALIZED" /\ x.avg = result[s].avg
        BY <1>0, <2>1, <2>2, <2>3 DEF IInv, TypedLocal, Row
      <3>2. result'[s] = x
        BY <1>0, <2>1, <2>2, <2>3 DEF FinalizeWrite
      <3> QED BY <3>1, <3>2, ResultsAssumption DEF IsFinal, Exists
    <2>4. CASE target[r] # s
      BY <1>0, <2>1, <2>4 DEF FinalizeWrite, IsFinal, Exists
    <2> QED BY <2>3, <2>4
  <1>2. CASE \E r \in Request : OverrideWrite(r)
    <2>1. PICK r \in Request : OverrideWrite(r)
      BY <1>2
    <2>2. PICK x \in Row : /\ result' = [result EXCEPT ![target[r]] = x]
                           /\ x.status = result[target[r]].status
      BY <2>1, OverriddenRow
    <2>3. CASE target[r] = s
      BY <1>0, <2>1, <2>2, <2>3, ResultsAssumption DEF OverrideWrite, IInv, TypedRows, IsFinal, Exists
    <2>4. CASE target[r] # s
      BY <1>0, <2>2, <2>4 DEF IsFinal, Exists
    <2> QED BY <2>3, <2>4
  <1>3. CASE \E r \in Request, t \in Student : ReleaseClaim(r, t)
    <2>1. PICK r \in Request, t \in Student : ReleaseClaim(r, t)
      BY <1>3
    <2>2. PICK x : x = [result[t] EXCEPT !.released = TRUE]
      OBVIOUS
    <2>3. CASE t = s
      <3>1. x \in Row /\ x.status = result[s].status /\ x.avg = result[s].avg
        BY <1>0, <2>2, <2>3 DEF Row
      <3>2. result'[s] = x
        BY <1>0, <2>1, <2>2, <2>3 DEF ReleaseClaim
      <3> QED BY <3>1, <3>2, ResultsAssumption DEF IsFinal, Exists
    <2>4. CASE t # s
      BY <1>0, <2>1, <2>4 DEF ReleaseClaim, IsFinal, Exists
    <2> QED BY <2>3, <2>4
  <1>4. CASE \E r \in Request : Commit(r)
    <2>1. PICK r \in Request : Commit(r)
      BY <1>4
    <2>2. result'[s] = IF buf[r][s] # Null THEN buf[r][s] ELSE result[s]
      BY <2>1 DEF Commit
    <2> QED BY <2>2 DEF IInv, Own, Buffers, IsFinal, Exists
  <1>5. CASE UNCHANGED result
    BY <1>5 DEF IsFinal, Exists
  <1>6. \/ UNCHANGED result
        \/ \E r \in Request : FinalizeWrite(r) \/ OverrideWrite(r) \/ Commit(r)
        \/ \E r \in Request, t \in Student : ReleaseClaim(r, t)
    <2>1. ASSUME NEW r \in Request, Step(r)
          PROVE  UNCHANGED result \/ FinalizeWrite(r) \/ OverrideWrite(r) \/ Commit(r)
      BY <2>1 DEF Step, rows, ComputeExisting, ComputeCreate, ComputeUpdate, ComputeCommit,
         FinalizeAttendance, TakePositionLock, CountActive, CountFinalized, Incomplete, RankRead,
         RankWrite, RankCommit, ReleaseAudit
    <2>2. ASSUME NEW r \in Request,
                 \/ ComputeRead(r) \/ RankRequest(r) \/ Abort(r) \/ DeadlockVictim(r)
                 \/ \E t \in Student : FinalizeRead(r, t) \/ OverrideRead(r, t)
          PROVE  UNCHANGED result
      BY <2>2 DEF rows, ComputeRead, RankRequest, Abort, DeadlockVictim, FinalizeRead, OverrideRead
    <2>3. ASSUME \/ \E t \in Student : Submit(t) \/ CloseSession(t)
                 \/ \E t \in Mover : Join(t) \/ Leave(t)
                 \/ UNCHANGED vars
          PROVE  UNCHANGED result
      BY <2>3 DEF vars, rows, Submit, CloseSession, Join, Leave
    <2> QED BY <2>1, <2>2, <2>3 DEF Next
  <1> QED BY <1>1, <1>2, <1>3, <1>4, <1>5, <1>6

(* Once FINALIZED an average changes only with a ResultOverride row to show *)
(* for it, whatever recomputation, ranking or release is in flight          *)
(* (results.service.ts:175-183, 211-220).                                   *)
THEOREM FinalMarksAreKept == Spec => FinalMarksChangeByOverride
  <1>1. IInv /\ [Next]_vars => [FinalStep]_vars
    BY FinalByStep
  <1>2. Spec => [][FinalStep]_vars
    BY <1>1, Invariance, PTL DEF Spec
  <1> QED BY <1>2 DEF FinalMarksChangeByOverride, FinalStep
-----------------------------------------------------------------------------
(* The ranking of a complete class *)

Holding == Ranking \ {"lock"}

(* Another finalization or administrator waits at the advisory lock.        *)
Waiting(r) == \E q \in Request \ {r} : pc[q] = "lock"

RankTyped ==
    /\ enrolment \in [Student -> {"active", "closed", "away"}]
    /\ cohort \in [Request -> BOOLEAN]
    /\ activeCount \in [Request -> Nat]
    /\ stray \in BOOLEAN

(* A recomputation buffers drafts and a ranking pass final rows only.       *)
Drafts(r, s) ==
    buf[r][s] # Null =>
        IF pc[r] = "rankWrite" THEN IsFinal(s) ELSE ~IsFinal(s) /\ buf[r][s].status = "DRAFT"
Mine(r) ==
    /\ \A s \in Student : Drafts(r, s)
    /\ pc[r] = "rankWrite" => \A s \in toWrite[r] : IsFinal(s)

(* A ranking pass is about to leave the places the class has now.           *)
Fresh(r) ==
    \A s \in Rankable :
        /\ computed[r][s] # Null /\ computed[r][s].place = CompetitionPlace(s)
        /\ s \in toWrite[r] \/ (buf[r][s] # Null /\ buf[r][s].place = CompetitionPlace(s))

(* A pass that would miss a finalization has the one who made it behind it. *)
Ready(r) ==
    /\ pc[r] \in Finalizing => cohort[r]
    /\ pc[r] = "countFinalized" => ~FullyFinal \/ activeCount[r] = Cardinality(Active) \/ Waiting(r)
    /\ pc[r] = "rankWrite" => Fresh(r) \/ Waiting(r)
    /\ \A s \in Student : enrolment[s] = "away" => computed[r][s] = Null /\ buf[r][s] = Null

RankedOrSoon == FullyFinal => Ranked \/ \E r \in Request : pc[r] \in Ranking
NoneAway == \A s \in Student : enrolment[s] = "away" => ~Exists(s)

RankIInv ==
    /\ IInv /\ RankTyped
    /\ \A r \in Request : (pc[r] \in Holding => positionLock = r) /\ Mine(r)
    /\ ~stray => NoneAway /\ RankedOrSoon /\ \A r \in Request : Ready(r)

-----------------------------------------------------------------------------
(* Who is final, with which average, stays the same.                        *)
Steady ==
    /\ UNCHANGED enrolment
    /\ \A s \in Student : /\ IsFinal(s)' <=> IsFinal(s)
                          /\ IsFinal(s) => result'[s].avg = result[s].avg

LEMMA SteadyPlaces ==
  ASSUME Steady
  PROVE  /\ Active' = Active /\ (FullyFinal' <=> FullyFinal) /\ Rankable' = Rankable
         /\ \A s \in Rankable : CompetitionPlace(s)' = CompetitionPlace(s)
  <1>1. Active' = Active /\ (FullyFinal' <=> FullyFinal)
    BY DEF Steady, Active, FullyFinal
  <1>2. Rankable' = Rankable /\ \A s \in Rankable : s \in Student /\ result'[s].avg = result[s].avg
    BY DEF Steady, Rankable, InClass
  <1>3. ASSUME NEW s \in Rankable PROVE CompetitionPlace(s)' = CompetitionPlace(s)
    <2>1. {t \in Rankable' : result'[t].avg > result'[s].avg} = {t \in Rankable : result[t].avg > result[s].avg}
      BY <1>2, <1>3
    <2> QED BY <1>2, <2>1 DEF CompetitionPlace
  <1> QED BY <1>1, <1>2, <1>3

(* What any step of a request does to the others, to the lock and to the    *)
(* committed rows.                                                          *)
Taken(r) ==
    /\ Alone(r) /\ UNCHANGED enrolment
    /\ \A q \in Request \ {r} : /\ cohort'[q] = cohort[q] /\ activeCount'[q] = activeCount[q]
                                /\ positionLock = q => positionLock' = q
    /\ pc'[r] \in Holding => positionLock' = r
    /\ pc[r] = "lock" => pc'[r] = "lock" \/ positionLock = Null \/ stray'
    /\ ~stray' => ~stray
    /\ \A s \in Student : result'[s] # result[s] => \A q \in Request \ {r} : buf[q][s] = Null

LEMMA StillWaiting ==
  ASSUME RankIInv, NEW r \in Request, Taken(r), ~stray', NEW q \in Request \ {r}, pc[q] \in Holding,
         Waiting(q)
  PROVE  Waiting(q)'
  <1>1. positionLock = q /\ q # Null
    BY ResultsAssumption DEF RankIInv
  <1>2. PICK p \in Request \ {q} : pc[p] = "lock"
    BY DEF Waiting
  <1>3. pc'[p] = "lock"
    BY <1>1, <1>2 DEF Taken, Alone
  <1> QED BY <1>3 DEF Waiting

(* The others after a step of one request.                                  *)
LEMMA OthersReady ==
  ASSUME RankIInv, NEW r \in Request, Taken(r), ~stray', Steady \/ pc'[r] = "lock",
         NEW q \in Request \ {r}
  PROVE  Ready(q)'
  <1>1. /\ Ready(q) /\ pc'[q] = pc[q] /\ computed'[q] = computed[q] /\ toWrite'[q] = toWrite[q]
        /\ buf'[q] = buf[q] /\ cohort'[q] = cohort[q] /\ activeCount'[q] = activeCount[q]
        /\ enrolment' = enrolment
    BY DEF RankIInv, Taken, Alone
  <1>2. CASE pc'[r] = "lock"
    <2>1. Waiting(q)'
      BY <1>2 DEF Waiting
    <2> QED BY <1>1, <2>1 DEF Ready
  <1>3. CASE Steady
    <2>1. /\ Active' = Active /\ (FullyFinal' <=> FullyFinal) /\ Rankable' = Rankable
          /\ \A s \in Rankable : CompetitionPlace(s)' = CompetitionPlace(s)
      BY <1>3, SteadyPlaces
    <2>2. Fresh(q) => Fresh(q)'
      BY <1>1, <2>1 DEF Fresh
    <2>3. pc[q] \in {"countFinalized", "rankWrite"} /\ Waiting(q) => Waiting(q)'
      BY StillWaiting DEF Holding, Ranking
    <2> QED BY <1>1, <2>1, <2>2, <2>3 DEF Ready
  <1> QED BY <1>2, <1>3

LEMMA StepRankIInv ==
  ASSUME RankIInv, IInv', RankTyped', FinalStep, NEW r \in Request, Taken(r), Mine(r)',
         ~stray' => (Steady \/ pc'[r] = "lock") /\ NoneAway' /\ Ready(r)' /\ RankedOrSoon'
  PROVE  RankIInv'
  <1>1. \A q \in Request : pc'[q] \in Holding => positionLock' = q
    BY DEF RankIInv, Taken, Alone
  <1>2. ASSUME NEW q \in Request \ {r} PROVE Mine(q)'
    <2>1. Mine(q) /\ pc'[q] = pc[q] /\ toWrite'[q] = toWrite[q] /\ buf'[q] = buf[q]
      BY DEF RankIInv, Taken, Alone
    <2>2. \A s \in Student : buf[q][s] # Null => result'[s] = result[s]
      BY DEF Taken
    <2>3. toWrite[q] \subseteq Student
      BY DEF RankIInv, IInv, TypedLocal
    <2> QED BY <2>1, <2>2, <2>3 DEF Mine, Drafts, IsFinal, Exists, FinalStep
  <1>3. ~stray' => \A q \in Request : Ready(q)'
    BY OthersReady
  <1> QED BY <1>1, <1>2, <1>3 DEF RankIInv

(* A complete class stays ranked, or about to be, while no one who is to    *)
(* rank it leaves.                                                          *)
LEMMA SoonKept ==
  ASSUME RankIInv, NEW r \in Request, Taken(r), ~stray', Steady,
         \A s \in Student : IsFinal(s) => result'[s].place = result[s].place,
         FullyFinal /\ pc[r] \in Ranking => pc'[r] \in Ranking \/ Waiting(r)
  PROVE  RankedOrSoon'
  <1> SUFFICES ASSUME FullyFinal' PROVE Ranked' \/ \E q \in Request : pc'[q] \in Ranking
    BY DEF RankedOrSoon
  <1>1. FullyFinal /\ (Ranked \/ \E q \in Request : pc[q] \in Ranking)
    BY SteadyPlaces DEF RankIInv, Taken, RankedOrSoon
  <1>2. CASE Ranked
    BY <1>2, SteadyPlaces DEF Ranked, Rankable
  <1>3. CASE \E q \in Request : pc[q] \in Ranking
    <2>1. CASE \E q \in Request \ {r} : pc[q] \in Ranking
      BY <2>1 DEF Taken, Alone
    <2>2. CASE pc[r] \in Ranking
      BY <1>1, <2>2, <2>1 DEF Waiting, Ranking
    <2> QED BY <1>3, <2>1, <2>2
  <1> QED BY <1>1, <1>2, <1>3

-----------------------------------------------------------------------------
(* Steps that leave the committed results as they are *)

LEMMA SilentRank ==
  ASSUME RankIInv, IInv', FinalStep, NEW r \in Request, UNCHANGED <<enrolment, result>>, RankTyped',
         Taken(r), Mine(r)', ~stray' => Ready(r)',
         ~stray' /\ FullyFinal /\ pc[r] \in Ranking => pc'[r] \in Ranking \/ Waiting(r)
  PROVE  RankIInv'
  <1>1. Steady /\ \A s \in Student : IsFinal(s) => result'[s].place = result[s].place
    BY DEF Steady, IsFinal, Exists
  <1>2. ~stray' => NoneAway'
    BY DEF RankIInv, Taken, NoneAway, Exists
  <1>3. ~stray' => RankedOrSoon'
    BY <1>1, SoonKept
  <1> QED BY <1>1, <1>2, <1>3, StepRankIInv

(* A request that ends is neither in anyone's way nor writing.              *)
LEMMA FinishRank ==
  ASSUME RankIInv, NEW r \in Request, Finish(r), UNCHANGED enrolment, ~stray' => ~stray, stray' \in BOOLEAN,
         pc[r] = "lock" => stray',
         \A s \in Student : result'[s] # result[s] => \A q \in Request \ {r} : buf[q][s] = Null
  PROVE  Taken(r) /\ RankTyped' /\ Mine(r)' /\ Ready(r)'
  <1>1. RankTyped'
    BY DEF Finish, RankIInv, RankTyped
  <1>2. pc'[r] = "idle" /\ buf'[r] = None /\ computed'[r] = None
    BY DEF Finish, RankIInv, IInv, TypedLocal
  <1>3. Taken(r)
    <2>1. Alone(r)
      BY FinishLocal DEF RankIInv
    <2>2. \A q \in Request \ {r} : /\ cohort'[q] = cohort[q] /\ activeCount'[q] = activeCount[q]
                                   /\ positionLock = q => positionLock' = q
      BY DEF Finish, RankIInv, RankTyped
    <2> QED BY <1>2, <2>1, <2>2 DEF Taken, Holding, Ranking
  <1>4. \A s \in Student : buf'[r][s] = Null /\ computed'[r][s] = Null
    BY <1>2 DEF None
  <1>5. Mine(r)' /\ Ready(r)'
    BY <1>2, <1>4 DEF Mine, Drafts, Ready, Finalizing
  <1> QED BY <1>1, <1>3, <1>5

LEMMA CutRank ==
  ASSUME RankIInv, IInv', FinalStep, NEW r \in Request,
         Abort(r) \/ DeadlockVictim(r) \/ ReleaseAudit(r)
  PROVE  RankIInv'
  <1>1. /\ Finish(r) /\ UNCHANGED <<enrolment, result>> /\ stray' \in BOOLEAN
        /\ ~stray' => ~stray
    BY DEF Abort, DeadlockVictim, ReleaseAudit, world, rows, RankIInv, RankTyped, Ranking
  <1>2. pc[r] \in Ranking => stray'
    BY <1>1 DEF Abort, DeadlockVictim, ReleaseAudit, Ranking
  <1>3. pc[r] = "lock" => stray'
    BY <1>2 DEF Ranking
  <1>4. Taken(r) /\ RankTyped' /\ Mine(r)' /\ Ready(r)'
    BY <1>1, <1>3, FinishRank
  <1> QED BY <1>1, <1>2, <1>4, SilentRank

(* The statements before the ones that write or rank.                       *)
LEMMA OpeningRank ==
  ASSUME RankIInv, IInv', FinalStep, NEW r \in Request,
         \/ ComputeRead(r) \/ ComputeExisting(r) \/ FinalizeAttendance(r) \/ RankRequest(r)
         \/ \E s \in Student : FinalizeRead(r, s) \/ OverrideRead(r, s)
  PROVE  RankIInv'
  <1>1. /\ UNCHANGED <<enrolment, result, stray, positionLock, activeCount, buf>>
        /\ pc[r] \in {"idle", "existing", "attendance"}
        /\ \E p \in {"existing", "computeWrite", "attendance", "finalize", "lock", "override"} :
              pc' = [pc EXCEPT ![r] = p]
    BY DEF ComputeRead, ComputeExisting, FinalizeAttendance, RankRequest, FinalizeRead, OverrideRead,
       world, rows, local
  <1>2. PICK p \in {"existing", "computeWrite", "attendance", "finalize", "lock", "override"} :
              pc' = [pc EXCEPT ![r] = p]
    BY <1>1
  <1>3. pc'[r] = p /\ p \notin Holding
    BY <1>2 DEF RankIInv, IInv, TypedLocal, Holding, Ranking
  <1>4. RankTyped' /\ \A q \in Request \ {r} : cohort'[q] = cohort[q]
    <2>1. CASE UNCHANGED cohort
      BY <1>1, <2>1 DEF RankIInv, RankTyped
    <2>2. CASE \E s \in Student : FinalizeRead(r, s)
      BY <1>1, <2>2 DEF FinalizeRead, RankIInv, RankTyped, InClass
    <2> QED BY <2>1, <2>2 DEF ComputeRead, ComputeExisting, FinalizeAttendance, RankRequest, OverrideRead, local
  <1>5. Alone(r)
    BY DEF ComputeRead, ComputeExisting, FinalizeAttendance, RankRequest, FinalizeRead, OverrideRead,
       local, Alone, RankIInv, IInv, TypedLocal
  <1>6. Taken(r)
    BY <1>1, <1>3, <1>4, <1>5 DEF Taken
  <1>7. \A s \in Student : buf'[r][s] = Null
    BY <1>1 DEF RankIInv, IInv, Own, Recalls, Writing, None
  <1>8. Mine(r)'
    BY <1>3, <1>7 DEF Mine, Drafts
  <1>9. ~stray' => Ready(r)'
    <2> SUFFICES ASSUME ~stray' PROVE Ready(r)'
      OBVIOUS
    <2>1. ~stray /\ NoneAway /\ Ready(r)
      BY <1>1 DEF RankIInv
    <2>2. \A s \in Student : enrolment[s] = "away" => computed'[r][s] = Null
      <3>1. CASE ComputeRead(r)
        BY <3>1 DEF ComputeRead, Active, RankIInv, IInv, TypedLocal
      <3> QED BY <2>1, <3>1 DEF Ready, ComputeExisting, FinalizeAttendance, RankRequest, FinalizeRead,
                 OverrideRead, local
    <2>3. p \in Finalizing => cohort'[r]
      <3>1. CASE \E s \in Student : FinalizeRead(r, s)
        BY <2>1, <3>1 DEF FinalizeRead, NoneAway, InClass, RankIInv, RankTyped
      <3>2. CASE FinalizeAttendance(r)
        BY <2>1, <3>2 DEF FinalizeAttendance, Ready, Finalizing
      <3>3. CASE ComputeRead(r) \/ ComputeExisting(r) \/ RankRequest(r) \/ \E s \in Student : OverrideRead(r, s)
        BY <1>3, <3>3 DEF ComputeRead, ComputeExisting, RankRequest, OverrideRead, Finalizing, RankIInv, IInv,
           TypedLocal
      <3> QED BY <3>1, <3>2, <3>3
    <2> QED BY <1>1, <1>3, <1>7, <2>2, <2>3 DEF Ready
  <1> QED BY <1>1, <1>4, <1>6, <1>8, <1>9, SilentRank DEF Ranking

(* A row that a recomputation or a ranking pass writes, or drops.           *)
LEMMA RowRank ==
  ASSUME RankIInv, IInv', FinalStep, NEW r \in Request, NEW s \in Student,
         ComputeCreate(r, s) \/ ComputeUpdate(r, s) \/ RankWrite(r, s)
  PROVE  RankIInv'
  <1>1. /\ UNCHANGED <<enrolment, result, stray, positionLock, pc, cohort, activeCount, computed>>
        /\ pc[r] \in Writing
    BY DEF ComputeCreate, ComputeUpdate, RankWrite, world, rows, Writing
  <1>2. Alone(r)
    BY DEF ComputeCreate, ComputeUpdate, RankWrite, Alone, RankIInv, IInv, TypedLocal
  <1>3. Taken(r) /\ RankTyped'
    BY <1>1, <1>2 DEF Taken, RankTyped, RankIInv
  <1>4. \A u \in Student \ {s} : buf'[r][u] = buf[r][u]
    BY DEF ComputeCreate, ComputeUpdate, RankWrite, RankIInv, IInv, TypedLocal
  <1>5. /\ toWrite'[r] \subseteq toWrite[r]
        /\ \A u \in toWrite[r] : u \in toWrite'[r] \/ u = s
        /\ computed[r][s] # Null
    BY DEF ComputeCreate, ComputeUpdate, RankWrite, RankIInv, IInv, TypedLocal, Own, Recalls
  <1>6. CASE RankWrite(r, s)
    <2>1. PICK x : x = [result[s] EXCEPT !.place = computed[r][s].place]
      OBVIOUS
    <2>2. /\ pc[r] = "rankWrite" /\ s \in toWrite[r] /\ IsFinal(s) /\ buf'[r][s] = x
          /\ result[s] \in Row
      BY <1>6, <2>1 DEF RankWrite, RankIInv, Mine, IsFinal, Exists, IInv, TypedLocal, TypedRows
    <2>3. x.place = computed[r][s].place /\ x.status = result[s].status
      BY <2>1, <2>2 DEF Row
    <2>4. buf'[r][s] # Null
      <3>1. computed[r][s].place \in Place \cup {Null}
        BY <1>5 DEF RankIInv, IInv, TypedLocal, Computed
      <3>2. x \in Row
        BY <2>1, <2>2, <3>1 DEF Row
      <3> QED BY <2>2, <3>2, ResultsAssumption
    <2>5. Mine(r)'
      BY <1>1, <1>4, <1>5, <2>2 DEF RankIInv, Mine, Drafts, IsFinal, Exists
    <2>6. ~stray' => Ready(r)'
      <3> SUFFICES ASSUME ~stray' PROVE Ready(r)'
        OBVIOUS
      <3>1. Ready(r) /\ enrolment[s] # "away"
        BY <1>1, <1>5 DEF RankIInv, Ready
      <3>2. Rankable' = Rankable /\ \A u \in Rankable : CompetitionPlace(u)' = CompetitionPlace(u)
        BY <1>1 DEF Rankable, CompetitionPlace, IsFinal, Exists, InClass
      <3>3. Fresh(r) => Fresh(r)'
        BY <1>1, <1>4, <1>5, <2>2, <2>3, <2>4, <3>2 DEF Fresh, Rankable
      <3>4. Waiting(r) => Waiting(r)'
        BY <1>1 DEF Waiting
      <3> QED BY <1>1, <1>4, <2>2, <3>1, <3>3, <3>4 DEF Ready, Finalizing
    <2> QED BY <1>1, <1>3, <2>2, <2>5, <2>6, SilentRank DEF Ranking
  <1>7. CASE ComputeCreate(r, s) \/ ComputeUpdate(r, s)
    <2>1. pc[r] = "computeWrite"
      BY <1>7 DEF ComputeCreate, ComputeUpdate
    <2>2. UNCHANGED buf \/ (~IsFinal(s) /\ buf'[r][s].status = "DRAFT")
      <3>1. CASE ComputeCreate(r, s)
        BY <3>1 DEF ComputeCreate, IsFinal, RankIInv, IInv, TypedLocal
      <3>2. CASE ComputeUpdate(r, s)
        <4>1. PICK x : x = [result[s] EXCEPT !.avg = computed[r][s].avg, !.place = computed[r][s].place]
          OBVIOUS
        <4>2. result[s] \in Row /\ Exists(s)
          BY <3>2 DEF ComputeUpdate, RankIInv, IInv, Own, Recalls, TypedRows, Exists
        <4>3. x.status = result[s].status
          BY <4>1, <4>2 DEF Row
        <4>4. UNCHANGED buf \/ (~IsFinal(s) /\ buf'[r][s] = x)
          BY <3>2, <4>1 DEF ComputeUpdate, Recomputable, RankIInv, IInv, TypedLocal
        <4> QED BY <4>2, <4>3, <4>4 DEF IsFinal, Row
      <3> QED BY <1>7, <3>1, <3>2
    <2>3. Mine(r)'
      BY <1>1, <1>4, <2>1, <2>2 DEF RankIInv, Mine, Drafts, IsFinal, Exists
    <2>4. ~stray' => Ready(r)'
      BY <1>1, <1>4, <1>5, <2>1 DEF RankIInv, Ready, Finalizing
    <2> QED BY <1>1, <1>3, <2>1, <2>3, <2>4, SilentRank DEF Ranking
  <1> QED BY <1>6, <1>7

(* At the lock, counting, reading what is to be ranked.                     *)
LEMMA TowardsRank ==
  ASSUME RankIInv, IInv', FinalStep, NEW r \in Request,
         \/ TakePositionLock(r) \/ CountActive(r) \/ RankRead(r)
         \/ CountFinalized(r) /\ ~Incomplete(r)
  PROVE  RankIInv'
  <1>1. /\ UNCHANGED <<enrolment, result, stray, cohort, buf>>
        /\ pc[r] \in Ranking \ Writing
        /\ \E p \in Holding : pc' = [pc EXCEPT ![r] = p]
        /\ positionLock' = r \/ (pc[r] \in Holding /\ UNCHANGED positionLock)
        /\ pc[r] = "lock" => positionLock = Null
    BY DEF TakePositionLock, CountActive, RankRead, CountFinalized, world, rows, local, Ranking, Writing, Holding
  <1>2. PICK p \in Holding : pc' = [pc EXCEPT ![r] = p]
    BY <1>1
  <1>3. pc'[r] = p /\ positionLock' = r
    BY <1>1, <1>2 DEF RankIInv, IInv, TypedLocal
  <1>4. RankTyped' /\ \A q \in Request \ {r} : activeCount'[q] = activeCount[q]
    <2>1. CASE CountActive(r)
      <3>1. Cardinality(Active) \in Nat
        BY Counts DEF Active
      <3> QED BY <1>1, <2>1, <3>1 DEF CountActive, RankIInv, RankTyped
    <2>2. CASE ~CountActive(r)
      <3>1. UNCHANGED activeCount
        BY <2>2 DEF TakePositionLock, RankRead, CountFinalized, local
      <3> QED BY <1>1, <3>1 DEF RankIInv, RankTyped
    <2> QED BY <2>1, <2>2
  <1>5. Alone(r)
    BY DEF TakePositionLock, CountActive, RankRead, CountFinalized, local, Alone, RankIInv, IInv, TypedLocal
  <1>6. \A q \in Request \ {r} : positionLock = q => positionLock' = q
    <2>1. r # Null /\ \A q \in Request \ {r} : q # Null
      BY ResultsAssumption
    <2> QED BY <1>1, <2>1 DEF RankIInv, Holding, Ranking
  <1>7. Taken(r)
    BY <1>1, <1>3, <1>4, <1>5, <1>6 DEF Taken
  <1>8. \A s \in Student : buf'[r][s] = Null
    BY <1>1 DEF RankIInv, IInv, Own, Recalls, None
  <1>9. Mine(r)'
    <2>1. CASE RankRead(r)
      BY <1>1, <1>8, <2>1 DEF RankRead, Rankable, Mine, Drafts, IsFinal, Exists, RankIInv, IInv, TypedLocal
    <2>2. CASE ~RankRead(r)
      BY <1>3, <1>8, <2>2 DEF TakePositionLock, CountActive, CountFinalized, Mine, Drafts, RankIInv, IInv,
         TypedLocal
    <2> QED BY <2>1, <2>2
  <1>10. ~stray' => Ready(r)'
    <2> SUFFICES ASSUME ~stray' PROVE Ready(r)'
      OBVIOUS
    <2>1. ~stray /\ Ready(r)
      BY <1>1 DEF RankIInv
    <2>2. CASE RankRead(r)
      <3>1. /\ Rankable' = Rankable /\ \A s \in Rankable : CompetitionPlace(s)' = CompetitionPlace(s)
            /\ \A s \in Rankable : s \in Student /\ enrolment[s] # "away"
        BY <1>1 DEF Rankable, CompetitionPlace, IsFinal, Exists, InClass
      <3>2. toWrite'[r] = Rankable /\ pc'[r] = "rankWrite"
        BY <2>2 DEF RankRead, RankIInv, IInv, TypedLocal
      <3>3. /\ \A s \in Rankable : computed'[r][s] = [avg |-> result[s].avg, place |-> CompetitionPlace(s)]
            /\ \A s \in Student : s \notin Rankable => computed'[r][s] = Null
        BY <2>2 DEF RankRead, RankIInv, IInv, TypedLocal
      <3>4. \A s \in Rankable : computed'[r][s] # Null
        <4>1. \A s \in toWrite'[r] : computed'[r][s] # Null
          BY DEF IInv, Own, Recalls
        <4> QED BY <3>2, <4>1
      <3>5. Fresh(r)'
        <4>1. ASSUME NEW s \in Rankable PROVE computed'[r][s].place = CompetitionPlace(s)
          <5>1. PICK c : c = CompetitionPlace(s)
            OBVIOUS
          <5>2. computed'[r][s] = [avg |-> result[s].avg, place |-> c]
            BY <3>3, <5>1
          <5> QED BY <5>1, <5>2
        <4>2. \A s \in Rankable' : computed'[r][s].place = CompetitionPlace(s)' /\ s \in toWrite'[r]
          BY <3>1, <3>2, <4>1
        <4> QED BY <3>1, <3>4, <4>2 DEF Fresh
      <3> QED BY <1>1, <1>8, <3>1, <3>2, <3>3, <3>5 DEF Ready, Finalizing
    <2>3. CASE CountActive(r)
      <3>1. pc'[r] = "countFinalized" /\ activeCount'[r] = Cardinality(Active)' /\ computed' = computed
        BY <1>1, <2>3 DEF CountActive, RankIInv, RankTyped, IInv, TypedLocal, Active
      <3> QED BY <1>1, <1>8, <2>1, <3>1 DEF Ready, Finalizing
    <2>4. CASE TakePositionLock(r) \/ (CountFinalized(r) /\ ~Incomplete(r))
      <3>1. pc'[r] \in {"rankRead", "countActive"} /\ computed' = computed
        BY <2>4 DEF TakePositionLock, CountFinalized, local, RankIInv, IInv, TypedLocal
      <3> QED BY <1>1, <1>8, <2>1, <3>1 DEF Ready, Finalizing
    <2> QED BY <2>2, <2>3, <2>4
  <1> QED BY <1>1, <1>3, <1>4, <1>7, <1>9, <1>10, SilentRank DEF Holding

(* Whoever finds the class incomplete while it is complete has someone      *)
(* behind it.                                                               *)
LEMMA IncompleteRank ==
  ASSUME RankIInv, IInv', FinalStep, NEW r \in Request, CountFinalized(r), Incomplete(r)
  PROVE  RankIInv'
  <1>1. Finish(r) /\ UNCHANGED <<enrolment, result, stray>> /\ pc[r] = "countFinalized"
    BY DEF CountFinalized, Incomplete, world, rows
  <1>2. Taken(r) /\ RankTyped' /\ Mine(r)' /\ Ready(r)'
    BY <1>1, FinishRank DEF RankIInv, RankTyped
  <1>3. ASSUME FullyFinal, ~stray PROVE Waiting(r)
    <2>1. {s \in Active : IsFinal(s)} = Active /\ Active # {} /\ Active \subseteq Student
      BY <1>3 DEF FullyFinal, Active
    <2>2. IsFiniteSet(Active) /\ Cardinality(Active) \in Nat
      BY <2>1, Counts
    <2>3. Cardinality(Active) # 0
      BY <2>1, <2>2, FS_EmptySet
    <2>4. activeCount[r] # Cardinality(Active)
      BY <2>1, <2>3 DEF Incomplete
    <2> QED BY <1>1, <1>3, <2>4 DEF RankIInv, Ready
  <1> QED BY <1>1, <1>2, <1>3, SilentRank

-----------------------------------------------------------------------------
(* Steps that change committed results *)

(* A commit makes nobody final, and only a ranking pass moves the places of *)
(* those who are: to the places of the class, unless someone is behind it.  *)
LEMMA CommitRank ==
  ASSUME RankIInv, IInv', FinalStep, NEW r \in Request, ComputeCommit(r) \/ RankCommit(r)
  PROVE  RankIInv'
  <1>1. /\ Finish(r) /\ UNCHANGED <<enrolment, stray>> /\ pc[r] \in Writing
        /\ toWrite[r] = {} /\ (pc[r] = "rankWrite" => RankCommit(r))
    BY DEF ComputeCommit, RankCommit, Commit, world, Writing
  <1>2. \A s \in Student : result'[s] = IF buf[r][s] # Null THEN buf[r][s] ELSE result[s]
    BY DEF ComputeCommit, RankCommit, Commit
  <1>3. \A s \in Student : result'[s] # result[s] => \A q \in Request \ {r} : buf[q][s] = Null
    BY <1>2 DEF RankIInv, IInv, Own, Buffers
  <1>4. Taken(r) /\ RankTyped' /\ Mine(r)' /\ Ready(r)'
    BY <1>1, <1>3, FinishRank DEF RankIInv, RankTyped, Writing
  <1>5. Steady
    <2>1. ASSUME NEW s \in Student, buf[r][s] # Null
          PROVE  /\ IsFinal(s) => buf[r][s].status = "FINALIZED" /\ buf[r][s].avg = result[s].avg
                 /\ ~IsFinal(s) => buf[r][s].status = "DRAFT"
      BY <2>1 DEF RankIInv, IInv, Own, Buffers, Mine, Drafts
    <2> QED BY <1>1, <1>2, <2>1 DEF Steady, IsFinal, Exists
  <1>6. ~stray' => NoneAway'
    BY <1>1, <1>2 DEF RankIInv, Ready, NoneAway, Exists
  <1>7. ASSUME ~stray' PROVE RankedOrSoon'
    <2>1. CASE pc[r] = "computeWrite"
      <3>1. \A s \in Student : IsFinal(s) => result'[s].place = result[s].place
        BY <1>2, <2>1 DEF RankIInv, Mine, Drafts
      <3> QED BY <1>4, <1>5, <1>7, <2>1, <3>1, SoonKept DEF Ranking
    <2>2. CASE pc[r] = "rankWrite" /\ Waiting(r)
      BY <1>4, <2>2 DEF Waiting, Taken, Alone, RankedOrSoon, Ranking
    <2>3. CASE pc[r] = "rankWrite" /\ Fresh(r)
      <3>1. \A s \in Rankable : s \in Student /\ result'[s].place = CompetitionPlace(s)
        BY <1>1, <1>2, <2>3 DEF Fresh, Rankable
      <3>2. Ranked'
        BY <1>5, <3>1, SteadyPlaces DEF Ranked
      <3> QED BY <3>2 DEF RankedOrSoon
    <2> QED BY <1>1, <1>7, <2>1, <2>2, <2>3 DEF RankIInv, Ready, Writing
  <1> QED BY <1>4, <1>5, <1>6, <1>7, StepRankIInv

(* Whoever finalizes a result of the class goes on to rank it.              *)
LEMMA FinalizeRank ==
  ASSUME RankIInv, IInv', FinalStep, NEW r \in Request, FinalizeWrite(r)
  PROVE  RankIInv'
  <1>1. /\ pc[r] = "finalize" /\ target[r] \in Student /\ Exists(target[r])
        /\ \A q \in Request \ {r} : buf[q][target[r]] = Null
        /\ buf[r] = None /\ UNCHANGED <<enrolment, stray>>
    BY DEF FinalizeWrite, HeldByOther, world, RankIInv, IInv, TypedLocal, Own, Recalls, Targeting, Finalizing,
       Writing
  <1>2. \A s \in Student : s # target[r] => result'[s] = result[s]
    BY DEF FinalizeWrite, RankIInv, IInv, TypedRows
  <1>3. ~stray' => NoneAway'
    BY <1>1, <1>2 DEF RankIInv, NoneAway, Exists
  <1>4. CASE cohort[r]
    <2>1. CASE UNCHANGED <<positionLock, local>> /\ pc' = [pc EXCEPT ![r] = "lock"]
      <3>1. pc'[r] = "lock" /\ Alone(r)
        BY <2>1 DEF local, Alone, RankIInv, IInv, TypedLocal
      <3>2. Taken(r) /\ RankTyped'
        BY <1>1, <1>2, <2>1, <3>1 DEF local, Taken, Holding, RankIInv, RankTyped
      <3>3. \A s \in Student : buf'[r][s] = Null
        BY <1>1, <2>1 DEF local, None
      <3>4. Mine(r)' /\ (~stray' => Ready(r)')
        BY <1>1, <2>1, <3>1, <3>3 DEF local, Mine, Drafts, Ready, Finalizing, RankIInv
      <3>5. RankedOrSoon'
        BY <3>1 DEF RankedOrSoon, Ranking
      <3> QED BY <1>3, <3>1, <3>2, <3>4, <3>5, StepRankIInv
    <2> QED BY <1>4, <2>1 DEF FinalizeWrite
  <1>5. CASE ~cohort[r]
    <2>1. Finish(r) /\ stray
      BY <1>1, <1>5 DEF FinalizeWrite, RankIInv, Ready, Finalizing
    <2>2. Taken(r) /\ RankTyped' /\ Mine(r)'
      BY <1>1, <1>2, <2>1, FinishRank DEF RankIInv, RankTyped
    <2> QED BY <1>1, <2>1, <2>2, StepRankIInv
  <1> QED BY <1>4, <1>5

LEMMA OverrideRank ==
  ASSUME RankIInv, IInv', FinalStep, NEW r \in Request, OverrideWrite(r)
  PROVE  RankIInv'
  <1>1. /\ Finish(r) /\ stray' /\ stray' \in BOOLEAN /\ UNCHANGED enrolment /\ target[r] \in Student
        /\ \A q \in Request \ {r} : buf[q][target[r]] = Null /\ pc[r] = "override"
    BY OverriddenRow DEF OverrideWrite, HeldByOther, world, RankIInv
  <1>2. PICK x \in Row : result' = [result EXCEPT ![target[r]] = x]
    BY OverriddenRow DEF RankIInv
  <1>3. \A s \in Student : s # target[r] => result'[s] = result[s]
    BY <1>2 DEF RankIInv, IInv, TypedRows
  <1>4. Taken(r) /\ RankTyped' /\ Mine(r)'
    BY <1>1, <1>3, FinishRank
  <1> QED BY <1>1, <1>4, StepRankIInv

LEMMA ReleaseRank ==
  ASSUME RankIInv, IInv', FinalStep, NEW r \in Request, NEW s \in Student, ReleaseClaim(r, s)
  PROVE  RankIInv'
  <1>1. /\ pc[r] = "idle" /\ IsFinal(s) /\ \A q \in Request \ {r} : buf[q][s] = Null
        /\ UNCHANGED <<enrolment, stray, cohort, activeCount, positionLock, buf, computed>>
        /\ result[s] \in Row
    BY DEF ReleaseClaim, Releasable, HeldByOther, world, RankIInv, IInv, TypedRows, IsFinal, Exists
  <1>2. pc'[r] = "audit" /\ Alone(r)
    BY DEF ReleaseClaim, Alone, RankIInv, IInv, TypedLocal
  <1>3. PICK x : x = [result[s] EXCEPT !.released = TRUE]
    OBVIOUS
  <1>4. x \in Row /\ x.status = result[s].status /\ x.avg = result[s].avg /\ x.place = result[s].place
    BY <1>1, <1>3 DEF Row
  <1>5. result'[s] = x /\ \A t \in Student \ {s} : result'[t] = result[t]
    BY <1>3 DEF ReleaseClaim, RankIInv, IInv, TypedRows
  <1>6. Taken(r) /\ RankTyped'
    BY <1>1, <1>2, <1>5 DEF Taken, Holding, Ranking, RankIInv, RankTyped
  <1>7. Steady /\ \A t \in Student : IsFinal(t) => result'[t].place = result[t].place
    BY <1>1, <1>4, <1>5, ResultsAssumption DEF Steady, IsFinal, Exists
  <1>8. \A t \in Student : buf'[r][t] = Null
    BY <1>1 DEF RankIInv, IInv, Own, Recalls, Writing, None
  <1>9. Mine(r)' /\ (~stray' => Ready(r)')
    BY <1>1, <1>2, <1>8 DEF Mine, Drafts, Ready, Finalizing, RankIInv
  <1>10. ~stray' => NoneAway'
    BY <1>1, <1>5 DEF RankIInv, NoneAway, Exists, IsFinal
  <1>11. ~stray' => RankedOrSoon'
    BY <1>1, <1>6, <1>7, SoonKept DEF Ranking
  <1> QED BY <1>6, <1>7, <1>9, <1>10, <1>11, StepRankIInv

(* A student who joins is not final yet; one who leaves is noticed.         *)
LEMMA WorldRank ==
  ASSUME RankIInv, IInv', \/ \E s \in Student : Submit(s) \/ CloseSession(s)
                          \/ \E s \in Mover : Join(s) \/ Leave(s)
                          \/ UNCHANGED vars
  PROVE  RankIInv'
  <1>1. UNCHANGED <<rows, pc, local, positionLock>>
    BY DEF Submit, CloseSession, Join, Leave, vars
  <1>2. RankTyped'
    BY <1>1 DEF Submit, CloseSession, Join, Leave, vars, world, local, RankIInv, RankTyped
  <1>3. \A r \in Request : (pc'[r] \in Holding => positionLock' = r) /\ Mine(r)'
    BY <1>1 DEF rows, local, RankIInv, Mine, Drafts, IsFinal, Exists
  <1>4. ASSUME ~stray' PROVE NoneAway' /\ RankedOrSoon' /\ \A r \in Request : Ready(r)'
    <2>1. CASE UNCHANGED enrolment
      <3>1. ~stray
        BY <1>4, <2>1 DEF Submit, CloseSession, Join, Leave, vars, RankIInv, RankTyped
      <3>2. Steady
        BY <1>1, <2>1 DEF rows, Steady, IsFinal, Exists
      <3>3. /\ Active' = Active /\ (FullyFinal' <=> FullyFinal) /\ Rankable' = Rankable
            /\ \A s \in Rankable : CompetitionPlace(s)' = CompetitionPlace(s)
        BY <3>2, SteadyPlaces
      <3>4. (Ranked => Ranked') /\ \A r \in Request : Fresh(r) => Fresh(r)'
        BY <1>1, <3>3 DEF rows, local, Ranked, Fresh
      <3>5. NoneAway' /\ RankedOrSoon'
        BY <1>1, <2>1, <3>1, <3>3, <3>4 DEF rows, RankIInv, NoneAway, Exists, RankedOrSoon
      <3> QED BY <1>1, <2>1, <3>1, <3>3, <3>4, <3>5 DEF local, RankIInv, Ready, Waiting
    <2>2. CASE ~UNCHANGED enrolment
      <3>1. PICK s \in Mover : Join(s)
        BY <1>4, <2>2 DEF Submit, CloseSession, Leave, vars, world
      <3>2. s \in Student /\ enrolment[s] = "away" /\ ~IsFinal(s) /\ ~stray
        BY <1>4, <3>1, ResultsAssumption DEF Join, RankIInv, RankTyped
      <3>3. enrolment'[s] = "active" /\ \A t \in Student \ {s} : enrolment'[t] = enrolment[t]
        BY <3>1, <3>2 DEF Join, RankIInv, RankTyped
      <3>4. ~FullyFinal'
        BY <1>1, <3>2, <3>3 DEF rows, FullyFinal, Active, IsFinal, Exists
      <3>5. /\ Rankable' = Rankable
            /\ \A t \in Rankable : CompetitionPlace(t)' = CompetitionPlace(t)
        BY <1>1, <3>2, <3>3 DEF rows, Rankable, CompetitionPlace, InClass, IsFinal, Exists
      <3>6. \A r \in Request : Fresh(r) => Fresh(r)'
        BY <1>1, <3>5 DEF local, Fresh
      <3>7. NoneAway'
        BY <1>1, <3>2, <3>3 DEF rows, RankIInv, NoneAway, Exists
      <3>8. ASSUME NEW r \in Request PROVE Ready(r)'
        BY <1>1, <3>2, <3>3, <3>4, <3>6 DEF local, RankIInv, Ready, Waiting
      <3> QED BY <3>4, <3>7, <3>8 DEF RankedOrSoon
    <2> QED BY <2>1, <2>2
  <1> QED BY <1>2, <1>3, <1>4 DEF RankIInv

-----------------------------------------------------------------------------
LEMMA InitRankIInv == Init => RankIInv
  <1> SUFFICES ASSUME Init PROVE RankIInv
    OBVIOUS
  <1>1. IInv
    BY InitIInv
  <1>2. RankTyped
    BY DEF Init, RankTyped
  <1>3. ~FullyFinal
    BY DEF Init, None, FullyFinal, Active, IsFinal, Exists
  <1> QED BY <1>1, <1>2, <1>3 DEF Init, None, RankIInv, Mine, Drafts, Ready, NoneAway, Exists, RankedOrSoon,
             Holding, Ranking, Finalizing

LEMMA NextRankIInv == RankIInv /\ [Next]_vars => RankIInv'
  <1> SUFFICES ASSUME RankIInv, [Next]_vars PROVE RankIInv'
    OBVIOUS
  <1>1. IInv' /\ FinalStep
    BY NextIInv, FinalByStep DEF RankIInv
  <1>2. ASSUME NEW r \in Request, Step(r) PROVE RankIInv'
    <2>1. CASE CountFinalized(r)
      BY <1>1, <2>1, TowardsRank, IncompleteRank
    <2> QED BY <1>1, <1>2, <2>1, OpeningRank, RowRank, CommitRank, FinalizeRank, TowardsRank, OverrideRank,
               CutRank DEF Step
  <1>3. ASSUME NEW r \in Request,
               \/ ComputeRead(r) \/ RankRequest(r) \/ Abort(r) \/ DeadlockVictim(r)
               \/ \E s \in Student : FinalizeRead(r, s) \/ OverrideRead(r, s) \/ ReleaseClaim(r, s)
        PROVE  RankIInv'
    BY <1>1, <1>3, OpeningRank, CutRank, ReleaseRank
  <1> QED BY <1>1, <1>2, <1>3, WorldRank DEF Next

(* No ranking is lost: when every active student is FINALIZED, the class is *)
(* ranked or some request is about to rank it, however finalizations and    *)
(* ranking passes interleave, unless a request was cut while it ranked, a   *)
(* result was overridden or a student left (results.service.ts:440-445,     *)
(* 472-477).                                                                *)
THEOREM CompleteClassIsRanked == Spec => []FullClassIsRanked
  <1>1. RankIInv => FullClassIsRanked
    BY DEF RankIInv, RankedOrSoon, FullClassIsRanked
  <1>2. Spec => []RankIInv
    BY InitRankIInv, NextRankIInv, PTL DEF Spec
  <1> QED BY <1>1, <1>2, PTL
=============================================================================
