---------------------------- MODULE Scores_proofs ----------------------------
(***************************************************************************)
(* Theorems about Scores, for any students, components, marks and number   *)
(* of concurrent requests.  The inductive invariant IInv says what the row *)
(* locks buy: one transaction at a time has an uncommitted version of a    *)
(* cell, and that version was made from the committed one.                 *)
(***************************************************************************)
EXTENDS Scores, TLAPS

(* A cell is written by one open transaction at most. *)
LockExclusive ==
    \A cell \in Cell, q, r \in Request :
        q # r /\ buf[q][cell] # Null => buf[r][cell] = Null

(* A request outside its writing phase has written nothing. *)
BufferedOnlyWhileWriting ==
    \A r \in Request, cell \in Cell :
        buf[r][cell] # Null => pc[r] \in {"bulkWrite", "mark"}

(* A bulk transaction overwrites no submitted row, and of its entries each  *)
(* is still to be written, written, or was lost to another creation.       *)
BulkWriting(r) ==
    /\ toCreate[r] \cup toWrite[r] \subseteq EntryCells(r)
    /\ toCreate[r] \cap existing[r] = {}
    /\ \A cell \in toWrite[r] : Exists(cell) /\ buf[r][cell] = Null
    /\ \A cell \in Cell : buf[r][cell] # Null =>
          /\ buf[r][cell] = [raw |-> entries[r][cell], status |-> "DRAFT"]
          /\ ~IsSubmitted(cell)
    /\ \A cell \in EntryCells(r) :
          \/ cell \in toCreate[r] \cup toWrite[r]
          \/ buf[r][cell] # Null
          \/ cell \notin existing[r] /\ Exists(cell)

BulkProgress == \A r \in Request : pc[r] = "bulkWrite" => BulkWriting(r)

(* A submission marks rows of its roster only, as they are committed, and   *)
(* every score it counted is marked or still to be marked.                 *)
Counting(r) ==
    \A s \in Roster(r), c \in Component : counted[r][s][c] # Null => Exists(<<s, c>>)

Marking(r) ==
    /\ \A cell \in toWrite[r] : cell[1] \in Roster(r) /\ Exists(cell)
    /\ \A cell \in Cell : buf[r][cell] # Null =>
          /\ cell[1] \in Roster(r)
          /\ Exists(cell)
          /\ buf[r][cell] = [score[cell] EXCEPT !.status = "SUBMITTED"]
    /\ \A s \in Roster(r), c \in Component :
          counted[r][s][c] # Null => <<s, c>> \in toWrite[r] \/ buf[r][<<s, c>>] # Null

SubmitProgress ==
    \A r \in Request : /\ pc[r] \in {"open", "mark"} => Counting(r)
                       /\ pc[r] = "mark" => Marking(r)

IInv ==
    /\ TypeOK
    /\ LockExclusive
    /\ BufferedOnlyWhileWriting
    /\ BulkProgress
    /\ SubmitProgress
    /\ SubmittedHasResult
-----------------------------------------------------------------------------
LEMMA InitIInv == Init => IInv
  BY ScoresAssumption DEF Init, IInv, TypeOK, NoEntries, NoResults, LockExclusive,
     BufferedOnlyWhileWriting, BulkProgress, BulkWriting, SubmitProgress, Counting, Marking, SubmittedHasResult, IsSubmitted,
     Exists

(* Ending a request without committing gives up locks and locals only. *)
LEMMA RollbackIInv ==
  ASSUME IInv, NEW r \in Request, Rollback(r), UNCHANGED <<enrolled, components>>
  PROVE  IInv'
  <1> USE DEF Rollback, Finish, sheet, NoEntries, NoResults
  <1>1. TypeOK'
    BY ScoresAssumption DEF IInv, TypeOK
  <1>2. LockExclusive'
    BY DEF IInv, TypeOK, LockExclusive
  <1>3. BufferedOnlyWhileWriting'
    BY DEF IInv, TypeOK, BufferedOnlyWhileWriting
  <1>4. BulkProgress'
    BY DEF IInv, TypeOK, BulkProgress, BulkWriting, EntryCells, Exists, IsSubmitted
  <1>5. SubmitProgress'
    BY DEF IInv, TypeOK, SubmitProgress, Counting, Marking, Roster, Exists
  <1>6. SubmittedHasResult'
    BY DEF IInv, SubmittedHasResult, IsSubmitted, Exists
  <1> QED BY <1>1, <1>2, <1>3, <1>4, <1>5, <1>6 DEF IInv

(* Steps of the students' and the session's configuration. *)
LEMMA FrameIInv ==
  ASSUME IInv, UNCHANGED <<sheet, pc, local>>,
         enrolled' \in SUBSET Student, components' \in SUBSET Component
  PROVE  IInv'
  BY DEF IInv, TypeOK, LockExclusive, BufferedOnlyWhileWriting, BulkProgress, BulkWriting,
     SubmitProgress, Counting, Marking, SubmittedHasResult, EntryCells, Roster, IsSubmitted, Exists, sheet, local

(* The validation opens no transaction and buffers nothing. *)
LEMMA BulkValidateIInv ==
  ASSUME IInv, NEW r \in Request, BulkValidate(r)
  PROVE  IInv'
  <1> USE DEF BulkValidate, ValidBatch, sheet
  <1>1. TypeOK'
    BY ScoresAssumption DEF IInv, TypeOK, Bulk
  <1>2. LockExclusive' /\ BufferedOnlyWhileWriting'
    BY DEF IInv, TypeOK, LockExclusive, BufferedOnlyWhileWriting
  <1>3. BulkProgress'
    BY DEF IInv, TypeOK, BulkProgress, BulkWriting, EntryCells, Exists, IsSubmitted
  <1>4. SubmitProgress' /\ SubmittedHasResult'
    BY DEF IInv, TypeOK, SubmitProgress, Counting, Marking, SubmittedHasResult, Roster, Exists, IsSubmitted
  <1> QED BY <1>1, <1>2, <1>3, <1>4 DEF IInv

LEMMA BulkFindExistingIInv ==
  ASSUME IInv, NEW r \in Request, BulkFindExisting(r)
  PROVE  IInv'
  <1> USE DEF BulkFindExisting, sheet
  <1>1. TypeOK'
    BY DEF IInv, TypeOK, Bulk, EntryCells
  <1>2. LockExclusive' /\ BufferedOnlyWhileWriting'
    BY DEF IInv, TypeOK, LockExclusive, BufferedOnlyWhileWriting
  <1>3. BulkProgress'
    BY DEF IInv, TypeOK, BulkProgress, BulkWriting, BufferedOnlyWhileWriting, EntryCells, Exists, IsSubmitted
  <1>4. SubmitProgress' /\ SubmittedHasResult'
    BY DEF IInv, TypeOK, SubmitProgress, Counting, Marking, SubmittedHasResult, Roster, Exists, IsSubmitted
  <1> QED BY <1>1, <1>2, <1>3, <1>4 DEF IInv

(* The first write of a cell takes its lock: nobody else has it, and the row *)
(* is the one the request means to write.                                  *)
LEMMA BulkCreateIInv ==
  ASSUME IInv, NEW r \in Request, NEW cell \in Cell, BulkCreate(r, cell)
  PROVE  IInv'
  <1> USE DEF sheet
  <1>1. CASE Exists(cell)
    <2>1. /\ toCreate' = [toCreate EXCEPT ![r] = @ \ {cell}]
          /\ UNCHANGED <<enrolled, components, score, subjectResult, pc, entries, existing, toWrite, buf,
                         counted>>
      BY <1>1 DEF BulkCreate
    <2>2. TypeOK' /\ LockExclusive' /\ BufferedOnlyWhileWriting'
      BY <2>1 DEF IInv, TypeOK, LockExclusive, BufferedOnlyWhileWriting
    <2>3. BulkProgress'
      BY <1>1, <2>1 DEF IInv, TypeOK, BulkProgress, BulkWriting, EntryCells, Exists, IsSubmitted
    <2>4. SubmitProgress' /\ SubmittedHasResult'
      BY <2>1 DEF IInv, TypeOK, SubmitProgress, Counting, Marking, SubmittedHasResult, Roster, Exists, IsSubmitted
    <2> QED BY <2>2, <2>3, <2>4 DEF IInv
  <1>2. CASE ~Exists(cell) /\ cell[2] \in components
    <2>1. /\ pc[r] = "bulkWrite"
          /\ cell \in toCreate[r]
          /\ ~HeldByOther(r, cell)
          /\ toCreate' = [toCreate EXCEPT ![r] = @ \ {cell}]
          /\ buf' = [buf EXCEPT ![r][cell] = [raw |-> entries[r][cell], status |-> "DRAFT"]]
          /\ UNCHANGED <<enrolled, components, score, subjectResult, pc, entries, existing, toWrite,
                         counted>>
      BY <1>2 DEF BulkCreate, Write
    <2>2. entries[r][cell] \in Raw
      BY <2>1 DEF IInv, TypeOK, BulkProgress, BulkWriting, EntryCells
    <2>3. TypeOK'
      BY <2>1, <2>2, ScoresAssumption DEF IInv, TypeOK, Row
    <2>4. LockExclusive' /\ BufferedOnlyWhileWriting'
      BY <2>1 DEF IInv, TypeOK, LockExclusive, BufferedOnlyWhileWriting, HeldByOther
    <2>5. BulkProgress'
      <3> SUFFICES ASSUME NEW q \in Request, pc[q] = "bulkWrite"
                   PROVE  BulkWriting(q)'
        BY <2>1 DEF BulkProgress
      <3>1. BulkWriting(q)
        BY DEF IInv, BulkProgress
      <3>2. CASE q = r
        <4>1. /\ toCreate'[r] = toCreate[r] \ {cell} /\ toWrite'[r] = toWrite[r]
              /\ buf'[r][cell] = [raw |-> entries[r][cell], status |-> "DRAFT"]
              /\ \A other \in Cell \ {cell} : buf'[r][other] = buf[r][other]
          BY <2>1 DEF IInv, TypeOK
        <4>2. buf'[r][cell] # Null
          BY <2>2, <4>1, ScoresAssumption DEF Row
        <4>3. cell \notin toWrite[r]
          BY <1>2, <3>1, <3>2 DEF BulkWriting
        <4> QED
          BY <1>2, <2>1, <3>1, <3>2, <4>1, <4>2, <4>3
          DEF BulkWriting, EntryCells, Exists, IsSubmitted
      <3>3. CASE q # r
        BY <2>1, <3>1, <3>3 DEF IInv, TypeOK, BulkWriting, EntryCells, Exists, IsSubmitted
      <3> QED BY <3>2, <3>3
    <2>6. SubmitProgress' /\ SubmittedHasResult'
      BY <2>1 DEF IInv, TypeOK, SubmitProgress, Counting, Marking, SubmittedHasResult, Roster, Exists, IsSubmitted
    <2> QED BY <2>3, <2>4, <2>5, <2>6 DEF IInv
  <1>3. CASE ~Exists(cell) /\ cell[2] \notin components
    BY <1>3, RollbackIInv DEF BulkCreate
  <1> QED BY <1>1, <1>2, <1>3

LEMMA BulkUpdateIInv ==
  ASSUME IInv, NEW r \in Request, NEW cell \in Cell, BulkUpdate(r, cell)
  PROVE  IInv'
  <1> USE DEF BulkUpdate, Write, sheet
  <1> DEFINE row == [score[cell] EXCEPT !.raw = entries[r][cell]]
  <1>1. /\ entries[r][cell] \in Raw
        /\ Exists(cell) /\ score[cell] \in Row
        /\ score[cell].status = "DRAFT"
    BY DEF IInv, TypeOK, BulkProgress, BulkWriting, EntryCells, StillEditable, IsSubmitted, Exists, Row
  <1>2. row = [raw |-> entries[r][cell], status |-> "DRAFT"] /\ row \in Row /\ row # Null
    BY <1>1, ScoresAssumption DEF Row
  <1>3. buf' = [buf EXCEPT ![r][cell] = row]
    OBVIOUS
  <1> HIDE DEF row
  <1>4. TypeOK'
    BY <1>1, <1>2, <1>3, ScoresAssumption DEF IInv, TypeOK
  <1>5. LockExclusive' /\ BufferedOnlyWhileWriting'
    BY <1>3 DEF IInv, TypeOK, LockExclusive, BufferedOnlyWhileWriting, HeldByOther
  <1>6. BulkProgress'
    BY <1>1, <1>2, <1>3
    DEF IInv, TypeOK, BulkProgress, BulkWriting, EntryCells, Exists, IsSubmitted, StillEditable
  <1>7. SubmitProgress' /\ SubmittedHasResult'
    BY <1>3 DEF IInv, TypeOK, SubmitProgress, Counting, Marking, SubmittedHasResult, Roster, Exists, IsSubmitted
  <1> QED BY <1>4, <1>5, <1>6, <1>7 DEF IInv

(* Only its holder commits a cell, so the versions others prepared stay      *)
(* versions of committed rows.                                             *)
LEMMA BulkCommitIInv ==
  ASSUME IInv, NEW r \in Request, BulkCommit(r)
  PROVE  IInv'
  <1> USE DEF BulkCommit, Commit, Finish, NoEntries, NoResults
  <1>1. \A cell \in Cell : score'[cell] = IF buf[r][cell] # Null THEN buf[r][cell] ELSE score[cell]
    OBVIOUS
  <1>2. TypeOK'
    BY ScoresAssumption DEF IInv, TypeOK
  <1>3. LockExclusive' /\ BufferedOnlyWhileWriting'
    BY DEF IInv, TypeOK, LockExclusive, BufferedOnlyWhileWriting
  <1>4. \A cell \in Cell : Exists(cell) => score'[cell] # Null
    BY <1>1 DEF Exists
  <1>5. \A cell \in Cell : score'[cell] # Null /\ score'[cell].status = "SUBMITTED" => IsSubmitted(cell)
    <2> TAKE cell \in Cell
    <2>1. CASE buf[r][cell] # Null
      <3>1. buf[r][cell] = [raw |-> entries[r][cell], status |-> "DRAFT"]
        BY <2>1 DEF IInv, BulkProgress, BulkWriting
      <3> QED BY <1>1, <2>1, <3>1
    <2>2. CASE buf[r][cell] = Null
      BY <1>1, <2>2 DEF IsSubmitted, Exists
    <2> QED BY <2>1, <2>2
  <1>6. BulkProgress'
    <2> SUFFICES ASSUME NEW q \in Request \ {r}, pc[q] = "bulkWrite"
                 PROVE  BulkWriting(q)'
      BY DEF IInv, TypeOK, BulkProgress
    <2>1. BulkWriting(q)
      BY DEF IInv, BulkProgress
    <2>2. /\ entries'[q] = entries[q] /\ existing'[q] = existing[q] /\ toCreate'[q] = toCreate[q]
          /\ toWrite'[q] = toWrite[q] /\ buf'[q] = buf[q]
      BY DEF IInv, TypeOK
    <2> QED
      BY <1>4, <1>5, <2>1, <2>2 DEF BulkWriting, EntryCells, Exists, IsSubmitted
  <1>7. \A q \in Request \ {r}, cell \in Cell : buf[q][cell] # Null => score'[cell] = score[cell]
    BY <1>1 DEF IInv, LockExclusive
  <1>8. SubmitProgress'
    BY <1>4, <1>7 DEF IInv, TypeOK, SubmitProgress, Counting, Marking, Roster, Exists, Cell
  <1>9. SubmittedHasResult'
    BY <1>5 DEF IInv, SubmittedHasResult, IsSubmitted, Exists
  <1> QED BY <1>2, <1>3, <1>6, <1>8, <1>9 DEF IInv

LEMMA SubmitReadIInv ==
  ASSUME IInv, NEW r \in Request, SubmitRead(r)
  PROVE  IInv'
  <1> USE DEF SubmitRead, sheet
  <1>1. \A s \in enrolled : MarksOf(s) \in Marks
    BY DEF IInv, TypeOK, MarksOf, Marks, SheetComplete, Exists, Row, Cell
  <1>2. TypeOK'
    BY <1>1 DEF IInv, TypeOK, Submit
  <1>3. LockExclusive' /\ BufferedOnlyWhileWriting'
    BY DEF IInv, TypeOK, LockExclusive, BufferedOnlyWhileWriting
  <1>4. BulkProgress' /\ SubmittedHasResult'
    BY DEF IInv, TypeOK, BulkProgress, BulkWriting, SubmittedHasResult, EntryCells, Exists, IsSubmitted
  <1>5. SubmitProgress'
    BY DEF IInv, TypeOK, SubmitProgress, Counting, Marking, SheetComplete, MarksOf, Roster, Exists
  <1> QED BY <1>2, <1>3, <1>4, <1>5 DEF IInv

LEMMA SubmitOpenIInv ==
  ASSUME IInv, NEW r \in Request, SubmitOpen(r)
  PROVE  IInv'
  <1> USE DEF SubmitOpen, sheet
  <1>1. TypeOK'
    BY DEF IInv, TypeOK, Submit
  <1>2. LockExclusive' /\ BufferedOnlyWhileWriting'
    BY DEF IInv, TypeOK, LockExclusive, BufferedOnlyWhileWriting
  <1>3. BulkProgress' /\ SubmittedHasResult'
    BY DEF IInv, TypeOK, BulkProgress, BulkWriting, SubmittedHasResult, EntryCells, Exists, IsSubmitted
  <1>4. SubmitProgress'
    BY DEF IInv, TypeOK, SubmitProgress, Counting, Marking, BufferedOnlyWhileWriting, Roster, Exists, Cell
  <1> QED BY <1>1, <1>2, <1>3, <1>4 DEF IInv

LEMMA SubmitMarkIInv ==
  ASSUME IInv, NEW r \in Request, NEW cell \in Cell, SubmitMark(r, cell)
  PROVE  IInv'
  <1> DEFINE row == [score[cell] EXCEPT !.status = "SUBMITTED"]
  <1>0. /\ pc[r] = "mark" /\ cell \in toWrite[r] /\ ~HeldByOther(r, cell)
        /\ toWrite' = [toWrite EXCEPT ![r] = @ \ {cell}]
        /\ UNCHANGED <<enrolled, components, score, subjectResult, pc, entries, existing, toCreate, counted>>
    BY DEF SubmitMark, sheet
  <1>1. cell[1] \in Roster(r) /\ Exists(cell) /\ score[cell] \in Row
    BY <1>0 DEF IInv, TypeOK, SubmitProgress, Counting, Marking, Exists
  <1>2. row \in Row /\ row # Null /\ row.raw = score[cell].raw
    BY <1>1, ScoresAssumption DEF Row
  <1>3. buf' = [buf EXCEPT ![r][cell] = row]
    BY DEF SubmitMark, Write
  <1> HIDE DEF row
  <1>4. TypeOK'
    <2>1. row.raw <= MaxScore[cell[2]]
      BY <1>1, <1>2 DEF IInv, TypeOK, Exists
    <2>2. buf' \in [Request -> [Cell -> Row \cup {Null}]]
      BY <1>0, <1>2, <1>3 DEF IInv, TypeOK
    <2>3. \A q \in Request, other \in Cell :
             buf'[q][other] # Null => buf'[q][other].raw <= MaxScore[other[2]]
      BY <1>0, <1>3, <2>1 DEF IInv, TypeOK
    <2> QED BY <1>0, <2>2, <2>3 DEF IInv, TypeOK
  <1>5. LockExclusive' /\ BufferedOnlyWhileWriting'
    BY <1>0, <1>3 DEF IInv, TypeOK, LockExclusive, BufferedOnlyWhileWriting, HeldByOther
  <1>6. BulkProgress' /\ SubmittedHasResult'
    BY <1>0, <1>3 DEF IInv, TypeOK, BulkProgress, BulkWriting, SubmittedHasResult, EntryCells, Exists, IsSubmitted
  <1>7. SubmitProgress'
    <2> SUFFICES ASSUME NEW q \in Request
                 PROVE  /\ pc[q] \in {"open", "mark"} => Counting(q)'
                        /\ pc[q] = "mark" => Marking(q)'
      BY <1>0 DEF SubmitProgress
    <2>1. /\ pc[q] \in {"open", "mark"} => Counting(q)
          /\ pc[q] = "mark" => Marking(q)
      BY DEF IInv, SubmitProgress
    <2>2. pc[q] \in {"open", "mark"} => Counting(q)'
      BY <1>0, <2>1 DEF Counting, Roster, Exists
    <2>3. CASE q = r
      <3>1. /\ toWrite'[r] = toWrite[r] \ {cell}
            /\ buf'[r][cell] = row
            /\ \A other \in Cell \ {cell} : buf'[r][other] = buf[r][other]
        BY <1>0, <1>3 DEF IInv, TypeOK
      <3>2. Marking(r)'
        BY <1>0, <1>1, <1>2, <2>1, <2>3, <3>1 DEF Marking, Roster, Exists, Cell, row
      <3> QED BY <2>2, <2>3, <3>2
    <2>4. CASE q # r
      BY <1>0, <1>3, <2>1, <2>2, <2>4 DEF IInv, TypeOK, Marking, Roster, Exists
    <2> QED BY <2>3, <2>4
  <1> QED BY <1>4, <1>5, <1>6, <1>7 DEF IInv

LEMMA SubmitCommitIInv ==
  ASSUME IInv, NEW r \in Request, SubmitCommit(r)
  PROVE  IInv'
  <1> USE DEF SubmitCommit, Commit, Finish, NoEntries, NoResults
  <1>1. \A cell \in Cell : score'[cell] = IF buf[r][cell] # Null THEN buf[r][cell] ELSE score[cell]
    OBVIOUS
  <1>2. TypeOK'
    BY ScoresAssumption DEF IInv, TypeOK, UpsertedResults
  <1>3. LockExclusive' /\ BufferedOnlyWhileWriting'
    BY DEF IInv, TypeOK, LockExclusive, BufferedOnlyWhileWriting
  <1>4. \A cell \in Cell : Exists(cell) => score'[cell] # Null
    BY <1>1 DEF Exists
  <1>5. \A q \in Request \ {r}, cell \in Cell : buf[q][cell] # Null => score'[cell] = score[cell]
    BY <1>1 DEF IInv, LockExclusive
  <1>6. BulkProgress'
    BY <1>4, <1>5 DEF IInv, TypeOK, BulkProgress, BulkWriting, EntryCells, IsSubmitted, Exists
  <1>7. SubmitProgress'
    BY <1>4, <1>5 DEF IInv, TypeOK, SubmitProgress, Counting, Marking, Roster, Exists, Cell
  <1>8. SubmittedHasResult'
    <2> SUFFICES ASSUME NEW cell \in Cell, IsSubmitted(cell)'
                 PROVE  subjectResult'[cell[1]] # Null
      BY DEF SubmittedHasResult
    <2>0. cell[1] \in Student
      BY DEF Cell
    <2>1. CASE buf[r][cell] # Null
      BY <2>0, <2>1 DEF IInv, SubmitProgress, Counting, Marking, UpsertedResults, Roster
    <2>2. CASE buf[r][cell] = Null
      BY <1>1, <2>0, <2>2
      DEF IInv, SubmittedHasResult, UpsertedResults, Roster, IsSubmitted, Exists
    <2> QED BY <2>1, <2>2
  <1> QED BY <1>2, <1>3, <1>6, <1>7, <1>8 DEF IInv

LEMMA NextIInv == IInv /\ [Next]_vars => IInv'
  <1> SUFFICES ASSUME IInv, [Next]_vars PROVE IInv'
    OBVIOUS
  <1>1. ASSUME NEW r \in Request, BulkValidate(r) PROVE IInv'
    BY <1>1, BulkValidateIInv
  <1>2. ASSUME NEW r \in Request, SubmitRead(r) PROVE IInv'
    BY <1>2, SubmitReadIInv
  <1>3. ASSUME NEW r \in Request, Step(r) PROVE IInv'
    <2>1. CASE BulkCheck(r)
      <3>1. CASE AlreadySubmitted(r)
        BY <2>1, <3>1, RollbackIInv DEF BulkCheck
      <3>2. CASE ~AlreadySubmitted(r)
        <4>1. pc[r] = "check" /\ pc' = [pc EXCEPT ![r] = "existing"]
          BY <2>1, <3>2 DEF BulkCheck
        <4>2. UNCHANGED <<enrolled, components, score, subjectResult, entries, existing, toCreate,
                          toWrite, buf, counted>>
          BY <2>1, <3>2 DEF BulkCheck, sheet, local
        <4>3. TypeOK'
          BY <4>1, <4>2 DEF IInv, TypeOK, Bulk
        <4>4. LockExclusive' /\ BufferedOnlyWhileWriting' /\ SubmittedHasResult'
          BY <4>1, <4>2 DEF IInv, TypeOK, LockExclusive, BufferedOnlyWhileWriting,
             SubmittedHasResult, IsSubmitted, Exists
        <4>5. BulkProgress'
          BY <4>1, <4>2 DEF IInv, TypeOK, BulkProgress, BulkWriting, EntryCells, Exists, IsSubmitted
        <4>6. SubmitProgress'
          BY <4>1, <4>2 DEF IInv, TypeOK, SubmitProgress, Counting, Marking, Roster, Exists
        <4> QED BY <4>3, <4>4, <4>5, <4>6 DEF IInv
      <3> QED BY <3>1, <3>2
    <2>2. CASE BulkFindExisting(r)
      BY <2>2, BulkFindExistingIInv
    <2>3. ASSUME NEW cell \in Cell,
                 BulkCreate(r, cell) \/ BulkUpdate(r, cell) \/ BulkRefuse(r, cell)
          PROVE  IInv'
      BY <2>3, BulkCreateIInv, BulkUpdateIInv, RollbackIInv DEF BulkRefuse
    <2>4. CASE BulkCommit(r)
      BY <2>4, BulkCommitIInv
    <2>5. CASE SubmitOpen(r)
      BY <2>5, SubmitOpenIInv
    <2>6. ASSUME NEW cell \in Cell, SubmitMark(r, cell) PROVE IInv'
      BY <2>6, SubmitMarkIInv
    <2>7. CASE SubmitCommit(r)
      BY <2>7, SubmitCommitIInv
    <2> QED BY <1>3, <2>1, <2>2, <2>3, <2>4, <2>5, <2>6, <2>7 DEF Step
  <1>4. ASSUME NEW r \in Request, Abort(r) \/ DeadlockVictim(r) PROVE IInv'
    BY <1>4, RollbackIInv DEF Abort, DeadlockVictim
  <1>5. ASSUME NEW s \in Mover, Enroll(s) \/ Leave(s) PROVE IInv'
    <2>1. enrolled' \in SUBSET Student /\ components' \in SUBSET Component
      BY <1>5, ScoresAssumption DEF Enroll, Leave, IInv, TypeOK
    <2> QED BY <1>5, <2>1, FrameIInv DEF Enroll, Leave
  <1>6. ASSUME NEW c \in Component, AddComponent(c) \/ RemoveComponent(c) PROVE IInv'
    <2>1. enrolled' \in SUBSET Student /\ components' \in SUBSET Component
      BY <1>6 DEF AddComponent, RemoveComponent, IInv, TypeOK
    <2> QED BY <1>6, <2>1, FrameIInv DEF AddComponent, RemoveComponent
  <1>7. CASE UNCHANGED vars
    <2>1. enrolled' \in SUBSET Student /\ components' \in SUBSET Component
      BY <1>7 DEF vars, IInv, TypeOK
    <2> QED BY <1>7, <2>1, FrameIInv DEF vars
  <1> QED BY <1>1, <1>2, <1>3, <1>4, <1>5, <1>6, <1>7 DEF Next

LEMMA Invariance == Spec => []IInv
  BY InitIInv, NextIInv, PTL DEF Spec

(* Every state is well typed and no mark, stored or pending, is above the    *)
(* maximum of its component.                                               *)
THEOREM TypeCorrect == Spec => []TypeOK
  <1>1. IInv => TypeOK
    BY DEF IInv
  <1> QED BY <1>1, Invariance, PTL

(* A student with a submitted score has a SubjectResult: the one transaction *)
(* of submitScores writes both or neither.                                 *)
THEOREM SubmittedScoresHaveResults == Spec => []SubmittedHasResult
  <1>1. IInv => SubmittedHasResult
    BY DEF IInv
  <1> QED BY <1>1, Invariance, PTL

-----------------------------------------------------------------------------
(* What the steps may do *)

LEMMA CommitOverlay ==
  ASSUME NEW r \in Request, Commit(r)
  PROVE  \A cell \in Cell :
            score'[cell] = IF buf[r][cell] # Null THEN buf[r][cell] ELSE score[cell]
  BY DEF Commit

(* Only a commit changes the sheet. *)
LEMMA ScoreFrame ==
  ASSUME [Next]_vars, score' # score
  PROVE  \E r \in Request : BulkCommit(r) \/ SubmitCommit(r)
  BY DEF Next, vars, sheet, local, Step, BulkValidate, BulkCheck, BulkFindExisting, BulkCreate,
     BulkUpdate, BulkRefuse, SubmitRead, SubmitOpen, SubmitMark, Abort, DeadlockVictim, Rollback,
     Enroll, Leave, AddComponent, RemoveComponent

LEMMA FrozenStep ==
  ASSUME IInv, [Next]_vars
  PROVE  [\A cell \in Cell : IsSubmitted(cell) => score'[cell] = score[cell]]_vars
  <1> SUFFICES ASSUME score' # score, NEW cell \in Cell, IsSubmitted(cell)
               PROVE  score'[cell] = score[cell]
    OBVIOUS
  <1>1. PICK r \in Request : BulkCommit(r) \/ SubmitCommit(r)
    BY ScoreFrame
  <1>2. Commit(r)
    BY <1>1 DEF BulkCommit, SubmitCommit
  <1>3. CASE buf[r][cell] = Null
    BY <1>2, <1>3, CommitOverlay
  <1>4. CASE buf[r][cell] # Null
    <2>1. CASE BulkCommit(r)
      BY <1>4, <2>1 DEF BulkCommit, IInv, BulkProgress, BulkWriting
    <2>2. CASE SubmitCommit(r)
      <3>1. buf[r][cell] = [score[cell] EXCEPT !.status = "SUBMITTED"]
        BY <1>4, <2>2 DEF SubmitCommit, IInv, SubmitProgress, Marking
      <3>2. score[cell] \in Row /\ score[cell].status = "SUBMITTED"
        BY DEF IInv, TypeOK, IsSubmitted, Exists
      <3>3. buf[r][cell] = score[cell]
        BY <3>1, <3>2 DEF Row
      <3> QED BY <1>2, <1>4, <3>3, CommitOverlay
    <2> QED BY <1>1, <2>1, <2>2
  <1> QED BY <1>3, <1>4

(* A submitted score is never edited nor reopened, however requests race.    *)
THEOREM SubmittedScoresFrozen == Spec => SubmittedIsFrozen
  BY Invariance, FrozenStep, PTL DEF Spec, SubmittedIsFrozen

LEMMA AcknowledgedStep ==
  ASSUME IInv, NEW r \in Request, BulkCommit(r), NEW cell \in EntryCells(r)
  PROVE  \/ score'[cell] = [raw |-> entries[r][cell], status |-> "DRAFT"]
         \/ cell \notin existing[r] /\ Exists(cell)
  <1>1. cell \in Cell /\ cell \notin toCreate[r] \cup toWrite[r]
    BY DEF BulkCommit, EntryCells
  <1>2. BulkWriting(r)
    BY DEF BulkCommit, IInv, BulkProgress
  <1>3. Commit(r)
    BY DEF BulkCommit
  <1>4. CASE buf[r][cell] # Null
    BY <1>1, <1>2, <1>3, <1>4, CommitOverlay DEF BulkWriting
  <1>5. CASE buf[r][cell] = Null
    BY <1>1, <1>2, <1>5 DEF BulkWriting
  <1> QED BY <1>4, <1>5

(* A batch answered with success was applied, but for cells another request  *)
(* created first.                                                          *)
THEOREM AcknowledgedBatches == Spec => AcknowledgedBatchApplied
  <1>1. IInv /\ [Next]_vars =>
           [\A r \in Request : BulkCommit(r) =>
               \A cell \in EntryCells(r) :
                  \/ score'[cell] = [raw |-> entries[r][cell], status |-> "DRAFT"]
                  \/ cell \notin existing[r] /\ Exists(cell)]_vars
    BY AcknowledgedStep
  <1> QED BY <1>1, Invariance, PTL DEF Spec, AcknowledgedBatchApplied

LEMMA SubmitCommitMarks ==
  ASSUME IInv, NEW r \in Request, SubmitCommit(r),
         NEW s \in Roster(r), NEW c \in Component, counted[r][s][c] # Null
  PROVE  IsSubmitted(<<s, c>>)'
  <1>1. <<s, c>> \in Cell /\ Marking(r) /\ toWrite[r] = {} /\ Commit(r)
    BY DEF SubmitCommit, IInv, SubmitProgress, Roster, Cell
  <1>2. /\ buf[r][<<s, c>>] # Null
        /\ buf[r][<<s, c>>] = [score[<<s, c>>] EXCEPT !.status = "SUBMITTED"]
        /\ score[<<s, c>>] \in Row
    BY <1>1 DEF Marking, IInv, TypeOK, Exists
  <1>3. score'[<<s, c>>] = buf[r][<<s, c>>]
    BY <1>1, <1>2, CommitOverlay
  <1> QED BY <1>2, <1>3 DEF IsSubmitted, Exists, Row

(* A submission marks every score it counted, edited meanwhile or not.       *)
THEOREM SubmissionMarksAll == Spec => SubmitMarksAllItCounted
  <1>1. IInv /\ [Next]_vars =>
           [\A r \in Request : SubmitCommit(r) =>
               \A s \in Roster(r), c \in Component :
                  counted[r][s][c] # Null => IsSubmitted(<<s, c>>)']_vars
    BY SubmitCommitMarks
  <1> QED BY <1>1, Invariance, PTL DEF Spec, SubmitMarksAllItCounted

=============================================================================
