------------------------------- MODULE Scores -------------------------------
(***************************************************************************)
(* The score sheet of one class-subject assignment in one term             *)
(* (src/modules/scores/scores.service.ts).                                 *)
(*                                                                         *)
(* A request is an Express handler running bulkUpsertScores or             *)
(* submitScores.  One action is one SQL statement (or a run of reads that  *)
(* nothing can tell apart): between two statements every other request may *)
(* run.  PostgreSQL works at READ COMMITTED: a statement sees the rows     *)
(* committed when it starts, a write waits for the transaction holding the *)
(* row (or the unique key) and then re-evaluates its WHERE on the newest   *)
(* committed version.  buf holds what a transaction wrote and has not      *)
(* committed; holding a cell in buf is holding its row lock.               *)
(***************************************************************************)
EXTENDS Naturals, FiniteSets, FiniteSetsExt

CONSTANTS
    Student,    \* students who may be enrolled in the class
    Mover,      \* those of them who join or leave it while the sheet is open
    Component,  \* assessment components the session may be configured with
    Raw,        \* marks a client may send
    MaxScore,   \* AssessmentComponent.maxScore
    Request,    \* concurrent requests on this sheet
    Null        \* no row, no entry, no subject result

Cell == Student \X Component
Row  == [raw : Raw, status : {"DRAFT", "SUBMITTED"}]

(* What a SubjectResult was computed from: a mark per counted component.    *)
Marks == [Component -> Raw \cup {Null}]

ASSUME ScoresAssumption ==
    /\ Mover \subseteq Student
    /\ Raw \subseteq Nat
    /\ MaxScore \in [Component -> Nat]
    /\ Null \notin Row \cup Raw \cup Marks

VARIABLES
    enrolled,       \* students with an ACTIVE enrolment in the class
    components,     \* components configured for the session
    score,          \* Score rows, committed
    subjectResult,  \* SubjectResult rows: the marks whose sum is totalScore
    pc,             \* what each request does next
    entries,        \* the batch of a bulk request
    existing,       \* cells of it that its findMany saw
    toCreate,       \* cells its createMany has still to insert
    toWrite,        \* cells its updateMany has still to write
    buf,            \* rows written in its open transaction
    counted         \* marks a submission read, per student of its roster

sheet == <<score, subjectResult>>
local == <<entries, existing, toCreate, toWrite, buf, counted>>
vars  == <<enrolled, components, sheet, pc, local>>

Bulk   == {"check", "existing", "bulkWrite"}
Submit == {"open", "mark"}

(* Types; and no mark, pending or stored, is above its component's maximum  *)
(* (the check before the transaction, scores.service.ts:55-59).            *)
TypeOK ==
    /\ enrolled \in SUBSET Student
    /\ components \in SUBSET Component
    /\ score \in [Cell -> Row \cup {Null}]
    /\ subjectResult \in [Student -> Marks \cup {Null}]
    /\ pc \in [Request -> {"idle"} \cup Bulk \cup Submit]
    /\ entries \in [Request -> [Cell -> Raw \cup {Null}]]
    /\ existing \in [Request -> SUBSET Cell]
    /\ toCreate \in [Request -> SUBSET Cell]
    /\ toWrite \in [Request -> SUBSET Cell]
    /\ buf \in [Request -> [Cell -> Row \cup {Null}]]
    /\ counted \in [Request -> [Student -> Marks \cup {Null}]]
    /\ \A cell \in Cell :
          /\ score[cell] # Null => score[cell].raw <= MaxScore[cell[2]]
          /\ \A r \in Request :
                /\ entries[r][cell] # Null => entries[r][cell] <= MaxScore[cell[2]]
                /\ buf[r][cell] # Null => buf[r][cell].raw <= MaxScore[cell[2]]

NoEntries == [cell \in Cell |-> Null]
NoResults == [s \in Student |-> Null]

Init ==
    /\ enrolled \in {(Student \ Mover) \cup joined : joined \in SUBSET Mover}
    /\ components \in SUBSET Component
    /\ score = NoEntries
    /\ subjectResult = NoResults
    /\ pc = [r \in Request |-> "idle"]
    /\ entries = [r \in Request |-> NoEntries]
    /\ existing = [r \in Request |-> {}]
    /\ toCreate = [r \in Request |-> {}]
    /\ toWrite = [r \in Request |-> {}]
    /\ buf = [r \in Request |-> NoEntries]
    /\ counted = [r \in Request |-> NoResults]

-----------------------------------------------------------------------------
(* Rows, locks and the end of a transaction *)

Exists(cell)    == score[cell] # Null
IsSubmitted(cell) == Exists(cell) /\ score[cell].status = "SUBMITTED"

HeldByOther(r, cell) == \E q \in Request \ {r} : buf[q][cell] # Null

Write(r, cell, row) == buf' = [buf EXCEPT ![r][cell] = row]

(* The request is answered: its locals die and, when it was in a            *)
(* transaction, its uncommitted rows and locks go.                          *)
Finish(r) ==
    /\ pc' = [pc EXCEPT ![r] = "idle"]
    /\ entries' = [entries EXCEPT ![r] = NoEntries]
    /\ existing' = [existing EXCEPT ![r] = {}]
    /\ toCreate' = [toCreate EXCEPT ![r] = {}]
    /\ toWrite' = [toWrite EXCEPT ![r] = {}]
    /\ buf' = [buf EXCEPT ![r] = NoEntries]
    /\ counted' = [counted EXCEPT ![r] = NoResults]

Commit(r) ==
    /\ score' = [cell \in Cell |-> IF buf[r][cell] # Null THEN buf[r][cell] ELSE score[cell]]
    /\ Finish(r)

Rollback(r) == Finish(r) /\ UNCHANGED sheet

-----------------------------------------------------------------------------
(* bulkUpsertScores *)

EntryCells(r)      == {cell \in Cell : entries[r][cell] # Null}
EntryStudents(r)   == {cell[1] : cell \in EntryCells(r)}
EntryComponents(r) == {cell[2] : cell \in EntryCells(r)}

ValidBatchWithoutMaximum(e) ==
    LET cells == {cell \in Cell : e[cell] # Null}
    IN  cells # {} /\ \A cell \in cells : cell[1] \in enrolled /\ cell[2] \in components

(* The validation before the transaction.  A batch that fails it gets a 400 *)
(* and leaves nothing behind.                                               *)
ValidBatch(e) ==
    LET cells == {cell \in Cell : e[cell] # Null}
    IN  /\ cells # {}
        /\ \A cell \in cells : /\ cell[1] \in enrolled
                               /\ cell[2] \in components
                               /\ e[cell] <= MaxScore[cell[2]]

BulkValidate(r) ==
    /\ pc[r] = "idle"
    /\ \E e \in [Cell -> Raw \cup {Null}] :
          /\ ValidBatch(e)
          /\ entries' = [entries EXCEPT ![r] = e]
    /\ pc' = [pc EXCEPT ![r] = "check"]
    /\ UNCHANGED <<enrolled, components, sheet, existing, toCreate, toWrite, buf, counted>>

(* findFirst over the product of the batch's students and components. *)
AlreadySubmitted(r) ==
    \E s \in EntryStudents(r), c \in EntryComponents(r) : IsSubmitted(<<s, c>>)

BulkCheck(r) ==
    /\ pc[r] = "check"
    /\ \/ /\ AlreadySubmitted(r)            \* 409
          /\ Rollback(r)
       \/ /\ ~AlreadySubmitted(r)
          /\ pc' = [pc EXCEPT ![r] = "existing"]
          /\ UNCHANGED <<sheet, local>>
    /\ UNCHANGED <<enrolled, components>>

BulkFindExisting(r) ==
    /\ pc[r] = "existing"
    /\ pc' = [pc EXCEPT ![r] = "bulkWrite"]
    /\ existing' = [existing EXCEPT ![r] = {cell \in EntryCells(r) : Exists(cell)}]
    /\ toCreate' = [toCreate EXCEPT ![r] = EntryCells(r) \ existing'[r]]
    /\ toWrite' = [toWrite EXCEPT ![r] = existing'[r]]
    /\ UNCHANGED <<enrolled, components, sheet, entries, buf, counted>>

(* createMany skipDuplicates: INSERT .. ON CONFLICT DO NOTHING waits for an *)
(* uncommitted insert of the same key and drops its row if that commits.   *)
(* The foreign key on the component fails the transaction.                 *)
BulkCreate(r, cell) ==
    /\ pc[r] = "bulkWrite"
    /\ cell \in toCreate[r]
    /\ \/ /\ Exists(cell)
          /\ toCreate' = [toCreate EXCEPT ![r] = @ \ {cell}]
          /\ UNCHANGED <<sheet, pc, entries, existing, toWrite, buf, counted>>
       \/ /\ ~Exists(cell)
          /\ ~HeldByOther(r, cell)
          /\ cell[2] \in components
          /\ toCreate' = [toCreate EXCEPT ![r] = @ \ {cell}]
          /\ Write(r, cell, [raw |-> entries[r][cell], status |-> "DRAFT"])
          /\ UNCHANGED <<sheet, pc, entries, existing, toWrite, counted>>
       \/ /\ ~Exists(cell)
          /\ cell[2] \notin components      \* P2003, 500
          /\ Rollback(r)
    /\ UNCHANGED <<enrolled, components>>

EditableWithoutRecheck(cell) == Exists(cell)

(* updateMany .. WHERE status <> 'SUBMITTED': the WHERE is evaluated again  *)
(* after waiting for the row.                                              *)
StillEditable(cell) == ~IsSubmitted(cell)

BulkUpdate(r, cell) ==
    /\ pc[r] = "bulkWrite"
    /\ toCreate[r] = {}
    /\ cell \in toWrite[r]
    /\ ~HeldByOther(r, cell)
    /\ StillEditable(cell)
    /\ Write(r, cell, [score[cell] EXCEPT !.raw = entries[r][cell]])
    /\ toWrite' = [toWrite EXCEPT ![r] = @ \ {cell}]
    /\ UNCHANGED <<enrolled, components, sheet, pc, entries, existing, toCreate, counted>>

LostRowSkipped(r, cell) ==
    /\ pc[r] = "bulkWrite"
    /\ toCreate[r] = {}
    /\ cell \in toWrite[r]
    /\ ~HeldByOther(r, cell)
    /\ ~StillEditable(cell)
    /\ toWrite' = [toWrite EXCEPT ![r] = @ \ {cell}]
    /\ UNCHANGED <<enrolled, components, sheet, pc, entries, existing, toCreate, buf, counted>>

LostRowRetried(r, cell) ==
    /\ cell \in toWrite[r]
    /\ ~StillEditable(cell)
    /\ UNCHANGED vars

(* count === 0: refuse the whole batch. *)
BulkRefuse(r, cell) ==
    /\ pc[r] = "bulkWrite"
    /\ toCreate[r] = {}
    /\ cell \in toWrite[r]
    /\ ~HeldByOther(r, cell)
    /\ ~StillEditable(cell)
    /\ Rollback(r)
    /\ UNCHANGED <<enrolled, components>>

BulkCommit(r) ==
    /\ pc[r] = "bulkWrite"
    /\ toCreate[r] = {}
    /\ toWrite[r] = {}
    /\ Commit(r)
    /\ UNCHANGED <<enrolled, components, subjectResult>>

-----------------------------------------------------------------------------
(* submitScores *)

(* The reads, all outside the transaction; 400 unless every enrolled        *)
(* student has a row for every component.                                  *)
SheetComplete ==
    /\ components # {}
    /\ enrolled # {}
    /\ \A s \in enrolled, c \in components : Exists(<<s, c>>)

MarksOf(s) == [c \in Component |-> IF c \in components THEN score[<<s, c>>].raw ELSE Null]

SubmitRead(r) ==
    /\ pc[r] = "idle"
    /\ SheetComplete
    /\ pc' = [pc EXCEPT ![r] = "open"]
    /\ counted' = [counted EXCEPT ![r] =
                       [s \in Student |-> IF s \in enrolled THEN MarksOf(s) ELSE Null]]
    /\ UNCHANGED <<enrolled, components, sheet, entries, existing, toCreate, toWrite, buf>>

Roster(r) == {s \in Student : counted[r][s] # Null}

MarkSkippingLockedRows(r) ==
    /\ pc[r] = "open"
    /\ pc' = [pc EXCEPT ![r] = "mark"]
    /\ toWrite' = [toWrite EXCEPT ![r] = {cell \in Cell : /\ cell[1] \in Roster(r)
                                                         /\ Exists(cell)
                                                         /\ ~HeldByOther(r, cell)}]
    /\ UNCHANGED <<enrolled, components, sheet, entries, existing, toCreate, buf, counted>>

(* score.updateMany: its snapshot is the rows committed when it starts. *)
SubmitOpen(r) ==
    /\ pc[r] = "open"
    /\ pc' = [pc EXCEPT ![r] = "mark"]
    /\ toWrite' = [toWrite EXCEPT ![r] = {cell \in Cell : cell[1] \in Roster(r) /\ Exists(cell)}]
    /\ UNCHANGED <<enrolled, components, sheet, entries, existing, toCreate, buf, counted>>

SubmitMark(r, cell) ==
    /\ pc[r] = "mark"
    /\ cell \in toWrite[r]
    /\ ~HeldByOther(r, cell)
    /\ Write(r, cell, [score[cell] EXCEPT !.status = "SUBMITTED"])
    /\ toWrite' = [toWrite EXCEPT ![r] = @ \ {cell}]
    /\ UNCHANGED <<enrolled, components, sheet, pc, entries, existing, toCreate, counted>>

UpdatedResults(r) ==
    [s \in Student |-> IF s \in Roster(r) /\ subjectResult[s] # Null
                      THEN counted[r][s] ELSE subjectResult[s]]

(* The upserts of the batch transaction and its commit. *)
UpsertedResults(r) ==
    [s \in Student |-> IF s \in Roster(r) THEN counted[r][s] ELSE subjectResult[s]]

SubmitCommit(r) ==
    /\ pc[r] = "mark"
    /\ toWrite[r] = {}
    /\ subjectResult' = UpsertedResults(r)
    /\ Commit(r)
    /\ UNCHANGED <<enrolled, components>>

-----------------------------------------------------------------------------
(* The server, the database and the other services *)

(* Connection loss, a process crash or Prisma's transaction time limit.     *)
Abort(r) ==
    /\ pc[r] # "idle"
    /\ Rollback(r)
    /\ UNCHANGED <<enrolled, components>>

Wanted(r) == IF toCreate[r] # {} THEN toCreate[r] ELSE toWrite[r]

Blocked(r) ==
    /\ pc[r] \in {"bulkWrite", "mark"}
    /\ Wanted(r) # {}
    /\ \A cell \in Wanted(r) : HeldByOther(r, cell)

(* PostgreSQL's deadlock detector aborts a member of a set of transactions  *)
(* each waiting for another of the set.                                    *)
DeadlockVictim(r) ==
    /\ \E D \in SUBSET Request :
          /\ r \in D
          /\ \A q \in D : /\ Blocked(q)
                          /\ \E cell \in Wanted(q), p \in D \ {q} : buf[p][cell] # Null
    /\ Rollback(r)
    /\ UNCHANGED <<enrolled, components>>

Enroll(s) ==
    /\ s \notin enrolled
    /\ enrolled' = enrolled \cup {s}
    /\ UNCHANGED <<components, sheet, pc, local>>

Leave(s) ==
    /\ s \in enrolled
    /\ enrolled' = enrolled \ {s}
    /\ UNCHANGED <<components, sheet, pc, local>>

AddComponent(c) ==
    /\ c \notin components
    /\ components' = components \cup {c}
    /\ UNCHANGED <<enrolled, sheet, pc, local>>

(* The count of recorded scores, and the RESTRICT foreign key behind it.    *)
RemoveComponent(c) ==
    /\ c \in components
    /\ \A s \in Student : ~Exists(<<s, c>>) /\ \A r \in Request : buf[r][<<s, c>>] = Null
    /\ components' = components \ {c}
    /\ UNCHANGED <<enrolled, sheet, pc, local>>

Step(r) ==
    \/ BulkCheck(r)
    \/ BulkFindExisting(r)
    \/ \E cell \in Cell : BulkCreate(r, cell) \/ BulkUpdate(r, cell) \/ BulkRefuse(r, cell)
    \/ BulkCommit(r)
    \/ SubmitOpen(r)
    \/ \E cell \in Cell : SubmitMark(r, cell)
    \/ SubmitCommit(r)

Next ==
    \/ \E r \in Request : \/ BulkValidate(r) \/ SubmitRead(r)
                          \/ Step(r) \/ Abort(r) \/ DeadlockVictim(r)
    \/ \E s \in Mover : Enroll(s) \/ Leave(s)
    \/ \E c \in Component : AddComponent(c) \/ RemoveComponent(c)

Spec == Init /\ [][Next]_vars

(* A request in service goes on: Node resumes it when its statement         *)
(* returns, and PostgreSQL queues waiters for a row lock first come first  *)
(* served, so a waiter is not overtaken for ever.  Clients and crashes are *)
(* not fair.                                                               *)
Fairness == \A r \in Request : SF_vars(Step(r)) /\ WF_vars(DeadlockVictim(r))
FairSpec == Spec /\ Fairness

-----------------------------------------------------------------------------
(* Properties *)

(* A submitted mark has a result: a student with a SUBMITTED score has a    *)
(* SubjectResult (one transaction writes both, scores.service.ts:241-282). *)
SubmittedHasResult ==
    \A cell \in Cell : IsSubmitted(cell) => subjectResult[cell[1]] # Null

(* No reopening: whatever edits and submissions race, a SUBMITTED score     *)
(* keeps its mark and its status (scores.service.ts:65-77, 132-152).       *)
SubmittedIsFrozen ==
    [][\A cell \in Cell : IsSubmitted(cell) => score'[cell] = score[cell]]_vars

(* A batch that is acknowledged was applied: each entry stands in the sheet *)
(* unless it lost the creation of a cell new to it; none was dropped       *)
(* because its cell became SUBMITTED before the update reached it          *)
(* (scores.service.ts:126-128, 143-151).                                   *)
AcknowledgedBatchApplied ==
    [][\A r \in Request : BulkCommit(r) =>
          \A cell \in EntryCells(r) :
             \/ score'[cell] = [raw |-> entries[r][cell], status |-> "DRAFT"]
             \/ cell \notin existing[r] /\ Exists(cell)]_vars

(* A submission marks all it counted: once its transaction commits, every   *)
(* score of a student it read, for a component it read, is SUBMITTED, the  *)
(* ones edited meanwhile included (scores.service.ts:241-249).             *)
SubmitMarksAllItCounted ==
    [][\A r \in Request : SubmitCommit(r) =>
          \A s \in Roster(r), c \in Component :
             counted[r][s][c] # Null => IsSubmitted(<<s, c>>)']_vars

(* Every request is answered, row locks and deadlocks notwithstanding.      *)
EveryRequestAnswered ==
    \A r \in Request : pc[r] # "idle" ~> pc[r] = "idle"

TotalScore(marks) ==
    MapThenSumSet(LAMBDA c : marks[c], {c \in Component : marks[c] # Null})

(* What scores.test.ts:248-250 asserts of a submission racing an edit: the  *)
(* sheet and the result computed from it agree.                            *)
ResultAgreesWithSheet ==
    \A s \in Student :
        (subjectResult[s] # Null /\ \A c \in components : IsSubmitted(<<s, c>>))
            => TotalScore(subjectResult[s]) = TotalScore(MarksOf(s))
=============================================================================
