-------------------------- MODULE Attendance_proofs --------------------------
(***************************************************************************)
(* Theorems about Attendance, for any students, codes and number of        *)
(* concurrent requests.  The inductive invariant IInv says what the        *)
(* session's row lock protects, and what a rotation may still rely on when *)
(* it inserts.                                                             *)
(***************************************************************************)
EXTENDS Attendance, FiniteSetTheorems, TLAPS

(* Whoever scans or closes holds the lock of a session that is open.        *)
LockProtects ==
    /\ \A r \in Request : pc[r] \in Scanning \cup Closing => sessionLock = r
    /\ sessionLock # Null => session = "OPEN"

ScanLines  == {[status |-> a, method |-> "QR_SCAN"] : a \in Attended}
AbsentLine == [status |-> "ABSENT", method |-> "MANUAL"]

LEMMA LinesWritten == ScanLines \subseteq Line /\ AbsentLine \in Line /\ Null \notin Line
  BY AttendanceAssumption DEF ScanLines, AbsentLine, Line

(* What an open transaction has written, and that the committed record does *)
(* not have it yet.                                                        *)
Pending(r) ==
    \A s \in Student : buf[r][s] # Null =>
        /\ record[s] = Null
        /\ \/ /\ pc[r] = "answer"
              /\ s = target[r]
              /\ buf[r][s] \in ScanLines
           \/ /\ pc[r] = "close"
              /\ buf[r][s] = AbsentLine

(* A close has seen only lines that are still there, and before it commits  *)
(* it has filled in the rest of its roster.                                *)
ClosingComplete(r) ==
    /\ pc[r] = "fill" => \A s \in seen[r] : record[s] # Null
    /\ pc[r] = "close" => \A s \in roster[r] : record[s] # Null \/ buf[r][s] # Null

(* The code a rotation replaces is one of its student's. *)
Replacing(r) ==
    /\ pc[r] = "code" => presented[r] # Null
    /\ pc[r] \in {"enrolment", "insert"} \cup Rotating => target[r] # Null
    /\ pc[r] \in Rotating /\ current[r] # Null => current[r] \in CodesOf(target[r])
    /\ pc[r] \notin Rotating => current[r] = Null

Progress == \A r \in Request : Pending(r) /\ ClosingComplete(r) /\ Replacing(r)

Used == {k \in Code : qr[k] # Null}

(* No version is above the number of codes ever issued. *)
VersionsCounted == \A k \in Used : qr[k].version <= Cardinality(Used)

IInv ==
    /\ TypeOK
    /\ LockProtects
    /\ Progress
    /\ VersionsCounted
    /\ ActiveCodeIsNewest
-----------------------------------------------------------------------------
LEMMA InitIInv == Init => IInv
  <1> SUFFICES ASSUME Init PROVE IInv
    OBVIOUS
  <1>1. TypeOK
    BY DEF Init, TypeOK, NoLines
  <1>2. LockProtects /\ Progress
    BY AttendanceAssumption DEF Init, LockProtects, Progress, Pending, ClosingComplete, Replacing, NoLines,
       Scanning, Closing, Rotating
  <1>3. VersionsCounted /\ ActiveCodeIsNewest
    BY DEF Init, VersionsCounted, Used, ActiveCodeIsNewest, CodesOf
  <1> QED BY <1>1, <1>2, <1>3 DEF IInv

(* A request that ends without committing gives up its lock and its lines. *)
LEMMA RefuseIInv ==
  ASSUME IInv, NEW r \in Request, Refuse(r)
  PROVE  IInv'
  <1> USE DEF Refuse, Finish, rows
  <1>1. TypeOK'
    BY DEF IInv, TypeOK, NoLines
  <1>2. LockProtects'
    BY AttendanceAssumption DEF IInv, TypeOK, LockProtects, Scanning, Closing
  <1>3. Progress'
    BY AttendanceAssumption DEF IInv, TypeOK, Progress, Pending, ClosingComplete, Replacing, CodesOf, NoLines, Rotating
  <1>4. VersionsCounted' /\ ActiveCodeIsNewest'
    BY DEF IInv, VersionsCounted, Used, ActiveCodeIsNewest, CodesOf, ActiveOf
  <1> QED BY <1>1, <1>2, <1>3, <1>4 DEF IInv

(* Enrolment and corrections: no line comes or goes. *)
LEMMA FrameIInv ==
  ASSUME IInv, UNCHANGED <<session, qr, sessionLock, pc, local>>,
         enrolled' \in SUBSET Student, record' \in [Student -> Line \cup {Null}],
         \A s \in Student : record'[s] = Null <=> record[s] = Null
  PROVE  IInv'
  <1> USE DEF local
  <1>1. TypeOK'
    BY DEF IInv, TypeOK
  <1>2. LockProtects'
    BY DEF IInv, LockProtects
  <1>3. Progress'
    BY DEF IInv, TypeOK, Progress, Pending, ClosingComplete, Replacing, CodesOf
  <1>4. VersionsCounted' /\ ActiveCodeIsNewest'
    BY DEF IInv, VersionsCounted, Used, ActiveCodeIsNewest, CodesOf, ActiveOf
  <1> QED BY <1>1, <1>2, <1>3, <1>4 DEF IInv

LEMMA OpenIInv ==
  ASSUME IInv, Open
  PROVE  IInv'
  <1> USE DEF Open, local
  <1>1. TypeOK' /\ LockProtects'
    BY AttendanceAssumption DEF IInv, TypeOK, LockProtects
  <1>2. Progress'
    BY DEF IInv, Progress, Pending, ClosingComplete, Replacing, CodesOf
  <1>3. VersionsCounted' /\ ActiveCodeIsNewest'
    BY DEF IInv, VersionsCounted, Used, ActiveCodeIsNewest, CodesOf, ActiveOf
  <1> QED BY <1>1, <1>2, <1>3 DEF IInv

LEMMA CorrectIInv ==
  ASSUME IInv, NEW s \in Student, Correct(s)
  PROVE  IInv'
  <1>1. PICK a \in Attended \cup {"ABSENT"} : record' = [record EXCEPT ![s].status = a]
    BY DEF Correct
  <1> DEFINE new == [record[s] EXCEPT !.status = a]
  <1>2. record[s] \in Line /\ record[s] # Null /\ enrolled' \in SUBSET Student
    BY DEF Correct, IInv, TypeOK
  <1>3. new \in Line /\ new # Null
    BY <1>2, AttendanceAssumption DEF Line
  <1>4. record' = [record EXCEPT ![s] = new]
    BY <1>1
  <1> HIDE DEF new
  <1>5. /\ record' \in [Student -> Line \cup {Null}]
        /\ \A t \in Student : record'[t] = Null <=> record[t] = Null
    BY <1>2, <1>3, <1>4 DEF IInv, TypeOK
  <1> QED BY <1>2, <1>5, FrameIInv DEF Correct

-----------------------------------------------------------------------------
(* Steps that read, or take the lock *)

(* The lock is free and the session open. *)
LEMMA ScanLockIInv ==
  ASSUME IInv, NEW r \in Request, NEW k \in Code, ScanLock(r, k)
  PROVE  IInv'
  <1> USE DEF ScanLock, LockSession, LockFree, Goto, rows
  <1>1. TypeOK' /\ LockProtects'
    BY AttendanceAssumption DEF IInv, TypeOK, LockProtects, Scanning, Closing, Rotating
  <1>2. \A q \in Request : Pending(q)'
    BY DEF IInv, TypeOK, Progress, Pending
  <1>3. \A q \in Request : ClosingComplete(q)'
    BY DEF IInv, TypeOK, Progress, ClosingComplete
  <1>4. \A q \in Request : Replacing(q)'
    BY AttendanceAssumption DEF IInv, TypeOK, Progress, Replacing, CodesOf, Rotating
  <1>5. VersionsCounted' /\ ActiveCodeIsNewest'
    BY DEF IInv, VersionsCounted, Used, ActiveCodeIsNewest, CodesOf, ActiveOf
  <1> QED BY <1>1, <1>2, <1>3, <1>4, <1>5 DEF IInv, Progress

(* The lock is free and the session open. *)
LEMMA CloseLockIInv ==
  ASSUME IInv, NEW r \in Request, CloseLock(r)
  PROVE  IInv'
  <1> USE DEF CloseLock, LockSession, LockFree, Goto, rows, local
  <1>1. TypeOK' /\ LockProtects'
    BY AttendanceAssumption DEF IInv, TypeOK, LockProtects, Scanning, Closing, Rotating
  <1>2. \A q \in Request : Pending(q)'
    BY DEF IInv, TypeOK, Progress, Pending
  <1>3. \A q \in Request : ClosingComplete(q)'
    BY DEF IInv, TypeOK, Progress, ClosingComplete
  <1>4. \A q \in Request : Replacing(q)'
    BY AttendanceAssumption DEF IInv, TypeOK, Progress, Replacing, CodesOf, Rotating
  <1>5. VersionsCounted' /\ ActiveCodeIsNewest'
    BY DEF IInv, VersionsCounted, Used, ActiveCodeIsNewest, CodesOf, ActiveOf
  <1> QED BY <1>1, <1>2, <1>3, <1>4, <1>5 DEF IInv, Progress

(* Nothing is written yet. *)
LEMMA CloseRosterIInv ==
  ASSUME IInv, NEW r \in Request, CloseRoster(r)
  PROVE  IInv'
  <1> USE DEF CloseRoster, Goto, rows
  <1>1. TypeOK' /\ LockProtects'
    BY AttendanceAssumption DEF IInv, TypeOK, LockProtects, Scanning, Closing, Rotating
  <1>2. \A q \in Request : Pending(q)'
    BY DEF IInv, TypeOK, Progress, Pending
  <1>3. \A q \in Request : ClosingComplete(q)'
    BY DEF IInv, TypeOK, Progress, ClosingComplete
  <1>4. \A q \in Request : Replacing(q)'
    BY AttendanceAssumption DEF IInv, TypeOK, Progress, Replacing, CodesOf, Rotating
  <1>5. VersionsCounted' /\ ActiveCodeIsNewest'
    BY DEF IInv, VersionsCounted, Used, ActiveCodeIsNewest, CodesOf, ActiveOf
  <1> QED BY <1>1, <1>2, <1>3, <1>4, <1>5 DEF IInv, Progress

(* The lines it sees are committed. *)
LEMMA CloseRecordsIInv ==
  ASSUME IInv, NEW r \in Request, CloseRecords(r)
  PROVE  IInv'
  <1> USE DEF CloseRecords, Goto, rows
  <1>1. TypeOK' /\ LockProtects'
    BY AttendanceAssumption DEF IInv, TypeOK, LockProtects, Scanning, Closing, Rotating
  <1>2. \A q \in Request : Pending(q)'
    BY DEF IInv, TypeOK, Progress, Pending
  <1>3. \A q \in Request : ClosingComplete(q)'
    BY DEF IInv, TypeOK, Progress, ClosingComplete
  <1>4. \A q \in Request : Replacing(q)'
    BY AttendanceAssumption DEF IInv, TypeOK, Progress, Replacing, CodesOf, Rotating
  <1>5. VersionsCounted' /\ ActiveCodeIsNewest'
    BY DEF IInv, VersionsCounted, Used, ActiveCodeIsNewest, CodesOf, ActiveOf
  <1> QED BY <1>1, <1>2, <1>3, <1>4, <1>5 DEF IInv, Progress

(* Its update shows with its insert. *)
LEMMA RotateRevokeIInv ==
  ASSUME IInv, NEW r \in Request, RotateRevoke(r)
  PROVE  IInv'
  <1> USE DEF RotateRevoke, Goto, rows, local
  <1>1. TypeOK' /\ LockProtects'
    BY AttendanceAssumption DEF IInv, TypeOK, LockProtects, Scanning, Closing, Rotating
  <1>2. \A q \in Request : Pending(q)'
    BY DEF IInv, TypeOK, Progress, Pending
  <1>3. \A q \in Request : ClosingComplete(q)'
    BY DEF IInv, TypeOK, Progress, ClosingComplete
  <1>4. \A q \in Request : Replacing(q)'
    BY AttendanceAssumption DEF IInv, TypeOK, Progress, Replacing, CodesOf, Rotating
  <1>5. VersionsCounted' /\ ActiveCodeIsNewest'
    BY DEF IInv, VersionsCounted, Used, ActiveCodeIsNewest, CodesOf, ActiveOf
  <1> QED BY <1>1, <1>2, <1>3, <1>4, <1>5 DEF IInv, Progress

(* The code it will replace is an active one of the student. *)
LEMMA RotateReadIInv ==
  ASSUME IInv, NEW r \in Request, NEW s \in Student, RotateRead(r, s)
  PROVE  IInv'
  <1>1. \E k \in CodesOf(s) \cup {Null}, label \in Rotating :
           /\ pc[r] = "idle" /\ current[r] = Null
           /\ pc' = [pc EXCEPT ![r] = label]
           /\ current' = [current EXCEPT ![r] = k]
           /\ target' = [target EXCEPT ![r] = s]
           /\ UNCHANGED <<enrolled, rows, sessionLock, presented, roster, seen, buf>>
    <2>1. pc[r] = "idle" /\ current[r] = Null
      BY DEF RotateRead, IInv, Progress, Replacing, Rotating
    <2>2. current = [current EXCEPT ![r] = Null]
      BY <2>1 DEF IInv, TypeOK
    <2> QED BY <2>1, <2>2 DEF RotateRead, Goto, ActiveOf, Rotating
  <1>2. PICK k \in CodesOf(s) \cup {Null}, label \in Rotating :
           /\ pc[r] = "idle"
           /\ pc' = [pc EXCEPT ![r] = label]
           /\ current' = [current EXCEPT ![r] = k]
           /\ target' = [target EXCEPT ![r] = s]
           /\ UNCHANGED <<enrolled, session, record, qr, sessionLock, presented, roster, seen, buf>>
    BY <1>1 DEF rows
  <1>3. TypeOK' /\ LockProtects'
    BY <1>2, AttendanceAssumption DEF IInv, TypeOK, LockProtects, Scanning, Closing, Rotating, CodesOf
  <1>4. \A q \in Request : Pending(q)'
    BY <1>2 DEF IInv, TypeOK, Progress, Pending, Rotating
  <1>5. \A q \in Request : ClosingComplete(q)'
    BY <1>2 DEF IInv, TypeOK, Progress, ClosingComplete, Rotating
  <1>6. \A q \in Request : Replacing(q)'
    BY <1>2, AttendanceAssumption DEF IInv, TypeOK, Progress, Replacing, CodesOf, Rotating
  <1>7. VersionsCounted' /\ ActiveCodeIsNewest'
    BY <1>2 DEF IInv, VersionsCounted, Used, ActiveCodeIsNewest, CodesOf, ActiveOf
  <1> QED BY <1>3, <1>4, <1>5, <1>6, <1>7 DEF IInv, Progress

-----------------------------------------------------------------------------
(* scan *)

LEMMA ScanReadsIInv ==
  ASSUME IInv, NEW r \in Request, ScanCode(r) \/ ScanEnrolment(r)
  PROVE  IInv'
  <1>1. CASE Refuse(r)
    BY <1>1, RefuseIInv
  <1>2. ASSUME NEW s \in Student, NEW label \in {"enrolment", "insert"},
               pc[r] \in Scanning, pc[r] \notin {"answer"},
               pc' = [pc EXCEPT ![r] = label],
               target' = [target EXCEPT ![r] = s],
               UNCHANGED <<enrolled, session, record, qr, sessionLock, presented, roster, seen, current, buf>>
        PROVE  IInv'
    <2>1. TypeOK' /\ LockProtects'
      BY <1>2 DEF IInv, TypeOK, LockProtects, Scanning, Closing, Rotating
    <2>2. \A q \in Request : Pending(q)'
      BY <1>2 DEF IInv, TypeOK, Progress, Pending, Scanning
    <2>3. \A q \in Request : ClosingComplete(q)'
      BY <1>2 DEF IInv, TypeOK, Progress, ClosingComplete
    <2>4. \A q \in Request : Replacing(q)'
      BY <1>2, AttendanceAssumption DEF IInv, TypeOK, Progress, Replacing, CodesOf, Rotating, Scanning
    <2>5. VersionsCounted' /\ ActiveCodeIsNewest'
      BY <1>2 DEF IInv, VersionsCounted, Used, ActiveCodeIsNewest, CodesOf, ActiveOf
    <2> QED BY <2>1, <2>2, <2>3, <2>4, <2>5 DEF IInv, Progress
  <1>3. CASE ScanCode(r) /\ ~Refuse(r)
    <2>1. pc[r] = "code" /\ IsActive(presented[r])
      BY <1>3 DEF ScanCode
    <2>2. presented[r] \in Code
      BY <2>1 DEF IInv, TypeOK, Progress, Replacing
    <2>3. qr[presented[r]].student \in Student
      BY <2>1, <2>2 DEF IInv, TypeOK, IsActive, QrCode
    <2> QED BY <1>2, <1>3, <2>1, <2>3 DEF ScanCode, Goto, rows, Scanning
  <1>4. CASE ScanEnrolment(r) /\ ~Refuse(r)
    <2>1. pc[r] = "enrolment" /\ target[r] \in Student
      BY <1>4 DEF ScanEnrolment, IInv, TypeOK, Progress, Replacing
    <2>2. target' = [target EXCEPT ![r] = target[r]]
      BY <1>4 DEF ScanEnrolment, local, IInv, TypeOK
    <2> QED BY <1>2, <1>4, <2>1, <2>2 DEF ScanEnrolment, Goto, rows, local, Scanning
  <1> QED BY <1>1, <1>3, <1>4

(* Nobody else can have written or be writing a line while the lock is held. *)
LEMMA ScanInsertIInv ==
  ASSUME IInv, NEW r \in Request, ScanInsert(r)
  PROVE  IInv'
  <1> DEFINE s == target[r]
  <1>1. /\ pc[r] = "insert" /\ s \in Student
        /\ pc' = [pc EXCEPT ![r] = "answer"]
        /\ UNCHANGED <<enrolled, session, record, qr, sessionLock, presented, target, roster, seen, current>>
    BY DEF ScanInsert, Goto, rows, IInv, TypeOK, Progress, Replacing
  <1>2. \A t \in Student : buf[r][t] = Null
    BY <1>1 DEF IInv, Progress, Pending
  <1>3. \/ UNCHANGED buf
        \/ /\ record[s] = Null
           /\ \E line \in ScanLines : buf' = [buf EXCEPT ![r][s] = line]
    BY DEF ScanInsert, ScanLines
  <1>4. /\ buf' \in [Request -> [Student -> Line \cup {Null}]]
        /\ \A q \in Request \ {r} : buf'[q] = buf[q]
        /\ \A t \in Student : buf'[r][t] # Null =>
              /\ t = s /\ record[s] = Null
              /\ buf'[r][t] \in ScanLines
    BY <1>1, <1>2, <1>3, LinesWritten DEF IInv, TypeOK
  <1>5. TypeOK' /\ LockProtects'
    BY <1>1, <1>4 DEF IInv, TypeOK, LockProtects, Scanning, Closing, Rotating
  <1>6. \A q \in Request : Pending(q)'
    BY <1>1, <1>4 DEF IInv, TypeOK, Progress, Pending
  <1>7. \A q \in Request : ClosingComplete(q)'
    BY <1>1, <1>4 DEF IInv, TypeOK, Progress, ClosingComplete
  <1>8. \A q \in Request : Replacing(q)'
    BY <1>1 DEF IInv, TypeOK, Progress, Replacing, CodesOf, Rotating
  <1>9. VersionsCounted' /\ ActiveCodeIsNewest'
    BY <1>1 DEF IInv, VersionsCounted, Used, ActiveCodeIsNewest, CodesOf, ActiveOf
  <1> QED BY <1>5, <1>6, <1>7, <1>8, <1>9 DEF IInv, Progress

LEMMA CloseFillIInv ==
  ASSUME IInv, NEW r \in Request, CloseFill(r)
  PROVE  IInv'
  <1>1. /\ pc[r] = "fill"
        /\ pc' = [pc EXCEPT ![r] = "close"]
        /\ UNCHANGED <<enrolled, session, record, qr, sessionLock, presented, target, roster, seen, current>>
    BY DEF CloseFill, Goto, rows
  <1>2. AbsentLine \in Line /\ AbsentLine # Null
    BY LinesWritten
  <1>3. /\ \A q \in Request \ {r} : buf'[q] = buf[q]
        /\ \A t \in Student : buf'[r][t] = IF t \in Unscanned(r) /\ record[t] = Null THEN AbsentLine ELSE Null
        /\ buf' \in [Request -> [Student -> Line \cup {Null}]]
    BY <1>2 DEF CloseFill, AbsentLine, IInv, TypeOK
  <1>4. TypeOK' /\ LockProtects'
    BY <1>1, <1>3 DEF IInv, TypeOK, LockProtects, Scanning, Closing, Rotating
  <1>5. \A q \in Request : Pending(q)'
    BY <1>1, <1>3 DEF IInv, TypeOK, Progress, Pending
  <1>6. \A q \in Request : ClosingComplete(q)'
    BY <1>1, <1>2, <1>3 DEF IInv, TypeOK, Progress, ClosingComplete, Unscanned
  <1>7. \A q \in Request : Replacing(q)'
    BY <1>1 DEF IInv, TypeOK, Progress, Replacing, CodesOf, Rotating
  <1>8. VersionsCounted' /\ ActiveCodeIsNewest'
    BY <1>1 DEF IInv, VersionsCounted, Used, ActiveCodeIsNewest, CodesOf, ActiveOf
  <1> QED BY <1>4, <1>5, <1>6, <1>7, <1>8 DEF IInv, Progress

(* Only the holder of the lock commits lines, all to students who have none, *)
(* so what another request prepared or saw still stands.                   *)
LEMMA CommitIInv ==
  ASSUME IInv, NEW r \in Request, pc[r] \in {"answer", "close"},
         record' = Committed(r), Finish(r), UNCHANGED <<enrolled, qr>>,
         session' \in {session, "CLOSED"}
  PROVE  IInv'
  <1>1. /\ pc' = [pc EXCEPT ![r] = "idle"]
        /\ presented' = [presented EXCEPT ![r] = Null]
        /\ target' = [target EXCEPT ![r] = Null]
        /\ roster' = [roster EXCEPT ![r] = {}]
        /\ seen' = [seen EXCEPT ![r] = {}]
        /\ current' = [current EXCEPT ![r] = Null]
        /\ buf' = [buf EXCEPT ![r] = NoLines]
        /\ sessionLock' = Null
        /\ sessionLock = r
        /\ \A s \in Student : record'[s] = IF buf[r][s] # Null THEN buf[r][s] ELSE record[s]
    BY DEF Finish, Committed, IInv, LockProtects, Scanning, Closing
  <1>2. record' \in [Student -> Line \cup {Null}]
    BY DEF Committed, IInv, TypeOK
  <1>3. TypeOK'
    BY <1>1, <1>2 DEF IInv, TypeOK, NoLines
  <1>4. LockProtects'
    BY <1>1, AttendanceAssumption DEF IInv, TypeOK, LockProtects, Scanning, Closing
  <1>5. \A q \in Request \ {r}, s \in Student : buf[q][s] = Null
    BY <1>1, AttendanceAssumption DEF IInv, LockProtects, Progress, Pending, Scanning, Closing
  <1>6. \A q \in Request : Pending(q)'
    BY <1>1, <1>5 DEF IInv, TypeOK, Pending, NoLines
  <1>7. \A q \in Request : ClosingComplete(q)'
    BY <1>1, <1>5 DEF IInv, TypeOK, Progress, ClosingComplete, LockProtects, Closing
  <1>8. \A q \in Request : Replacing(q)'
    BY <1>1 DEF IInv, TypeOK, Progress, Replacing, CodesOf, Rotating
  <1>9. VersionsCounted' /\ ActiveCodeIsNewest'
    BY DEF IInv, VersionsCounted, Used, ActiveCodeIsNewest, CodesOf, ActiveOf
  <1> QED BY <1>3, <1>4, <1>6, <1>7, <1>8, <1>9 DEF IInv, Progress

-----------------------------------------------------------------------------
(* rotateQrCode *)

LEMMA UsedFinite ==
  ASSUME TypeOK
  PROVE  IsFiniteSet(Used) /\ Cardinality(Used) \in Nat /\ Cardinality(Code) \in Nat
  BY AttendanceAssumption, FS_Subset, FS_CardinalityType DEF Used

(* A code that joins the used ones raises what versions are bounded by.     *)
LEMMA OneMoreUsed ==
  ASSUME TypeOK, NEW k \in Unused
  PROVE  /\ Cardinality(Used \cup {k}) = Cardinality(Used) + 1
         /\ Cardinality(Used) + 1 <= Cardinality(Code)
  <1>1. k \notin Used /\ Used \cup {k} \subseteq Code
    BY DEF Used, Unused
  <1>2. Cardinality(Used \cup {k}) = Cardinality(Used) + 1
    BY <1>1, UsedFinite, FS_AddElement
  <1>3. Cardinality(Used \cup {k}) <= Cardinality(Code)
    BY <1>1, AttendanceAssumption, FS_Subset
  <1> QED BY <1>2, <1>3

(* The version a rotation gives is above every other of its student, and    *)
(* not above the number of codes in use.                                   *)
LEMMA NextVersionIsNewest ==
  ASSUME IInv, NEW r \in Request, pc[r] = "create", Insertable(r)
  PROVE  /\ NextVersion(r) \in Nat /\ 1 <= NextVersion(r)
         /\ NextVersion(r) <= Cardinality(Used) + 1
         /\ \A l \in CodesOf(target[r]) : qr[l].version < NextVersion(r)
  <1>1. /\ target[r] \in Student
        /\ current[r] # Null => current[r] \in CodesOf(target[r])
    BY DEF IInv, TypeOK, Progress, Replacing, Rotating
  <1>2. \A l \in Used : qr[l].version \in Nat /\ 1 <= qr[l].version
    BY UsedFinite DEF IInv, TypeOK, Used, QrCode, Version
  <1>3. CodesOf(target[r]) \subseteq Used
    BY DEF CodesOf, Used
  <1>4. CASE current[r] = Null
    <2>1. ActiveOf(target[r]) = {}
      BY <1>4, AttendanceAssumption DEF Insertable, ActiveOf, CodesOf
    <2>2. CodesOf(target[r]) = {}
      BY <1>1, <2>1 DEF IInv, ActiveCodeIsNewest
    <2> QED BY <1>4, <2>2, UsedFinite DEF NextVersion, IInv
  <1>5. CASE current[r] # Null
    <2>1. PICK k \in CodesOf(target[r]) :
             /\ ActiveOf(target[r]) = {k}
             /\ \A l \in CodesOf(target[r]) \ {k} : qr[l].version < qr[k].version
      BY <1>1, <1>5 DEF IInv, ActiveCodeIsNewest
    <2>2. k = current[r]
      BY <2>1 DEF Insertable
    <2>3. qr[k].version <= Cardinality(Used)
      BY <1>3, <2>1 DEF IInv, VersionsCounted
    <2> QED BY <1>2, <1>3, <1>5, <2>1, <2>2, <2>3, UsedFinite DEF NextVersion, IInv
  <1> QED BY <1>4, <1>5

LEMMA RotateCreateIInv ==
  ASSUME IInv, NEW r \in Request, RotateCreate(r)
  PROVE  IInv'
  <1>1. CASE ~Insertable(r)
    BY <1>1, RefuseIInv DEF RotateCreate
  <1>2. CASE Insertable(r)
    <2>0. PICK s \in Student : s = target[r]
      BY <1>2 DEF RotateCreate, IInv, TypeOK, Progress, Replacing, Rotating
    <2> DEFINE c   == current[r]
               new == [student |-> s, version |-> NextVersion(r), isActive |-> TRUE]
               old == [qr[c] EXCEPT !.isActive = FALSE]
    <2>1. pc[r] = "create" /\ (c # Null => c \in CodesOf(s))
      BY <1>2, <2>0 DEF RotateCreate, IInv, TypeOK, Progress, Replacing, Rotating
    <2>2. PICK k \in Unused :
             qr' = [l \in Code |-> IF l = k THEN new ELSE IF l = c THEN old ELSE qr[l]]
      BY <1>2, <2>0 DEF RotateCreate
    <2>3. /\ k \in Code /\ qr[k] = Null /\ k # c
          /\ Cardinality(Used \cup {k}) = Cardinality(Used) + 1
          /\ Cardinality(Used) + 1 <= Cardinality(Code)
      BY <2>1, OneMoreUsed, AttendanceAssumption DEF IInv, Unused, CodesOf
    <2>4. NextVersion(r) \in Version
      BY <1>2, <2>1, <2>3, NextVersionIsNewest, UsedFinite DEF IInv, Version
    <2>5. /\ new \in QrCode /\ new # Null
          /\ new.student = s /\ new.version = NextVersion(r) /\ new.isActive
      <3>1. new \in QrCode
        BY <2>4 DEF QrCode
      <3> QED BY <3>1, AttendanceAssumption
    <2>6. ASSUME c # Null
          PROVE  /\ c \in Code /\ old \in QrCode /\ old # Null /\ ~old.isActive
                 /\ old.student = qr[c].student /\ old.version = qr[c].version
      <3>1. c \in Code /\ qr[c] \in QrCode
        BY <2>1, <2>6 DEF CodesOf, IInv, TypeOK
      <3> QED BY <3>1, AttendanceAssumption DEF QrCode
    <2> HIDE DEF new, old
    <2>7. qr'[k] = new
      BY <2>2, <2>3
    <2>8. \A l \in Code \ {k} :
             /\ qr'[l] \in QrCode \cup {Null}
             /\ qr'[l] = Null <=> qr[l] = Null
             /\ qr[l] # Null => /\ qr'[l].student = qr[l].student
                                /\ qr'[l].version = qr[l].version
                                /\ qr'[l].isActive <=> (qr[l].isActive /\ l # c)
      BY <2>1, <2>2, <2>6, AttendanceAssumption DEF IInv, TypeOK, CodesOf
    <2>9. qr' \in [Code -> QrCode \cup {Null}]
      BY <2>2, <2>5, <2>7, <2>8
    <2>10. /\ pc' = [pc EXCEPT ![r] = "idle"]
           /\ presented' = [presented EXCEPT ![r] = Null]
           /\ target' = [target EXCEPT ![r] = Null]
           /\ roster' = [roster EXCEPT ![r] = {}]
           /\ seen' = [seen EXCEPT ![r] = {}]
           /\ current' = [current EXCEPT ![r] = Null]
           /\ buf' = [buf EXCEPT ![r] = NoLines]
           /\ sessionLock' = IF sessionLock = r THEN Null ELSE sessionLock
           /\ UNCHANGED <<enrolled, session, record>>
      BY <1>2 DEF RotateCreate, Finish
    <2>11. TypeOK' /\ LockProtects'
      BY <2>1, <2>9, <2>10, AttendanceAssumption
      DEF IInv, TypeOK, LockProtects, NoLines, Scanning, Closing
    <2>12. \A q \in Request : Pending(q)' /\ ClosingComplete(q)'
      BY <2>10 DEF IInv, TypeOK, Progress, Pending, ClosingComplete, NoLines
    <2>13. /\ CodesOf(s)' = CodesOf(s) \cup {k}
           /\ \A t \in Student \ {s} : CodesOf(t)' = CodesOf(t)
      BY <2>3, <2>5, <2>7, <2>8 DEF CodesOf
    <2>14. \A q \in Request : Replacing(q)'
      BY <2>10, <2>13, AttendanceAssumption DEF IInv, TypeOK, Progress, Replacing, Rotating
    <2>15. VersionsCounted'
      <3>1. Used' = Used \cup {k}
        BY <2>3, <2>5, <2>7, <2>8 DEF Used
      <3>2. \A l \in Used : qr[l].version <= Cardinality(Used) + 1
        BY UsedFinite DEF IInv, TypeOK, VersionsCounted, Used, QrCode, Version
      <3>3. \A l \in Used' : qr'[l].version <= Cardinality(Used) + 1
        BY <1>2, <2>0, <2>1, <2>3, <2>5, <2>7, <2>8, <3>1, <3>2, NextVersionIsNewest DEF Used
      <3> QED BY <2>3, <3>1, <3>3 DEF VersionsCounted
    <2>16. ActiveCodeIsNewest'
      <3>1. ASSUME NEW t \in Student \ {s}, CodesOf(t)' # {}
            PROVE  ActiveOf(t)' = ActiveOf(t) /\ \A l \in CodesOf(t)' : qr'[l].version = qr[l].version
        <4>1. CodesOf(t)' = CodesOf(t)
          BY <2>13, <3>1
        <4>2. \A l \in CodesOf(t) : l \in Code /\ qr[l] # Null /\ l # k /\ l # c
          BY <2>1, <2>3, <3>1, AttendanceAssumption DEF CodesOf
        <4> QED BY <2>8, <4>1, <4>2 DEF ActiveOf
      <3>2. /\ ActiveOf(s)' = {k}
            /\ qr'[k].version = NextVersion(r)
            /\ \A l \in CodesOf(s) : l # k /\ qr'[l].version = qr[l].version
        BY <1>2, <2>0, <2>3, <2>5, <2>7, <2>8, <2>13 DEF ActiveOf, CodesOf, Insertable
      <3>3. \A l \in CodesOf(s) : /\ qr[l].version < NextVersion(r)
                                  /\ qr[l].version \in Nat /\ NextVersion(r) \in Nat
        BY <1>2, <2>0, <2>1, NextVersionIsNewest, UsedFinite DEF CodesOf, IInv, TypeOK, QrCode, Version
      <3>4. \A l, m \in CodesOf(s) : l # m => qr[l].version # qr[m].version
        BY <2>1 DEF IInv, ActiveCodeIsNewest
      <3>5. ASSUME NEW t \in Student, CodesOf(t)' # {}
            PROVE  /\ \E l \in CodesOf(t)' :
                         /\ ActiveOf(t)' = {l}
                         /\ \A m \in CodesOf(t)' \ {l} : qr'[m].version < qr'[l].version
                   /\ \A l, m \in CodesOf(t)' : l # m => qr'[l].version # qr'[m].version
        <4>1. CASE t = s
          BY <2>13, <3>2, <3>3, <3>4, <4>1
        <4>2. CASE t # s
          BY <2>13, <3>1, <3>5, <4>2 DEF IInv, ActiveCodeIsNewest
        <4> QED BY <4>1, <4>2
      <3> QED BY <3>5 DEF ActiveCodeIsNewest
    <2> QED BY <2>11, <2>12, <2>14, <2>15, <2>16 DEF IInv, Progress
  <1> QED BY <1>1, <1>2

-----------------------------------------------------------------------------
LEMMA NextIInv == IInv /\ [Next]_vars => IInv'
  <1> SUFFICES ASSUME IInv, [Next]_vars PROVE IInv'
    OBVIOUS
  <1>1. CASE Open
    BY <1>1, OpenIInv
  <1>2. ASSUME NEW r \in Request, CloseLock(r) PROVE IInv'
    BY <1>2, CloseLockIInv
  <1>3. ASSUME NEW r \in Request, NEW k \in Code, ScanLock(r, k) PROVE IInv'
    BY <1>3, ScanLockIInv
  <1>4. ASSUME NEW r \in Request, NEW s \in Student, RotateRead(r, s) PROVE IInv'
    BY <1>4, RotateReadIInv
  <1>5. ASSUME NEW r \in Request, Step(r) PROVE IInv'
    <2>1. CASE ScanCommit(r)
      BY <2>1, CommitIInv DEF ScanCommit
    <2>2. CASE CloseCommit(r)
      BY <2>2, CommitIInv DEF CloseCommit
    <2> QED BY <1>5, <2>1, <2>2, ScanReadsIInv, ScanInsertIInv, CloseRosterIInv, CloseRecordsIInv,
               CloseFillIInv, RotateRevokeIInv, RotateCreateIInv DEF Step
  <1>6. ASSUME NEW r \in Request, Abort(r) PROVE IInv'
    BY <1>6, RefuseIInv DEF Abort
  <1>7. ASSUME NEW s \in Student, Correct(s) PROVE IInv'
    BY <1>7, CorrectIInv
  <1>8. ASSUME NEW s \in Student, Join(s) \/ Leave(s) PROVE IInv'
    <2>1. /\ enrolled' \in SUBSET Student
          /\ UNCHANGED <<record, session, qr, sessionLock, pc, local>>
      BY <1>8 DEF Join, Leave, rows, IInv, TypeOK
    <2> QED BY <2>1, FrameIInv DEF IInv, TypeOK
  <1>9. CASE UNCHANGED vars
    BY <1>9, FrameIInv DEF vars, rows, IInv, TypeOK
  <1> QED BY <1>1, <1>2, <1>3, <1>4, <1>5, <1>6, <1>7, <1>8, <1>9 DEF Next

LEMMA Invariance == Spec => []IInv
  BY InitIInv, NextIInv, PTL DEF Spec

-----------------------------------------------------------------------------
(* Theorems *)

(* Every state is well typed; in particular a code's version, one above the *)
(* version it replaces, counts codes (attendance.service.ts:269-273).      *)
THEOREM TypeCorrect == Spec => []TypeOK
  <1>1. IInv => TypeOK
    BY DEF IInv
  <1> QED BY <1>1, Invariance, PTL

(* However many rotations overlap or break off, a student with a code has    *)
(* exactly one active code, the newest (attendance.service.ts:244-272).    *)
THEOREM NewestCodeIsActive == Spec => []ActiveCodeIsNewest
  <1>1. IInv => ActiveCodeIsNewest
    BY DEF IInv
  <1> QED BY <1>1, Invariance, PTL

(* A close that commits leaves nobody of its roster without a line           *)
(* (attendance.service.ts:148-192).                                        *)
LEMMA CloseStep ==
  ASSUME IInv, NEW r \in Request, CloseCommit(r)
  PROVE  \A s \in roster[r] : record'[s] # Null
  BY DEF CloseCommit, Committed, IInv, TypeOK, Progress, ClosingComplete

THEOREM ClosedRegisterComplete == Spec => RegisterComplete
  <1>1. IInv => [\A r \in Request : CloseCommit(r) => \A s \in roster[r] : record'[s] # Null]_vars
    BY CloseStep
  <1> QED BY <1>1, Invariance, PTL DEF RegisterComplete

(* A step of the handlers is a step of the register or leaves it alone: a     *)
(* scan that commits marks one student of an open register, and a close    *)
(* fills in the missing and shuts it at once.                              *)
LEMMA RegisterStep ==
  ASSUME IInv, Next
  PROVE  Paper!Next \/ UNCHANGED <<session, record>>
  <1>1. CASE Open
    BY <1>1 DEF Open, Paper!Next, Paper!Open
  <1>2. ASSUME NEW s \in Student, Correct(s) PROVE Paper!Next
    BY <1>2 DEF Correct, Paper!Next, Paper!Correct, Attended, Paper!Attended
  <1>3. ASSUME NEW r \in Request, ScanCommit(r) PROVE Paper!Next \/ UNCHANGED <<session, record>>
    <2>1. /\ pc[r] = "answer" /\ session = "OPEN" /\ session' = session
          /\ record' = Committed(r)
      BY <1>3, AttendanceAssumption DEF ScanCommit, IInv, LockProtects, Scanning
    <2>2. CASE \A s \in Student : buf[r][s] = Null
      BY <2>1, <2>2 DEF Committed, IInv, TypeOK
    <2>3. ASSUME NEW s \in Student, buf[r][s] # Null PROVE Paper!Next
      <3>1. /\ record[s] = Null /\ buf[r][s] \in ScanLines
            /\ \A t \in Student : buf[r][t] # Null => t = s
        BY <2>1, <2>3 DEF IInv, Progress, Pending
      <3>2. record' = [record EXCEPT ![s] = buf[r][s]]
        BY <2>1, <2>3, <3>1 DEF Committed, IInv, TypeOK
      <3>3. Paper!Mark(s)
        BY <2>1, <3>1, <3>2 DEF Paper!Mark, ScanLines, Attended, Paper!Attended
      <3> QED BY <3>3 DEF Paper!Next
    <2> QED BY <2>2, <2>3
  <1>4. ASSUME NEW r \in Request, CloseCommit(r) PROVE Paper!Next
    <2> DEFINE absent == {s \in Student : buf[r][s] # Null}
    <2>1. /\ pc[r] = "close" /\ session = "OPEN" /\ session' = "CLOSED"
          /\ record' = Committed(r)
      BY <1>4, AttendanceAssumption DEF CloseCommit, IInv, LockProtects, Closing
    <2>2. \A s \in absent : record[s] = Null /\ buf[r][s] = AbsentLine
      BY <2>1 DEF IInv, Progress, Pending
    <2>3. record' = [s \in Student |-> IF s \in absent THEN AbsentLine ELSE record[s]]
      BY <2>1, <2>2 DEF Committed
    <2>4. absent \in SUBSET Paper!Missing
      BY <2>2 DEF Paper!Missing
    <2>5. Paper!Close
      BY <2>1, <2>3, <2>4 DEF Paper!Close, AbsentLine
    <2> QED BY <2>5 DEF Paper!Next
  <1>5. ASSUME NEW r \in Request, Step(r), ~ScanCommit(r), ~CloseCommit(r)
        PROVE  UNCHANGED <<session, record>>
    BY <1>5 DEF Step, ScanCode, ScanEnrolment, ScanInsert, CloseRoster, CloseRecords, CloseFill,
       RotateRevoke, RotateCreate, Refuse, rows
  <1>6. ASSUME NEW r \in Request,
               \/ CloseLock(r) \/ Abort(r)
               \/ \E k \in Code : ScanLock(r, k)
               \/ \E s \in Student : RotateRead(r, s)
        PROVE  UNCHANGED <<session, record>>
    BY <1>6 DEF CloseLock, Abort, ScanLock, RotateRead, Refuse, rows
  <1>7. ASSUME NEW s \in Student, Join(s) \/ Leave(s)
        PROVE  UNCHANGED <<session, record>>
    BY <1>7 DEF Join, Leave, rows
  <1> QED BY <1>1, <1>2, <1>3, <1>4, <1>5, <1>6, <1>7 DEF Next

(* The handlers implement the register, whatever races: no scan is accepted  *)
(* once it is closed, and no close overwrites a scan.                      *)
THEOREM AttendanceIsARegister == Spec => ImplementsRegister
  <1>1. Init => Paper!Init
    BY DEF Init, Paper!Init, NoLines
  <1>2. IInv /\ [Next]_vars => [Paper!Next]_<<session, record>>
    BY RegisterStep DEF vars, rows
  <1> QED BY <1>1, <1>2, Invariance, PTL DEF Spec, Paper!Spec, ImplementsRegister
=============================================================================
