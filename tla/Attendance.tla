----------------------------- MODULE Attendance -----------------------------
(***************************************************************************)
(* One attendance session of a class and the students' QR codes            *)
(* (src/modules/attendance/attendance.service.ts).  As in Scores, an       *)
(* action is one statement at READ COMMITTED.  scan and closeSession take  *)
(* a row lock on the session first and keep it until they end.             *)
(***************************************************************************)
EXTENDS Naturals, FiniteSets

CONSTANTS
    Student,  \* students of the school
    Code,     \* random strings a QR code may carry (a bound on rotations)
    Request,  \* concurrent requests
    Null

Version  == 1 .. Cardinality(Code)
Attended == {"PRESENT", "LATE"}
Line     == [status : Attended \cup {"ABSENT"}, method : {"QR_SCAN", "MANUAL"}]
QrCode   == [student : Student, version : Version, isActive : BOOLEAN]

ASSUME AttendanceAssumption ==
    /\ IsFiniteSet(Code)
    /\ Null \notin Student \cup Code \cup Request \cup Line \cup QrCode \cup {"OPEN", "CLOSED"}

VARIABLES
    enrolled,     \* students with an ACTIVE enrolment in the class
    session,      \* AttendanceSession.status, Null before openSession
    record,       \* AttendanceRecord rows of the session, committed
    qr,           \* StudentQrCode rows, by their code
    sessionLock,  \* holder of the session's row lock
    pc,           \* what each request does next
    presented,    \* the code a scan presents
    target,       \* the student of a scan or a rotation
    roster,       \* the enrolments a close read
    seen,         \* the students it found marked
    current,      \* the active code a rotation read; revoked by it from "create" on
    buf           \* lines written in a request's open transaction

rows  == <<session, record, qr>>
local == <<presented, target, roster, seen, current, buf>>
vars  == <<enrolled, rows, sessionLock, pc, local>>

Scanning == {"code", "enrolment", "insert", "answer"}
Closing  == {"roster", "records", "fill", "close"}
Rotating == {"revoke", "create"}

TypeOK ==
    /\ enrolled \in SUBSET Student
    /\ session \in {Null, "OPEN", "CLOSED"}
    /\ record \in [Student -> Line \cup {Null}]
    /\ qr \in [Code -> QrCode \cup {Null}]
    /\ sessionLock \in Request \cup {Null}
    /\ pc \in [Request -> {"idle"} \cup Scanning \cup Closing \cup Rotating]
    /\ presented \in [Request -> Code \cup {Null}]
    /\ target \in [Request -> Student \cup {Null}]
    /\ roster \in [Request -> SUBSET Student]
    /\ seen \in [Request -> SUBSET Student]
    /\ current \in [Request -> Code \cup {Null}]
    /\ buf \in [Request -> [Student -> Line \cup {Null}]]

NoLines == [s \in Student |-> Null]

Init ==
    /\ enrolled \in SUBSET Student
    /\ session = Null
    /\ record = NoLines
    /\ qr = [k \in Code |-> Null]
    /\ sessionLock = Null
    /\ pc = [r \in Request |-> "idle"]
    /\ presented = [r \in Request |-> Null]
    /\ target = [r \in Request |-> Null]
    /\ roster = [r \in Request |-> {}]
    /\ seen = [r \in Request |-> {}]
    /\ current = [r \in Request |-> Null]
    /\ buf = [r \in Request |-> NoLines]

-----------------------------------------------------------------------------
(* Locks and the end of a request *)

LockNotAwaited(r) == pc[r] = "idle"

(* SELECT .. FOR UPDATE returns. *)
LockFree(r) == sessionLock = Null

HeldByOther(r, s) == \E q \in Request \ {r} : buf[q][s] # Null

(* The transaction ends: locals, uncommitted lines and locks go. *)
Finish(r) ==
    /\ pc' = [pc EXCEPT ![r] = "idle"]
    /\ presented' = [presented EXCEPT ![r] = Null]
    /\ target' = [target EXCEPT ![r] = Null]
    /\ roster' = [roster EXCEPT ![r] = {}]
    /\ seen' = [seen EXCEPT ![r] = {}]
    /\ current' = [current EXCEPT ![r] = Null]
    /\ buf' = [buf EXCEPT ![r] = NoLines]
    /\ sessionLock' = IF sessionLock = r THEN Null ELSE sessionLock

Committed(r) == [s \in Student |-> IF buf[r][s] # Null THEN buf[r][s] ELSE record[s]]

Refuse(r) == Finish(r) /\ UNCHANGED <<enrolled, rows>>

Goto(r, label) == pc' = [pc EXCEPT ![r] = label]

-----------------------------------------------------------------------------
(* openSession: the unique key on class and date admits one. *)
Open ==
    /\ session = Null
    /\ session' = "OPEN"
    /\ UNCHANGED <<enrolled, record, qr, sessionLock, pc, local>>

(* The lock of scan and closeSession, and the status it returns: of a       *)
(* CLOSED session nothing follows.                                         *)
LockSession(r) ==
    /\ pc[r] = "idle"
    /\ LockFree(r)
    /\ session = "OPEN"               \* else 400 or 409
    /\ sessionLock' = r

-----------------------------------------------------------------------------
(* scan *)

ScanLock(r, k) ==
    /\ LockSession(r)
    /\ presented' = [presented EXCEPT ![r] = k]
    /\ Goto(r, "code")
    /\ UNCHANGED <<enrolled, rows, target, roster, seen, current, buf>>

IsActive(k) == qr[k] # Null /\ qr[k].isActive

ScanCode(r) ==
    /\ pc[r] = "code"
    /\ \/ /\ ~IsActive(presented[r])            \* 401
          /\ Refuse(r)
       \/ /\ IsActive(presented[r])
          /\ target' = [target EXCEPT ![r] = qr[presented[r]].student]
          /\ Goto(r, "enrolment")
          /\ UNCHANGED <<enrolled, rows, sessionLock, presented, roster, seen, current, buf>>

ScanEnrolment(r) ==
    /\ pc[r] = "enrolment"
    /\ \/ /\ target[r] \notin enrolled          \* 400
          /\ Refuse(r)
       \/ /\ target[r] \in enrolled
          /\ Goto(r, "insert")
          /\ UNCHANGED <<enrolled, rows, sessionLock, local>>

(* createMany skipDuplicates; the answer tells whether it wrote. *)
ScanInsert(r) ==
    LET s == target[r] IN
    /\ pc[r] = "insert"
    /\ Goto(r, "answer")
    /\ \/ /\ record[s] # Null
          /\ UNCHANGED buf
       \/ /\ record[s] = Null
          /\ ~HeldByOther(r, s)
          /\ \E a \in Attended :
                buf' = [buf EXCEPT ![r][s] = [status |-> a, method |-> "QR_SCAN"]]
    /\ UNCHANGED <<enrolled, rows, sessionLock, presented, target, roster, seen, current>>

ScanCommit(r) ==
    /\ pc[r] = "answer"
    /\ record' = Committed(r)
    /\ Finish(r)
    /\ UNCHANGED <<enrolled, session, qr>>

-----------------------------------------------------------------------------
(* closeSession *)

CloseLock(r) ==
    /\ LockSession(r)
    /\ Goto(r, "roster")
    /\ UNCHANGED <<enrolled, rows, local>>

CloseRoster(r) ==
    /\ pc[r] = "roster"
    /\ roster' = [roster EXCEPT ![r] = enrolled]
    /\ Goto(r, "records")
    /\ UNCHANGED <<enrolled, rows, sessionLock, presented, target, seen, current, buf>>

CloseRecords(r) ==
    /\ pc[r] = "records"
    /\ seen' = [seen EXCEPT ![r] = {s \in Student : record[s] # Null}]
    /\ Goto(r, "fill")
    /\ UNCHANGED <<enrolled, rows, sessionLock, presented, target, roster, current, buf>>

UnscannedCardHolders(r) ==
    {s \in roster[r] \ seen[r] : \E k \in Code : IsActive(k) /\ qr[k].student = s}

Unscanned(r) == roster[r] \ seen[r]

(* createMany skipDuplicates *)
CloseFill(r) ==
    /\ pc[r] = "fill"
    /\ \A s \in Unscanned(r) : ~HeldByOther(r, s)
    /\ buf' = [buf EXCEPT ![r] =
          [s \in Student |-> IF s \in Unscanned(r) /\ record[s] = Null
                             THEN [status |-> "ABSENT", method |-> "MANUAL"]
                             ELSE Null]]
    /\ Goto(r, "close")
    /\ UNCHANGED <<enrolled, rows, sessionLock, presented, target, roster, seen, current>>

CloseCommit(r) ==
    /\ pc[r] = "close"
    /\ record' = Committed(r)
    /\ session' = "CLOSED"
    /\ Finish(r)
    /\ UNCHANGED <<enrolled, qr>>

-----------------------------------------------------------------------------
(* correctRecord, on a session open or closed *)
Correct(s) ==
    /\ record[s] # Null
    /\ \E a \in Attended \cup {"ABSENT"} : record' = [record EXCEPT ![s].status = a]
    /\ UNCHANGED <<enrolled, session, qr, sessionLock, pc, local>>

-----------------------------------------------------------------------------
(* rotateQrCode *)

CodesOf(s)  == {k \in Code : qr[k] # Null /\ qr[k].student = s}
ActiveOf(s) == {k \in CodesOf(s) : qr[k].isActive}
Unused      == {k \in Code : qr[k] = Null}

RotateRead(r, s) ==
    /\ pc[r] = "idle"
    /\ Cardinality(Unused) > Cardinality({q \in Request : pc[q] \in Rotating})   \* bound
    /\ target' = [target EXCEPT ![r] = s]
    /\ \/ /\ ActiveOf(s) = {}
          /\ Goto(r, "create")
          /\ UNCHANGED current
       \/ \E k \in ActiveOf(s) :
             /\ current' = [current EXCEPT ![r] = k]
             /\ Goto(r, "revoke")
    /\ UNCHANGED <<enrolled, rows, sessionLock, presented, roster, seen, buf>>

(* The update by id: it waits for another rotation's, and does not ask      *)
(* whether the code is still active.                                       *)
RotateRevoke(r) ==
    /\ pc[r] = "revoke"
    /\ \A q \in Request \ {r} : ~(pc[q] = "create" /\ current[q] = current[r])
    /\ Goto(r, "create")
    /\ UNCHANGED <<enrolled, rows, sessionLock, local>>

AlwaysInsertable(r) == pc[r] = "create"

(* StudentQrCode_one_active_per_student.  The insert would wait for a       *)
(* rotation that has revoked the other active row, and fail whichever way  *)
(* that one ends.                                                          *)
Insertable(r) == ActiveOf(target[r]) \ {current[r]} = {}

ZeroBasedVersion(r) == IF current[r] = Null THEN 0 ELSE qr[current[r]].version + 1

NextVersion(r) == IF current[r] = Null THEN 1 ELSE qr[current[r]].version + 1

RotateCreate(r) ==
    /\ pc[r] = "create"
    /\ \/ /\ ~Insertable(r)                     \* P2002, 500
          /\ Refuse(r)
       \/ /\ Insertable(r)
          /\ \E k \in Unused :
                qr' = [l \in Code |->
                   IF l = k
                   THEN [student |-> target[r], version |-> NextVersion(r), isActive |-> TRUE]
                   ELSE IF l = current[r] THEN [qr[l] EXCEPT !.isActive = FALSE]
                   ELSE qr[l]]
          /\ Finish(r)
          /\ UNCHANGED <<enrolled, session, record>>

-----------------------------------------------------------------------------

(* Connection loss, crash or a transaction timeout. *)
Abort(r) ==
    /\ pc[r] # "idle"
    /\ Refuse(r)

(* Enrolment changes at any time, whatever the session's lock. *)
Join(s) ==
    /\ s \notin enrolled
    /\ enrolled' = enrolled \cup {s}
    /\ UNCHANGED <<rows, sessionLock, pc, local>>

Leave(s) ==
    /\ s \in enrolled
    /\ enrolled' = enrolled \ {s}
    /\ UNCHANGED <<rows, sessionLock, pc, local>>

Step(r) ==
    \/ ScanCode(r) \/ ScanEnrolment(r) \/ ScanInsert(r) \/ ScanCommit(r)
    \/ CloseRoster(r) \/ CloseRecords(r) \/ CloseFill(r) \/ CloseCommit(r)
    \/ RotateRevoke(r) \/ RotateCreate(r)

Next ==
    \/ Open
    \/ \E r \in Request :
          \/ CloseLock(r)
          \/ \E k \in Code : ScanLock(r, k)
          \/ \E s \in Student : RotateRead(r, s)
          \/ Step(r) \/ Abort(r)
    \/ \E s \in Student : Correct(s) \/ Join(s) \/ Leave(s)

Spec == Init /\ [][Next]_vars

-----------------------------------------------------------------------------
(* Properties *)

(* Nobody is forgotten: when a close commits, every student of the roster   *)
(* it read has a line, scanned or ABSENT (attendance.service.ts:148-192).  *)
RegisterComplete ==
    [][\A r \in Request : CloseCommit(r) => \A s \in roster[r] : record'[s] # Null]_vars

(* The handlers implement the register: no scan is accepted once it is      *)
(* closed, and no close overwrites a scan (attendance.service.ts:60-146).  *)
Paper == INSTANCE Register WITH session <- session, record <- record
ImplementsRegister == Paper!Spec

(* A student who was ever issued a code has exactly one active code, the    *)
(* newest, and no two of a student's codes share a version, whatever       *)
(* rotations race or break off (attendance.service.ts:244-272).            *)
ActiveCodeIsNewest ==
    \A s \in Student : CodesOf(s) # {} =>
        /\ \E k \in CodesOf(s) :
              /\ ActiveOf(s) = {k}
              /\ \A l \in CodesOf(s) \ {k} : qr[l].version < qr[k].version
        /\ \A k, l \in CodesOf(s) : k # l => qr[k].version # qr[l].version
=============================================================================
