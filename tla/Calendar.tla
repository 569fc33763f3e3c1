------------------------------ MODULE Calendar ------------------------------
(* The academic structure: which session and which term are current, the    *)
(* single School row, and the assignments of teachers with the scores and   *)
(* timetable entries that hang on them.                                     *)
(*                                                                          *)
(* A switch of the current session or term is split at each statement: what *)
(* one statement saw is kept in the request, row locks last until commit,   *)
(* and an UPDATE that waited for a row looks at that row again and at no    *)
(* other. Tables nobody reads back while writing are changed in one step.   *)
EXTENDS Sentinel, Naturals, FiniteSets

CONSTANTS
    Period, ScopeOf,            \* sessions and terms, and what each is current in
    School,                     \* School rows that may be created
    Assignment,                 \* class-subject assignments that may be created
    ClassOf, TeacherOf,         \* the class and the teacher of an assignment
    Slot,                       \* a day and time slot
    Registrar                   \* requests served at a time

Scope == {ScopeOf[p] : p \in Period}

ASSUME CalendarAssumption ==
    /\ \A S \in {Period, School, Assignment, Registrar} : Null \notin S
    /\ Period = DOMAIN ScopeOf
    /\ Assignment = DOMAIN ClassOf /\ Assignment = DOMAIN TeacherOf

VARIABLES
    period,    \* AcademicSession and Term rows
    current,   \* those with isCurrent
    lockedBy,  \* per scope, and for the school, who holds the advisory lock
    refused,   \* history: a switch failed on the partial unique index
    school,    \* School rows
    assigned,  \* ClassSubjectAssignment rows
    formed,    \* ClassFormTeacher rows, as the assignment they go with
    graded,    \* assignments with Score or SubjectResult rows
    booked,    \* TimetableEntry rows
    chair      \* requests in progress

calendarVars == <<period, current, lockedBy, refused, school, assigned, formed, graded,
                  booked, chair>>

NoCase == [op |-> "idle", of |-> Null, seen |-> {}, changed |-> {}]
Case == [op : {"idle", "switch", "clear", "set", "found", "cleanup", "remove"},
         of : Period \cup School \cup Assignment \cup {Null},
         seen : SUBSET Period, changed : SUBSET (Period \cup Assignment \X Slot)]

CalendarTypeOK ==
    /\ period \subseteq Period /\ current \subseteq period /\ refused \in BOOLEAN
    /\ lockedBy \in [Scope \cup {"school"} -> Registrar \cup {Null}]
    /\ school \subseteq School
    /\ assigned \subseteq Assignment /\ formed \subseteq Assignment /\ graded \subseteq Assignment
    /\ booked \subseteq Assignment \X Slot
    /\ chair \in [Registrar -> Case]

(* The periods, assignments and School rows there are, and what is current. *)
CalendarStart(ps, as, hs, cs) ==
    /\ period = ps /\ current = cs /\ refused = FALSE
    /\ lockedBy = [k \in Scope \cup {"school"} |-> Null]
    /\ school = hs /\ assigned = as /\ formed = {} /\ graded = {} /\ booked = {}
    /\ chair = [r \in Registrar |-> NoCase]

CalendarInit == CalendarStart({}, {}, {}, {})

Take(r, c) == chair[r] = NoCase /\ chair' = [chair EXCEPT ![r] = c]
Close(r) == chair' = [chair EXCEPT ![r] = NoCase]
FreeLock(k) == [lockedBy EXCEPT ![k] = Null]

-----------------------------------------------------------------------------
(* The current session, the current term *)

CreatePeriod(p) ==
    /\ p \notin period
    /\ period' = period \cup {p}
    /\ UNCHANGED <<current, lockedBy, refused, school, assigned, formed, graded, booked, chair>>

SwitchLockUnheld(k, r) == lockedBy' = [lockedBy EXCEPT ![k] = r]

(* setCurrentAcademicSession and setCurrentTerm: the advisory lock of the   *)
(* scope is waited for and held until the transaction ends.                 *)
SwitchLock(k, r) ==
    /\ lockedBy[k] = Null
    /\ lockedBy' = [lockedBy EXCEPT ![k] = r]

TakeSwitchLock(r, p) ==
    /\ p \in period
    /\ SwitchLock(ScopeOf[p], r)
    /\ Take(r, [NoCase EXCEPT !.op = "switch", !.of = p])
    /\ UNCHANGED <<period, current, refused, school, assigned, formed, graded, booked>>

(* The UPDATE that clears the others: its candidates are those its snapshot *)
(* holds; each is locked, seen again as last committed, and cleared.        *)
Others(p) == {q \in current : ScopeOf[q] = ScopeOf[p] /\ q # p}
HeldByOthers(r) == UNION {chair[q].changed : q \in Registrar \ {r}}

FindCurrent(r) ==
    /\ chair[r].op = "switch"
    /\ chair' = [chair EXCEPT ![r].op = "clear", ![r].seen = Others(chair[r].of)]
    /\ UNCHANGED <<period, current, lockedBy, refused, school, assigned, formed, graded, booked>>

ClearOthers(r) ==
    /\ chair[r].op = "clear"
    /\ chair[r].seen \cap HeldByOthers(r) = {}
    /\ chair' = [chair EXCEPT ![r].op = "set", ![r].changed = chair[r].seen \cap current]
    /\ UNCHANGED <<period, current, lockedBy, refused, school, assigned, formed, graded, booked>>

(* The UPDATE that sets it, and the commit. A row that is current in the    *)
(* same scope and not cleared here fails the partial unique index.          *)
SetCurrent(r) ==
    LET p == chair[r].of  left == Others(p) \ chair[r].changed IN
    /\ chair[r].op = "set"
    /\ p \notin HeldByOthers(r)
    /\ IF left = {} THEN current' = (current \ chair[r].changed) \cup {p} /\ UNCHANGED refused
       ELSE refused' = TRUE /\ UNCHANGED current
    /\ lockedBy' = FreeLock(ScopeOf[p])
    /\ Close(r)
    /\ UNCHANGED <<period, school, assigned, formed, graded, booked>>

-----------------------------------------------------------------------------
(* The School row *)

FindSchool(r) ==
    /\ lockedBy["school"] = Null
    /\ school = {}
    /\ lockedBy' = [lockedBy EXCEPT !["school"] = r]
    /\ Take(r, [NoCase EXCEPT !.op = "found"])
    /\ UNCHANGED <<period, current, refused, school, assigned, formed, graded, booked>>

CreateSchool(r) ==
    /\ chair[r].op = "found"
    /\ \E s \in School \ school : school' = school \cup {s}
    /\ lockedBy' = FreeLock("school")
    /\ Close(r)
    /\ UNCHANGED <<period, current, refused, assigned, formed, graded, booked>>

-----------------------------------------------------------------------------
(* Assignments *)

(* One per class, subject and session: the unique index.                    *)
CreateAssignment(a) ==
    /\ a \notin assigned
    /\ assigned' = assigned \cup {a}
    /\ UNCHANGED <<period, current, lockedBy, refused, school, formed, graded, booked, chair>>

CreateFormTeacher(a) ==
    /\ \A b \in formed : ClassOf[b] # ClassOf[a]
    /\ formed' = formed \cup {a}
    /\ UNCHANGED <<period, current, lockedBy, refused, school, assigned, graded, booked, chair>>

DeleteFormTeacher(a) ==
    /\ a \in formed
    /\ formed' = formed \ {a}
    /\ UNCHANGED <<period, current, lockedBy, refused, school, assigned, graded, booked, chair>>

(* The foreign key of a Score row locks the assignment's row, so it waits   *)
(* for a transaction that is deleting it and fails when the row is gone.    *)
RecordWork(a) ==
    /\ a \in assigned
    /\ graded' = graded \cup {a}
    /\ UNCHANGED <<period, current, lockedBy, refused, school, assigned, formed, booked, chair>>

(* createTimetableEntry: one entry per slot for a class, and for a teacher. *)
Clashes(a, b) == ClassOf[b] = ClassOf[a] \/ TeacherOf[b] = TeacherOf[a]
CreateTimetableEntry(a, s) ==
    /\ a \in assigned
    /\ \A e \in booked : ~(e[2] = s /\ Clashes(a, e[1]))
    /\ booked' = booked \cup {<<a, s>>}
    /\ UNCHANGED <<period, current, lockedBy, refused, school, assigned, formed, graded, chair>>

(* An entry another transaction has deleted is waited for.                  *)
DeleteTimetableEntry(e) ==
    /\ e \in booked /\ \A r \in Registrar : e \notin chair[r].changed
    /\ booked' = booked \ {e}
    /\ UNCHANGED <<period, current, lockedBy, refused, school, assigned, formed, graded, chair>>

(* deleteClassSubjectAssignment counts what hangs on it, ...                *)
CountDependents(r, a) ==
    /\ a \in assigned
    /\ a \notin graded
    /\ Take(r, [NoCase EXCEPT !.op = IF \E s \in Slot : <<a, s>> \in booked THEN "cleanup"
                                     ELSE "remove", !.of = a])
    /\ UNCHANGED <<period, current, lockedBy, refused, school, assigned, formed, graded, booked>>

(* ... deletes the timetable entries there are now, which no one sees yet,  *)
EntriesOf(a) == {e \in booked : e[1] = a}
CleanTimetable(r) ==
    LET es == EntriesOf(chair[r].of) IN
    /\ chair[r].op = "cleanup"
    /\ es \cap HeldByOthers(r) = {}
    /\ chair' = [chair EXCEPT ![r].op = "remove", ![r].changed = es]
    /\ UNCHANGED <<period, current, lockedBy, refused, school, assigned, formed, graded, booked>>

ReferencedUnchecked(a, gone) == FALSE

(* ... and the assignment. A row that still refers to it fails the foreign  *)
(* key, and an assignment already gone is a 404: both roll back.            *)
Referenced(a, gone) == a \in graded \/ EntriesOf(a) \ gone # {}

RemoveAssignment(r) ==
    LET a == chair[r].of IN
    /\ chair[r].op = "remove"
    /\ IF a \notin assigned \/ Referenced(a, chair[r].changed)
       THEN UNCHANGED <<assigned, graded, booked>>
       ELSE /\ assigned' = assigned \ {a}
            /\ graded' = graded \ {a}
            /\ booked' = booked \ EntriesOf(a)
    /\ Close(r)
    /\ UNCHANGED <<period, current, lockedBy, refused, school, formed>>

-----------------------------------------------------------------------------
(* A crash or a lost connection rolls the transaction back and frees its    *)
(* locks.                                                                   *)
CalendarAbort(r) ==
    /\ chair[r] # NoCase
    /\ lockedBy' = [k \in DOMAIN lockedBy |-> IF lockedBy[k] = r THEN Null ELSE lockedBy[k]]
    /\ Close(r)
    /\ UNCHANGED <<period, current, refused, school, assigned, formed, graded, booked>>

SwitchNext ==
    \/ \E p \in Period : CreatePeriod(p)
    \/ \E r \in Registrar :
          \/ \E p \in Period : TakeSwitchLock(r, p)
          \/ FindCurrent(r) \/ ClearOthers(r) \/ SetCurrent(r)
          \/ FindSchool(r) \/ CreateSchool(r) \/ CalendarAbort(r)

AssignmentNext ==
    \/ \E a \in Assignment :
          \/ CreateAssignment(a) \/ RecordWork(a) \/ CreateFormTeacher(a) \/ DeleteFormTeacher(a)
          \/ \E s \in Slot : CreateTimetableEntry(a, s) \/ DeleteTimetableEntry(<<a, s>>)
          \/ \E r \in Registrar : CountDependents(r, a)
    \/ \E r \in Registrar : CleanTimetable(r) \/ RemoveAssignment(r) \/ CalendarAbort(r)

CalendarNext == SwitchNext \/ AssignmentNext
CalendarSpec == CalendarInit /\ [][CalendarNext]_calendarVars

-----------------------------------------------------------------------------
(* Properties *)

(* Switches of the current session or term serialize. However many overlap, *)
(* none is refused by the partial unique index, and once one is current     *)
(* some one is at every commit, through failed switches too. The School row *)
(* is created once: only its advisory lock sees to that                     *)
(* (academic-structure.service.ts:36-109, school.service.ts:5-30).          *)
OneCurrent == \A p, q \in current : ScopeOf[p] = ScopeOf[q] => p = q
CurrentIsKept ==
    [][/\ ~refused' /\ OneCurrent'
       /\ \A p \in current : \E q \in current' : ScopeOf[q] = ScopeOf[p]
       /\ \A s \in school' : school' = {s}]_calendarVars

(* Deleting an assignment takes its whole timetable and no recorded work    *)
(* with it, or nothing at all (academic-structure.service.ts:226-275).      *)
DeletedWhole ==
    [][/\ \A a \in graded : a \in graded' /\ a \in assigned'
       /\ \A a \in assigned \ assigned' : \A s \in Slot : <<a, s>> \notin booked'
       /\ (\E r \in Registrar : chair'[r] # chair[r]) => \A e \in booked \ booked' : e[1] \notin assigned'
      ]_calendarVars
=============================================================================
