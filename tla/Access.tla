------------------------------- MODULE Access -------------------------------
(* Who may call what: the routers as they are mounted, the role gate and    *)
(* the scope resolver of each route, and the relationships the resolvers    *)
(* read afresh on every request. The claims of an access token are fixed    *)
(* when it is issued: here an account keeps its claims.                     *)
EXTENDS Sentinel, Naturals, FiniteSets, Sequences

CONSTANTS
    Pupil, Guardian, Teacher, Room, Session,
    Caller, Claims,    \* accounts, and the claims of each one's access token
    LinkRow, SeatRow, TeachRow, FormRow   \* bound: the rows that may exist

AllRoles == {"ADMIN", "TEACHER", "PARENT", "STUDENT", "BURSAR"}

(* The claims a token is issued with: an account has a role, a parent's and *)
(* a member of staff's role comes with the row, and each row with its role. *)
Issuable(k) ==
    /\ k.roles # {}
    /\ "PARENT" \in k.roles <=> k.parent # Null
    /\ k.roles \cap {"TEACHER", "BURSAR"} # {} => k.staff # Null
    /\ k.staff # Null => k.roles \cap {"ADMIN", "TEACHER", "BURSAR"} # {}
    /\ k.student # Null => "STUDENT" \in k.roles

ASSUME AccessAssumption ==
    /\ \A S \in {Pupil, Guardian, Teacher, Room, Session, Caller} : Null \notin S
    /\ Claims \in [Caller -> [roles : SUBSET AllRoles, staff : Teacher \cup {Null},
                              parent : Guardian \cup {Null}, student : Pupil \cup {Null}]]
    /\ \A u \in Caller : Issuable(Claims[u])
    /\ LinkRow \subseteq Pupil \X Guardian /\ SeatRow \subseteq Pupil \X Session \X Room
    /\ TeachRow \subseteq Teacher \X Room \X Session
    /\ FormRow \subseteq Room \X Session \X Teacher

VARIABLES
    now,       \* the current session, if any
    linked,    \* StudentParent rows
    seat,      \* per pupil and session, the Enrollment row
    teaching,  \* ClassSubjectAssignment rows
    formOf     \* ClassFormTeacher rows

accessVars == <<now, linked, seat, teaching, formOf>>

Seat == [room : Room, active : BOOLEAN]
AccessTypeOK ==
    /\ now \in Session \cup {Null} /\ linked \subseteq Pupil \X Guardian
    /\ seat \in [Pupil \X Session -> Seat \cup {Null}]
    /\ teaching \subseteq Teacher \X Room \X Session
    /\ formOf \in [Room \X Session -> Teacher \cup {Null}]

AccessInit ==
    /\ now = Null /\ linked = {} /\ teaching = {}
    /\ seat = [x \in Pupil \X Session |-> Null]
    /\ formOf = [x \in Room \X Session |-> Null]

-----------------------------------------------------------------------------
(* The relationships *)

LinkPupil(p, g) ==
    /\ <<p, g>> \notin linked /\ linked' = linked \cup {<<p, g>>}
    /\ UNCHANGED <<now, seat, teaching, formOf>>
UnlinkPupil(p, g) ==
    /\ <<p, g>> \in linked /\ linked' = linked \ {<<p, g>>}
    /\ UNCHANGED <<now, seat, teaching, formOf>>
SeatPupil(p, s, c) ==
    /\ seat[<<p, s>>] = Null /\ seat' = [seat EXCEPT ![<<p, s>>] = [room |-> c, active |-> TRUE]]
    /\ UNCHANGED <<now, linked, teaching, formOf>>
MovePupil(p, c) ==
    /\ now # Null
    /\ seat[<<p, now>>] # Null /\ seat[<<p, now>>].active /\ seat[<<p, now>>].room # c
    /\ seat' = [seat EXCEPT ![<<p, now>>].room = c]
    /\ UNCHANGED <<now, linked, teaching, formOf>>
PupilLeaves(p) ==
    /\ seat' = [x \in DOMAIN seat |->
                   IF x[1] = p /\ seat[x] # Null THEN [seat[x] EXCEPT !.active = FALSE] ELSE seat[x]]
    /\ UNCHANGED <<now, linked, teaching, formOf>>
\* A teacher given a class holds TEACHER or ADMIN.
MayTeach(t) == \A u \in Caller : Claims[u].staff = t => Claims[u].roles \cap {"TEACHER", "ADMIN"} # {}

AssignTeacher(t, c, s) ==
    /\ MayTeach(t) /\ teaching' = teaching \cup {<<t, c, s>>}
    /\ UNCHANGED <<now, linked, seat, formOf>>
UnassignTeacher(a) ==
    /\ a \in teaching /\ teaching' = teaching \ {a}
    /\ UNCHANGED <<now, linked, seat, formOf>>
AppointForm(c, s, t) ==
    /\ MayTeach(t) /\ formOf[<<c, s>>] = Null /\ formOf' = [formOf EXCEPT ![<<c, s>>] = t]
    /\ UNCHANGED <<now, linked, seat, teaching>>
EndForm(c, s) ==
    /\ formOf[<<c, s>>] # Null /\ formOf' = [formOf EXCEPT ![<<c, s>>] = Null]
    /\ UNCHANGED <<now, linked, seat, teaching>>
SwitchNow(s) ==
    /\ now' = s
    /\ UNCHANGED <<linked, seat, teaching, formOf>>

AccessNext ==
    \/ \E x \in LinkRow : LinkPupil(x[1], x[2]) \/ UnlinkPupil(x[1], x[2])
    \/ \E x \in SeatRow : SeatPupil(x[1], x[2], x[3])
    \/ \E p \in Pupil : PupilLeaves(p) \/ \E c \in Room : MovePupil(p, c)
    \/ \E x \in TeachRow : AssignTeacher(x[1], x[2], x[3]) \/ UnassignTeacher(x)
    \/ \E x \in FormRow : AppointForm(x[1], x[2], x[3]) \/ EndForm(x[1], x[2])
    \/ \E s \in Session : SwitchNow(s)

-----------------------------------------------------------------------------
(* Scope resolvers. k is the claims of the caller's token.                  *)

Has(k, role) == role \in k.roles
Sits(p, s) == seat[<<p, s>>] # Null /\ seat[<<p, s>>].active

TeachesPupilOnce(t, p) ==
    \E s \in Session : Sits(p, s) /\ <<t, seat[<<p, s>>].room, s>> \in teaching

TeachesPupil(t, p) ==
    now # Null /\ Sits(p, now) /\ <<t, seat[<<p, now>>].room, now>> \in teaching

IsFormTeacherOfClass(t, c, s) == t # Null /\ formOf[<<c, s>>] = t
IsParentOf(k, p) == Has(k, "PARENT") /\ k.parent # Null /\ <<p, k.parent>> \in linked
IsOwn(k, p) == Has(k, "STUDENT") /\ k.student = p

StudentAccessLevel(k, p) ==
    IF Has(k, "ADMIN") \/ (Has(k, "TEACHER") /\ k.staff # Null /\ TeachesPupil(k.staff, p)) THEN "FULL"
    ELSE IF IsOwn(k, p) \/ IsParentOf(k, p) THEN "RESTRICTED" ELSE "none"

CanReadStudent(k, p) == StudentAccessLevel(k, p) # "none"
CanReadStudentParents(k, p) ==
    \/ Has(k, "ADMIN") \/ IsOwn(k, p)
    \/ Has(k, "TEACHER") /\ k.staff # Null /\ TeachesPupil(k.staff, p)
CanReadStaff(k, t) == Has(k, "ADMIN") \/ k.staff = t
CanReadParent(k, g) == Has(k, "ADMIN") \/ k.parent = g
CanActOnAssignment(k, a) == Has(k, "ADMIN") \/ (Has(k, "TEACHER") /\ k.staff = a[1])
CanReadClassRoster(k, c, s) ==
    \/ Has(k, "ADMIN") \/ Has(k, "BURSAR")
    \/ Has(k, "TEACHER") /\ <<k.staff, c, IF s = Null THEN now ELSE s>> \in teaching

Office(k) == Has(k, "ADMIN") \/ Has(k, "BURSAR")

CanReadStudentFinancialsOwn(k, p) == Office(k) \/ IsOwn(k, p)

CanReadStudentFinancials(k, p) == Office(k) \/ IsOwn(k, p) \/ IsParentOf(k, p)

CanReadPayment(k, owner) == Office(k) \/ CanReadStudentFinancials(k, owner)
CanReadFeeObligation(k, owner) == Office(k) \/ CanReadStudentFinancials(k, owner)
CanCreatePaymentForObligation(k, owner) == Office(k) \/ IsParentOf(k, owner)

CanReadClassTimetable(k, c) ==
    \/ Has(k, "ADMIN") \/ Has(k, "TEACHER")
    \/ \E p \in Pupil : /\ IsOwn(k, p) \/ IsParentOf(k, p)
                        /\ now # Null /\ Sits(p, now) /\ seat[<<p, now>>].room = c
CanReadClassResults(k, c, s) ==
    Has(k, "ADMIN") \/ (Has(k, "TEACHER") /\ IsFormTeacherOfClass(k.staff, c, s))
CanWriteClassTeacherComment(k, p, s) ==
    Has(k, "ADMIN") \/ (/\ Has(k, "TEACHER") /\ seat[<<p, s>>] # Null
                        /\ IsFormTeacherOfClass(k.staff, seat[<<p, s>>].room, s))
CanManageStudentQrCode(k, p) == Has(k, "ADMIN") \/ k.student = p
CanManageOwnNotification(k, mine) == Has(k, "ADMIN") \/ mine

-----------------------------------------------------------------------------
(* The routes. A route is its operation, the path segment it is under, the  *)
(* roles that may call it and the relationship its scope asks for.          *)

Routes(under, ops, roles, scope) ==
    {[op |-> o, under |-> under, roles |-> roles, scope |-> scope] : o \in ops}
Public(under, ops) == Routes(under, ops, {"anyone"}, "none")
Only(under, ops, roles) == Routes(under, ops, roles, "none")
Scoped(under, ops, roles, scope) == Routes(under, ops, roles, scope)
Admin == {"ADMIN"}
Staffroom == {"ADMIN", "TEACHER"}
Bursary == {"ADMIN", "BURSAR"}

AuthRoutes ==
    Public("auth", {"login", "refresh", "logout", "forgotPassword", "resetPassword"})
    \cup Only("auth", {"me", "changePassword"}, AllRoles)
AdminRoutes == Only("admin", {"getSetupStatus"}, Admin)
UsersRoutes ==
    Only("users", {"createUser", "listUsers", "pendingActivation", "getUser", "activateUser",
                   "deactivateUser", "reissueCredentials", "updateEmail"}, Admin)
StudentsRoutes ==
    Only("students", {"createStudent", "listStudents", "bulkUpdateStatus", "updateStudent",
                      "reissueStudentCredentials", "createEnrollment", "transferStudent"}, Admin)
    \cup Only("students", {"searchStudents"}, Bursary)
    \cup Scoped("students", {"getStudent", "listEnrollments"}, AllRoles, "student")
    \cup Scoped("students", {"listStudentParents"}, AllRoles, "studentParents")
ParentsRoutes ==
    Only("parents", {"createParent", "listParents", "getParent", "updateParent", "linkChild",
                     "unlinkChild"}, Admin)
    \cup Only("parents", {"listMyChildren"}, {"PARENT"})
    \cup Scoped("parents", {"listChildren"}, {"ADMIN", "PARENT"}, "parent")
StaffRoutes ==
    Only("staff", {"createStaff", "listStaff", "updateStaff"}, Admin)
    \cup Scoped("staff", {"getStaff"}, AllRoles, "staff")
AuditRoutes == Only("audit-log", {"listAuditLog"}, Admin)
SchoolRoutes ==
    Only("school", {"getSchool"}, AllRoles) \cup Only("school", {"createSchool", "updateSchool"}, Admin)
AdmissionsRoutes ==
    Public("api", {"createEnquiry"})
    \cup Only("api", {"listEnquiries", "getEnquiry", "updateEnquiry", "convertEnquiry"}, Admin)
AcademicStructureRoutes ==
    Only("api", {"createAcademicSession", "setCurrentAcademicSession", "createTerm", "setCurrentTerm",
                 "createClass", "createSubject", "createClassSubjectAssignment",
                 "deleteClassSubjectAssignment", "createClassFormTeacher", "deleteClassFormTeacher"},
         Admin)
    \cup Only("api", {"listAcademicSessions", "listTerms", "listClasses", "listSubjects"}, AllRoles)
    \cup Only("api", {"listAssignments", "listClassFormTeachers"}, Staffroom)
    \cup Scoped("api", {"listClassStudents"}, {"ADMIN", "BURSAR", "TEACHER"}, "roster")
GradingRoutes ==
    Only("api", {"createAssessmentComponent", "updateAssessmentComponent", "deleteAssessmentComponent",
                 "createGradingScale", "createGradeBand", "updateGradeBand", "deleteGradeBand"}, Admin)
    \cup Only("api", {"listAssessmentComponents", "getGradingScale"}, AllRoles)
ScoresRoutes ==
    Scoped("api", {"getRoster", "getScoresForAssignment", "bulkUpsertScores", "submitScores"},
           Staffroom, "assignment")
    \cup Scoped("students", {"getScoresForStudent"}, AllRoles, "student")
ResultsRoutes ==
    Only("api", {"computeResults", "finalizeResult", "rankClassResults", "overrideResult",
                 "releaseWithholding", "computeSessionResults", "writePrincipalComment"}, Admin)
    \cup Scoped("api", {"getResultForStudentTerm", "getSessionResult"}, AllRoles, "student")
    \cup Scoped("students", {"listResultsForStudent"}, AllRoles, "student")
    \cup Scoped("api", {"listResultsForClass"}, Staffroom, "classResults")
    \cup Scoped("api", {"writeClassTeacherComment"}, Staffroom, "comment")
RatingsRoutes ==
    Only("api", {"createTrait", "updateTrait", "deactivateTrait"}, Admin)
    \cup Only("api", {"listTraits", "listRatingScale"}, AllRoles)
    \cup Scoped("api", {"bulkUpsertRatings"}, Staffroom, "classResults")
AttendanceRoutes ==
    Only("api", {"openSession", "scan", "closeSession", "correctRecord", "getAttendanceForClass"},
         Staffroom)
    \cup Scoped("students", {"getAttendanceForStudent"}, AllRoles, "student")
    \cup Scoped("students", {"rotateQrCode", "getActiveQrCode"}, {"ADMIN", "STUDENT"}, "qrCode")
FeesRoutes ==
    Only("api", {"createFeeStructure", "listFeeStructures", "updateFeeStructure", "deleteFeeStructure",
                 "generateObligations", "updateObligation", "confirmPayment", "rejectPayment",
                 "listPayments", "getFeesSummary"}, Bursary)
    \cup Scoped("students", {"listObligations", "listStudentPayments", "getStudentStatement"},
                AllRoles, "financials")
    \cup Scoped("api", {"getFeeObligation"}, AllRoles, "obligation")
    \cup Scoped("api", {"recordPayment"}, AllRoles, "pay")
    \cup Scoped("api", {"getReceipt", "getPayment"}, AllRoles, "payment")
NotificationsRoutes ==
    Only("api", {"listMyNotifications", "markAllRead"}, AllRoles)
    \cup Only("api", {"listDeliveries"}, Admin)
    \cup Scoped("api", {"markRead"}, AllRoles, "notification")
    \cup Only("api", {"triggerFeeReminders"}, Bursary)
MadrassahRoutes ==
    Only("api", {"createProgress"}, {"TEACHER"}) \cup Only("api", {"listSurahs"}, AllRoles)
    \cup Scoped("students", {"listProgress"}, AllRoles, "student")
TimetableRoutes ==
    Only("api", {"createTimeSlot", "createTimetableEntry", "deleteTimetableEntry"}, Admin)
    \cup Only("api", {"listTimeSlots"}, AllRoles)
    \cup Scoped("api", {"getClassTimetable"}, AllRoles, "timetable")
    \cup Scoped("staff", {"getTeacherTimetable"}, AllRoles, "staff")
ReportsRoutes ==
    Only("reports", {"getDefaulters", "getCollections", "getPaymentHistory", "getTermSummary"}, Bursary)

(* routeMounts, in order: where a router is mounted, whether it asks for a  *)
(* token and a role of every request that comes by, and its routes.         *)
Mount(at, blanket, routes) == [at |-> at, blanket |-> blanket, routes |-> routes]
Anyone == AllRoles \cup {"anyone"}
Mounts == <<
    Mount("auth", Anyone, AuthRoutes), Mount("admin", Admin, AdminRoutes),
    Mount("users", Admin, UsersRoutes), Mount("students", AllRoles, StudentsRoutes),
    Mount("parents", AllRoles, ParentsRoutes), Mount("staff", AllRoles, StaffRoutes),
    Mount("audit-log", Admin, AuditRoutes), Mount("school", AllRoles, SchoolRoutes),
    Mount("api", Anyone, AdmissionsRoutes), Mount("api", AllRoles, AcademicStructureRoutes),
    Mount("api", AllRoles, GradingRoutes), Mount("api", AllRoles, ScoresRoutes),
    Mount("api", AllRoles, ResultsRoutes), Mount("api", AllRoles, RatingsRoutes),
    Mount("api", AllRoles, AttendanceRoutes), Mount("api", AllRoles, FeesRoutes),
    Mount("api", AllRoles, NotificationsRoutes), Mount("api", AllRoles, MadrassahRoutes),
    Mount("api", AllRoles, TimetableRoutes), Mount("reports", Bursary, ReportsRoutes) >>

AllRoutes == UNION {Mounts[i].routes : i \in DOMAIN Mounts}
RouteOf == [op \in {r.op : r \in AllRoutes} |-> CHOOSE r \in AllRoutes : r.op = op]
MountOf == [op \in DOMAIN RouteOf |-> CHOOSE i \in DOMAIN Mounts : RouteOf[op] \in Mounts[i].routes]

(* A request meets the blanket guard of every router mounted before its own *)
(* at "/api" or at its own segment, then the guards of its route.           *)
Gates == [op \in DOMAIN RouteOf |->
    {RouteOf[op].roles} \cup {Mounts[j].blanket : j \in
        {i \in 1 .. MountOf[op] : Mounts[i].at \in {"api", RouteOf[op].under}}}]
RequireRole(roles, allowed) == roles \cap allowed # {}
PassesGate(roles, op) == \A allowed \in Gates[op] : RequireRole(roles, allowed)

(* The resolver of each scope; x holds the rows the route's ids lead to.    *)
RequireScope(k, scope, x) ==
    CASE scope = "none"           -> TRUE
      [] scope = "student"        -> CanReadStudent(k, x.pupil)
      [] scope = "studentParents" -> CanReadStudentParents(k, x.pupil)
      [] scope = "financials"     -> CanReadStudentFinancials(k, x.pupil)
      [] scope = "payment"        -> CanReadPayment(k, x.pupil)
      [] scope = "obligation"     -> CanReadFeeObligation(k, x.pupil)
      [] scope = "pay"            -> CanCreatePaymentForObligation(k, x.pupil)
      [] scope = "qrCode"         -> CanManageStudentQrCode(k, x.pupil)
      [] scope = "comment"        -> CanWriteClassTeacherComment(k, x.pupil, x.session)
      [] scope = "parent"         -> CanReadParent(k, x.parent)
      [] scope = "staff"          -> CanReadStaff(k, x.staff)
      [] scope = "assignment"     -> CanActOnAssignment(k, x.assignment)
      [] scope = "roster"         -> CanReadClassRoster(k, x.room, x.session)
      [] scope = "classResults"   -> CanReadClassResults(k, x.room, x.session)
      [] scope = "timetable"      -> CanReadClassTimetable(k, x.room)
      [] scope = "notification"   -> CanManageOwnNotification(k, x.mine)
LetIn == [op \in DOMAIN RouteOf |-> {u \in Caller : PassesGate(Claims[u].roles \cup {"anyone"}, op)}]
MayCall(u, op, x) == u \in LetIn[op] /\ RequireScope(Claims[u], RouteOf[op].scope, x)
About(p) == [pupil |-> p]

=============================================================================
