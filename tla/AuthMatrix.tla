----------------------------- MODULE AuthMatrix -----------------------------
(* What the guards of Access are checked against: the authorization matrix, *)
(* the snapshot of sensitive routes and the list of public routes that the  *)
(* repository keeps as data, read in every state the relationships can be   *)
(* in and not only in the one each row of the matrix builds.                *)
EXTENDS Access, TLC

(* The actors of a row allowed through and turned away. A staffParent is a  *)
(* teacher and the pupil's parent, or teaches the row's assignment, or      *)
(* neither.                                                                 *)
Cases(allowed, denied) == [allowed |-> allowed, denied |-> denied]
Strangers == {"unassignedTeacher", "unlinkedParent", "otherStudent"}
Actors == Strangers \cup {"admin", "bursar", "assignedTeacher", "formTeacher", "linkedParent",
                          "ownStudent", "staffParent", "staffParentTeaching", "disjointStaffParent"}

StudentScopeCases ==
    Cases({"admin", "assignedTeacher", "linkedParent", "ownStudent", "staffParent"},
          Strangers \cup {"bursar"})
StudentFinancialsCases ==
    Cases({"admin", "bursar", "linkedParent", "ownStudent", "staffParent"},
          Strangers \cup {"assignedTeacher"})
PaymentCreateCases ==
    Cases({"admin", "bursar", "linkedParent"}, Strangers \cup {"assignedTeacher", "ownStudent"})
AssignmentCases == Cases({"admin", "assignedTeacher"}, Strangers \cup {"bursar"})
ClassRosterCases ==
    Cases({"admin", "bursar", "assignedTeacher"}, {"unassignedTeacher", "linkedParent", "otherStudent"})
ClassTeacherCommentCases ==
    Cases({"admin", "formTeacher"}, Strangers \cup {"assignedTeacher", "bursar"})
StaffScopeCases == Cases({"admin", "assignedTeacher"}, Strangers \cup {"bursar"})
ParentScopeCases ==
    Cases({"admin", "linkedParent"}, {"unlinkedParent", "assignedTeacher", "bursar", "otherStudent"})
QrCodeCases ==
    Cases({"admin", "ownStudent"}, {"otherStudent", "assignedTeacher", "bursar", "unlinkedParent"})
StudentParentsCases ==
    Cases({"admin", "assignedTeacher", "ownStudent"}, Strangers \cup {"bursar", "linkedParent"})
TimetableCases ==
    Cases({"admin", "assignedTeacher", "unassignedTeacher", "linkedParent", "ownStudent"},
          {"bursar", "unlinkedParent", "otherStudent"})
NotificationCases ==
    Cases({"admin", "linkedParent"}, {"unlinkedParent", "bursar", "otherStudent"})

StaffParentDenied == Cases({}, {"disjointStaffParent"})

(* buildBespokeRows: the routes with a scope, each with its cases; a route  *)
(* may have several rows.                                                   *)
Rows(ops, cases) == {[op |-> o, cases |-> cases] : o \in ops}
PupilRows ==
    Rows({"getStudent", "listEnrollments", "getAttendanceForStudent", "getScoresForStudent",
          "listProgress", "getResultForStudentTerm", "listResultsForStudent", "getSessionResult"},
         StudentScopeCases)
    \cup Rows({"listStudentParents"}, StudentParentsCases)
    \cup Rows({"rotateQrCode", "getActiveQrCode"}, QrCodeCases)
    \cup Rows({"listChildren"}, ParentScopeCases)
    \cup Rows({"listObligations", "listStudentPayments", "getReceipt", "getPayment",
               "getStudentStatement", "getFeeObligation"}, StudentFinancialsCases)
    \cup Rows({"recordPayment"}, PaymentCreateCases)
TeacherRows ==
    Rows({"getRoster", "getScoresForAssignment", "bulkUpsertScores", "submitScores"}, AssignmentCases)
    \cup Rows({"getRoster"}, Cases({"staffParentTeaching"}, {}))
    \cup Rows({"getStaff", "getTeacherTimetable"}, StaffScopeCases)
    \cup Rows({"getClassTimetable"}, TimetableCases)
    \cup Rows({"listClassStudents"}, ClassRosterCases)
    \cup Rows({"writeClassTeacherComment", "listResultsForClass", "bulkUpsertRatings"},
              ClassTeacherCommentCases)
NotificationRows == Rows({"markRead"}, NotificationCases)
DisjointRows ==
    Rows({"getStudent", "listEnrollments", "getAttendanceForStudent", "getScoresForStudent",
          "listProgress", "getResultForStudentTerm", "listResultsForStudent", "listObligations",
          "listStudentPayments", "getReceipt"}, StaffParentDenied)
BespokeRows == PupilRows \cup TeacherRows \cup NotificationRows \cup DisjointRows

AllowedTo == [actor \in Actors |-> {row.op : row \in {b \in BespokeRows : actor \in b.cases.allowed}}]
DeniedTo == [actor \in Actors |-> {row.op : row \in {b \in BespokeRows : actor \in b.cases.denied}}]

(* The worlds buildSharedWorld builds one of: a pupil in a class of the     *)
(* current session, an assignment of that class and a linked parent.        *)
World ==
    {x \in {[pupil |-> l[1], parent |-> l[2], assignment |-> a, staff |-> a[1], room |-> a[2],
             session |-> a[3]] : l \in linked, a \in {b \in teaching : b[3] = now}} :
        Sits(x.pupil, now) /\ seat[<<x.pupil, now>>].room = x.room}

Classmates(x) == {p \in Pupil : Sits(p, x.session) /\ seat[<<p, x.session>>].room = x.room}
Connected(t, x) ==
    <<t, x.room, x.session>> \in teaching \/ IsFormTeacherOfClass(t, x.room, x.session)
Plays(k, actor, x) ==
    LET only(role) == k.roles = {role}
        dual == k.roles = {"TEACHER", "PARENT"}
        apart == dual /\ ~Connected(k.staff, x)
        isChild == <<x.pupil, k.parent>> \in linked
    IN CASE actor = "admin" -> only("ADMIN")
         [] actor = "bursar" -> only("BURSAR")
         [] actor = "assignedTeacher" ->
               only("TEACHER") /\ k.staff = x.staff /\ ~IsFormTeacherOfClass(k.staff, x.room, x.session)
         [] actor = "formTeacher" -> only("TEACHER") /\ IsFormTeacherOfClass(k.staff, x.room, x.session)
         [] actor = "unassignedTeacher" -> only("TEACHER") /\ ~Connected(k.staff, x)
         [] actor = "linkedParent" -> only("PARENT") /\ k.parent = x.parent
         [] actor = "unlinkedParent" -> only("PARENT") /\ \A p \in Classmates(x) : <<p, k.parent>> \notin linked
         [] actor = "ownStudent" -> only("STUDENT") /\ k.student = x.pupil
         [] actor = "otherStudent" -> only("STUDENT") /\ k.student \notin Classmates(x)
         [] actor = "staffParent" -> apart /\ isChild
         [] actor = "staffParentTeaching" -> dual /\ k.staff = x.staff
         [] actor = "disjointStaffParent" -> apart /\ ~isChild

(* The notification of the row belongs to the linked parent.                *)
Facing(k, x) ==
    [f \in DOMAIN x \cup {"mine"} |-> IF f = "mine" THEN k.parent = x.parent ELSE x[f]]

(* buildAutoRows: routes guarded by roles alone.                            *)
AutoRoutes == {r \in AllRoutes : r.scope = "none" /\ r.roles # {"anyone"}}

SensitiveRouteRoles ==
    [op \in {"computeResults", "finalizeResult", "overrideResult", "releaseWithholding", "createUser",
             "activateUser", "deactivateUser", "reissueStudentCredentials", "reissueCredentials",
             "updateEmail", "bulkUpdateStatus", "transferStudent", "createAcademicSession",
             "setCurrentAcademicSession", "createTerm", "setCurrentTerm", "updateAssessmentComponent",
             "deleteAssessmentComponent", "updateGradeBand", "deleteGradeBand"} |-> Admin]
    @@ [op \in {"bulkUpsertRatings"} |-> Staffroom]
    @@ [op \in {"triggerFeeReminders", "confirmPayment", "updateFeeStructure",
                "deleteFeeStructure", "updateObligation"} |-> Bursary]

PublicRoutes == {"login", "refresh", "logout", "forgotPassword", "resetPassword", "createEnquiry"}

(* The routers as mounted let through, of those with a single role, exactly *)
(* whom the public list, the role rows and the snapshot say.                *)
ASSUME RolesAreTheDocumentedOnes ==
    /\ {op \in DOMAIN RouteOf : PassesGate({"anyone"}, op)} = PublicRoutes
    /\ \A r \in AutoRoutes : {role \in AllRoles : PassesGate({role, "anyone"}, r.op)} = r.roles
    /\ \A op \in DOMAIN SensitiveRouteRoles :
          {role \in AllRoles : PassesGate({role, "anyone"}, op)} = SensitiveRouteRoles[op]

-----------------------------------------------------------------------------
(* Properties *)

(* The accounts a payment confirmation or a fee reminder about a pupil goes *)
(* to: every linked parent's (notifyPaymentConfirmed, triggerFeeReminders). *)
Recipients(p) == {u \in Caller : Claims[u].parent # Null /\ <<p, Claims[u].parent>> \in linked}
AboutMoney == {"getPayment", "getReceipt", "getFeeObligation", "listObligations",
               "listStudentPayments", "getStudentStatement"}

(* Whoever is told about a pupil's money can open it and pay it, and besides *)
(* them only the pupil and the office can open it: through every change of  *)
(* links, enrolments, assignments and sessions, for accounts that hold two  *)
(* roles, and past the guards of every router on the way                    *)
(* (scopeResolvers.ts:195-273, fees.service.ts:360-384, app.ts:40-69).      *)
RecipientsAreReaders ==
    \A p \in Pupil :
        LET told == Recipients(p)  self == {u \in Caller : Claims[u].student = p} IN
        \A u \in {v \in Caller : ~Office(Claims[v])} :
            /\ \A op \in AboutMoney : MayCall(u, op, About(p)) <=> u \in told \cup self
            /\ MayCall(u, "recordPayment", About(p)) <=> u \in told

(* The guards of teachers agree with each other: whoever can enter a sheet  *)
(* of this session can list its class and open every pupil sitting in it,   *)
(* whoever can comment on a pupil can list that class's results, and a      *)
(* teacher sees a pupil's unpublished records only while some sheet of the  *)
(* pupil's class is theirs (scopeResolvers.ts:9-43, 144-190, 330-381).      *)
TeachersSeeTheirClasses ==
    \A u \in Caller :
        /\ \A a \in teaching :
              LET x == [assignment |-> a, room |-> a[2], session |-> a[3]] IN
              a[3] = now /\ MayCall(u, "bulkUpsertScores", x) =>
                  /\ MayCall(u, "listClassStudents", x)
                  /\ \A p \in Pupil : Sits(p, now) /\ seat[<<p, now>>].room = a[2]
                                       => StudentAccessLevel(Claims[u], p) = "FULL"
        /\ \A p \in Pupil :
              /\ \A s \in Session :
                    seat[<<p, s>>] # Null /\ MayCall(u, "writeClassTeacherComment", [pupil |-> p, session |-> s])
                    => MayCall(u, "listResultsForClass", [room |-> seat[<<p, s>>].room, session |-> s])
              /\ StudentAccessLevel(Claims[u], p) = "FULL" /\ ~Has(Claims[u], "ADMIN")
                    => \E a \in teaching : a[1] = Claims[u].staff /\ a[3] = now /\ seat[<<p, now>>].room = a[2]

GuardsAgree == RecipientsAreReaders /\ TeachersSeeTheirClasses

(* Every row of the matrix holds for every account that plays one of its    *)
(* actors, in every state of links, enrolments, assignments, form classes   *)
(* and sessions in which its world exists (authMatrix.data.ts:439-656).     *)
MatrixHolds ==
    \A x \in World, u \in Caller :
        LET playing == {actor \in Actors : Plays(Claims[u], actor, x)}
            facing == Facing(Claims[u], x)
        IN \A actor \in playing :
              /\ \A op \in AllowedTo[actor] : MayCall(u, op, facing)
              /\ \A op \in DeniedTo[actor] : ~MayCall(u, op, facing)
=============================================================================
