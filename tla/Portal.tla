------------------------------- MODULE Portal -------------------------------
(* The portal's offices side by side. They share a process and a database,  *)
(* but for the setup report, which reads the calendar and the grading       *)
(* configuration together, none of them reads another's rows while writing: *)
(* a behaviour follows one office at a time, and in another's scene a       *)
(* component keeps the rows it starts with.                                 *)
EXTENDS Onboarding, Setup, Billing, AuthMatrix, ReportCard, Notices

CONSTANTS
    KnownStudent,     \* the student registered when logins and enrolments begin
    FirstPeriods,     \* the session and the term created before the switches begin
    FirstComponents, FirstBands,   \* a grading configuration that is complete
    FirstBills,       \* the structures and the children billed before payments begin
    Newcomer,         \* the child whose enrolment changes meanwhile
    FirstMailbox      \* the accounts there are, and their addresses

(* What the offices open with is what their own handlers could have written. *)
ASSUME PortalAssumption ==
    /\ KnownStudent \in Student
    /\ \A S \in {Year, School, Bursar, Pen, Task} : S # {}
    /\ FirstPeriods \subseteq Period
    /\ \A p, q \in FirstPeriods : ScopeOf[p] = ScopeOf[q] => p = q
    /\ DOMAIN FirstComponents \subseteq Component /\ DOMAIN FirstBands \subseteq Band
    /\ \A c \in DOMAIN FirstComponents : FirstComponents[c] \in Weight
    /\ \A a, b \in DOMAIN FirstBands :
          /\ FirstBands[a] \in Span
          /\ a # b => ~BandsOverlap(FirstBands[a].min, FirstBands[a].max, FirstBands[b].min, FirstBands[b].max)
    /\ Newcomer \in Child
    /\ DOMAIN FirstBills.structures \subseteq Structure /\ DOMAIN FirstBills.children \subseteq Child
    /\ \A f \in DOMAIN FirstBills.structures : FirstBills.structures[f] \in Tariff
    /\ \A k \in DOMAIN FirstBills.children : FirstBills.children[k] \in Form
    /\ \A x \in {"mail", "inbox"} :
          /\ DOMAIN FirstMailbox[x] \subseteq Addressee
          /\ \A u \in DOMAIN FirstMailbox[x] : FirstMailbox[x][u] \in Address

VARIABLE scene

portalVars == <<scene, onboardingVars, setupVars, billingVars, accessVars, cardVars, noticeVars>>

Scene == {"registry", "logins", "enrolment", "calendar", "assignments", "bands", "components",
          "bills", "payments", "access", "publishing", "rating", "mail", "inbox"}

Nothing == [x \in {} |-> Null]
Settlers == [k \in DOMAIN FirstBills.children \ {Newcomer} |-> FirstBills.children[k]]
FirstNumber == [prefix |-> <<"student", CHOOSE y \in Year : TRUE>>, seq |-> 1]

(* The offices a scene needs open with rows in them, the others empty.      *)
PortalInit ==
    /\ scene \in Scene
    /\ IF scene \in {"logins", "enrolment"}
       THEN OnboardingStart([s \in {KnownStudent} |-> FirstNumber], CHOOSE y \in Year : TRUE)
       ELSE IF scene = "registry" THEN OnboardingInit ELSE OnboardingStart(Nothing, Null)
    /\ IF scene \in {"bands", "components"}
       THEN /\ CalendarStart(FirstPeriods, {}, {CHOOSE s \in School : TRUE}, FirstPeriods)
            /\ furnished = Furniture
       ELSE /\ CalendarStart(IF scene = "calendar" THEN FirstPeriods ELSE {}, {}, {}, {})
            /\ furnished = IF scene = "calendar" THEN Furniture ELSE {}
    /\ GradingStart(IF scene \in {"calendar", "components"} THEN FirstBands ELSE Nothing,
                    IF scene \in {"calendar", "bands"} THEN FirstComponents ELSE Nothing)
    /\ IF scene = "payments" THEN BillingStart(FirstBills.structures, FirstBills.children)
       ELSE BillingStart(Nothing, IF scene = "bills" THEN Settlers ELSE Nothing)
    /\ AccessInit
    /\ ReportCardInit
    /\ NoticesStart(IF scene \in {"mail", "inbox"} THEN FirstMailbox[scene] ELSE Nothing)

One(S) == {CHOOSE x \in S : TRUE}

OnboardingScene ==
    /\ \/ scene = "registry" /\ RegistryNext
       \/ scene = "logins" /\ LoginNext
       \/ scene = "enrolment" /\ EnrolNext
    /\ UNCHANGED <<setupVars, billingVars, accessVars, cardVars, noticeVars>>
CalendarScene ==
    /\ \/ scene = "calendar" /\ SwitchNext
       \/ scene = "assignments" /\ AssignmentNext
    /\ UNCHANGED <<onboardingVars, gradingVars, furnished, billingVars, accessVars, cardVars, noticeVars>>
GradingScene ==
    /\ \/ scene = "bands" /\ BandNext /\ UNCHANGED <<calendarVars, furnished>>
       \/ scene = "components" /\ ComponentNext /\ UNCHANGED <<calendarVars, furnished>>
       \/ scene = "components" /\ FurnishNext
    /\ UNCHANGED <<onboardingVars, billingVars, accessVars, cardVars, noticeVars>>
BillingScene ==
    /\ \/ scene = "bills" /\ BillNext({Newcomer})
       \/ scene = "payments" /\ PayNext({Newcomer})
    /\ UNCHANGED <<onboardingVars, setupVars, accessVars, cardVars, noticeVars>>
AccessScene ==
    /\ scene = "access" /\ AccessNext
    /\ UNCHANGED <<onboardingVars, setupVars, billingVars, cardVars, noticeVars>>
CardScene ==
    /\ \/ scene = "publishing" /\ PublishNext(One(Pen))
       \/ scene = "rating" /\ RateNext
    /\ UNCHANGED <<onboardingVars, setupVars, billingVars, accessVars, noticeVars>>
NoticeScene ==
    /\ \/ scene = "mail" /\ MailNext
       \/ scene = "inbox" /\ InboxNext(One(Task))
    /\ UNCHANGED <<onboardingVars, setupVars, billingVars, accessVars, cardVars>>

PortalNext ==
    /\ scene' = scene
    /\ \/ OnboardingScene \/ CalendarScene \/ GradingScene \/ BillingScene
       \/ AccessScene \/ CardScene \/ NoticeScene

(* Only the server's own steps are fair: nobody has to send a request.      *)
PortalSpec == PortalInit /\ [][PortalNext]_portalVars /\ NoticesFairness

-----------------------------------------------------------------------------
PortalTypeOK ==
    /\ scene \in Scene
    /\ OnboardingTypeOK /\ SetupTypeOK /\ BillingTypeOK
    /\ AccessTypeOK /\ ReportCardTypeOK /\ NoticesTypeOK

(* GuardsAgree wherever the relationships it speaks of change: whoever is   *)
(* told about a pupil's money can open it, and a teacher's guards agree     *)
(* (scopeResolvers.ts:9-273, 330-381, app.ts:40-69).                        *)
AccessAgrees == scene = "access" => GuardsAgree
=============================================================================
