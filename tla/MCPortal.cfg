\* Every office in a scene of its own.
CONSTANTS
    Null = Null
    s1 = s1  e1 = e1  p1 = p1  p2 = p2  p3 = p3  p4 = p4  a1 = a1  a2 = a2
    b1 = b1  b2 = b2  w1 = w1  w2 = w2  k1 = k1  k2 = k2
    c1 = c1  c2 = c2  c3 = c3  f1 = f1  x1 = x1  x2 = x2
    g1 = g1  g2 = g2  t1 = t1  t2 = t2  tb = tb  r1 = r1  r2 = r2  y1 = y1  y2 = y2
    ua = ua  ub = ub  ut = ut  ug = ug  usg = usg  up = up  uo = uo
    m1 = m1  m2 = m2  d1 = d1  d2 = d2  d3 = d3  v1 = v1  v2 = v2
    \* Onboarding
    Student = {s1, s2}
    Staff = {t3}
    Parent = {q1, q2}
    Enquiry = {e1}
    Account = {u1, u2}
    Year = {y1}
    MaxSequence = 2
    MaxIssue = 2
    Class = {c1, c2, c3}
    Grade <- MCGrade
    Clerk = {n1, n2}
    KnownStudent = s1
    \* Calendar, Grading, Setup
    Period = {p1, p2, p3, p4}
    ScopeOf <- MCScopeOf
    School = {h1, h2}
    Assignment = {a1, a2}
    ClassOf <- MCClassOf
    TeacherOf <- MCTeacherOf
    Slot = {l1}
    Registrar = {n1, n2}
    Band = {b1, b2}
    Component = {w1, w2}
    Weight = {1, 2}
    Top = 4
    Patch <- MCPatch
    MaxRaces = 1
    Editor = {n1, n2}
    GradedSession = p1
    FirstPeriods <- MCFirstPeriods
    FirstComponents <- MCFirstComponents
    FirstBands <- MCFirstBands
    \* Billing
    Child = {k1, k2}
    Form = {c1, c2}
    Level <- MCLevel
    Structure = {f1}
    Kobo = {1, 2}
    Offer <- MCOffer
    MaxPayments = 2
    Bursar = {n1, n2}
    FirstBills <- MCFirstBills
    Newcomer = k1
    \* Access
    Pupil = {k1, k2}
    Guardian = {g1, g2}
    Teacher = {t1, t2, tb}
    Room = {r1, r2}
    Session = {y1, y2}
    Caller = {ua, ub, ut, ug, usg, up, uo}
    Claims <- MCClaims
    LinkRow <- MCLinkRow
    SeatRow <- MCSeatRow
    TeachRow <- MCTeachRow
    FormRow <- MCFormRow
    \* ReportCard
    Semester = {m1, m2}
    Debt = {d1, d2, d3}
    DebtTerm <- MCDebtTerm
    Value = {1}
    Pen = {n1, n2}
    MaxOverrides = 1
    \* Notices
    Addressee = {v1, v2}
    OnStaff = {}
    Address = {x1, x2}
    Task = {n1, n2}
    MaxNotices = 2
    MaxExits = 1
    MaxFailures = 1
    FirstMailbox <- MCFirstMailbox
SPECIFICATION PortalSpec
INVARIANTS
    PortalTypeOK
    NeverReissued
    OneStudentPerEnquiry
    CredentialsOpenTheAccount
    PasswordReachesSomeone
    LoginIsNumber
    OverlapNeedsARace
    ReadyMeansGraded
    BilledOnce
    SummaryMatchesDefaulters
    WithheldConsistently
    MatrixHolds
    AccessAgrees
PROPERTIES
    CurrentIsKept
    DeletedWhole
    RatingsFrozen
    ChangeIsAnnounced
    EveryDeliverySettles
\* Counters, notices and exits are bounded, and an office may have nothing left to do.
CHECK_DEADLOCK FALSE
