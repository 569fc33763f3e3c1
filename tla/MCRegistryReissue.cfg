\* One session, two numbers, and an enquiry converted under a number typed in.
CONSTANTS
    Null = Null
    c1 = c1
    c2 = c2
    Student = {s1, s2}
    Staff = {t3}
    Parent = {q1}
    Enquiry = {e1}
    Account = {u1, u2}
    Year = {y1}
    MaxSequence = 2
    MaxIssue = 2
    Class = {c1, c2}
    Grade <- MCGrade
    Clerk = {n1, n2}
SPECIFICATION OnboardingSpec
INVARIANT GeneratedIsFree
CHECK_DEADLOCK FALSE
