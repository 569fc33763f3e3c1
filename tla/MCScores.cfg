\* Two requests on a sheet of two students and one component; the mark 2 is
\* above the component's maximum and must be refused.
CONSTANTS
    Student = {s1, s2}
    Mover = {s2}
    Component = {c1}
    Raw <- MCRaw
    MaxScore <- MCMaxScore
    Request = {r1, r2}
    Null = Null
SPECIFICATION FairSpec
INVARIANTS
    TypeOK
    SubmittedHasResult
PROPERTIES
    SubmittedIsFrozen
    AcknowledgedBatchApplied
    SubmitMarksAllItCounted
    EveryRequestAnswered
