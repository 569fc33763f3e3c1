\* Every operation on the result of one student who may come and go.
CONSTANTS
    Student = {s1}
    Mover = {s1}
    Avg = {1}
    MaxDays = 1
    MaxOverrides = 1
    Operation = {"compute", "finalize", "rank", "override", "release"}
    Request = {r1, r2}
    Null = Null
SPECIFICATION FairSpec
INVARIANT ReleaseRecordedOnce
PROPERTIES
    FinalMarksChangeByOverride
    EveryRequestAnswered
