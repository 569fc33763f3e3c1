\* A class of two, computed, finalized and ranked by two requests at a time.
CONSTANTS
    Student = {s1, s2}
    Mover = {}
    Avg <- MCAvg
    MaxDays = 0
    MaxOverrides = 0
    Operation = {"compute", "finalize", "rank"}
    Request = {r1, r2}
    Null = Null
SPECIFICATION Spec
SYMMETRY MCSymmetry
INVARIANT FullClassIsRanked
