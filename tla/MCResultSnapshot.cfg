\* Two administrators finalize the same result while an attendance session closes.
CONSTANTS
    Student = {s1}
    Mover = {}
    Avg = {1}
    MaxDays = 1
    MaxOverrides = 0
    Operation = {"compute", "finalize"}
    Request = {r1, r2}
    Null = Null
SPECIFICATION Spec
PROPERTY SnapshotTakenOnce
