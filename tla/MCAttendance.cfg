\* Three scans, closes or rotations at a time; three codes, so a student's code
\* can be rotated twice while the other has none.
CONSTANTS
    Student = {s1, s2}
    Code = {k1, k2, k3}
    Request = {r1, r2, r3}
    Null = Null
SPECIFICATION Spec
SYMMETRY MCSymmetry
INVARIANTS
    TypeOK
    ActiveCodeIsNewest
PROPERTIES
    RegisterComplete
    ImplementsRegister
