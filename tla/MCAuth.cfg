\* One account, three refresh tokens, two requests at a time.
CONSTANTS
    Token = {t1, t2, t3}
    Reset = {k1}
    MaxGen = 1
    Request = {r1, r2}
    Null = Null
SPECIFICATION Spec
SYMMETRY MCSymmetry
INVARIANTS
    TypeOK
    OneSuccessor
    ResetUsedOnce
    SessionsFollowPassword
    InactiveHasNoSession
