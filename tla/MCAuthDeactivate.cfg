\* A login, a refresh or a crash while an administrator deactivates the account.
CONSTANTS
    Token = {t1, t2}
    Reset = {}
    MaxGen = 0
    Request = {r1, r2}
    Null = Null
SPECIFICATION Spec
INVARIANT DeactivationKillsSessions
