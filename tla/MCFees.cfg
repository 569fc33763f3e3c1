\* Three claims under one bank reference or none, decided by two requests.
CONSTANTS
    Payment = {p1, p2, p3}
    Amount <- MCAmount
    Due <- MCDue
    Reference = {b1}
    Request = {r1, r2}
    Null = Null
SPECIFICATION Spec
SYMMETRY MCSymmetry
INVARIANTS
    TypeOK
    StatusNotOverstated
PROPERTY ImplementsLedger
