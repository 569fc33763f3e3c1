\* Two confirmations overlap, each covering half of the obligation.
CONSTANTS
    Payment = {p1, p2}
    Amount = {1}
    Due = {2}
    Reference = {b1}
    Request = {r1, r2}
    Null = Null
SPECIFICATION Spec
INVARIANT StatusTracksPayments
