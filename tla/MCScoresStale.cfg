\* An edit commits between the reads of a submission and its transaction.
CONSTANTS
    Student = {s1, s2}
    Mover = {s2}
    Component = {c1}
    Raw <- MCRaw
    MaxScore <- MCMaxScore
    Request = {r1, r2}
    Null = Null
SPECIFICATION Spec
INVARIANT ResultAgreesWithSheet
