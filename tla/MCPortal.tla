----------------------------- MODULE MCPortal -----------------------------
(* The instance of Portal for TLC.                                          *)
EXTENDS Portal

CONSTANTS s1, e1, p1, p2, p3, p4, a1, a2, b1, b2, w1, w2, k1, k2, c1, c2, c3, f1,
          x1, x2, g1, g2, t1, t2, r1, r2, y1, y2, ua, ub, ut, ug, tb, usg, up, uo,
          m1, m2, d1, d2, d3, v1, v2

MCGrade == c1 :> "g1" @@ c2 :> "g1" @@ c3 :> "g2"

\* Three sessions, and a term of the first.
MCScopeOf == p1 :> "session" @@ p2 :> "session" @@ p3 :> "session" @@ p4 :> p1
MCClassOf == a1 :> c1 @@ a2 :> c2
MCTeacherOf == [a \in {a1, a2} |-> t1]
MCFirstPeriods == {p1, p4}
MCFirstComponents == w1 :> 2 @@ w2 :> 2
MCFirstBands == b1 :> [min |-> 0, max |-> 1] @@ b2 :> [min |-> 2, max |-> 4]
\* A bound moved alone, or both together.
MCPatch ==
    [min : {Null}, max : 1 .. 4] \cup [min : 0 .. 3, max : {Null}] \cup {[min |-> 2, max |-> 4]}

MCLevel == c1 :> "g1" @@ c2 :> "g2"
MCOffer == {[scope |-> "everyone", termly |-> TRUE, kobo |-> 2],
            [scope |-> "g1", termly |-> FALSE, kobo |-> 2]}
MCFirstBills ==
    [structures |-> f1 :> [scope |-> "everyone", termly |-> TRUE, kobo |-> 2],
     children |-> k1 :> c1 @@ k2 :> c1]

\* One account for each role, one for a member of staff who is a parent, and
\* one for a student nobody else is connected to.
Token(roles, t, g, p) == [roles |-> roles, staff |-> t, parent |-> g, student |-> p]
MCClaims ==
    ua :> Token({"ADMIN"}, Null, Null, Null) @@ ub :> Token({"BURSAR"}, tb, Null, Null)
    @@ ut :> Token({"TEACHER"}, t1, Null, Null) @@ ug :> Token({"PARENT"}, Null, g1, Null)
    @@ usg :> Token({"PARENT", "TEACHER"}, t2, g2, Null)
    @@ up :> Token({"STUDENT"}, Null, Null, k1) @@ uo :> Token({"STUDENT"}, Null, Null, k2)
MCLinkRow == {k1} \X Guardian
MCSeatRow == {k1} \X Session \X Room \cup {<<k2, y1, r1>>}
MCTeachRow == {<<t1, r1, y1>>, <<t1, r2, y2>>, <<t2, r2, y1>>, <<tb, r1, y1>>}
MCFormRow == {<<r1, y1, t1>>, <<r1, y1, t2>>}

MCDebtTerm == d1 :> m1 @@ d2 :> m2 @@ d3 :> Null
MCFirstMailbox == [mail |-> v1 :> x1, inbox |-> v1 :> x1 @@ v2 :> x2]
=============================================================================
