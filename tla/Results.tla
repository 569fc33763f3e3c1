------------------------------- MODULE Results -------------------------------
(***************************************************************************)
(* The term results of one class (src/modules/results/results.service.ts): *)
(* computed as drafts, finalized one student at a time, ranked once the    *)
(* class is complete, then overridden or released by an administrator.     *)
(*                                                                         *)
(* As in Scores, a request is a handler and an action is one statement at  *)
(* READ COMMITTED; a statement outside a transaction commits as it runs.   *)
(***************************************************************************)
EXTENDS Naturals, FiniteSets

CONSTANTS
    Student,       \* students of the grade level
    Mover,         \* those who join, leave or change arm during the term
    Avg,           \* averages a student may have
    MaxDays,       \* bound: attendance sessions closed while we watch
    MaxOverrides,  \* bound: overrides of one result
    Operation,     \* the handlers clients call in this instance
    Request,       \* concurrent requests
    Null

Handler == {"compute", "finalize", "rank", "override", "release"}

N     == Cardinality(Student)
Place == [position : 1 .. N, outOf : 1 .. N]
Row   == [status : {"DRAFT", "FINALIZED"}, avg : Avg \cup {Null},
          place : Place \cup {Null}, days : (0 .. MaxDays) \cup {Null}, released : BOOLEAN]
Computed == [avg : Avg \cup {Null}, place : Place \cup {Null}]

ASSUME ResultsAssumption ==
    /\ IsFiniteSet(Student)
    /\ Mover \subseteq Student
    /\ Avg \subseteq Nat
    /\ MaxDays \in Nat
    /\ MaxOverrides \in Nat
    /\ Operation \subseteq Handler
    /\ Null \notin Avg \cup Place \cup Row \cup Computed \cup Student \cup Request \cup Nat

VARIABLES
    enrolment,     \* in this class: "active", "closed"; "away": in none or in another arm
    standing,      \* average of the student's SUBMITTED subject results, Null if none
    attended,      \* days present in CLOSED attendance sessions
    result,        \* Result rows, committed
    overrides,     \* ResultOverride rows of a result, the releases apart
    releases,      \* ResultOverride rows for feeWithholdingReleased
    positionLock,  \* holder of the advisory lock result_position_fill
    pc,            \* what each request does next
    target,        \* the student a request is about
    cohort,        \* a finalize read that its result belongs to this class
    days,          \* attendance snapshot a finalize took
    activeCount,   \* enrolments a completeness check counted
    computed,      \* averages and places a compute or a ranking pass is to write
    toCreate,      \* results its createMany has still to insert
    toWrite,       \* results it has still to update
    buf,           \* rows written in its open transaction
    stray          \* history: something no ranking pass follows has happened

rows  == <<result, overrides, releases>>
world == <<enrolment, standing, attended>>
local == <<target, cohort, days, activeCount, computed, toCreate, toWrite, buf>>
vars  == <<world, rows, positionLock, pc, local, stray>>

Computing == {"existing", "computeWrite"}
Finalizing == {"attendance", "finalize"}
Ranking == {"lock", "countActive", "countFinalized", "rankRead", "rankWrite"}

TypeOK ==
    /\ enrolment \in [Student -> {"active", "closed", "away"}]
    /\ standing \in [Student -> Avg \cup {Null}]
    /\ attended \in [Student -> 0 .. MaxDays]
    /\ result \in [Student -> Row \cup {Null}]
    /\ overrides \in [Student -> 0 .. MaxOverrides]
    /\ releases \in [Student -> Nat]
    /\ positionLock \in Request \cup {Null}
    /\ pc \in [Request -> {"idle", "override", "audit"} \cup Computing \cup Finalizing \cup Ranking]
    /\ target \in [Request -> Student \cup {Null}]
    /\ cohort \in [Request -> BOOLEAN]
    /\ days \in [Request -> (0 .. MaxDays) \cup {Null}]
    /\ activeCount \in [Request -> Nat]
    /\ computed \in [Request -> [Student -> Computed \cup {Null}]]
    /\ toCreate \in [Request -> SUBSET Student]
    /\ toWrite \in [Request -> SUBSET Student]
    /\ buf \in [Request -> [Student -> Row \cup {Null}]]
    /\ stray \in BOOLEAN

None == [s \in Student |-> Null]

Init ==
    /\ enrolment \in [Student -> {"active", "away"}]
    /\ \A s \in Student \ Mover : enrolment[s] = "active"
    /\ standing \in [Student -> Avg \cup {Null}]
    /\ attended = [s \in Student |-> 0]
    /\ result = None
    /\ overrides = [s \in Student |-> 0]
    /\ releases = [s \in Student |-> 0]
    /\ positionLock = Null
    /\ pc = [r \in Request |-> "idle"]
    /\ target = [r \in Request |-> Null]
    /\ cohort = [r \in Request |-> FALSE]
    /\ days = [r \in Request |-> Null]
    /\ activeCount = [r \in Request |-> 0]
    /\ computed = [r \in Request |-> None]
    /\ toCreate = [r \in Request |-> {}]
    /\ toWrite = [r \in Request |-> {}]
    /\ buf = [r \in Request |-> None]
    /\ stray = FALSE

-----------------------------------------------------------------------------
(* Rows, locks and the end of a request *)

Active       == {s \in Student : enrolment[s] = "active"}
InClass(s)   == enrolment[s] # "away"
Exists(s)    == result[s] # Null
IsFinal(s)   == Exists(s) /\ result[s].status = "FINALIZED"

HeldByOther(r, s) == \E q \in Request \ {r} : buf[q][s] # Null

(* Locals die with the request; its transaction's rows and locks go.        *)
Finish(r) ==
    /\ pc' = [pc EXCEPT ![r] = "idle"]
    /\ target' = [target EXCEPT ![r] = Null]
    /\ cohort' = [cohort EXCEPT ![r] = FALSE]
    /\ days' = [days EXCEPT ![r] = Null]
    /\ activeCount' = [activeCount EXCEPT ![r] = 0]
    /\ computed' = [computed EXCEPT ![r] = None]
    /\ toCreate' = [toCreate EXCEPT ![r] = {}]
    /\ toWrite' = [toWrite EXCEPT ![r] = {}]
    /\ buf' = [buf EXCEPT ![r] = None]
    /\ positionLock' = IF positionLock = r THEN Null ELSE positionLock

Commit(r) ==
    /\ result' = [s \in Student |-> IF buf[r][s] # Null THEN buf[r][s] ELSE result[s]]
    /\ Finish(r)
    /\ UNCHANGED <<world, overrides, releases, stray>>

-----------------------------------------------------------------------------
(* computeResultsForClass *)

Scored == {s \in Active : standing[s] # Null}

(* position: index + 1 in the list sorted by average, equal averages in     *)
(* whatever order the rows came.                                           *)
LiveOrders ==
    {p \in [Scored -> 1 .. Cardinality(Scored)] :
        \A a, b \in Scored : a # b => /\ p[a] # p[b]
                                      /\ standing[a] > standing[b] => p[a] < p[b]}

LivePlace(p) == [position |-> p, outOf |-> Cardinality(Scored)]

(* The reads, outside the transaction. *)
ComputeRead(r) ==
    /\ "compute" \in Operation
    /\ pc[r] = "idle"
    /\ Active # {}
    /\ \E p \in LiveOrders :
          computed' = [computed EXCEPT ![r] =
              [s \in Student |->
                  IF s \in Active
                  THEN [avg |-> standing[s],
                        place |-> IF s \in Scored THEN LivePlace(p[s]) ELSE Null]
                  ELSE Null]]
    /\ pc' = [pc EXCEPT ![r] = "existing"]
    /\ UNCHANGED <<world, rows, positionLock, target, cohort, days, activeCount,
                   toCreate, toWrite, buf, stray>>

Roster(r) == {s \in Student : computed[r][s] # Null}

ComputeExisting(r) ==
    /\ pc[r] = "existing"
    /\ pc' = [pc EXCEPT ![r] = "computeWrite"]
    /\ toCreate' = [toCreate EXCEPT ![r] = {s \in Roster(r) : ~Exists(s)}]
    /\ toWrite' = [toWrite EXCEPT ![r] = {s \in Roster(r) : Exists(s)}]
    /\ UNCHANGED <<world, rows, positionLock, target, cohort, days, activeCount,
                   computed, buf, stray>>

(* createMany skipDuplicates: a row whose key another transaction commits   *)
(* first is dropped.                                                       *)
ComputeCreate(r, s) ==
    /\ pc[r] = "computeWrite"
    /\ s \in toCreate[r]
    /\ \/ /\ Exists(s)
          /\ UNCHANGED buf
       \/ /\ ~Exists(s)
          /\ ~HeldByOther(r, s)
          /\ buf' = [buf EXCEPT ![r][s] =
                [status |-> "DRAFT", avg |-> computed[r][s].avg, place |-> computed[r][s].place,
                 days |-> Null, released |-> FALSE]]
    /\ toCreate' = [toCreate EXCEPT ![r] = @ \ {s}]
    /\ UNCHANGED <<world, rows, positionLock, pc, target, cohort, days, activeCount,
                   computed, toWrite, stray>>

RecomputableWithoutRecheck(s) == Exists(s)

(* .. WHERE status <> 'FINALIZED', evaluated again after a wait. *)
Recomputable(s) == ~IsFinal(s)

ComputeUpdate(r, s) ==
    /\ pc[r] = "computeWrite"
    /\ toCreate[r] = {}
    /\ s \in toWrite[r]
    /\ \/ /\ ~Recomputable(s)
          /\ UNCHANGED buf
       \/ /\ Recomputable(s)
          /\ ~HeldByOther(r, s)
          /\ buf' = [buf EXCEPT ![r][s] =
                [result[s] EXCEPT !.avg = computed[r][s].avg, !.place = computed[r][s].place]]
    /\ toWrite' = [toWrite EXCEPT ![r] = @ \ {s}]
    /\ UNCHANGED <<world, rows, positionLock, pc, target, cohort, days, activeCount,
                   computed, toCreate, stray>>

ComputeCommit(r) ==
    /\ pc[r] = "computeWrite"
    /\ toCreate[r] = {}
    /\ toWrite[r] = {}
    /\ Commit(r)

-----------------------------------------------------------------------------
(* finalizeResult *)

FinalizeRead(r, s) ==
    /\ "finalize" \in Operation
    /\ pc[r] = "idle"
    /\ Exists(s)
    /\ ~IsFinal(s)                    \* else 409
    /\ pc' = [pc EXCEPT ![r] = "attendance"]
    /\ target' = [target EXCEPT ![r] = s]
    /\ cohort' = [cohort EXCEPT ![r] = InClass(s)]
    /\ UNCHANGED <<world, rows, positionLock, days, activeCount, computed, toCreate,
                   toWrite, buf, stray>>

(* computeAttendanceSnapshot *)
FinalizeAttendance(r) ==
    /\ pc[r] = "attendance"
    /\ pc' = [pc EXCEPT ![r] = "finalize"]
    /\ days' = [days EXCEPT ![r] = attended[target[r]]]
    /\ UNCHANGED <<world, rows, positionLock, target, cohort, activeCount, computed,
                   toCreate, toWrite, buf, stray>>

(* The update has no status in its WHERE.  The result of a student of       *)
(* another class is ranked there, under that class's lock.                 *)
FinalizeWrite(r) ==
    /\ pc[r] = "finalize"
    /\ ~HeldByOther(r, target[r])
    /\ result' = [result EXCEPT ![target[r]] =
                      [@ EXCEPT !.status = "FINALIZED", !.days = days[r]]]
    /\ \/ /\ cohort[r]
          /\ pc' = [pc EXCEPT ![r] = "lock"]
          /\ UNCHANGED <<positionLock, local>>
       \/ /\ ~cohort[r]
          /\ Finish(r)
    /\ UNCHANGED <<world, overrides, releases, stray>>

-----------------------------------------------------------------------------
(* withPositionFillLock, isClassFullyFinalized, rankFinalizedResults *)

(* rankClassResults, the administrator's unconditional pass *)
RankRequest(r) ==
    /\ "rank" \in Operation
    /\ pc[r] = "idle"
    /\ pc' = [pc EXCEPT ![r] = "lock"]
    /\ UNCHANGED <<world, rows, positionLock, local, stray>>

PositionLockTried(r) ==
    /\ pc[r] = "lock"
    /\ \/ /\ positionLock = Null
          /\ positionLock' = r
          /\ pc' = [pc EXCEPT ![r] = IF target[r] = Null THEN "rankRead" ELSE "countActive"]
          /\ UNCHANGED local
       \/ /\ positionLock \notin {Null, r}
          /\ Finish(r)
    /\ UNCHANGED <<world, rows, stray>>

TakePositionLock(r) ==
    /\ pc[r] = "lock"
    /\ positionLock = Null
    /\ positionLock' = r
    /\ pc' = [pc EXCEPT ![r] = IF target[r] = Null THEN "rankRead" ELSE "countActive"]
    /\ UNCHANGED <<world, rows, local, stray>>

CountActive(r) ==
    /\ pc[r] = "countActive"
    /\ pc' = [pc EXCEPT ![r] = "countFinalized"]
    /\ activeCount' = [activeCount EXCEPT ![r] = Cardinality(Active)]
    /\ UNCHANGED <<world, rows, positionLock, target, cohort, days, computed, toCreate,
                   toWrite, buf, stray>>

IncompleteKeepsLock(r) ==
    /\ activeCount[r] = 0 \/ activeCount[r] # Cardinality({s \in Active : IsFinal(s)})
    /\ UNCHANGED <<world, rows, positionLock, pc, local, stray>>

(* The class is not complete: the transaction ends without a ranking. *)
Incomplete(r) ==
    /\ activeCount[r] = 0 \/ activeCount[r] # Cardinality({s \in Active : IsFinal(s)})
    /\ Finish(r)
    /\ UNCHANGED <<world, rows, stray>>

CountFinalized(r) ==
    /\ pc[r] = "countFinalized"
    /\ \/ Incomplete(r)
       \/ /\ activeCount[r] > 0
          /\ activeCount[r] = Cardinality({s \in Active : IsFinal(s)})
          /\ pc' = [pc EXCEPT ![r] = "rankRead"]
          /\ UNCHANGED <<world, rows, positionLock, local, stray>>

(* Results of closed enrolments are ranked too; results without an average  *)
(* are not.                                                                *)
Rankable == {s \in Student : IsFinal(s) /\ InClass(s) /\ result[s].avg # Null}

(* Standard competition ranking: equal averages share a position, the next  *)
(* one skips.                                                              *)
CompetitionPlace(s) ==
    [position |-> 1 + Cardinality({t \in Rankable : result[t].avg > result[s].avg}),
     outOf |-> Cardinality(Rankable)]

RankRead(r) ==
    /\ pc[r] = "rankRead"
    /\ pc' = [pc EXCEPT ![r] = "rankWrite"]
    /\ toWrite' = [toWrite EXCEPT ![r] = Rankable]
    /\ computed' = [computed EXCEPT ![r] =
          [s \in Student |-> IF s \in Rankable
                            THEN [avg |-> result[s].avg, place |-> CompetitionPlace(s)]
                            ELSE Null]]
    /\ UNCHANGED <<world, rows, positionLock, target, cohort, days, activeCount, toCreate,
                   buf, stray>>

RankWrite(r, s) ==
    /\ pc[r] = "rankWrite"
    /\ s \in toWrite[r]
    /\ ~HeldByOther(r, s)
    /\ buf' = [buf EXCEPT ![r][s] = [result[s] EXCEPT !.place = computed[r][s].place]]
    /\ toWrite' = [toWrite EXCEPT ![r] = @ \ {s}]
    /\ UNCHANGED <<world, rows, positionLock, pc, target, cohort, days, activeCount,
                   computed, toCreate, stray>>

RankCommit(r) ==
    /\ pc[r] = "rankWrite"
    /\ toWrite[r] = {}
    /\ Commit(r)

-----------------------------------------------------------------------------
(* overrideResult and releaseWithholding *)

OverrideRead(r, s) ==
    /\ "override" \in Operation
    /\ pc[r] = "idle"
    /\ IsFinal(s)                     \* else 400
    /\ overrides[s] + Cardinality({q \in Request : pc[q] = "override" /\ target[q] = s})
          < MaxOverrides
    /\ pc' = [pc EXCEPT ![r] = "override"]
    /\ target' = [target EXCEPT ![r] = s]
    /\ UNCHANGED <<world, rows, positionLock, cohort, days, activeCount, computed,
                   toCreate, toWrite, buf, stray>>

(* One transaction updates the field and records the override.  The fields  *)
(* kept here are averageScore and position.                                *)
OverrideWrite(r) ==
    LET s == target[r] IN
    /\ pc[r] = "override"
    /\ ~HeldByOther(r, s)
    /\ \/ \E a \in Avg : result' = [result EXCEPT ![s].avg = a]
       \/ /\ result[s].place # Null
          /\ \E p \in 1 .. N : result' = [result EXCEPT ![s].place.position = p]
    /\ overrides' = [overrides EXCEPT ![s] = @ + 1]
    /\ stray' = TRUE
    /\ Finish(r)
    /\ UNCHANGED <<world, releases>>

UnclaimedRelease(s) == IsFinal(s)
Releasable(s) == IsFinal(s) /\ ~result[s].released

ReleaseClaim(r, s) ==
    /\ "release" \in Operation
    /\ pc[r] = "idle"
    /\ ~HeldByOther(r, s)
    /\ Releasable(s)                  \* else 400, or 200 without a write
    /\ result' = [result EXCEPT ![s].released = TRUE]
    /\ pc' = [pc EXCEPT ![r] = "audit"]
    /\ target' = [target EXCEPT ![r] = s]
    /\ UNCHANGED <<world, overrides, releases, positionLock, cohort, days, activeCount,
                   computed, toCreate, toWrite, buf, stray>>

(* resultOverride.create, a statement of its own *)
ReleaseAudit(r) ==
    /\ pc[r] = "audit"
    /\ releases' = [releases EXCEPT ![target[r]] = @ + 1]
    /\ Finish(r)
    /\ UNCHANGED <<world, result, overrides, stray>>

-----------------------------------------------------------------------------
(* The server, the database and the other services *)

Abort(r) ==
    /\ pc[r] # "idle"
    /\ stray' = (stray \/ pc[r] \in Ranking)
    /\ Finish(r)
    /\ UNCHANGED <<world, rows>>

Wanted(r) == IF toCreate[r] # {} THEN toCreate[r] ELSE toWrite[r]

Blocked(r) ==
    /\ pc[r] \in {"computeWrite", "rankWrite"}
    /\ Wanted(r) # {}
    /\ \A s \in Wanted(r) : HeldByOther(r, s)

DeadlockVictim(r) ==
    /\ \E D \in SUBSET Request :
          /\ r \in D
          /\ \A q \in D : /\ Blocked(q)
                          /\ \E s \in Wanted(q), p \in D \ {q} : buf[p][s] # Null
    /\ stray' = (stray \/ pc[r] \in Ranking)
    /\ Finish(r)
    /\ UNCHANGED <<world, rows>>

(* A submission changes the average of the student's subject results. *)
Submit(s) ==
    /\ \E a \in Avg : standing' = [standing EXCEPT ![s] = a]
    /\ UNCHANGED <<enrolment, attended, rows, positionLock, pc, local, stray>>

(* An attendance session closes with the student present. *)
CloseSession(s) ==
    /\ attended[s] < MaxDays
    /\ attended' = [attended EXCEPT ![s] = @ + 1]
    /\ UNCHANGED <<enrolment, standing, rows, positionLock, pc, local, stray>>

(* createEnrollment, or transferStudent into this arm *)
Join(s) ==
    /\ enrolment[s] = "away"
    /\ enrolment' = [enrolment EXCEPT ![s] = "active"]
    /\ stray' = (stray \/ IsFinal(s))
    /\ UNCHANGED <<standing, attended, rows, positionLock, pc, local>>

(* closeActiveEnrollments, or transferStudent out of this arm *)
Leave(s) ==
    /\ enrolment[s] = "active"
    /\ \E e \in {"closed", "away"} : enrolment' = [enrolment EXCEPT ![s] = e]
    /\ stray' = TRUE
    /\ UNCHANGED <<standing, attended, rows, positionLock, pc, local>>

Step(r) ==
    \/ ComputeExisting(r)
    \/ \E s \in Student : ComputeCreate(r, s) \/ ComputeUpdate(r, s) \/ RankWrite(r, s)
    \/ ComputeCommit(r)
    \/ FinalizeAttendance(r) \/ FinalizeWrite(r)
    \/ TakePositionLock(r) \/ CountActive(r) \/ CountFinalized(r)
    \/ RankRead(r) \/ RankCommit(r)
    \/ OverrideWrite(r)
    \/ ReleaseAudit(r)

Next ==
    \/ \E r \in Request :
          \/ ComputeRead(r) \/ RankRequest(r)
          \/ \E s \in Student : FinalizeRead(r, s) \/ OverrideRead(r, s) \/ ReleaseClaim(r, s)
          \/ Step(r) \/ Abort(r) \/ DeadlockVictim(r)
    \/ \E s \in Student : Submit(s) \/ CloseSession(s)
    \/ \E s \in Mover : Join(s) \/ Leave(s)

Spec == Init /\ [][Next]_vars
Fairness == \A r \in Request : SF_vars(Step(r)) /\ WF_vars(DeadlockVictim(r))
FairSpec == Spec /\ Fairness

-----------------------------------------------------------------------------
(* Properties *)

(* A result is final: once FINALIZED its average changes only with a        *)
(* ResultOverride row to show for it, whatever recomputation races the     *)
(* finalization (results.service.ts:175-183, 211-220).                     *)
FinalMarksChangeByOverride ==
    [][\A s \in Student : IsFinal(s) =>
          /\ IsFinal(s)'
          /\ result'[s].avg # result[s].avg => overrides'[s] = overrides[s] + 1]_vars

Ranked == \A s \in Rankable : result[s].place = CompetitionPlace(s)

FullyFinal == Active # {} /\ \A s \in Active : IsFinal(s)

(* No lost ranking: when every active student is FINALIZED, the class is    *)
(* ranked or some request is about to rank it, however the finalizations   *)
(* and the administrator's passes interleave; only a cut request, an       *)
(* override or a departure leaves it otherwise (results.service.ts:440-445,*)
(* 472-477).                                                               *)
FullClassIsRanked ==
    FullyFinal /\ ~stray => Ranked \/ \E r \in Request : pc[r] \in Ranking

(* A release is recorded once, however many administrators release the      *)
(* result (results.service.ts:545-549).                                    *)
ReleaseRecordedOnce == \A s \in Student : releases[s] <= 1

(* Every request is answered: row locks and the advisory lock are given     *)
(* back on every path.                                                     *)
EveryRequestAnswered ==
    \A r \in Request : pc[r] # "idle" ~> pc[r] = "idle"

(* What schema.prisma:726-728 says: the attendance of a finalized result is *)
(* never touched again.                                                    *)
SnapshotTakenOnce ==
    [][\A s \in Student : IsFinal(s) => result'[s].days = result[s].days]_vars
=============================================================================
