------------------------------ MODULE Grading -------------------------------
(* The grading configuration of one session: assessment components, the     *)
(* grading scale and its bands. Marks are counted in the finest step the    *)
(* columns hold (hundredths), from 0 to Top, which stands for 100.          *)
(*                                                                          *)
(* A band edit is a read of the siblings and a write with nothing held in   *)
(* between; the warning it answers with is FindCoverageGaps of the bands.   *)
EXTENDS Sentinel, Naturals, Integers, FiniteSets, FiniteSetsExt

CONSTANTS
    Band,        \* bands that may be created, one per grade label
    Component,   \* assessment components that may be created
    Weight,      \* the maximum scores tried for a component
    Top,         \* GRADE_RANGE_MAX in hundredths
    Patch,       \* bound: the updates of a band tried
    MaxRaces,    \* bound: band edits that overlap in time
    Editor       \* requests served at a time

ASSUME GradingAssumption ==
    /\ Top \in Nat \ {0} /\ MaxRaces \in Nat /\ Weight \subseteq Nat
    /\ Patch \subseteq [min : 0 .. Top \cup {Null}, max : 0 .. Top \cup {Null}]
    /\ Null \notin Band \cup Editor \cup Nat

Mark == 0 .. Top
Span == {x \in [min : Mark, max : Mark] : x.min < x.max}
Side == Mark \cup {Null}

VARIABLES
    scale,      \* whether the session has a GradingScale
    band,       \* its bands
    component,  \* maxScore of each assessment component
    scored,     \* components with scores
    races,      \* history: band writes made while another edit held its check
    editor      \* requests in progress

gradingVars == <<scale, band, component, scored, races, editor>>

NoEdit == [op |-> "idle", band |-> Null, min |-> Null, max |-> Null]
Edit == [op : {"idle", "create", "update"}, band : Band \cup {Null}, min : Side, max : Side]

GradingTypeOK ==
    /\ scale \in BOOLEAN
    /\ band \in [Band -> [min : Side, max : Side]]
    /\ component \in [Component -> Weight \cup {Null}] /\ scored \subseteq Component
    /\ races \in 0 .. MaxRaces
    /\ editor \in [Editor -> Edit]

NoBand == [min |-> Null, max |-> Null]
(* bs, cs: the bands and the maximum scores there are.                      *)
GradingStart(bs, cs) ==
    /\ scale = (DOMAIN bs # {})
    /\ band = [b \in Band |-> IF b \in DOMAIN bs THEN bs[b] ELSE NoBand]
    /\ component = [c \in Component |-> IF c \in DOMAIN cs THEN cs[c] ELSE Null] /\ scored = {}
    /\ races = 0
    /\ editor = [r \in Editor |-> NoEdit]
GradingInit == GradingStart([b \in {} |-> NoBand], [c \in {} |-> 0])

-----------------------------------------------------------------------------
(* Overlap and coverage *)

Bands == {b \in Band : band[b] # NoBand}

BandsOverlapInside(aMin, aMax, bMin, bMax) == aMin < bMax /\ aMax > bMin

BandsOverlap(aMin, aMax, bMin, bMax) == aMin <= bMax /\ aMax >= bMin

ClashFree(min, max, but) ==
    \A b \in Bands \ {but} : ~BandsOverlap(min, max, band[b].min, band[b].max)

(* findCoverageGaps walks the bands by minScore and keeps how far they      *)
(* cover; a gap narrower than one step at the top is not reported.          *)
CoveredBefore(S, m) == Max({-1} \cup {x.max : x \in {y \in S : y.min < m}})

FindCoverageGapsBelow(S) ==
    {[from |-> CoveredBefore(S, x.min) + 1, to |-> x.min - 1] :
        x \in {y \in S : y.min > CoveredBefore(S, y.min) + 1}}

FindCoverageGaps(S) ==
    LET through == Max({-1} \cup {x.max : x \in S}) IN
    {[from |-> CoveredBefore(S, x.min) + 1, to |-> x.min - 1] :
        x \in {y \in S : y.min > CoveredBefore(S, y.min) + 1}}
    \cup (IF through < Top - 1 THEN {[from |-> through + 1, to |-> Top]} ELSE {})

Gaps == FindCoverageGaps({band[b] : b \in Bands})

(* The band a total is graded by when a sheet is submitted.                 *)
GradesOf(m) == {b \in Bands : band[b].min <= m /\ m <= band[b].max}

-----------------------------------------------------------------------------
(* Handlers *)

CreateGradingScale ==
    /\ ~scale /\ scale' = TRUE
    /\ UNCHANGED <<band, component, scored, races, editor>>

(* createGradeBand: the scale exists and no sibling overlaps.               *)
CheckNewBand(r, b, x) ==
    /\ scale /\ b \notin Bands /\ \A q \in Editor : editor[q].band # b
    /\ editor[r] = NoEdit /\ ClashFree(x.min, x.max, Null)
    /\ editor' = [editor EXCEPT ![r] = [op |-> "create", band |-> b, min |-> x.min, max |-> x.max]]
    /\ UNCHANGED <<scale, band, component, scored, races>>

(* updateGradeBand: a bound left out is taken from the band as it was read. *)
Merged(new, old) == IF new = Null THEN old ELSE new
CheckBand(r, b, min, max) ==
    LET lo == Merged(min, band[b].min)  hi == Merged(max, band[b].max) IN
    /\ b \in Bands /\ editor[r] = NoEdit /\ ~(min = Null /\ max = Null)
    /\ lo < hi /\ ClashFree(lo, hi, b)
    /\ editor' = [editor EXCEPT ![r] = [op |-> "update", band |-> b, min |-> min, max |-> max]]
    /\ UNCHANGED <<scale, band, component, scored, races>>

(* The write: only the fields given. A band deleted meanwhile is an error.  *)
OverlapsAnother(r) == \E q \in Editor \ {r} : editor[q] # NoEdit
WriteBand(r) ==
    LET j == editor[r]  b == j.band IN
    /\ editor[r] # NoEdit
    /\ editor' = [editor EXCEPT ![r] = NoEdit]
    /\ IF j.op = "update" /\ b \notin Bands THEN UNCHANGED <<band, races>>
       ELSE /\ OverlapsAnother(r) => races < MaxRaces
            /\ races' = IF OverlapsAnother(r) THEN races + 1 ELSE races
            /\ band' = [band EXCEPT ![b] = [min |-> Merged(j.min, @.min), max |-> Merged(j.max, @.max)]]
    /\ UNCHANGED <<scale, component, scored>>

DeleteGradeBand(b) ==
    /\ b \in Bands
    /\ band' = [band EXCEPT ![b] = NoBand]
    /\ UNCHANGED <<scale, component, scored, races, editor>>

(* Components are only warned about, and one with scores stays.             *)
SetComponent(c, w) ==
    /\ component' = [component EXCEPT ![c] = w]
    /\ UNCHANGED <<scale, band, scored, races, editor>>

DeleteComponent(c) ==
    /\ component[c] # Null /\ c \notin scored
    /\ component' = [component EXCEPT ![c] = Null]
    /\ UNCHANGED <<scale, band, scored, races, editor>>

RecordScore(c) ==
    /\ component[c] # Null /\ scored' = scored \cup {c}
    /\ UNCHANGED <<scale, band, component, races, editor>>

BandNext ==
    \/ CreateGradingScale
    \/ \E r \in Editor :
          \/ \E b \in Band, x \in Span : CheckNewBand(r, b, x)
          \/ \E b \in Band, x \in Patch : CheckBand(r, b, x.min, x.max)
          \/ WriteBand(r)
    \/ \E b \in Band : DeleteGradeBand(b)

ComponentNext ==
    \E c \in Component :
        DeleteComponent(c) \/ RecordScore(c) \/ \E w \in Weight : SetComponent(c, w)

GradingNext == BandNext \/ ComponentNext
GradingSpec == GradingInit /\ [][GradingNext]_gradingVars

-----------------------------------------------------------------------------
(* Properties *)

(* Two bands grade the same mark only after two edits overlapped in time,   *)
(* the gap the code accepts: inclusive ends and a bound left out of an      *)
(* update are checked right (grading.service.ts:142-180, 282-290).          *)
OverlapNeedsARace ==
    races = 0 => \A m \in Mark : Cardinality(GradesOf(m)) <= 1
=============================================================================
