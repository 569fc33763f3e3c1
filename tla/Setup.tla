-------------------------------- MODULE Setup --------------------------------
(* Whether the school is ready to work: the checks getSetupStatus makes of  *)
(* the calendar and the grading configuration together, each a read of its  *)
(* own; those that only warn are left out.                                  *)
EXTENDS Calendar, Grading

CONSTANT GradedSession    \* the session whose configuration Grading is

(* The counts the other checks ask to be positive.                          *)
Furniture == {"traits", "structure", "admin"}

VARIABLE furnished
setupVars == <<calendarVars, gradingVars, furnished>>

SetupTypeOK == CalendarTypeOK /\ GradingTypeOK /\ furnished \subseteq Furniture

(* seedTraits, the first class, subject and slot, the first administrator   *)
(* with a staff record; the last one deactivated.                           *)
Furnish(k) ==
    /\ furnished' = furnished \cup {k}
    /\ UNCHANGED <<calendarVars, gradingVars>>
RetireAdmin ==
    /\ furnished' = furnished \ {"admin"}
    /\ UNCHANGED <<calendarVars, gradingVars>>

FurnishNext == RetireAdmin \/ \E k \in Furniture : Furnish(k)

-----------------------------------------------------------------------------
CurrentSession == {p \in current : ScopeOf[p] = "session"}
CurrentTerm == {p \in current : ScopeOf[p] \in CurrentSession}
IsGraded == CurrentSession = {GradedSession}

Components == {c \in Component : component[c] # Null}
Total == MapThenSumSet(LAMBDA c : component[c], Components)
ComponentsPass == Components # {} /\ Total = Top

Overlapping ==
    \E a, b \in Bands : a # b /\ BandsOverlap(band[a].min, band[a].max, band[b].min, band[b].max)
ScalePasses == scale /\ ~Overlapping /\ Gaps = {}

SetupReady ==
    /\ school # {} /\ CurrentSession # {} /\ CurrentTerm # {}
    /\ IsGraded /\ ComponentsPass /\ ScalePasses
    /\ furnished = Furniture

-----------------------------------------------------------------------------
(* A school reported ready grades: every total a sheet can add up to gets   *)
(* one grade, but for full marks. Without overlapping edits a scale is also *)
(* turned down only when some mark has no grade, whatever was created,      *)
(* moved and deleted before (admin.service.ts:56-352,                       *)
(* grading.service.ts:142-228).                                             *)
GradedOnce(m) == Cardinality(GradesOf(m)) = 1
ReadyMeansGraded ==
    /\ SetupReady => \A m \in 0 .. Total : m = Top \/ GradedOnce(m)
    /\ (races = 0 /\ scale /\ ~ScalePasses) => \E m \in Mark : ~GradedOnce(m)
=============================================================================
