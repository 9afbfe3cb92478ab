------------------------------- MODULE Mastery -------------------------------
(***************************************************************************)
(* The mastery rules engine (server/internal/mastery) and the rewards      *)
(* (server/internal/reward) as functions of the evidence.                  *)
(*                                                                         *)
(* A success counter of the code is kept as far as a rule tests it:        *)
(* forms is the set of evidence forms whose counter of independent         *)
(* successes is above zero, assisted says that the counter of assisted     *)
(* successes is.  The next review time is left to ReviewPlan.              *)
(***************************************************************************)
EXTENDS Integers, FiniteSets

Forms == {"LIFE", "VARIANT", "TEXTBOOK", "REVIEW"}
SkillStates == {"UNKNOWN", "LEARNING", "ASSISTED", "UNDERSTOOD", "MASTERED", "REGRESSED"}

Skill == [state : SkillStates, forms : SUBSET Forms, assisted : BOOLEAN]
NoSkill == [state |-> "UNKNOWN", forms |-> {}, assisted |-> FALSE]

\* Faulty variant: three forms of four are enough.
MasteredByThree(forms) == Cardinality(forms) >= 3

MasteredBy(forms) == forms = Forms

\* Two of the three forms that are not reviews have been shown independently.
UnderstoodBy(forms) == \E f, g \in forms \ {"REVIEW"} : f # g

\* Engine.Apply for a right answer.
Succeeded(skill, form, independent) ==
    LET forms == IF independent THEN skill.forms \cup {form} ELSE skill.forms
        state == CASE MasteredBy(forms) -> "MASTERED"
                   [] ~MasteredBy(forms) /\ UnderstoodBy(forms) -> "UNDERSTOOD"
                   [] ~MasteredBy(forms) /\ ~UnderstoodBy(forms) /\ independent -> "LEARNING"
                   [] OTHER -> "ASSISTED"
    IN [state |-> state, forms |-> forms, assisted |-> skill.assisted \/ ~independent]

\* Engine.Apply for a failed review; what was shown before is kept.
ReviewFailed(skill) == [state |-> "REGRESSED", forms |-> skill.forms, assisted |-> skill.assisted]

\* Engine.Score
Score(skill) ==
    LET shown == 25 * Cardinality(skill.forms)
        base == IF shown = 0 /\ skill.assisted THEN 10 ELSE shown
    IN CASE skill.state = "UNKNOWN" -> 0
         [] skill.state = "MASTERED" -> 100
         [] skill.state = "REGRESSED" /\ base > 40 -> 40
         [] OTHER -> base

\* reward.points of the rewards that the classroom grants
Award(type) ==
    CASE type = "EFFORT" -> 2
      [] type = "MASTERY" -> 12
      [] type = "CROSS_SUBJECT_INSIGHT" -> 6
=============================================================================
