------------------------------- MODULE Lessons -------------------------------
(***************************************************************************)
(* What a student's answers are taught with and what they earn: the        *)
(* learning that Submit, RequestSupport and ReturnFromVoice commit         *)
(* (server/internal/classroom), with a teaching agent configured.          *)
(*                                                                         *)
(* The sessions of a student follow each other, as only one is open, and   *)
(* so do its operations, as each holds the session's lease: an operation   *)
(* is the one step of its commit here.  How it comes there is in           *)
(* TutorTurn; leases, pauses and recovery are in Classroom, and the review *)
(* queue is in ReviewPlan.                                                 *)
(***************************************************************************)
EXTENDS TutorEngine, Mastery

CONSTANTS
    KnowledgePoints,
    Prerequisites,  \* cross_subject_dependencies of released content
    MaxLessons,     \* bound: sessions in a behaviour
    MaxAnswers,     \* bound: answers and requests for support in a behaviour
    NoPoint

ASSUME PointsAssumption == Prerequisites \in [KnowledgePoints -> SUBSET KnowledgePoints]
ASSUME LessonBounds == MaxLessons \in Nat /\ MaxAnswers \in Nat
ASSUME NoPointAssumption == NoPoint \notin KnowledgePoints /\ NoPoint \notin 1 .. MaxLessons

VARIABLES
    lesson,     \* the student's latest session: learning_sessions
    lessons,    \* sessions started; the number of the last one is its id
    seen,       \* actions of the tutor_turns of that session
    skill,      \* student_skill_states
    evidence,   \* mastery_evidence_provenance
    ledger,     \* reward_events
    energy,     \* student_growth.total_energy
    answers     \* answers and requests so far

lessonVars == <<lesson, lessons, seen, skill, evidence, ledger, energy, answers>>

-----------------------------------------------------------------------------
CognitiveHelp == {"PROBE", "HINT", "SCAFFOLD", "ANALOGY", "BACKTRACK", "EXPLAIN", "VOICE_EXPLAIN"}
Rewards == {"EFFORT", "MASTERY", "CROSS_SUBJECT_INSIGHT"}
LessonIds == 1 .. MaxLessons
PointOrNone == KnowledgePoints \cup {NoPoint}

Lesson == [open : BOOLEAN, state : TutorStates, fails : 0 .. MaxRounds, help : 0 .. 4,
           form : Forms, active : PointOrNone, original : PointOrNone, failed : BOOLEAN]
NoLesson == [open |-> FALSE, state |-> "ASK", fails |-> 0, help |-> 0, form |-> "LIFE",
             active |-> NoPoint, original |-> NoPoint, failed |-> FALSE]

LessonsInit ==
    /\ lesson = NoLesson /\ lessons = 0 /\ seen = {}
    /\ skill = [k \in KnowledgePoints |-> NoSkill]
    /\ evidence = {} /\ ledger = {} /\ energy = 0
    /\ answers = 0

-----------------------------------------------------------------------------
(* Sessions.                                                               *)

\* StartSession: the mode of the block gives the form; a MICRO_BACKTRACK block starts on a
\* prerequisite of its original task.
Begin ==
    /\ ~lesson.open /\ lessons < MaxLessons
    /\ \E k \in KnowledgePoints :
         \/ \E f \in Forms \ {"TEXTBOOK"} :
              lesson' = [NoLesson EXCEPT !.open = TRUE, !.form = f, !.active = k]
         \/ \E p \in Prerequisites[k] :
              lesson' = [NoLesson EXCEPT !.open = TRUE, !.form = "TEXTBOOK", !.active = p,
                                         !.original = k]
    /\ lessons' = lessons + 1 /\ seen' = {}
    /\ UNCHANGED <<skill, evidence, ledger, energy, answers>>

\* The task that a review session was started for.
ReviewTask == IF lesson.original = NoPoint THEN lesson.active ELSE lesson.original

\* The session is abandoned; a review that was answered wrongly counts as failed
\* (resolveFailedReviewOnAbandon).
Leave ==
    /\ lesson.open
    /\ lesson' = [lesson EXCEPT !.open = FALSE]
    /\ skill' = IF lesson.failed THEN [skill EXCEPT ![ReviewTask] = ReviewFailed(@)] ELSE skill
    /\ UNCHANGED <<lessons, seen, evidence, ledger, energy, answers>>

\* ReturnFromVoice
VoiceReturn ==
    /\ lesson.open /\ lesson.state = "VOICE_EXPLAIN"
    /\ lesson' = [lesson EXCEPT !.state = "RETURN"]
    /\ seen' = seen \cup {"RETURN"}
    /\ UNCHANGED <<lessons, skill, evidence, ledger, energy, answers>>

-----------------------------------------------------------------------------
(* Teaching.                                                               *)

Asks == lesson.open /\ answers < MaxAnswers /\ answers' = answers + 1

\* Faulty variant: the level of help follows the last turn.
HelpedLast(help, state) == Assistance(state)

\* Faulty variant: the levels of help add up.
HelpedSummed(help, state) == help + Assistance(state)

\* assistance_level = GREATEST(assistance_level, ...)
Helped(help, state) == Larger(help, Assistance(state))

\* The session row after a turn of the tutor.
Taught(state, fails) ==
    [lesson EXCEPT !.state = state, !.fails = fails, !.help = Helped(@, state)]

\* RequestSupport
Supported(state) ==
    /\ Asks
    /\ lesson' = Taught(state, lesson.fails)
    /\ seen' = seen \cup {state}
    /\ UNCHANGED <<lessons, skill, evidence, ledger, energy>>

\* recordReviewFailure: the first wrong answer of a review.
FirstFailure == lesson.form = "REVIEW" /\ ~lesson.failed
AfterFailure ==
    IF FirstFailure THEN [skill EXCEPT ![lesson.active] = ReviewFailed(@)] ELSE skill

\* Prerequisites that beginBacktrack may choose.
Gaps == {p \in Prerequisites[lesson.active] :
            AfterFailure[p].state \notin {"UNDERSTOOD", "MASTERED"}}

\* What a wrong answer is taught with: a gap without prerequisite becomes a smaller step.
Teaching(a) ==
    LET decision == Decide(lesson.fails, a) IN
    IF decision.next = "BACKTRACK"
    THEN Reply("SCAFFOLD", Larger(1, lesson.fails + 1))
    ELSE decision

\* The failed rounds that the commit writes.
FailsAfter(a) == Larger(lesson.fails, Teaching(a).round)

\* The model's analysis of an answer that Submit takes for wrong: it does not match, and the
\* model does not hold it for right, or is not sure.
Wrong(a) == ~(a.right /\ a.sure)
Backtracks(a) == Decide(lesson.fails, a).next = "BACKTRACK" /\ Gaps # {}

\* A wrong answer is taught; one whose row fails the check of socratic_fail_count is lost.
AnswerTaught(a) ==
    /\ Asks /\ Wrong(a) /\ ~Backtracks(a)
    /\ IF FailsAfter(a) <= MaxRounds
       THEN /\ lesson' = [Taught(Teaching(a).next, FailsAfter(a)) EXCEPT !.failed = @ \/ FirstFailure]
            /\ skill' = AfterFailure
            /\ seen' = seen \cup {Teaching(a).next}
       ELSE UNCHANGED <<lesson, skill, seen>>
    /\ UNCHANGED <<lessons, evidence, ledger, energy>>

\* beginBacktrack: the failed rounds start again on the prerequisite.
AnswerBacktracks(a) ==
    /\ Asks /\ Wrong(a) /\ Backtracks(a)
    /\ skill' = AfterFailure
    /\ \E p \in Gaps :
         lesson' = [Taught("BACKTRACK", 0) EXCEPT
                       !.active = p, !.form = "TEXTBOOK", !.failed = @ \/ FirstFailure,
                       !.original = IF @ = NoPoint THEN lesson.active ELSE @]
    /\ seen' = seen \cup {"BACKTRACK"}
    /\ UNCHANGED <<lessons, evidence, ledger, energy>>

-----------------------------------------------------------------------------
(* Success.                                                                *)

\* Faulty variant: the points of a reward count again.
GrantedAgain(reward) ==
    /\ ledger' = ledger \cup {reward}
    /\ energy' = energy + Award(reward.type)

\* grantReward: a reward counts once.
Granted(reward) ==
    /\ ledger' = ledger \cup {reward}
    /\ energy' = IF reward \in ledger THEN energy ELSE energy + Award(reward.type)

\* A reward with the session and the knowledge point that its source names.
Reward(type, ses, point) == [type |-> type, ses |-> ses, point |-> point]

\* complete: evidence, mastery and reward of a right answer; after a prerequisite the
\* original task follows in the same session (returnToOriginal).
AnswerRight ==
    LET independent == lesson.help = 0
        known == Succeeded(skill[lesson.active], lesson.form, independent)
        back == lesson.original \notin {NoPoint, lesson.active}
    IN
    /\ Asks
    /\ skill' = [skill EXCEPT ![lesson.active] = known]
    /\ evidence' = IF independent
                   THEN evidence \cup {[ses |-> lessons, point |-> lesson.active,
                                        form |-> lesson.form]}
                   ELSE evidence
    /\ Granted(CASE back -> Reward("CROSS_SUBJECT_INSIGHT", lessons, lesson.active)
                 [] ~back /\ known.state = "MASTERED" -> Reward("MASTERY", NoPoint, lesson.active)
                 [] OTHER -> Reward("EFFORT", lessons, NoPoint))
    /\ lesson' = IF back
                 THEN [lesson EXCEPT !.state = "RETURN", !.fails = 0, !.active = lesson.original,
                                     !.form = "VARIANT"]
                 ELSE [lesson EXCEPT !.state = "COMPLETE", !.open = FALSE]
    /\ seen' = seen \cup {IF back THEN "RETURN" ELSE "COMPLETE"}
    /\ UNCHANGED lessons

-----------------------------------------------------------------------------
LessonsNext ==
    \/ Begin \/ Leave \/ VoiceReturn
    \/ \E state \in {"HINT", "EXPLAIN"} : Supported(state)
    \/ \E a \in Analysis : AnswerTaught(a) \/ AnswerBacktracks(a)
    \/ AnswerRight

LessonsSpec == LessonsInit /\ [][LessonsNext]_lessonVars

-----------------------------------------------------------------------------
(* Properties.                                                             *)

\* Every variable keeps its type, the checked failed rounds of the row included.
LessonsTypeOK ==
    /\ lesson \in Lesson /\ lessons \in 0 .. MaxLessons
    /\ lesson.open => lesson.active \in KnowledgePoints
    /\ seen \subseteq TutorStates
    /\ skill \in [KnowledgePoints -> Skill]
    /\ evidence \subseteq [ses : LessonIds, point : KnowledgePoints, form : Forms]
    /\ ledger \subseteq [type : Rewards, ses : LessonIds \cup {NoPoint}, point : PointOrNone]
    /\ energy \in Nat
    /\ answers \in 0 .. MaxAnswers

\* Evidence counts as independent only if the student has seen no cognitive help before it
\* in that session, through breaks, voice returns and changes of task (REQ-ASSIST-01).
IndependentUnaided ==
    [][evidence' # evidence => seen \cap CognitiveHelp = {}]_lessonVars

\* The forms that a skill counts are those of its evidence rows, through regressions and
\* assisted successes; mastery needs a row of each of the four forms, and only it scores
\* 100 (REQ-MASTERY-03, and REQ-MASTERY-04 but for its clause on the reward).
MasteryEarned ==
    \A k \in KnowledgePoints :
        /\ skill[k].forms = {e.form : e \in {d \in evidence : d.point = k}}
        /\ skill[k].state = "MASTERED" => skill[k].forms = Forms
        /\ Score(skill[k]) = 100 => skill[k].state = "MASTERED"

\* Points of a set of rewards.
RewardsOf(type) == {r \in ledger : r.type = type}

\* The growth total is what the reward events add up to: a reward that is earned again
\* counts once, and none is lost (grantReward).
GrowthIsLedger ==
    energy = Award("EFFORT") * Cardinality(RewardsOf("EFFORT"))
             + Award("MASTERY") * Cardinality(RewardsOf("MASTERY"))
             + Award("CROSS_SUBJECT_INSIGHT") * Cardinality(RewardsOf("CROSS_SUBJECT_INSIGHT"))

\* A statement of the schema that the code does not keep
\* (migrations/000004_learning_realtime.sql:12): the failed rounds that an answer leaves are
\* between 0 and 3, so that no answer is lost to the check.
RoundsInRange ==
    lesson.open => \A a \in Analysis : Wrong(a) /\ ~Backtracks(a) => FailsAfter(a) \in 0 .. MaxRounds
=============================================================================
