---------------------------- MODULE LessonsProofs ----------------------------
(***************************************************************************)
(* Theorems about what answers are taught with and what they earn, for     *)
(* any knowledge points and prerequisites and any number of sessions and   *)
(* answers.                                                                *)
(***************************************************************************)
EXTENDS Lessons, FiniteSetTheorems, TLAPS

USE RoundsAssumption, PointsAssumption, LessonBounds, NoPointAssumption

-----------------------------------------------------------------------------
(* Lemmas about the rules engines.                                         *)

\* The engine counts at most MaxRounds failed rounds.
LEMMA DecisionBounds ==
    ASSUME NEW fails \in 0 .. MaxRounds, NEW a \in Analysis
    PROVE  Decide(fails, a) \in [next : Replies, round : 0 .. MaxRounds]
<1>1. a.right \in BOOLEAN /\ a.upset \in BOOLEAN
  BY DEF Analysis
<1>2. CASE a.right
  BY <1>2 DEF Decide, Reply, Replies
<1>3. CASE ~a.right /\ a.upset
  BY <1>3 DEF Decide, Reply, Replies
<1>4. CASE ~a.right /\ ~a.upset /\ a.advice = "BACKTRACK"
  BY <1>4 DEF Decide, Reply, Replies
<1>5. CASE ~a.right /\ ~a.upset /\ a.advice # "BACKTRACK" /\ fails >= MaxRounds
  BY <1>5 DEF Decide, Reply, Replies
<1>6. CASE ~a.right /\ ~a.upset /\ a.advice # "BACKTRACK" /\ fails < MaxRounds
  <2> DEFINE next == CASE fails + 1 = 1 -> "PROBE" [] fails + 1 = 2 -> "SCAFFOLD"
                       [] OTHER -> "ANALOGY"
  <2>1. next \in Replies
    BY DEF Replies
  <2>2. Decide(fails, a) = [next |-> next, round |-> fails + 1]
    BY <1>6 DEF Decide, Reply
  <2> HIDE DEF next
  <2>3. fails + 1 \in 0 .. MaxRounds
    BY <1>6
  <2> QED
    BY <2>1, <2>2, <2>3
<1> QED
  BY <1>1, <1>2, <1>3, <1>4, <1>5, <1>6

\* The level of help never falls, and any cognitive help raises it above zero.
LEMMA HelpBounds ==
    ASSUME NEW help \in 0 .. 4, NEW state \in TutorStates
    PROVE  /\ Helped(help, state) \in 0 .. 4
           /\ Helped(help, state) = 0 => help = 0 /\ state \notin CognitiveHelp
<1>1. Assistance(state) \in 0 .. 4
  BY DEF Assistance, TutorStates, Replies
<1>2. state \in CognitiveHelp => Assistance(state) # 0
  BY DEF Assistance, CognitiveHelp
<1> HIDE DEF CognitiveHelp, TutorStates
<1> QED
  BY <1>1, <1>2 DEF Helped, Larger

\* The session row after a turn differs in the tutor state, the failed rounds and the help.
LEMMA TaughtLesson ==
    ASSUME lesson \in Lesson, NEW state \in TutorStates, NEW fails \in 0 .. MaxRounds
    PROVE  /\ Taught(state, fails) \in Lesson
           /\ Taught(state, fails).help = Helped(lesson.help, state)
           /\ Taught(state, fails).open = lesson.open
           /\ Taught(state, fails).active = lesson.active
           /\ Taught(state, fails).original = lesson.original
           /\ Taught(state, fails).form = lesson.form
<1>1. Helped(lesson.help, state) \in 0 .. 4
  BY HelpBounds DEF Lesson
<1> HIDE DEF Helped, TutorStates, Forms, PointOrNone
<1> QED
  BY <1>1 DEF Taught, Lesson

\* What a wrong answer is taught with.
LEMMA TeachingTypes ==
    ASSUME lesson \in Lesson, NEW a \in Analysis
    PROVE  /\ Teaching(a).next \in TutorStates
           /\ FailsAfter(a) \in Nat
<1> DEFINE decision == Decide(lesson.fails, a)
<1>1. lesson.fails \in 0 .. MaxRounds
  BY DEF Lesson
<1>2. decision.next \in Replies /\ decision.round \in 0 .. MaxRounds
  BY <1>1, DecisionBounds
<1>3. Teaching(a) = IF decision.next = "BACKTRACK"
                    THEN [next |-> "SCAFFOLD", round |-> Larger(1, lesson.fails + 1)]
                    ELSE decision
  BY DEF Teaching, Reply
<1> HIDE DEF decision
<1>4. Teaching(a).next \in TutorStates
  BY <1>2, <1>3 DEF TutorStates, Replies
<1>5. Teaching(a).round \in Nat
  BY <1>1, <1>2, <1>3 DEF Larger
<1> QED
  BY <1>1, <1>4, <1>5 DEF FailsAfter, Larger

\* What a right answer makes of a skill.
LEMMA SucceededSkill ==
    ASSUME NEW row \in Skill, NEW form \in Forms, NEW independent \in BOOLEAN
    PROVE  /\ Succeeded(row, form, independent) \in Skill
           /\ Succeeded(row, form, independent).forms
                = IF independent THEN row.forms \cup {form} ELSE row.forms
           /\ Succeeded(row, form, independent).state = "MASTERED"
                <=> Succeeded(row, form, independent).forms = Forms
<1> DEFINE forms == IF independent THEN row.forms \cup {form} ELSE row.forms
           state == CASE MasteredBy(forms) -> "MASTERED"
                      [] ~MasteredBy(forms) /\ UnderstoodBy(forms) -> "UNDERSTOOD"
                      [] ~MasteredBy(forms) /\ ~UnderstoodBy(forms) /\ independent -> "LEARNING"
                      [] OTHER -> "ASSISTED"
           assisted == row.assisted \/ ~independent
<1>1. forms \in SUBSET Forms
  BY DEF Skill
<1>2. state \in SkillStates
  BY DEF SkillStates
<1>3. state = "MASTERED" <=> forms = Forms
  BY DEF MasteredBy
<1>4. assisted \in BOOLEAN
  OBVIOUS
<1>5. Succeeded(row, form, independent)
        = [state |-> state, forms |-> forms, assisted |-> assisted]
  BY DEF Succeeded
<1> HIDE DEF forms, state, assisted
<1>6. Succeeded(row, form, independent) \in Skill
  BY <1>1, <1>2, <1>4, <1>5 DEF Skill
<1> QED
  BY <1>3, <1>5, <1>6 DEF forms

\* What a failed review makes of a skill.
LEMMA FailedSkill ==
    ASSUME NEW row \in Skill
    PROVE  /\ ReviewFailed(row) \in Skill
           /\ ReviewFailed(row).forms = row.forms
           /\ ReviewFailed(row).state = "REGRESSED"
BY DEF ReviewFailed, Skill, SkillStates

\* There are four evidence forms.
LEMMA FourForms == IsFiniteSet(Forms) /\ Cardinality(Forms) = 4
<1> DEFINE two == {"LIFE"} \cup {"VARIANT"}
           three == two \cup {"TEXTBOOK"}
           four == three \cup {"REVIEW"}
<1>1. IsFiniteSet({"LIFE"}) /\ Cardinality({"LIFE"}) = 1
  BY FS_Singleton
<1>2. "VARIANT" \notin {"LIFE"} /\ "TEXTBOOK" \notin two /\ "REVIEW" \notin three
  OBVIOUS
<1>3. Forms = four
  BY DEF Forms
<1>4. IsFiniteSet(two) /\ Cardinality(two) = 1 + 1
  BY <1>1, <1>2, FS_AddElement
<1> HIDE DEF two
<1>5. IsFiniteSet(three) /\ Cardinality(three) = 2 + 1
  BY <1>2, <1>4, FS_AddElement
<1> HIDE DEF three
<1>6. IsFiniteSet(four) /\ Cardinality(four) = 3 + 1
  BY <1>2, <1>5, FS_AddElement
<1> QED
  BY <1>3, <1>6

\* A skill that is not mastered scores 100 only with all four forms shown, and not
\* after a failed review.
LEMMA ScoreOfAll ==
    ASSUME NEW row \in Skill, Score(row) = 100
    PROVE  row.state = "MASTERED" \/ (row.forms = Forms /\ row.state # "REGRESSED")
<1> DEFINE shown == 25 * Cardinality(row.forms)
           base == IF shown = 0 /\ row.assisted THEN 10 ELSE shown
<1> SUFFICES ASSUME row.state # "MASTERED" PROVE row.forms = Forms /\ row.state # "REGRESSED"
  OBVIOUS
<1>1. row.forms \in SUBSET Forms
  BY DEF Skill
<1>2. IsFiniteSet(row.forms) /\ Cardinality(row.forms) \in Nat
      /\ (Cardinality(Forms) = Cardinality(row.forms) => Forms = row.forms)
  BY <1>1, FourForms, FS_Subset, FS_CardinalityType
<1>3. Score(row) = IF row.state = "UNKNOWN" THEN 0
                   ELSE IF row.state = "REGRESSED" /\ base > 40 THEN 40 ELSE base
  BY DEF Score
<1>4. base = 100 => Cardinality(row.forms) = 4
  BY <1>2
<1> HIDE DEF base
<1>5. base = 100 /\ row.state # "REGRESSED"
  BY <1>3
<1> QED
  BY <1>2, <1>4, <1>5, FourForms

-----------------------------------------------------------------------------
(* Types.                                                                  *)

\* A session that is open has a number, so that its evidence and rewards name a session.
Numbered == lesson.open => lessons \in LessonIds

LessonsInv == LessonsTypeOK /\ Numbered

RewardRows == [type : Rewards, ses : LessonIds \cup {NoPoint}, point : PointOrNone]

\* The student has no session, no skill and no reward at first.
LEMMA LessonsTypeInit == LessonsInit => LessonsInv
<1> SUFFICES ASSUME LessonsInit PROVE LessonsInv
  OBVIOUS
<1>1. lesson \in Lesson /\ lesson.open = FALSE
  BY DEF LessonsInit, NoLesson, Lesson, TutorStates, PointOrNone, Forms
<1>2. NoSkill \in Skill
  BY DEF NoSkill, Skill, SkillStates
<1> QED
  BY <1>1, <1>2 DEF LessonsInit, LessonsInv, LessonsTypeOK, Numbered

\* A session that begins.
LEMMA LessonsTypeBegin ==
    ASSUME LessonsInv, Begin
    PROVE  LessonsInv'
<1> USE DEF LessonsInv, LessonsTypeOK
<1>1. /\ NoLesson \in Lesson
      /\ NoLesson = [open |-> FALSE, state |-> "ASK", fails |-> 0, help |-> 0, form |-> "LIFE",
                     active |-> NoPoint, original |-> NoPoint, failed |-> FALSE]
  BY DEF NoLesson, Lesson, TutorStates, PointOrNone, Forms
<1>2. ASSUME NEW f \in Forms, NEW k \in KnowledgePoints
      PROVE  /\ [NoLesson EXCEPT !.open = TRUE, !.form = f, !.active = k] \in Lesson
             /\ [NoLesson EXCEPT !.open = TRUE, !.form = f, !.active = k].active = k
  BY <1>1, <1>2 DEF Lesson, PointOrNone
<1> HIDE DEF NoLesson
<1>3. lesson' \in Lesson /\ lesson'.active \in KnowledgePoints
  <2>1. "TEXTBOOK" \in Forms /\ KnowledgePoints \subseteq PointOrNone
    BY DEF Forms, PointOrNone
  <2>2. PICK k \in KnowledgePoints :
          \/ \E f \in Forms \ {"TEXTBOOK"} :
               lesson' = [NoLesson EXCEPT !.open = TRUE, !.form = f, !.active = k]
          \/ \E p \in Prerequisites[k] :
               lesson' = [NoLesson EXCEPT !.open = TRUE, !.form = "TEXTBOOK", !.active = p,
                                          !.original = k]
    BY DEF Begin
  <2>3. ASSUME NEW f \in Forms,
               lesson' = [NoLesson EXCEPT !.open = TRUE, !.form = f, !.active = k]
        PROVE  lesson' \in Lesson /\ lesson'.active \in KnowledgePoints
    <3>1. k \in PointOrNone
      BY <2>1
    <3> QED
      BY <1>2, <2>3, <3>1
  <2>4. ASSUME NEW p \in Prerequisites[k],
               lesson' = [NoLesson EXCEPT !.open = TRUE, !.form = "TEXTBOOK", !.active = p,
                                          !.original = k]
        PROVE  lesson' \in Lesson /\ lesson'.active \in KnowledgePoints
    <3> DEFINE row == [NoLesson EXCEPT !.open = TRUE, !.form = "TEXTBOOK", !.active = p,
                                       !.original = k]
    <3>1. k \in PointOrNone /\ p \in KnowledgePoints /\ "TEXTBOOK" \in Forms
      BY <2>1
    <3>2. row \in Lesson /\ row.active = p
      BY <1>1, <2>1, <3>1 DEF Lesson
    <3> HIDE DEF row
    <3> QED
      BY <2>4, <3>1, <3>2 DEF row
  <2> QED
    BY <2>2, <2>3, <2>4
<1>4. lessons' = lessons + 1 /\ lessons' \in LessonIds /\ lessons' \in 0 .. MaxLessons
  <2>1. lessons \in 0 .. MaxLessons
    OBVIOUS
  <2>2. lessons < MaxLessons /\ lessons' = lessons + 1
    BY DEF Begin
  <2> HIDE DEF LessonsTypeOK
  <2> QED
    BY <2>1, <2>2 DEF LessonIds
<1>5. UNCHANGED <<skill, evidence, ledger, energy, answers>> /\ seen' = {}
  BY DEF Begin
<1> QED
  BY <1>3, <1>4, <1>5 DEF Numbered

\* A session that is left, or comes back from a voice explanation.
LEMMA LessonsTypeMoves ==
    ASSUME LessonsInv, Leave \/ VoiceReturn
    PROVE  LessonsInv'
<1> USE DEF LessonsInv, LessonsTypeOK
<1>1. CASE Leave
  <2>1. lesson' \in Lesson /\ lesson'.open = FALSE
    BY <1>1 DEF Leave, Lesson
  <2>2. ReviewTask \in KnowledgePoints
    BY <1>1 DEF Leave, ReviewTask, Lesson, PointOrNone
  <2>3. skill' \in [KnowledgePoints -> Skill]
    <3>1. ReviewFailed(skill[ReviewTask]) \in Skill
      BY <2>2, FailedSkill
    <3> QED
      BY <1>1, <2>2, <3>1 DEF Leave
  <2> QED
    BY <1>1, <2>1, <2>3 DEF Leave, Numbered
<1>2. CASE VoiceReturn
  <2>1. "RETURN" \in TutorStates
    BY DEF TutorStates
  <2>2. /\ lesson' \in Lesson /\ lesson'.open = lesson.open /\ lesson'.active = lesson.active
    BY <1>2, <2>1 DEF VoiceReturn, Lesson
  <2> QED
    BY <1>2, <2>1, <2>2 DEF VoiceReturn, Numbered
<1> QED
  BY <1>1, <1>2

\* The skills after a first wrong answer of a review.
LEMMA FailureTypes ==
    ASSUME LessonsInv, lesson.open
    PROVE  /\ AfterFailure \in [KnowledgePoints -> Skill]
           /\ \A k \in KnowledgePoints :
                AfterFailure[k] \in {skill[k], ReviewFailed(skill[k])}
<1>1. lesson.active \in KnowledgePoints /\ skill \in [KnowledgePoints -> Skill]
  BY DEF LessonsInv, LessonsTypeOK
<1>2. ReviewFailed(skill[lesson.active]) \in Skill
  BY <1>1, FailedSkill
<1> QED
  BY <1>1, <1>2 DEF AfterFailure

\* Support and wrong answers.
LEMMA LessonsTypeTeaching ==
    ASSUME LessonsInv,
           \/ \E state \in {"HINT", "EXPLAIN"} : Supported(state)
           \/ \E a \in Analysis : AnswerTaught(a) \/ AnswerBacktracks(a)
    PROVE  LessonsInv'
<1> USE DEF LessonsInv
<1>1. lesson \in Lesson /\ answers' \in 0 .. MaxAnswers /\ lesson.open
      /\ lesson.active \in KnowledgePoints
  <2>1. Asks
    BY DEF Supported, AnswerTaught, AnswerBacktracks
  <2>2. lesson \in Lesson /\ lesson.open /\ lesson.active \in KnowledgePoints
    BY <2>1 DEF LessonsTypeOK, Asks
  <2>3. answers \in 0 .. MaxAnswers /\ answers < MaxAnswers /\ answers' = answers + 1
    BY <2>1 DEF LessonsTypeOK, Asks
  <2> QED
    BY <2>2, <2>3
<1>2. UNCHANGED <<lessons, evidence, ledger, energy>>
  BY DEF Supported, AnswerTaught, AnswerBacktracks
<1>3. FirstFailure \in BOOLEAN
  BY <1>1 DEF FirstFailure, Lesson
<1>4. ASSUME NEW state \in {"HINT", "EXPLAIN"}, Supported(state) PROVE LessonsInv'
  <2>1. state \in TutorStates /\ lesson.fails \in 0 .. MaxRounds
    BY <1>1 DEF TutorStates, Replies, Lesson
  <2>2. lesson' \in Lesson /\ lesson'.open = lesson.open /\ lesson'.active = lesson.active
    BY <1>1, <1>4, <2>1, TaughtLesson DEF Supported
  <2> QED
    BY <1>1, <1>2, <1>4, <2>1, <2>2 DEF Supported, LessonsTypeOK, Numbered
<1>5. ASSUME NEW a \in Analysis, AnswerTaught(a) PROVE LessonsInv'
  <2>1. CASE FailsAfter(a) <= MaxRounds
    <3> DEFINE row == Taught(Teaching(a).next, FailsAfter(a))
    <3>1. Teaching(a).next \in TutorStates /\ FailsAfter(a) \in 0 .. MaxRounds
      BY <1>1, <2>1, TeachingTypes
    <3>2. row \in Lesson /\ row.open = lesson.open /\ row.active = lesson.active
      BY <1>1, <3>1, TaughtLesson
    <3>3. lesson' = [row EXCEPT !.failed = @ \/ FirstFailure]
          /\ skill' = AfterFailure /\ seen' = seen \cup {Teaching(a).next}
      BY <1>5, <2>1 DEF AnswerTaught
    <3> HIDE DEF row
    <3>4. lesson' \in Lesson /\ lesson'.open = lesson.open /\ lesson'.active = lesson.active
      BY <1>3, <3>2, <3>3 DEF Lesson
    <3>5. skill' \in [KnowledgePoints -> Skill] /\ seen' \subseteq TutorStates
      BY <1>1, <3>1, <3>3, FailureTypes DEF LessonsTypeOK
    <3> QED
      BY <1>1, <1>2, <3>4, <3>5 DEF LessonsTypeOK, Numbered
  <2>2. CASE ~(FailsAfter(a) <= MaxRounds)
    <3>1. UNCHANGED <<lesson, skill, seen>>
      BY <1>5, <2>2 DEF AnswerTaught
    <3> QED
      BY <1>1, <1>2, <3>1 DEF LessonsTypeOK, Numbered
  <2> QED
    BY <2>1, <2>2
<1>6. ASSUME NEW a \in Analysis, AnswerBacktracks(a) PROVE LessonsInv'
  <2> DEFINE row == Taught("BACKTRACK", 0)
             original == IF lesson.original = NoPoint THEN lesson.active ELSE lesson.original
  <2>1. "BACKTRACK" \in TutorStates /\ "TEXTBOOK" \in Forms /\ 0 \in 0 .. MaxRounds
    BY DEF TutorStates, Replies, Forms
  <2>2. row \in Lesson /\ row.open = lesson.open /\ row.original = lesson.original
    BY <1>1, <2>1, TaughtLesson
  <2>3. original \in PointOrNone
    BY <1>1 DEF Lesson, PointOrNone
  <2>4. PICK p \in Gaps :
          lesson' = [row EXCEPT !.active = p, !.form = "TEXTBOOK", !.failed = @ \/ FirstFailure,
                                !.original = IF @ = NoPoint THEN lesson.active ELSE @]
    BY <1>6 DEF AnswerBacktracks
  <2>5. p \in KnowledgePoints /\ p \in PointOrNone
    BY <1>1 DEF Gaps, PointOrNone
  <2>6. lesson' = [row EXCEPT !.active = p, !.form = "TEXTBOOK",
                              !.failed = row.failed \/ FirstFailure, !.original = original]
    BY <2>2, <2>4 DEF Lesson
  <2> HIDE DEF row, original
  <2>7. lesson' \in Lesson /\ lesson'.open = lesson.open /\ lesson'.active = p
    BY <1>3, <2>1, <2>2, <2>3, <2>5, <2>6 DEF Lesson
  <2>8. skill' \in [KnowledgePoints -> Skill] /\ seen' \subseteq TutorStates
    BY <1>1, <1>6, <2>1, FailureTypes DEF AnswerBacktracks, LessonsTypeOK
  <2> QED
    BY <1>1, <1>2, <2>5, <2>7, <2>8 DEF LessonsTypeOK, Numbered
<1> QED
  BY <1>4, <1>5, <1>6

\* The reward of a right answer, and whether the session goes on after it.
RightReward(back, mastered) ==
    CASE back -> Reward("CROSS_SUBJECT_INSIGHT", lessons, lesson.active)
      [] ~back /\ mastered -> Reward("MASTERY", NoPoint, lesson.active)
      [] OTHER -> Reward("EFFORT", lessons, NoPoint)

\* A right answer earns one reward.
LEMMA RightRewarded ==
    ASSUME LessonsInv, AnswerRight
    PROVE  \E reward \in RewardRows : Granted(reward)
<1> DEFINE known == Succeeded(skill[lesson.active], lesson.form, lesson.help = 0)
           reward == RightReward(lesson.original \notin {NoPoint, lesson.active},
                                 known.state = "MASTERED")
<1>1. lessons \in LessonIds /\ lesson.active \in KnowledgePoints
  BY DEF LessonsInv, LessonsTypeOK, Numbered, AnswerRight, Asks
<1>2. Granted(reward)
  BY DEF AnswerRight, RightReward
<1>3. reward \in RewardRows
  <2> HIDE DEF known
  <2> QED
    BY <1>1 DEF RightReward, Reward, RewardRows, Rewards, PointOrNone
<1> QED
  BY <1>2, <1>3

\* Right answers.
LEMMA LessonsTypeRight ==
    ASSUME LessonsInv, AnswerRight
    PROVE  LessonsInv'
<1> USE DEF LessonsInv
<1> DEFINE independent == lesson.help = 0
           known == Succeeded(skill[lesson.active], lesson.form, independent)
           back == lesson.original \notin {NoPoint, lesson.active}
<1>1. /\ lesson \in Lesson /\ lesson.open /\ lesson.active \in KnowledgePoints
      /\ lessons \in LessonIds /\ UNCHANGED lessons /\ answers' \in 0 .. MaxAnswers
  BY DEF LessonsTypeOK, Numbered, AnswerRight, Asks
<1>2. known \in Skill
  BY <1>1, SucceededSkill DEF LessonsTypeOK, Lesson
<1>3. skill' \in [KnowledgePoints -> Skill]
  <2>1. skill' = [skill EXCEPT ![lesson.active] = known]
    BY DEF AnswerRight
  <2> HIDE DEF known
  <2> QED
    BY <1>1, <1>2, <2>1 DEF LessonsTypeOK
<1>4. evidence' \subseteq [ses : LessonIds, point : KnowledgePoints, form : Forms]
  <2>1. lesson.form \in Forms
    BY <1>1 DEF Lesson
  <2> QED
    BY <1>1, <2>1 DEF AnswerRight, LessonsTypeOK
<1>5. ledger' \subseteq RewardRows /\ energy' \in Nat
  <2>1. PICK reward \in RewardRows : Granted(reward)
    BY RightRewarded
  <2>2. Award(reward.type) \in Nat
    BY DEF RewardRows, Rewards, Award
  <2> QED
    BY <2>1, <2>2 DEF Granted, LessonsTypeOK, RewardRows
<1>6. lesson' \in Lesson /\ (lesson'.open => lesson'.active \in KnowledgePoints)
      /\ seen' \subseteq TutorStates
  <2>1. "RETURN" \in TutorStates /\ "COMPLETE" \in TutorStates /\ "VARIANT" \in Forms
        /\ 0 \in 0 .. MaxRounds
    BY DEF TutorStates, Forms
  <2>2. CASE back
    <3>1. lesson.original \in KnowledgePoints
      BY <1>1, <2>2 DEF Lesson, PointOrNone
    <3>2. lesson' = [lesson EXCEPT !.state = "RETURN", !.fails = 0, !.active = lesson.original,
                                   !.form = "VARIANT"]
          /\ seen' = seen \cup {"RETURN"}
      BY <2>2 DEF AnswerRight
    <3>3. lesson' \in Lesson /\ lesson'.active = lesson.original
      BY <1>1, <2>1, <3>1, <3>2 DEF Lesson, PointOrNone
    <3> QED
      BY <2>1, <3>1, <3>2, <3>3 DEF LessonsTypeOK
  <2>3. CASE ~back
    <3>1. lesson' = [lesson EXCEPT !.state = "COMPLETE", !.open = FALSE]
          /\ seen' = seen \cup {"COMPLETE"}
      BY <2>3 DEF AnswerRight
    <3>2. lesson' \in Lesson /\ lesson'.open = FALSE
      BY <1>1, <2>1, <3>1 DEF Lesson
    <3> QED
      BY <2>1, <3>1, <3>2 DEF LessonsTypeOK
  <2> QED
    BY <2>2, <2>3
<1> QED
  BY <1>1, <1>3, <1>4, <1>5, <1>6 DEF LessonsTypeOK, Numbered, RewardRows

\* Every step of a student's lessons keeps their types.
LEMMA LessonsTypeStep == LessonsInv /\ [LessonsNext]_lessonVars => LessonsInv'
<1> SUFFICES ASSUME LessonsInv, [LessonsNext]_lessonVars PROVE LessonsInv'
  OBVIOUS
<1>1. CASE UNCHANGED lessonVars
  BY <1>1 DEF lessonVars, LessonsInv, LessonsTypeOK, Numbered
<1> QED
  BY <1>1, LessonsTypeBegin, LessonsTypeMoves, LessonsTypeTeaching, LessonsTypeRight
  DEF LessonsNext

\* Sessions, skills, evidence and rewards keep their types for any knowledge points: no
\* answer that is committed leaves the failed rounds or the level of help out of range.
THEOREM LessonsTypeCorrect == LessonsSpec => []LessonsTypeOK
<1>1. LessonsInv => LessonsTypeOK
  BY DEF LessonsInv
<1> QED
  BY <1>1, LessonsTypeInit, LessonsTypeStep, PTL DEF LessonsSpec

-----------------------------------------------------------------------------
(***************************************************************************)
(* Independent evidence.  AnswerRight takes an answer for independent when *)
(* the session counts no help; the invariant says what that level means    *)
(* for the turns the student has seen.                                     *)
(***************************************************************************)
HelpIsCounted == lesson.help = 0 => seen \cap CognitiveHelp = {}

\* A session without a turn counts no help.
LEMMA HelpCountedInit == LessonsInit => HelpIsCounted
BY DEF LessonsInit, HelpIsCounted

\* A turn counts its help with the row it writes.
LEMMA TurnCounted ==
    ASSUME lesson \in Lesson, HelpIsCounted, NEW state \in TutorStates,
           lesson'.help = Helped(lesson.help, state), seen' = seen \cup {state}
    PROVE  HelpIsCounted'
<1>1. lesson.help \in 0 .. 4
  BY DEF Lesson
<1>2. lesson'.help = 0 => lesson.help = 0 /\ state \notin CognitiveHelp
  BY <1>1, HelpBounds
<1> QED
  BY <1>2 DEF HelpIsCounted

\* Every step keeps the count.
LEMMA HelpCountedStep == LessonsInv /\ HelpIsCounted /\ [LessonsNext]_lessonVars => HelpIsCounted'
<1> SUFFICES ASSUME LessonsInv, HelpIsCounted, [LessonsNext]_lessonVars PROVE HelpIsCounted'
  OBVIOUS
<1>1. lesson \in Lesson
  BY DEF LessonsInv, LessonsTypeOK
<1>2. CASE Begin
  BY <1>2 DEF Begin, HelpIsCounted
<1>3. CASE Leave
  BY <1>1, <1>3 DEF Leave, HelpIsCounted, Lesson
<1>4. CASE VoiceReturn
  <2>1. lesson'.help = lesson.help /\ seen' = seen \cup {"RETURN"}
    BY <1>1, <1>4 DEF VoiceReturn, Lesson
  <2> QED
    BY <2>1 DEF HelpIsCounted, CognitiveHelp
<1>5. ASSUME NEW state \in {"HINT", "EXPLAIN"}, Supported(state) PROVE HelpIsCounted'
  <2>1. state \in TutorStates /\ lesson.fails \in 0 .. MaxRounds
    BY <1>1 DEF TutorStates, Replies, Lesson
  <2>2. lesson'.help = Helped(lesson.help, state) /\ seen' = seen \cup {state}
    BY <1>1, <1>5, <2>1, TaughtLesson DEF Supported
  <2> QED
    BY <1>1, <2>1, <2>2, TurnCounted
<1>6. ASSUME NEW a \in Analysis, AnswerTaught(a) PROVE HelpIsCounted'
  <2>1. CASE FailsAfter(a) <= MaxRounds
    <3> DEFINE row == Taught(Teaching(a).next, FailsAfter(a))
    <3>1. Teaching(a).next \in TutorStates /\ FailsAfter(a) \in 0 .. MaxRounds
      BY <1>1, <2>1, TeachingTypes
    <3>2. row \in Lesson /\ row.help = Helped(lesson.help, Teaching(a).next)
      BY <1>1, <3>1, TaughtLesson
    <3>3. lesson' = [row EXCEPT !.failed = @ \/ FirstFailure]
          /\ seen' = seen \cup {Teaching(a).next}
      BY <1>6, <2>1 DEF AnswerTaught
    <3> HIDE DEF row
    <3>4. lesson'.help = row.help
      BY <3>2, <3>3 DEF Lesson
    <3> QED
      BY <1>1, <3>1, <3>2, <3>3, <3>4, TurnCounted
  <2>2. CASE ~(FailsAfter(a) <= MaxRounds)
    BY <1>6, <2>2 DEF AnswerTaught, HelpIsCounted
  <2> QED
    BY <2>1, <2>2
<1>7. ASSUME NEW a \in Analysis, AnswerBacktracks(a) PROVE HelpIsCounted'
  <2> DEFINE row == Taught("BACKTRACK", 0)
  <2>1. "BACKTRACK" \in TutorStates /\ 0 \in 0 .. MaxRounds
    BY DEF TutorStates, Replies
  <2>2. row \in Lesson /\ row.help = Helped(lesson.help, "BACKTRACK")
    BY <1>1, <2>1, TaughtLesson
  <2>3. \E p \in Gaps :
          lesson' = [row EXCEPT !.active = p, !.form = "TEXTBOOK", !.failed = @ \/ FirstFailure,
                                !.original = IF @ = NoPoint THEN lesson.active ELSE @]
    BY <1>7 DEF AnswerBacktracks
  <2> HIDE DEF row
  <2>4. lesson'.help = row.help
    BY <2>2, <2>3 DEF Lesson
  <2>5. seen' = seen \cup {"BACKTRACK"}
    BY <1>7 DEF AnswerBacktracks
  <2> QED
    BY <1>1, <2>1, <2>2, <2>4, <2>5, TurnCounted
<1>8. CASE AnswerRight
  <2>1. lesson'.help = lesson.help
    BY <1>1, <1>8 DEF AnswerRight, Lesson
  <2>2. seen' \subseteq seen \cup {"RETURN", "COMPLETE"}
    BY <1>8 DEF AnswerRight
  <2> QED
    BY <2>1, <2>2 DEF HelpIsCounted, CognitiveHelp
<1>9. CASE UNCHANGED lessonVars
  BY <1>9 DEF lessonVars, HelpIsCounted
<1> QED
  BY <1>2, <1>3, <1>4, <1>5, <1>6, <1>7, <1>8, <1>9 DEF LessonsNext

\* Only a right answer writes evidence, and only in a session that counts no help.
LEMMA EvidenceUnaided ==
    ASSUME LessonsInv, HelpIsCounted, [LessonsNext]_lessonVars, evidence' # evidence
    PROVE  seen \cap CognitiveHelp = {}
<1>1. AnswerRight
  BY DEF LessonsNext, lessonVars, Begin, Leave, VoiceReturn, Supported, AnswerTaught,
         AnswerBacktracks
<1>2. lesson.help = 0
  BY <1>1 DEF AnswerRight
<1> QED
  BY <1>2 DEF HelpIsCounted

\* Evidence that counts as independent follows no cognitive help of that session, whatever
\* breaks, voice returns and changes of task lie between.
THEOREM IndependentUnaidedHolds == LessonsSpec => IndependentUnaided
<1>1. LessonsInv /\ HelpIsCounted /\ [LessonsNext]_lessonVars
        => [evidence' # evidence => seen \cap CognitiveHelp = {}]_lessonVars
  BY EvidenceUnaided
<1> QED
  BY <1>1, LessonsTypeInit, LessonsTypeStep, HelpCountedInit, HelpCountedStep, PTL
  DEF LessonsSpec, IndependentUnaided

-----------------------------------------------------------------------------
(***************************************************************************)
(* Mastery.  A skill's forms are kept beside its evidence rows; a step     *)
(* succeeds with one skill (Succeeds), or fails some in review (Fails).    *)
(***************************************************************************)
FormsOf(k) == {e.form : e \in {d \in evidence : d.point = k}}

\* The forms are those of the evidence, and mastery is all four of them, or was until a
\* review failed.
SkillsFromEvidence ==
    \A k \in KnowledgePoints :
        /\ skill[k].forms = FormsOf(k)
        /\ skill[k].state = "MASTERED" => skill[k].forms = Forms
        /\ skill[k].forms = Forms => skill[k].state \in {"MASTERED", "REGRESSED"}

Fails ==
    /\ \A k \in KnowledgePoints : skill'[k] \in {skill[k], ReviewFailed(skill[k])}
    /\ UNCHANGED evidence

Succeeds(point, form, independent) ==
    /\ skill' = [skill EXCEPT ![point] = Succeeded(@, form, independent)]
    /\ evidence' = IF independent
                   THEN evidence \cup {[ses |-> lessons, point |-> point, form |-> form]}
                   ELSE evidence

\* No form has been shown at first.
LEMMA SkillsInit == LessonsInit => SkillsFromEvidence
BY DEF LessonsInit, SkillsFromEvidence, FormsOf, NoSkill, Forms

\* A failed review keeps what was shown.
LEMMA FailsKeeps ==
    ASSUME LessonsInv, SkillsFromEvidence, Fails
    PROVE  SkillsFromEvidence'
<1> SUFFICES ASSUME NEW k \in KnowledgePoints
             PROVE  /\ skill'[k].forms = FormsOf(k)'
                    /\ skill'[k].state = "MASTERED" => skill'[k].forms = Forms
                    /\ skill'[k].forms = Forms => skill'[k].state \in {"MASTERED", "REGRESSED"}
  BY DEF SkillsFromEvidence
<1>1. skill[k] \in Skill
  BY DEF LessonsInv, LessonsTypeOK
<1>2. ReviewFailed(skill[k]).forms = skill[k].forms /\ ReviewFailed(skill[k]).state = "REGRESSED"
  BY <1>1, FailedSkill
<1>3. FormsOf(k)' = FormsOf(k)
  BY DEF FormsOf, Fails
<1>4. skill'[k] \in {skill[k], ReviewFailed(skill[k])}
  BY DEF Fails
<1> QED
  BY <1>2, <1>3, <1>4 DEF SkillsFromEvidence

\* A right answer shows one form of one skill more, with its evidence row, or none.
LEMMA SucceedsKeeps ==
    ASSUME LessonsInv, SkillsFromEvidence, NEW point \in KnowledgePoints, NEW form \in Forms,
           NEW independent \in BOOLEAN, Succeeds(point, form, independent)
    PROVE  SkillsFromEvidence'
<1> DEFINE known == Succeeded(skill[point], form, independent)
<1>1. skill \in [KnowledgePoints -> Skill]
  BY DEF LessonsInv, LessonsTypeOK
<1>2. /\ known.forms = IF independent THEN skill[point].forms \cup {form} ELSE skill[point].forms
      /\ known.state = "MASTERED" <=> known.forms = Forms
  BY <1>1, SucceededSkill
<1> HIDE DEF known
<1>3. \A k \in KnowledgePoints : skill'[k] = IF k = point THEN known ELSE skill[k]
  BY <1>1 DEF Succeeds, known
<1>4. ASSUME NEW k \in KnowledgePoints
      PROVE  FormsOf(k)' = IF k = point /\ independent THEN FormsOf(k) \cup {form} ELSE FormsOf(k)
  <2>1. CASE independent
    <3> DEFINE row == [ses |-> lessons, point |-> point, form |-> form]
    <3>1. evidence' = evidence \cup {row} /\ row.point = point /\ row.form = form
      BY <2>1 DEF Succeeds
    <3> HIDE DEF row
    <3>2. CASE k = point
      BY <2>1, <3>1, <3>2 DEF FormsOf
    <3>3. CASE k # point
      <4>1. {d \in evidence' : d.point = k} = {d \in evidence : d.point = k}
        BY <3>1, <3>3
      <4> QED
        BY <3>3, <4>1 DEF FormsOf
    <3> QED
      BY <3>2, <3>3
  <2>2. CASE ~independent
    BY <2>2 DEF FormsOf, Succeeds
  <2> QED
    BY <2>1, <2>2
<1> SUFFICES ASSUME NEW k \in KnowledgePoints
             PROVE  /\ skill'[k].forms = FormsOf(k)'
                    /\ skill'[k].state = "MASTERED" => skill'[k].forms = Forms
                    /\ skill'[k].forms = Forms => skill'[k].state \in {"MASTERED", "REGRESSED"}
  BY DEF SkillsFromEvidence
<1>5. CASE k = point
  BY <1>2, <1>3, <1>4, <1>5 DEF SkillsFromEvidence
<1>6. CASE k # point
  BY <1>3, <1>4, <1>6 DEF SkillsFromEvidence
<1> QED
  BY <1>5, <1>6

\* Every step succeeds with a skill or fails some.
LEMMA SkillsStep ==
    LessonsInv /\ SkillsFromEvidence /\ [LessonsNext]_lessonVars => SkillsFromEvidence'
<1> SUFFICES ASSUME LessonsInv, SkillsFromEvidence, [LessonsNext]_lessonVars
             PROVE  SkillsFromEvidence'
  OBVIOUS
<1>1. skill \in [KnowledgePoints -> Skill] /\ lesson \in Lesson
  BY DEF LessonsInv, LessonsTypeOK
<1>2. CASE UNCHANGED <<skill, evidence>>
  <2>1. Fails
    BY <1>2 DEF Fails
  <2> QED
    BY <2>1, FailsKeeps
<1>3. CASE Leave
  <2>1. Fails
    BY <1>1, <1>3 DEF Leave, Fails
  <2> QED
    BY <2>1, FailsKeeps
<1>4. ASSUME NEW a \in Analysis, AnswerTaught(a) \/ AnswerBacktracks(a) PROVE SkillsFromEvidence'
  <2>1. lesson.open /\ skill' \in {skill, AfterFailure} /\ UNCHANGED evidence
    BY <1>4 DEF AnswerTaught, AnswerBacktracks, Asks
  <2>2. Fails
    BY <2>1, FailureTypes DEF Fails
  <2> QED
    BY <2>2, FailsKeeps
<1>5. CASE AnswerRight
  <2>1. lesson.active \in KnowledgePoints /\ lesson.form \in Forms
    BY <1>5 DEF LessonsInv, LessonsTypeOK, AnswerRight, Asks, Lesson
  <2>2. Succeeds(lesson.active, lesson.form, lesson.help = 0)
    BY <1>5 DEF AnswerRight, Succeeds
  <2> QED
    BY <2>1, <2>2, SucceedsKeeps
<1> QED
  BY <1>2, <1>3, <1>4, <1>5
  DEF LessonsNext, lessonVars, Begin, VoiceReturn, Supported

\* The forms a skill counts are those of its evidence rows; mastery takes a row of each of
\* the four, through any regressions and assisted successes, and nothing else scores 100.
THEOREM MasteryEarnedHolds == LessonsSpec => []MasteryEarned
<1>1. LessonsInv /\ SkillsFromEvidence => MasteryEarned
  <2> SUFFICES ASSUME LessonsInv, SkillsFromEvidence, NEW k \in KnowledgePoints
               PROVE  /\ skill[k].forms = {e.form : e \in {d \in evidence : d.point = k}}
                      /\ skill[k].state = "MASTERED" => skill[k].forms = Forms
                      /\ Score(skill[k]) = 100 => skill[k].state = "MASTERED"
    BY DEF MasteryEarned
  <2>1. skill[k] \in Skill
    BY DEF LessonsInv, LessonsTypeOK
  <2>2. Score(skill[k]) = 100 => skill[k].state = "MASTERED"
    BY <2>1, ScoreOfAll DEF SkillsFromEvidence
  <2> QED
    BY <2>2 DEF SkillsFromEvidence, FormsOf
<1> QED
  BY <1>1, LessonsTypeInit, LessonsTypeStep, SkillsInit, SkillsStep, PTL DEF LessonsSpec

-----------------------------------------------------------------------------
(***************************************************************************)
(* Growth.  The ledger is finite, and only a reward that is new to it      *)
(* counts.                                                                 *)
(***************************************************************************)
GrowthInv == GrowthIsLedger /\ IsFiniteSet(ledger)

\* Nothing is earned at first.
LEMMA GrowthInit == LessonsInit => GrowthInv
<1> SUFFICES ASSUME LessonsInit PROVE GrowthInv
  OBVIOUS
<1>1. ledger = {} /\ energy = 0
  BY DEF LessonsInit
<1>2. IsFiniteSet({}) /\ Cardinality({}) = 0
  BY FS_EmptySet
<1>3. \A type : RewardsOf(type) = {}
  BY <1>1 DEF RewardsOf
<1>4. \A type : Cardinality(RewardsOf(type)) = 0
  BY <1>2, <1>3
<1>5. GrowthIsLedger
  <2>1. Award("EFFORT") = 2 /\ Award("MASTERY") = 12 /\ Award("CROSS_SUBJECT_INSIGHT") = 6
    BY DEF Award
  <2> QED
    BY <1>1, <1>4, <2>1 DEF GrowthIsLedger
<1> QED
  BY <1>1, <1>2, <1>5 DEF GrowthInv

\* A new reward is one more of its type.
LEMMA OneRewardMore ==
    ASSUME IsFiniteSet(ledger), NEW reward, reward \notin ledger, ledger' = ledger \cup {reward},
           NEW type
    PROVE  /\ Cardinality(RewardsOf(type)) \in Nat
           /\ Cardinality(RewardsOf(type))'
                = Cardinality(RewardsOf(type)) + (IF type = reward.type THEN 1 ELSE 0)
<1>1. RewardsOf(type) \in SUBSET ledger
  BY DEF RewardsOf
<1>2. IsFiniteSet(RewardsOf(type)) /\ Cardinality(RewardsOf(type)) \in Nat
  BY <1>1, FS_Subset, FS_CardinalityType
<1>3. CASE type = reward.type
  <2>1. RewardsOf(type)' = RewardsOf(type) \cup {reward} /\ reward \notin RewardsOf(type)
    BY <1>3 DEF RewardsOf
  <2>2. Cardinality(RewardsOf(type) \cup {reward}) = Cardinality(RewardsOf(type)) + 1
    BY <1>2, <2>1, FS_AddElement
  <2> QED
    BY <1>2, <1>3, <2>1, <2>2
<1>4. CASE type # reward.type
  <2>1. RewardsOf(type)' = RewardsOf(type)
    BY <1>4 DEF RewardsOf
  <2> QED
    BY <1>2, <1>4, <2>1
<1> QED
  BY <1>3, <1>4

\* A reward that is granted counts once.
LEMMA GrantedKeeps ==
    ASSUME LessonsInv, GrowthInv, NEW reward \in RewardRows, Granted(reward)
    PROVE  GrowthInv'
<1>1. IsFiniteSet(ledger) /\ ledger' = ledger \cup {reward}
  BY DEF GrowthInv, Granted
<1>2. IsFiniteSet(ledger')
  BY <1>1, FS_AddElement
<1>3. CASE reward \in ledger
  <2>1. ledger' = ledger /\ energy' = energy
    BY <1>1, <1>3 DEF Granted
  <2> QED
    BY <1>2, <2>1 DEF GrowthInv, GrowthIsLedger, RewardsOf
<1>4. CASE reward \notin ledger
  <2> DEFINE efforts == Cardinality(RewardsOf("EFFORT"))
             masteries == Cardinality(RewardsOf("MASTERY"))
             insights == Cardinality(RewardsOf("CROSS_SUBJECT_INSIGHT"))
  <2>1. /\ efforts \in Nat /\ masteries \in Nat /\ insights \in Nat
        /\ efforts' = efforts + (IF "EFFORT" = reward.type THEN 1 ELSE 0)
        /\ masteries' = masteries + (IF "MASTERY" = reward.type THEN 1 ELSE 0)
        /\ insights' = insights + (IF "CROSS_SUBJECT_INSIGHT" = reward.type THEN 1 ELSE 0)
    BY <1>1, <1>4, OneRewardMore
  <2>2. energy = 2 * efforts + 12 * masteries + 6 * insights
    BY DEF GrowthInv, GrowthIsLedger, Award
  <2>3. energy' = energy + Award(reward.type)
    BY <1>4 DEF Granted
  <2>4. GrowthIsLedger' <=> energy' = 2 * efforts' + 12 * masteries' + 6 * insights'
    BY DEF GrowthIsLedger, Award
  <2>5. reward.type \in Rewards
    BY DEF RewardRows
  <2> HIDE DEF efforts, masteries, insights
  <2>6. energy' = 2 * efforts' + 12 * masteries' + 6 * insights'
    <3>1. CASE reward.type = "EFFORT"
      BY <2>1, <2>2, <2>3, <3>1 DEF Award
    <3>2. CASE reward.type = "MASTERY"
      BY <2>1, <2>2, <2>3, <3>2 DEF Award
    <3>3. CASE reward.type = "CROSS_SUBJECT_INSIGHT"
      BY <2>1, <2>2, <2>3, <3>3 DEF Award
    <3> QED
      BY <2>5, <3>1, <3>2, <3>3 DEF Rewards
  <2> QED
    BY <1>2, <2>4, <2>6 DEF GrowthInv
<1> QED
  BY <1>3, <1>4

\* Only a right answer grants a reward.
LEMMA GrowthStep == LessonsInv /\ GrowthInv /\ [LessonsNext]_lessonVars => GrowthInv'
<1> SUFFICES ASSUME LessonsInv, GrowthInv, [LessonsNext]_lessonVars PROVE GrowthInv'
  OBVIOUS
<1>1. CASE UNCHANGED <<ledger, energy>>
  BY <1>1 DEF GrowthInv, GrowthIsLedger, RewardsOf
<1>2. CASE AnswerRight
  BY <1>2, RightRewarded, GrantedKeeps
<1> QED
  BY <1>1, <1>2 DEF LessonsNext, lessonVars, Begin, Leave, VoiceReturn, Supported, AnswerTaught,
                    AnswerBacktracks

\* The growth total is the sum of the reward events, however often a reward is earned again.
THEOREM GrowthIsLedgerHolds == LessonsSpec => []GrowthIsLedger
<1>1. GrowthInv => GrowthIsLedger
  BY DEF GrowthInv
<1> QED
  BY <1>1, LessonsTypeInit, LessonsTypeStep, GrowthInit, GrowthStep, PTL DEF LessonsSpec
=============================================================================
