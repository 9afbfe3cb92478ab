---------------------------- MODULE TutorTurnProofs ----------------------------
(***************************************************************************)
(* The safety of TutorTurn, for every number of operations and failures,   *)
(* every latency and pause, and every set of timeouts whose sum is less    *)
(* than the lease.                                                         *)
(*                                                                         *)
(* The properties are about the end of an operation; the invariant says    *)
(* what is known at each step on the way (Stages) and how much of the      *)
(* lease may be used by then (Budget).                                     *)
(***************************************************************************)
EXTENDS TutorTurn, TLAPS

\* Nothing is known of an operation that has not begun.
Fresh ==
    \A n \in Ops : n > asked =>
        ended[n] = Null /\ audits[n] = Null /\ n \notin leaks /\ <<n, "generate">> \notin billed

\* What the operation at work has spent of its deadlines.
Budget ==
    /\ op.pc = "analyse" => op.clock <= op.until /\ op.until <= RetryTimeout
    /\ op.pc \in {"generate", "review"} =>
         op.clock <= op.until /\ op.until <= op.outer /\ op.outer <= RetryTimeout + TurnTimeout
    /\ op.pc = "record" => op.clock <= RetryTimeout + TurnTimeout
    /\ op.pc = "voice" => op.clock <= RetryTimeout + TurnTimeout + RecordTimeout
    /\ op.pc = "commit" => op.clock <= RetryTimeout + TurnTimeout + RecordTimeout + HTTPTimeout

\* The turn of the operation at work was written, reviewed and passed.
Passed ==
    /\ audits[asked] = "PASS" /\ asked \notin leaks
    /\ {<<asked, "generate">>, <<asked, "review">>} \subseteq billed

\* What is known of the operation at work.
Stages ==
    /\ op.pc # "rest" => asked \in Ops /\ ended[asked] = Null
    /\ op.pc = "analyse" => op.kind = "ANSWER"
    /\ op.pc \in Steps \ {"rest", "analyse"} =>
         op.decision # Null /\ (op.kind # "ANSWER" => op.decision.next # "VOICE_EXPLAIN")
    /\ op.pc \in {"analyse", "generate"} => <<asked, "generate">> \notin billed /\ asked \notin leaks
    /\ op.pc \in {"analyse", "generate", "review", "record"} => audits[asked] = Null
    /\ op.pc \in {"review", "record"} => <<asked, "generate">> \in billed
    /\ op.pc = "record" =>
         /\ op.verdict # Null
         /\ op.verdict = "PASS" => asked \notin leaks /\ <<asked, "review">> \in billed
    /\ op.pc = "voice" => Passed
    /\ op.pc = "commit" =>
         /\ NeedsTurn => Passed
         /\ NeedsTurn /\ op.decision.next = "VOICE_EXPLAIN" => <<asked, "voice">> \in billed
         /\ <<asked, "generate">> \in billed => audits[asked] # Null

TurnInv ==
    /\ TypeOK /\ Fresh /\ Budget /\ Stages
    /\ ApprovedOnly /\ AuditTrail /\ PaidFor

-----------------------------------------------------------------------------
\* The engine's answers are decisions.
LEMMA DecideType == \A fails \in Nat, a \in Analysis : Decide(fails, a) \in Decision
BY RoundsAssumption DEF Decide, Decision, Reply, Analysis, TutorStates, Replies, Advices

\* What a call takes leaves the clock within the deadline of its loop.
LEMMA SpanBound ==
    ASSUME op \in Op, op.clock <= op.until, NEW d \in Spans
    PROVE  d \in Nat /\ op.clock + d <= op.until
BY BudgetAssumption DEF Spans, Op

\* An operation that enters or leaves a loop keeps the shape of one.
LEMMA LoopTypes ==
    ASSUME NEW o \in Op, NEW step \in Steps
    PROVE  /\ \A until \in Nat : Entering(o, step, until) \in Op
           /\ Leaving(o, step) \in Op
BY BudgetAssumption DEF Op, Entering, Leaving

\* So does one that starts to generate.
LEMMA GeneratingType ==
    ASSUME NEW o \in Op, NEW decision \in Decision
    PROVE  Generating(o, decision) \in Op
<1>1. RetryTimeout \in Nat /\ TurnTimeout \in Nat
  BY BudgetAssumption
<1>2. /\ o.clock \in Nat /\ o.clock + TurnTimeout \in Nat
      /\ Smaller(o.clock + TurnTimeout, o.clock + RetryTimeout) \in Nat
  BY <1>1 DEF Op, Smaller
<1>3. \A until \in Nat : Entering(o, "generate", until) \in Op
  BY LoopTypes DEF Steps, Calls
<1>4. \A e \in Op, w \in Nat : [e EXCEPT !.outer = w, !.decision = decision] \in Op
  BY DEF Op
<1> QED BY <1>2, <1>3, <1>4 DEF Generating

\* What entering and leaving a loop, generating and taking time leave as they find it.
LEMMA Fields ==
    ASSUME NEW o \in Op
    PROVE  /\ \A step \in Steps, until \in Nat :
                LET e == Entering(o, step, until) IN
                /\ e.pc = step /\ e.until = until /\ e.clock = o.clock /\ e.outer = o.outer
                /\ e.kind = o.kind /\ e.right = o.right /\ e.decision = o.decision
           /\ \A step \in Steps :
                LET e == Leaving(o, step) IN
                /\ e.pc = step /\ e.clock = o.clock /\ e.gone = o.gone /\ e.verdict = o.verdict
                /\ e.kind = o.kind /\ e.right = o.right /\ e.decision = o.decision
           /\ \A decision \in Decision :
                LET e == Generating(o, decision) IN
                /\ e.pc = "generate" /\ e.clock = o.clock /\ e.outer = o.clock + TurnTimeout
                /\ e.until = Smaller(e.outer, o.clock + RetryTimeout)
                /\ e.kind = o.kind /\ e.right = o.right /\ e.decision = decision
BY DEF Op, Entering, Leaving, Generating

\* What taking time leaves.
LEMMA TakingFields ==
    ASSUME op \in Op, NEW d \in Nat
    PROVE  LET e == Taking(d) IN
           /\ e \in Op /\ e.clock = op.clock + d /\ e.pc = op.pc /\ e.until = op.until
           /\ e.outer = op.outer /\ e.gone = op.gone /\ e.verdict = op.verdict
           /\ e.kind = op.kind /\ e.right = op.right /\ e.decision = op.decision
BY DEF Op, Taking

\* An operation at rest keeps the shape of one.
LEMMA RestingType == Resting \in Op /\ Resting.pc = "rest"
BY DEF Resting, Op, Steps, Kinds

\* No operation is at work at first.
LEMMA TurnInitial == Init => TurnInv
<1> SUFFICES ASSUME Init PROVE TurnInv
  OBVIOUS
<1>1. TypeOK
  <2>1. 0 \in 0 .. MaxOps /\ 0 \in 0 .. MaxFaults
    BY TurnBounds
  <2>2. ended \in [Ops -> Outcomes \cup {Null}] /\ audits \in [Ops -> Verdicts \cup {Null}]
    BY DEF Init
  <2> QED BY <2>1, <2>2, RestingType DEF Init, TypeOK
<1>2. Fresh /\ Budget /\ Stages
  BY RestingType DEF Init, Fresh, Budget, Stages
<1>3. ApprovedOnly /\ PaidFor
  BY DEF Init, ApprovedOnly, Approved, PaidFor
<1>4. AuditTrail
  BY TurnNull DEF Init, AuditTrail, Outcomes, Verdicts
<1> QED BY <1>1, <1>2, <1>3, <1>4 DEF TurnInv

-----------------------------------------------------------------------------
\* Every step keeps the types.
LEMMA TypeStep == TypeOK /\ Budget /\ Stages /\ Next => TypeOK'
<1> SUFFICES ASSUME TypeOK, Budget, Stages, Next PROVE TypeOK'
  OBVIOUS
<1>1. /\ op \in Op /\ asked \in 0 .. MaxOps /\ ended \in [Ops -> Outcomes \cup {Null}]
      /\ op.pc # "rest" => asked \in Ops
  BY DEF TypeOK, Stages
<1>2. ASSUME NEW outcome \in Outcomes, op.pc # "rest", End(outcome)
      PROVE  op' \in Op /\ ended' \in [Ops -> Outcomes \cup {Null}]
  BY <1>1, <1>2, RestingType DEF End
<1>3. ASSUME Fault PROVE faults' \in 0 .. MaxFaults
  BY <1>3, TurnBounds DEF Fault, TypeOK
<1>4. ASSUME NEW what \in Calls \cup {"voice"}, Bill(what), op.pc # "rest"
      PROVE  billed' \subseteq Ops \X (Calls \cup {"voice"})
  BY <1>1, <1>4 DEF Bill, TypeOK
<1>5. ASSUME NEW d \in Nat PROVE Taking(d) \in Op /\ Taking(d).pc = op.pc
  BY <1>1, <1>5 DEF Taking, Op
<1>6. \A d \in Spans : op.pc \in Calls => d \in Nat
  BY <1>1, SpanBound DEF Budget, Calls
<1>7. Calls \subseteq Steps /\ {"record", "voice", "commit"} \subseteq Steps
      /\ Verdicts \cup {"ERROR", "BUSY", "OK", "GONE", "UNRECORDED", "CHANGED", "CRASH"}
           \subseteq Outcomes
  BY DEF Steps, Calls, Outcomes
<1>8. ASSUME NEW o \in Op, NEW outcome \in Outcomes, op.pc # "rest", StageFails(o, outcome)
      PROVE  op' \in Op /\ ended' \in [Ops -> Outcomes \cup {Null}]
  <2>1. [Leaving(o, "record") EXCEPT !.verdict = "UNAVAILABLE"] \in Op
    BY DEF Leaving, Op, Steps, Verdicts
  <2> QED BY <1>1, <1>2, <1>8, <2>1 DEF StageFails
<1>10. ASSUME NEW kind \in Kinds, Ask(kind) PROVE TypeOK'
  <2>1. asked' \in 0 .. MaxOps
    BY <1>1, <1>10, TurnBounds DEF Ask
  <2>2. op' \in Op
    <3>1. ASSUME NEW match \in BOOLEAN
          PROVE  Entering([Resting EXCEPT !.right = match], "analyse", RetryTimeout) \in Op
      <4>1. [Resting EXCEPT !.right = match] \in Op
        BY DEF Resting, Op, Steps, Kinds
      <4> QED BY <4>1, LoopTypes, BudgetAssumption DEF Steps, Calls
    <3>2. CASE kind # "ANSWER"
      <4>1. [Resting EXCEPT !.kind = kind] \in Op
        BY DEF Resting, Op, Steps, Kinds
      <4>2. Reply(kind, 0) \in Decision
        BY <3>2 DEF Kinds, Reply, Decision, TutorStates, Replies
      <4>3. Generating([Resting EXCEPT !.kind = kind], Reply(kind, 0)) \in Op
        BY <4>1, <4>2, GeneratingType
      <4> QED BY <1>10, <3>2, <4>3 DEF Ask
    <3> QED BY <1>10, <3>1, <3>2 DEF Ask
  <2> QED BY <1>10, <2>1, <2>2 DEF Ask, TypeOK
<1>11. ASSUME NEW d \in Spans, NEW a \in Analysis, NEW fails \in 0 .. MaxRounds,
              Analysed(d, a, fails)
       PROVE  TypeOK'
  <2>1. op.pc = "analyse" /\ d \in Nat
    BY <1>6, <1>11 DEF Analysed, Calls
  <2> DEFINE decision == Decide(fails, a)
             known == [Taking(d) EXCEPT !.right = @ \/ (a.right /\ a.sure), !.decision = decision]
  <2>2. decision \in Decision
    BY DecideType, RoundsAssumption
  <2> HIDE DEF decision
  <2>3. known \in Op
    <3> DEFINE right == op.right \/ (a.right /\ a.sure)
    <3>1. right \in BOOLEAN
      OBVIOUS
    <3>2. Taking(d).right = op.right
      BY <1>1 DEF Taking, Op
    <3> HIDE DEF right
    <3>3. \A o \in Op, r \in BOOLEAN, c \in Decision :
            [o EXCEPT !.right = r, !.decision = c] \in Op
      BY DEF Op
    <3> QED BY <1>5, <2>1, <2>2, <3>1, <3>2, <3>3 DEF right
  <2> HIDE DEF known
  <2>5. Leaving(known, "commit") \in Op /\ Generating(known, decision) \in Op
    BY <1>7, <2>2, <2>3, LoopTypes, GeneratingType
  <2>6. op' \in Op
    BY <1>11, <2>5 DEF Analysed, known, decision
  <2>7. billed' \subseteq Ops \X (Calls \cup {"voice"})
    BY <1>4, <1>11, <2>1 DEF Analysed, Calls
  <2> QED BY <1>11, <2>6, <2>7 DEF Analysed, TypeOK
<1>12. ASSUME NEW d \in Spans, Generated(d) PROVE TypeOK'
  <2>1. op.pc = "generate" /\ d \in Nat
    BY <1>6, <1>12 DEF Generated, Calls
  <2> DEFINE until == Smaller(Taking(d).outer, Taking(d).clock + RetryTimeout)
  <2>2. Taking(d).outer \in Nat /\ Taking(d).clock \in Nat
    BY <1>5, <2>1 DEF Op
  <2>3. until \in Nat
    BY <2>2, BudgetAssumption DEF Smaller
  <2> HIDE DEF until
  <2>4. Entering(Taking(d), "review", until) \in Op
    BY <1>5, <2>1, <2>3, LoopTypes DEF Steps, Calls
  <2>5. op' \in Op
    BY <1>12, <2>4 DEF Generated, Reviewing, until
  <2>6. billed' \subseteq Ops \X (Calls \cup {"voice"})
    BY <1>4, <1>12, <2>1 DEF Generated, Calls
  <2>7. leaks' \subseteq Ops /\ faults' \in 0 .. MaxFaults
    BY <1>1, <1>3, <1>12, <2>1 DEF Generated, TypeOK
  <2> QED BY <1>12, <2>5, <2>6, <2>7 DEF Generated, TypeOK
<1>13. ASSUME NEW d \in Spans, Reviewed(d) PROVE TypeOK'
  <2>1. op.pc = "review" /\ d \in Nat
    BY <1>6, <1>13 DEF Reviewed, Calls
  <2>2. \A known, pass \in BOOLEAN : Verdict(known, pass) \in Verdicts
    BY DEF Verdict, Verdicts
  <2>3. \A v \in Verdicts : [Leaving(Taking(d), "record") EXCEPT !.verdict = v] \in Op
    <3>1. Leaving(Taking(d), "record") \in Op
      BY <1>5, <1>7, <2>1, LoopTypes
    <3> QED BY <3>1 DEF Op
  <2>4. op' \in Op
    BY <1>13, <2>2, <2>3 DEF Reviewed
  <2>5. billed' \subseteq Ops \X (Calls \cup {"voice"})
    BY <1>4, <1>13, <2>1 DEF Reviewed, Calls
  <2>6. faults' \in 0 .. MaxFaults
    BY <1>3, <1>13 DEF Reviewed, TypeOK
  <2> QED BY <1>13, <2>4, <2>5, <2>6 DEF Reviewed, TypeOK
<1>14. ASSUME NEW d \in Spans, CallFails(d) PROVE TypeOK'
  <2>1. op.pc \in Calls /\ op.pc # "rest" /\ d \in Nat
    BY <1>6, <1>14 DEF CallFails, Calls
  <2>2. op' \in Op /\ ended' \in [Ops -> Outcomes \cup {Null}]
    BY <1>5, <1>7, <1>8, <1>14, <2>1 DEF CallFails
  <2>3. billed' \subseteq Ops \X (Calls \cup {"voice"})
    BY <1>4, <1>14, <2>1 DEF CallFails, TypeOK
  <2> QED BY <1>3, <1>14, <2>2, <2>3 DEF CallFails, TypeOK
<1>15. ASSUME NEW d \in Spans, CallBusy(d) PROVE TypeOK'
  <2>1. op.pc \in Calls /\ op.pc # "rest" /\ d \in Nat
    BY <1>6, <1>15 DEF CallBusy, Calls
  <2>2. PICK p \in Pauses, asks \in BOOLEAN :
          LET pause == IF asks THEN Larger(p, op.delay) ELSE op.delay + p
              late == op.clock + d + pause >= op.until
          IN IF MayRetry(pause) /\ ~late
             THEN op' = Retried(Taking(d), pause) /\ UNCHANGED ended
             ELSE StageFails(IF MayRetry(pause) THEN [op EXCEPT !.clock = op.until] ELSE Taking(d),
                             "BUSY")
    BY <1>15 DEF CallBusy
  <2> DEFINE pause == IF asks THEN Larger(p, op.delay) ELSE op.delay + p
  <2>3. pause \in Nat
    BY <1>1, BudgetAssumption DEF Op, Larger
  <2> HIDE DEF pause
  <2>4. Retried(Taking(d), pause) \in Op
    <3>1. \A o \in Op : [o EXCEPT !.att = o.att + 1, !.delay = 2 * o.delay,
                                  !.waited = o.waited + pause, !.clock = o.clock + pause] \in Op
      <4> SUFFICES ASSUME NEW o \in Op
                   PROVE  [o EXCEPT !.att = o.att + 1, !.delay = 2 * o.delay,
                             !.waited = o.waited + pause, !.clock = o.clock + pause] \in Op
        OBVIOUS
      <4>1. /\ o.att + 1 \in Nat /\ 2 * o.delay \in Nat
            /\ o.waited + pause \in Nat /\ o.clock + pause \in Nat
        BY <2>3 DEF Op
      <4>2. \A w, x, y, z \in Nat :
              [o EXCEPT !.att = w, !.delay = x, !.waited = y, !.clock = z] \in Op
        BY DEF Op
      <4> QED BY <4>1, <4>2
    <3> QED BY <1>5, <2>1, <3>1 DEF Retried
  <2>5. [op EXCEPT !.clock = op.until] \in Op
    BY <1>1 DEF Op
  <2>6. op' \in Op /\ ended' \in [Ops -> Outcomes \cup {Null}]
    BY <1>1, <1>5, <1>7, <1>8, <2>1, <2>2, <2>4, <2>5 DEF pause
  <2> QED BY <1>3, <1>15, <2>6 DEF CallBusy, TypeOK
<1>16. ASSUME NEW d \in Spans, ChainRefused(d) PROVE TypeOK'
  <2>1. d \in Nat
    BY <1>6, <1>16 DEF ChainRefused, Calls
  <2> QED BY <1>5, <1>16, <2>1 DEF ChainRefused, TypeOK
<1>17. ASSUME NEW d \in {0, RecordTimeout}, Record(d) PROVE TypeOK'
  <2>1. d \in Nat /\ op.pc # "rest" /\ op.verdict \in Verdicts
    BY <1>1, <1>17, BudgetAssumption DEF Record, Op, Stages
  <2>2. [Taking(d) EXCEPT !.pc = AfterAudit] \in Op
    BY <1>5, <2>1 DEF AfterAudit, Op, Steps
  <2>3. op' \in Op /\ ended' \in [Ops -> Outcomes \cup {Null}]
    BY <1>1, <1>2, <1>7, <1>17, <2>1, <2>2 DEF Record
  <2>4. audits' \in [Ops -> Verdicts \cup {Null}]
    BY <1>1, <1>17, <2>1 DEF Record, TypeOK
  <2> QED BY <1>17, <2>3, <2>4 DEF Record, TypeOK
<1>18. CASE RecordFails
  BY <1>1, <1>2, <1>3, <1>7, <1>18 DEF RecordFails, TypeOK
<1>19. ASSUME NEW d \in {0, HTTPTimeout}, Spoken(d) PROVE TypeOK'
  <2>1. d \in Nat /\ op.pc # "rest"
    BY <1>19, BudgetAssumption DEF Spoken
  <2>2. [Taking(d) EXCEPT !.pc = "commit"] \in Op
    BY <1>5, <2>1 DEF Op, Steps
  <2> QED BY <1>4, <1>19, <2>1, <2>2 DEF Spoken, TypeOK
<1>20. CASE VoiceFails
  BY <1>1, <1>2, <1>3, <1>4, <1>7, <1>20 DEF VoiceFails, TypeOK
<1>21. CASE HangUp
  <2>1. op.pc # "rest"
    BY <1>21 DEF HangUp
  <2>2. [Leaving(op, "record") EXCEPT !.gone = TRUE, !.verdict = "UNAVAILABLE"] \in Op
        /\ [op EXCEPT !.gone = TRUE] \in Op
    BY <1>1 DEF Leaving, Op, Steps, Verdicts
  <2>3. op' \in Op /\ ended' \in [Ops -> Outcomes \cup {Null}]
    BY <1>1, <1>2, <1>7, <1>21, <2>1, <2>2 DEF HangUp
  <2> QED BY <1>3, <1>21, <2>3 DEF HangUp, TypeOK
<1>22. CASE Crash
  BY <1>1, <1>2, <1>3, <1>7, <1>22 DEF Crash, TypeOK
<1>23. CASE CommitFails
  <2>1. op.pc # "rest"
    BY <1>23 DEF CommitFails
  <2>2. op' \in Op /\ ended' \in [Ops -> Outcomes \cup {Null}]
    BY <1>2, <1>7, <1>23, <2>1 DEF CommitFails
  <2> QED BY <1>3, <1>23, <2>2 DEF CommitFails, TypeOK
<1>24. CASE Shown
  <2>1. op.pc # "rest"
    BY <1>24 DEF Shown, MayCommit
  <2>2. op' \in Op /\ ended' \in [Ops -> Outcomes \cup {Null}]
    BY <1>2, <1>7, <1>24, <2>1 DEF Shown
  <2> DEFINE spoken == op.decision.next = "VOICE_EXPLAIN"
  <2>3. shown' = shown \cup {[text |-> asked, spoken |-> spoken]} /\ spoken \in BOOLEAN
    BY <1>24 DEF Shown
  <2> HIDE DEF spoken
  <2>4. shown' \subseteq [text : Ops, spoken : BOOLEAN]
    BY <1>1, <2>1, <2>3 DEF TypeOK
  <2> QED BY <1>1, <1>24, <2>1, <2>2, <2>4 DEF Shown, TypeOK
<1>25. CASE Backtracked
  <2>1. op.pc # "rest"
    BY <1>25 DEF Backtracked, MayCommit
  <2>2. op' \in Op /\ ended' \in [Ops -> Outcomes \cup {Null}]
    BY <1>2, <1>7, <1>25, <2>1 DEF Backtracked
  <2> QED BY <1>1, <1>25, <2>1, <2>2 DEF Backtracked, TypeOK
<1>26. CASE Unneeded
  <2>1. op.pc # "rest"
    BY <1>26 DEF Unneeded, MayCommit
  <2>2. op' \in Op /\ ended' \in [Ops -> Outcomes \cup {Null}]
    BY <1>2, <1>7, <1>26, <2>1 DEF Unneeded
  <2> QED BY <1>26, <2>2 DEF Unneeded, TypeOK
<1> QED BY <1>10, <1>11, <1>12, <1>13, <1>14, <1>15, <1>16, <1>17, <1>18, <1>19, <1>20, <1>21,
           <1>22, <1>23, <1>24, <1>25, <1>26 DEF Next, Work

-----------------------------------------------------------------------------
\* No step spends more of the lease than the deadlines allow.
LEMMA BudgetStep == TypeOK /\ Budget /\ Stages /\ Next => Budget'
<1> SUFFICES ASSUME TypeOK, Budget, Stages, Next PROVE Budget'
  OBVIOUS
<1>1. /\ op \in Op /\ op.clock \in Nat /\ op.until \in Nat /\ op.outer \in Nat
      /\ RetryTimeout \in Nat /\ TurnTimeout \in Nat /\ RecordTimeout \in Nat
      /\ HTTPTimeout \in Nat
  BY BudgetAssumption DEF TypeOK, Op
<1>2. ASSUME op' = Resting PROVE Budget'
  BY <1>2, RestingType DEF Budget
<1>3. ASSUME NEW outcome, End(outcome) PROVE Budget'
  BY <1>2, <1>3 DEF End
<1>4. ASSUME op.pc \in Calls, NEW d \in Spans
      PROVE  d \in Nat /\ op.clock + d <= op.until
  BY <1>1, <1>4, SpanBound DEF Budget, Calls
<1>5. ASSUME NEW o \in Op, NEW outcome, op.pc \in Calls, StageFails(o, outcome),
             o.clock <= op.until
      PROVE  Budget'
  <2>1. CASE op.pc = "review"
    <3>1. op'.pc = "record" /\ op'.clock = o.clock
      BY <1>5, <2>1 DEF StageFails, Leaving, Op
    <3> QED BY <1>1, <1>5, <2>1, <3>1 DEF Budget, Op
  <2> QED BY <1>3, <1>5, <2>1 DEF StageFails
<1>6. ASSUME NEW o \in Op, NEW decision \in Decision, op' = Generating(o, decision),
             o.clock <= RetryTimeout
      PROVE  Budget'
  <2>1. op'.pc = "generate" /\ op'.clock = o.clock /\ op'.outer = o.clock + TurnTimeout
        /\ op'.until = Smaller(o.clock + TurnTimeout, o.clock + RetryTimeout)
    BY <1>6, Fields
  <2>2. o.clock \in Nat
    BY DEF Op
  <2> QED BY <1>1, <1>6, <2>1, <2>2 DEF Budget, Smaller
<1>10. ASSUME NEW kind \in Kinds, Ask(kind) PROVE Budget'
  <2>1. CASE kind = "ANSWER"
    <3>1. PICK match \in BOOLEAN :
            op' = Entering([Resting EXCEPT !.right = match], "analyse", RetryTimeout)
      BY <1>10, <2>1 DEF Ask
    <3>2. op'.pc = "analyse" /\ op'.until = RetryTimeout /\ op'.clock = 0
      BY <3>1 DEF Entering, Resting
    <3> QED BY <1>1, <3>2 DEF Budget
  <2>2. CASE kind # "ANSWER"
    <3>1. [Resting EXCEPT !.kind = kind] \in Op /\ [Resting EXCEPT !.kind = kind].clock = 0
      BY DEF Resting, Op, Steps, Kinds
    <3>2. Reply(kind, 0) \in Decision
      BY <2>2 DEF Kinds, Reply, Decision, TutorStates, Replies
    <3>3. op' = Generating([Resting EXCEPT !.kind = kind], Reply(kind, 0))
      BY <1>10, <2>2 DEF Ask
    <3>4. [Resting EXCEPT !.kind = kind].clock <= RetryTimeout
      BY <1>1, <3>1
    <3> HIDE DEF Resting
    <3> QED BY <1>6, <3>1, <3>2, <3>3, <3>4
  <2> QED BY <2>1, <2>2
<1>11. ASSUME NEW d \in Spans, NEW a \in Analysis, NEW fails \in 0 .. MaxRounds,
              Analysed(d, a, fails)
       PROVE  Budget'
  <2> DEFINE decision == Decide(fails, a)
             known == [Taking(d) EXCEPT !.right = @ \/ (a.right /\ a.sure), !.decision = decision]
  <2>1. op.pc = "analyse" /\ d \in Nat /\ op.clock + d <= RetryTimeout
    BY <1>1, <1>4, <1>11 DEF Analysed, Calls, Budget
  <2>2. decision \in Decision
    BY DecideType, RoundsAssumption
  <2> HIDE DEF decision
  <2>3. known \in Op /\ known.clock = op.clock + d
    <3> DEFINE right == op.right \/ (a.right /\ a.sure)
    <3>1. right \in BOOLEAN /\ Taking(d).right = op.right /\ Taking(d) \in Op
          /\ Taking(d).clock = op.clock + d
      BY <1>1, <2>1, TakingFields
    <3> HIDE DEF right
    <3>2. \A o \in Op, r \in BOOLEAN, c \in Decision :
            /\ [o EXCEPT !.right = r, !.decision = c] \in Op
            /\ [o EXCEPT !.right = r, !.decision = c].clock = o.clock
      BY DEF Op
    <3> QED BY <2>2, <3>1, <3>2 DEF right
  <2> HIDE DEF known
  <2>4. CASE op' = Leaving(known, "commit")
    <3>1. op'.pc = "commit" /\ op'.clock = op.clock + d
      BY <2>3, <2>4 DEF Leaving, Op
    <3> QED BY <1>1, <2>1, <3>1 DEF Budget
  <2>5. CASE op' = Generating(known, decision)
    BY <1>6, <2>1, <2>2, <2>3, <2>5
  <2> QED BY <1>11, <2>4, <2>5 DEF Analysed, known, decision
<1>12. ASSUME NEW d \in Spans, Generated(d) PROVE Budget'
  <2>1. op.pc = "generate" /\ d \in Nat /\ op.clock + d <= op.until
    BY <1>4, <1>12 DEF Generated, Calls
  <2> DEFINE until == Smaller(op.outer, op.clock + d + RetryTimeout)
  <2>2. Taking(d) \in Op /\ Taking(d).outer = op.outer /\ Taking(d).clock = op.clock + d
    BY <1>1, <2>1, TakingFields
  <2>3. until \in Nat /\ until <= op.outer /\ op.clock + d <= until
    BY <1>1, <2>1 DEF Budget, Smaller
  <2>4. op' = Entering(Taking(d), "review", until)
    BY <1>12, <2>2 DEF Generated, Reviewing
  <2> HIDE DEF until
  <2>5. op'.pc = "review" /\ op'.until = until /\ op'.clock = op.clock + d
        /\ op'.outer = op.outer
    BY <2>2, <2>3, <2>4, Fields DEF Steps, Calls
  <2> QED BY <1>1, <2>1, <2>3, <2>5 DEF Budget
<1>13. ASSUME NEW d \in Spans, Reviewed(d) PROVE Budget'
  <2>1. op.pc = "review" /\ d \in Nat /\ op.clock + d <= op.until
    BY <1>4, <1>13 DEF Reviewed, Calls
  <2>2. op'.pc = "record" /\ op'.clock = op.clock + d
    <3>1. Taking(d) \in Op /\ Taking(d).clock = op.clock + d
      BY <1>1, <2>1, TakingFields
    <3>2. Leaving(Taking(d), "record") \in Op /\ Leaving(Taking(d), "record").pc = "record"
          /\ Leaving(Taking(d), "record").clock = op.clock + d
      BY <3>1, LoopTypes, Fields DEF Steps
    <3>3. \E v : op' = [Leaving(Taking(d), "record") EXCEPT !.verdict = v]
      BY <1>13 DEF Reviewed
    <3> QED BY <3>2, <3>3 DEF Op
  <2> QED BY <1>1, <2>1, <2>2 DEF Budget
<1>14. ASSUME NEW d \in Spans, CallFails(d) PROVE Budget'
  <2>1. op.pc \in Calls /\ d \in Nat /\ op.clock + d <= op.until /\ StageFails(Taking(d), "ERROR")
    BY <1>4, <1>14 DEF CallFails
  <2> QED BY <1>1, <1>5, <2>1, TakingFields
<1>15. ASSUME NEW d \in Spans, CallBusy(d) PROVE Budget'
  <2>1. op.pc \in Calls /\ d \in Nat /\ op.clock + d <= op.until
    BY <1>4, <1>15 DEF CallBusy
  <2>2. PICK pause \in Nat :
          IF MayRetry(pause) /\ ~(op.clock + d + pause >= op.until)
          THEN op' = Retried(Taking(d), pause) /\ UNCHANGED ended
          ELSE StageFails(IF MayRetry(pause) THEN [op EXCEPT !.clock = op.until] ELSE Taking(d),
                          "BUSY")
    <3>1. PICK p \in Pauses, asks \in BOOLEAN :
            LET pause == IF asks THEN Larger(p, op.delay) ELSE op.delay + p
                late == op.clock + d + pause >= op.until
            IN IF MayRetry(pause) /\ ~late
               THEN op' = Retried(Taking(d), pause) /\ UNCHANGED ended
               ELSE StageFails(IF MayRetry(pause) THEN [op EXCEPT !.clock = op.until]
                               ELSE Taking(d), "BUSY")
      BY <1>15 DEF CallBusy
    <3> DEFINE wait == IF asks THEN Larger(p, op.delay) ELSE op.delay + p
    <3>2. wait \in Nat
      BY <1>1, BudgetAssumption DEF Op, Larger
    <3> QED BY <3>1, <3>2
  <2>3. Taking(d) \in Op /\ Taking(d).clock = op.clock + d /\ Taking(d).pc = op.pc
        /\ Taking(d).until = op.until /\ Taking(d).outer = op.outer
    BY <1>1, <2>1, TakingFields
  <2>4. CASE op' = Retried(Taking(d), pause) /\ ~(op.clock + d + pause >= op.until)
    <3>1. op'.pc = op.pc /\ op'.clock = op.clock + d + pause /\ op'.until = op.until
          /\ op'.outer = op.outer
      BY <2>3, <2>4 DEF Retried, Op
    <3>2. op'.clock <= op'.until
      BY <1>1, <2>1, <2>4, <3>1
    <3> QED BY <2>1, <3>1, <3>2 DEF Budget, Calls
  <2>5. CASE StageFails([op EXCEPT !.clock = op.until], "BUSY")
    <3> DEFINE o == [op EXCEPT !.clock = op.until]
    <3>1. o \in Op /\ o.clock = op.until
      BY <1>1 DEF Op
    <3>2. StageFails(o, "BUSY") /\ o.clock <= op.until
      BY <1>1, <2>5, <3>1
    <3> HIDE DEF o
    <3> QED BY <1>5, <2>1, <3>1, <3>2
  <2>6. CASE StageFails(Taking(d), "BUSY")
    BY <1>5, <2>1, <2>3, <2>6
  <2> QED BY <2>2, <2>4, <2>5, <2>6
<1>16. ASSUME NEW d \in Spans, ChainRefused(d) PROVE Budget'
  <2>1. op.pc = "generate" /\ d \in Nat /\ op.clock + d <= op.until /\ op' = Taking(d)
    BY <1>4, <1>16 DEF ChainRefused, Calls
  <2> QED BY <1>1, <2>1, TakingFields DEF Budget
<1>17. ASSUME NEW d \in {0, RecordTimeout}, Record(d) PROVE Budget'
  <2>1. CASE op' = [Taking(d) EXCEPT !.pc = AfterAudit]
    <3>1. Taking(d) \in Op /\ Taking(d).clock = op.clock + d
      BY <1>1, TakingFields
    <3>2. op'.pc \in {"voice", "commit"} /\ op'.clock = op.clock + d
      BY <2>1, <3>1 DEF AfterAudit, Op
    <3>3. op.clock <= RetryTimeout + TurnTimeout /\ d \in {0, RecordTimeout}
      BY <1>17 DEF Record, Budget
    <3>4. op'.clock <= RetryTimeout + TurnTimeout + RecordTimeout
      BY <1>1, <3>2, <3>3
    <3> QED BY <1>1, <3>2, <3>4 DEF Budget
  <2> QED BY <1>3, <1>17, <2>1 DEF Record
<1>18. ASSUME NEW d \in {0, HTTPTimeout}, Spoken(d) PROVE Budget'
  <2>1. Taking(d) \in Op /\ Taking(d).clock = op.clock + d
    BY <1>1, TakingFields
  <2>2. op'.pc = "commit" /\ op'.clock = op.clock + d
    BY <1>18, <2>1 DEF Spoken, Op
  <2> QED BY <1>1, <1>18, <2>2 DEF Spoken, Budget
<1>19. CASE HangUp
  <2>1. CASE op.pc = "review"
    <3>1. op'.pc = "record" /\ op'.clock = op.clock
      BY <1>1, <1>19, <2>1 DEF HangUp, Leaving, Op
    <3> QED BY <1>1, <2>1, <3>1 DEF Budget
  <2>2. CASE op.pc = "record"
    <3>1. op'.pc = "record" /\ op'.clock = op.clock
      BY <1>1, <1>19, <2>2 DEF HangUp, Op
    <3> QED BY <1>1, <2>2, <3>1 DEF Budget
  <2> QED BY <1>3, <1>19, <2>1, <2>2 DEF HangUp
<1>20. CASE RecordFails \/ VoiceFails \/ CommitFails \/ Crash \/ Shown \/ Backtracked \/ Unneeded
  BY <1>3, <1>20 DEF RecordFails, VoiceFails, CommitFails, Crash, Shown, Backtracked, Unneeded
<1> QED BY <1>10, <1>11, <1>12, <1>13, <1>14, <1>15, <1>16, <1>17, <1>18, <1>19, <1>20
      DEF Next, Work

-----------------------------------------------------------------------------
\* Nothing becomes known of operations that have not begun.
LEMMA FreshStep == TypeOK /\ Fresh /\ Stages /\ Next => Fresh'
<1> SUFFICES ASSUME TypeOK, Fresh, Stages, Next PROVE Fresh'
  OBVIOUS
<1>1. asked \in 0 .. MaxOps /\ MaxOps \in Nat /\ (op.pc # "rest" => asked \in Ops)
  BY TurnBounds DEF TypeOK, Stages
<1>2. ASSUME NEW n \in Ops, n > asked'
      PROVE  ended'[n] = Null /\ audits'[n] = Null /\ n \notin leaks'
             /\ <<n, "generate">> \notin billed'
  <2>0. asked' = asked \/ asked' = asked + 1
    BY DEF Next, Work, Ask, Analysed, Generated, Reviewed, CallFails, CallBusy, ChainRefused,
                Record, RecordFails, Spoken, VoiceFails, HangUp, Crash, CommitFails, Shown,
                Backtracked, Unneeded
  <2>1. asked' >= asked /\ asked' \in Nat
    BY <1>1, <2>0
  <2>2. n > asked /\ n # asked
    BY <1>1, <1>2, <2>1 DEF Ops
  <2>3. ended[n] = Null /\ audits[n] = Null /\ n \notin leaks /\ <<n, "generate">> \notin billed
    BY <2>2 DEF Fresh
  <2>4. \A outcome : End(outcome) => ended'[n] = ended[n]
    BY <1>1, <2>2 DEF End, TypeOK
  <2>5. ended'[n] = Null
    BY <2>3, <2>4 DEF Next, Work, Ask, Analysed, Generated, Reviewed, CallFails, CallBusy,
                ChainRefused, StageFails,
                Record, RecordFails, Spoken, VoiceFails, HangUp, Crash, CommitFails, Shown,
                Backtracked, Unneeded
  <2>6. audits'[n] = Null
    BY <2>2, <2>3 DEF Next, Work, Ask, Analysed, Generated, Reviewed, CallFails, CallBusy,
                ChainRefused, TypeOK,
                Record, RecordFails, Spoken, VoiceFails, HangUp, Crash, CommitFails, Shown,
                Backtracked, Unneeded
  <2>7. leaks' \subseteq leaks \cup {asked}
    BY DEF Next, Work, Ask, Analysed, Generated, Reviewed, CallFails, CallBusy, ChainRefused,
                Record, RecordFails, Spoken, VoiceFails, HangUp, Crash, CommitFails, Shown,
                Backtracked, Unneeded
  <2>8. billed' = billed \/ \E what : Bill(what)
    BY DEF Next, Work, Ask, Analysed, Generated, Reviewed, CallFails, CallBusy, ChainRefused,
                Record, RecordFails, Spoken, VoiceFails, HangUp, Crash, CommitFails, Shown,
                Backtracked, Unneeded
  <2>9. <<n, "generate">> \notin billed'
    BY <2>2, <2>3, <2>8 DEF Bill
  <2> QED BY <2>2, <2>3, <2>5, <2>6, <2>7, <2>9
<1> QED BY <1>2 DEF Fresh

\* What is known of the operation at work follows from what was known before.
LEMMA StagesStep == TypeOK /\ Fresh /\ Budget /\ Stages /\ Next => Stages'
<1> SUFFICES ASSUME TypeOK, Fresh, Budget, Stages, Next PROVE Stages'
  OBVIOUS
<1>1. /\ op \in Op /\ asked \in 0 .. MaxOps /\ MaxOps \in Nat
      /\ op.pc # "rest" => asked \in Ops /\ ended[asked] = Null
  BY TurnBounds DEF TypeOK, Stages
<1>2. ASSUME op' = Resting PROVE Stages'
  BY <1>2, RestingType DEF Stages
<1>3. ASSUME NEW outcome, End(outcome) PROVE Stages'
  BY <1>2, <1>3 DEF End
<1>4. ASSUME op.pc \in Calls, NEW d \in Spans PROVE d \in Nat
  BY <1>1, <1>4, SpanBound DEF Budget, Calls
<1>5. ASSUME NEW o \in Op, NEW outcome, op.pc \in Calls, StageFails(o, outcome),
             o.kind = op.kind, o.decision = op.decision, o.right = op.right,
             UNCHANGED <<asked, audits, leaks>>, billed' = billed \/ Bill(op.pc)
      PROVE  Stages'
  <2>1. CASE op.pc = "review"
    <3>1. op' = [Leaving(o, "record") EXCEPT !.verdict = "UNAVAILABLE"] /\ ended' = ended
      BY <1>5, <2>1 DEF StageFails
    <3>2. op'.pc = "record" /\ op'.kind = op.kind /\ op'.decision = op.decision
          /\ op'.verdict = "UNAVAILABLE"
      BY <1>5, <3>1 DEF Leaving, Op
    <3>3. <<asked, "generate">> \in billed'
      BY <1>5, <2>1 DEF Stages, Bill
    <3> QED BY <1>1, <1>5, <2>1, <3>1, <3>2, <3>3, TurnNull
          DEF Stages, Steps, Calls, Outcomes, Verdicts
  <2> QED BY <1>3, <1>5, <2>1 DEF StageFails
<1>6. ASSUME NEW o \in Op, NEW decision \in Decision, op' = Generating(o, decision),
             o.kind # "ANSWER" => decision.next # "VOICE_EXPLAIN",
             asked' \in Ops, ended'[asked'] = Null, audits'[asked'] = Null,
             asked' \notin leaks', <<asked', "generate">> \notin billed'
      PROVE  Stages'
  <2>1. op'.pc = "generate" /\ op'.kind = o.kind /\ op'.decision = decision
    BY <1>6, Fields
  <2> QED BY <1>6, <2>1, TurnNull DEF Stages
<1>10. ASSUME NEW kind \in Kinds, Ask(kind) PROVE Stages'
  <2>1. asked' = asked + 1 /\ asked' \in Ops /\ asked' > asked
    BY <1>1, <1>10 DEF Ask, Ops
  <2>2. /\ ended[asked'] = Null /\ audits[asked'] = Null /\ asked' \notin leaks
        /\ <<asked', "generate">> \notin billed
    BY <2>1 DEF Fresh
  <2>3. CASE kind = "ANSWER"
    <3>1. PICK match \in BOOLEAN :
            op' = Entering([Resting EXCEPT !.right = match], "analyse", RetryTimeout)
      BY <1>10, <2>3 DEF Ask
    <3>2. op'.pc = "analyse" /\ op'.kind = "ANSWER"
      BY <3>1 DEF Entering, Resting
    <3> QED BY <1>10, <2>1, <2>2, <3>2 DEF Ask, Stages
  <2>4. CASE kind # "ANSWER"
    <3> DEFINE o == [Resting EXCEPT !.kind = kind]
    <3>1. o \in Op
      BY DEF Resting, Op, Steps, Kinds
    <3>2. Reply(kind, 0) \in Decision /\ Reply(kind, 0).next # "VOICE_EXPLAIN"
      BY <2>4 DEF Kinds, Reply, Decision, TutorStates, Replies
    <3>3. op' = Generating(o, Reply(kind, 0))
      BY <1>10, <2>4 DEF Ask
    <3>4. UNCHANGED <<ended, audits, leaks, billed>>
      BY <1>10 DEF Ask
    <3> HIDE DEF o
    <3> QED BY <1>6, <2>1, <2>2, <3>1, <3>2, <3>3, <3>4
  <2> QED BY <2>3, <2>4
<1>11. ASSUME NEW d \in Spans, NEW a \in Analysis, NEW fails \in 0 .. MaxRounds,
              Analysed(d, a, fails)
       PROVE  Stages'
  <2> DEFINE decision == Decide(fails, a)
             known == [Taking(d) EXCEPT !.right = @ \/ (a.right /\ a.sure), !.decision = decision]
  <2>1. op.pc = "analyse" /\ d \in Nat
    BY <1>4, <1>11 DEF Analysed, Calls
  <2>2. decision \in Decision
    BY DecideType, RoundsAssumption
  <2>3. /\ UNCHANGED <<asked, ended, audits, leaks>> /\ billed' = billed \cup {<<asked, "analyse">>}
        /\ IF decision.next = "VARIANT" THEN op' = Leaving(known, "commit")
           ELSE op' = Generating(known, decision)
    BY <1>11 DEF Analysed, Bill
  <2> HIDE DEF decision
  <2>4. known \in Op /\ known.kind = "ANSWER" /\ known.decision = decision
    <3> DEFINE right == op.right \/ (a.right /\ a.sure)
    <3>1. right \in BOOLEAN /\ Taking(d).right = op.right /\ Taking(d) \in Op
          /\ Taking(d).kind = "ANSWER"
      BY <1>1, <2>1, TakingFields DEF Stages
    <3> HIDE DEF right
    <3>2. \A o \in Op, r \in BOOLEAN, c \in Decision :
            /\ [o EXCEPT !.right = r, !.decision = c] \in Op
            /\ [o EXCEPT !.right = r, !.decision = c].kind = o.kind
            /\ [o EXCEPT !.right = r, !.decision = c].decision = c
      BY DEF Op
    <3> DEFINE taken == Taking(d)
    <3>3. known = [taken EXCEPT !.right = right, !.decision = decision]
      BY <3>1 DEF right
    <3>4. taken \in Op /\ taken.kind = "ANSWER"
      BY <3>1
    <3> HIDE DEF taken
    <3>5. /\ [taken EXCEPT !.right = right, !.decision = decision] \in Op
          /\ [taken EXCEPT !.right = right, !.decision = decision].kind = taken.kind
          /\ [taken EXCEPT !.right = right, !.decision = decision].decision = decision
      BY <2>2, <3>1, <3>2, <3>4, ZenonT(30)
    <3> HIDE DEF known
    <3> QED BY <3>3, <3>4, <3>5
  <2> HIDE DEF known
  <2>5. /\ asked' \in Ops /\ ended'[asked'] = Null /\ audits'[asked'] = Null
        /\ asked' \notin leaks' /\ <<asked', "generate">> \notin billed'
    BY <1>1, <2>1, <2>3 DEF Stages
  <2>6. CASE decision.next = "VARIANT"
    <3>1. op'.pc = "commit" /\ op'.kind = "ANSWER" /\ op'.decision = decision
      BY <2>3, <2>4, <2>6, Fields DEF Steps
    <3> QED BY <2>2, <2>5, <2>6, <3>1, TurnNull DEF Stages, NeedsTurn
  <2>7. CASE decision.next # "VARIANT"
    BY <1>6, <2>2, <2>3, <2>4, <2>5, <2>7
  <2> QED BY <2>6, <2>7
<1>12. ASSUME NEW d \in Spans, Generated(d) PROVE Stages'
  <2>1. op.pc = "generate" /\ d \in Nat
    BY <1>4, <1>12 DEF Generated, Calls
  <2>2. op'.pc = "review" /\ op'.kind = op.kind /\ op'.decision = op.decision
    BY <1>1, <1>12, <2>1 DEF Generated, Reviewing, Entering, Taking, Op
  <2>3. UNCHANGED <<asked, ended, audits>> /\ billed' = billed \cup {<<asked, "generate">>}
    BY <1>12 DEF Generated, Bill
  <2> QED BY <1>1, <2>1, <2>2, <2>3 DEF Stages, Steps, Calls
<1>13. ASSUME NEW d \in Spans, Reviewed(d) PROVE Stages'
  <2>1. op.pc = "review" /\ d \in Nat
    BY <1>4, <1>13 DEF Reviewed, Calls
  <2>2. PICK known \in BOOLEAN, pass \in BOOLEAN :
          op' = [Leaving(Taking(d), "record") EXCEPT !.verdict = Verdict(known, pass)]
    BY <1>13 DEF Reviewed
  <2>3. Verdict(known, pass) # Null /\ (Verdict(known, pass) = "PASS" => asked \notin leaks)
    BY TurnNull DEF Verdict, Outcomes, Verdicts
  <2>4. op'.pc = "record" /\ op'.kind = op.kind /\ op'.decision = op.decision
        /\ op'.verdict = Verdict(known, pass)
    BY <1>1, <2>1, <2>2 DEF Leaving, Taking, Op
  <2>5. UNCHANGED <<asked, ended, audits, leaks>> /\ billed' = billed \cup {<<asked, "review">>}
    BY <1>13 DEF Reviewed, Bill
  <2> QED BY <1>1, <2>1, <2>3, <2>4, <2>5 DEF Stages, Steps, Calls
<1>14. ASSUME NEW d \in Spans, CallFails(d) PROVE Stages'
  <2>1. op.pc \in Calls /\ d \in Nat /\ StageFails(Taking(d), "ERROR")
    BY <1>4, <1>14 DEF CallFails
  <2>2. UNCHANGED <<asked, audits, leaks>> /\ (billed' = billed \/ Bill(op.pc))
    BY <1>14 DEF CallFails
  <2>3. Taking(d) \in Op /\ Taking(d).kind = op.kind /\ Taking(d).decision = op.decision
        /\ Taking(d).right = op.right
    BY <1>1, <2>1, TakingFields
  <2> QED BY <1>5, <2>1, <2>2, <2>3
<1>15. ASSUME NEW d \in Spans, CallBusy(d) PROVE Stages'
  <2>1. op.pc \in Calls /\ d \in Nat
    BY <1>4, <1>15 DEF CallBusy
  <2>2. UNCHANGED <<asked, audits, leaks, billed>>
    BY <1>15 DEF CallBusy
  <2>3. Taking(d) \in Op /\ Taking(d).kind = op.kind /\ Taking(d).decision = op.decision
        /\ Taking(d).right = op.right /\ Taking(d).pc = op.pc
    BY <1>1, <2>1, TakingFields
  <2> DEFINE o == [op EXCEPT !.clock = op.until]
  <2>4. o \in Op /\ o.kind = op.kind /\ o.decision = op.decision /\ o.right = op.right
    BY <1>1 DEF Op
  <2>5. \/ \E pause : op' = Retried(Taking(d), pause) /\ UNCHANGED ended
        \/ StageFails(o, "BUSY") \/ StageFails(Taking(d), "BUSY")
    BY <1>15 DEF CallBusy
  <2> HIDE DEF o
  <2>6. CASE \E pause : op' = Retried(Taking(d), pause) /\ UNCHANGED ended
    <3>1. op'.pc = op.pc /\ op'.kind = op.kind /\ op'.decision = op.decision
      BY <2>3, <2>6 DEF Retried, Op
    <3> QED BY <1>1, <2>1, <2>2, <2>6, <3>1 DEF Stages, Steps, Calls
  <2> QED BY <1>5, <2>1, <2>2, <2>3, <2>4, <2>5, <2>6
<1>16. ASSUME NEW d \in Spans, ChainRefused(d) PROVE Stages'
  <2>1. op.pc = "generate" /\ d \in Nat /\ op' = Taking(d)
        /\ UNCHANGED <<asked, ended, audits, billed, leaks>>
    BY <1>4, <1>16 DEF ChainRefused, Calls
  <2>2. op'.pc = op.pc /\ op'.kind = op.kind /\ op'.decision = op.decision
    BY <1>1, <2>1, TakingFields
  <2> QED BY <1>1, <2>1, <2>2 DEF Stages, Steps, Calls
<1>17. ASSUME NEW d \in {0, RecordTimeout}, Record(d) PROVE Stages'
  <2>1. op.pc = "record" /\ audits' = [audits EXCEPT ![asked] = op.verdict]
        /\ UNCHANGED <<asked, leaks, billed>>
    BY <1>17 DEF Record
  <2>2. CASE /\ op' = [Taking(d) EXCEPT !.pc = AfterAudit] /\ op.verdict = "PASS"
             /\ ended' = ended
    <3>1. op'.pc = AfterAudit /\ op'.kind = op.kind /\ op'.decision = op.decision
          /\ op'.right = op.right /\ AfterAudit \in {"voice", "commit"}
      BY <1>1, <2>2 DEF Taking, AfterAudit, Op
    <3>2. audits'[asked] = "PASS" /\ asked \in Ops
      BY <1>1, <2>1, <2>2 DEF TypeOK
    <3>3. Passed'
      BY <2>1, <2>2, <3>2 DEF Stages, Passed
    <3>4. AfterAudit = "commit" /\ NeedsTurn' => op'.decision.next # "VOICE_EXPLAIN"
      BY <2>1, <3>1 DEF AfterAudit, NeedsTurn, Stages, Steps
    <3> QED BY <1>1, <2>1, <2>2, <3>1, <3>2, <3>3, <3>4, TurnNull
          DEF Stages, Steps, Calls, Outcomes, Verdicts
  <2> QED BY <1>3, <1>17, <2>2 DEF Record
<1>18. ASSUME NEW d \in {0, HTTPTimeout}, Spoken(d) PROVE Stages'
  <2>1. op.pc = "voice" /\ UNCHANGED <<asked, ended, audits, leaks>>
        /\ billed' = billed \cup {<<asked, "voice">>}
    BY <1>18 DEF Spoken, Bill
  <2>2. op'.pc = "commit" /\ op'.kind = op.kind /\ op'.decision = op.decision
    BY <1>1, <1>18 DEF Spoken, Taking, Op
  <2>3. Passed'
    BY <2>1 DEF Stages, Passed
  <2> QED BY <1>1, <2>1, <2>2, <2>3, TurnNull
        DEF Stages, Steps, Calls, Outcomes, Verdicts, Passed
<1>19. CASE HangUp
  <2>1. UNCHANGED <<asked, audits, billed, leaks>>
    BY <1>19 DEF HangUp
  <2>2. CASE op.pc = "review"
    <3>1. op'.pc = "record" /\ op'.kind = op.kind /\ op'.decision = op.decision
          /\ op'.verdict = "UNAVAILABLE" /\ ended' = ended
      <4>1. /\ op' = [Leaving(op, "record") EXCEPT !.gone = TRUE, !.verdict = "UNAVAILABLE"]
            /\ ended' = ended
        BY <1>19, <2>2 DEF HangUp
      <4>2. op \in Op
        BY <1>1
      <4> QED BY <4>1, <4>2 DEF Leaving, Op
    <3>2. op'.verdict # Null /\ op'.verdict # "PASS"
      BY <3>1, TurnNull DEF Outcomes, Verdicts
    <3>3. /\ op.pc \in Steps \ {"rest", "analyse"}
          /\ op.pc # "rest"
          /\ op.pc \in {"review", "record"}
          /\ op.pc \in {"analyse", "generate", "review", "record"}
      BY <2>2 DEF Steps, Calls
    <3>4. /\ asked \in Ops /\ ended[asked] = Null /\ audits[asked] = Null
          /\ op.decision # Null /\ (op.kind # "ANSWER" => op.decision.next # "VOICE_EXPLAIN")
          /\ <<asked, "generate">> \in billed
      BY <3>3 DEF Stages
    <3> QED BY <2>1, <3>1, <3>2, <3>4 DEF Stages, Steps, Calls
  <2>3. CASE op.pc = "record"
    <3>1. op'.pc = "record" /\ op'.kind = op.kind /\ op'.decision = op.decision
          /\ op'.verdict = op.verdict /\ ended' = ended
      BY <1>1, <1>19, <2>3 DEF HangUp, Op
    <3> QED BY <1>1, <2>1, <2>3, <3>1 DEF Stages
  <2> QED BY <1>3, <1>19, <2>2, <2>3 DEF HangUp
<1>20. CASE RecordFails \/ VoiceFails \/ CommitFails \/ Crash \/ Shown \/ Backtracked \/ Unneeded
  BY <1>3, <1>20 DEF RecordFails, VoiceFails, CommitFails, Crash, Shown, Backtracked, Unneeded
<1> QED BY <1>10, <1>11, <1>12, <1>13, <1>14, <1>15, <1>16, <1>17, <1>18, <1>19, <1>20
      DEF Next, Work

-----------------------------------------------------------------------------
\* What was approved stays approved, and only approved texts are shown or built upon.
LEMMA ApprovedStep == TypeOK /\ Stages /\ ApprovedOnly /\ Next => ApprovedOnly'
<1> SUFFICES ASSUME TypeOK, Stages, ApprovedOnly, Next PROVE ApprovedOnly'
  OBVIOUS
<1>1. asked \in 0 .. MaxOps /\ (op.pc # "rest" => asked \in Ops) /\ Null # "PASS"
  BY TurnNull DEF TypeOK, Stages, Outcomes, Verdicts
<1>2. ASSUME NEW text \in Ops, Approved(text)
      PROVE  audits'[text] = "PASS" /\ text \notin leaks'
  <2>1. audits[text] = "PASS" /\ text \notin leaks
    BY <1>2, TurnNull DEF Approved, Ops
  <2>2. op.pc \in {"generate", "record"} => text # asked
    BY <1>1, <2>1 DEF Stages
  <2>3. \/ audits' = audits
        \/ op.pc = "record" /\ audits' = [audits EXCEPT ![asked] = op.verdict]
    BY DEF Next, Work, Ask, Analysed, Generated, Reviewed, CallFails, CallBusy, ChainRefused,
           Record, RecordFails, Spoken, VoiceFails, HangUp, Crash, CommitFails, Shown,
           Backtracked, Unneeded
  <2>4. leaks' = leaks \/ (op.pc = "generate" /\ leaks' = leaks \cup {asked})
    BY DEF Next, Work, Ask, Analysed, Generated, Reviewed, CallFails, CallBusy, ChainRefused,
           Record, RecordFails, Spoken, VoiceFails, HangUp, Crash, CommitFails, Shown,
           Backtracked, Unneeded
  <2>5. audits \in [Ops -> Verdicts \cup {Null}] /\ (text # asked \/ audits' = audits)
    BY <2>2, <2>3 DEF TypeOK
  <2>6. audits'[text] = audits[text]
    <3>1. CASE audits' = audits
      BY <3>1
    <3>2. CASE text # asked /\ audits' = [audits EXCEPT ![asked] = op.verdict]
      BY <1>2, <2>5, <3>2
    <3> QED BY <2>3, <2>5, <3>1, <3>2
  <2> QED BY <2>1, <2>2, <2>4, <2>6
<1>3. Shown \/ Backtracked => Passed /\ audits' = audits /\ leaks' = leaks
  BY DEF Shown, Backtracked, MayCommit, Stages
<1>4. chain' \in {chain, asked} /\ (chain' = chain \/ Shown \/ Backtracked)
  BY DEF Next, Work, Ask, Analysed, Generated, Reviewed, CallFails, CallBusy, ChainRefused,
         Record, RecordFails, Spoken, VoiceFails, HangUp, Crash, CommitFails, Shown,
         Backtracked, Unneeded
<1>5. shown' = shown \/ Shown
  BY DEF Next, Work, Ask, Analysed, Generated, Reviewed, CallFails, CallBusy, ChainRefused,
         Record, RecordFails, Spoken, VoiceFails, HangUp, Crash, CommitFails, Shown,
         Backtracked, Unneeded
<1>6. Approved(chain)'
  BY <1>2, <1>3, <1>4 DEF ApprovedOnly, Approved, Passed, TypeOK
<1>7. ASSUME NEW t \in shown' PROVE Approved(t.text)'
  <2>1. CASE t \in shown
    BY <1>2, <2>1 DEF ApprovedOnly, Approved, TypeOK
  <2>2. CASE Shown /\ t \notin shown
    <3> DEFINE spoken == op.decision.next = "VOICE_EXPLAIN"
    <3>1. shown' = shown \cup {[text |-> asked, spoken |-> spoken]}
      BY <2>2 DEF Shown
    <3> HIDE DEF spoken
    <3>2. t.text = asked
      BY <1>7, <2>2, <3>1
    <3> QED BY <1>3, <2>2, <3>2 DEF Approved, Passed
  <2> QED BY <1>5, <1>7, <2>1, <2>2
<1> QED BY <1>6, <1>7 DEF ApprovedOnly

\* The record of an operation is there when it ends, and stays.
LEMMA TrailStep == TypeOK /\ Fresh /\ Stages /\ AuditTrail /\ Next => AuditTrail'
<1> SUFFICES ASSUME TypeOK, Fresh, Stages, AuditTrail, Next, NEW n \in Ops
             PROVE  /\ ended'[n] \in Verdicts => audits'[n] = ended'[n]
                    /\ <<n, "generate">> \in billed' /\ ended'[n] \in {"OK", "GONE", "CHANGED"}
                         => audits'[n] # Null
  BY DEF AuditTrail
<1>1. /\ asked \in 0 .. MaxOps /\ (op.pc # "rest" => asked \in Ops /\ ended[asked] = Null)
      /\ Null \notin Verdicts /\ Null \notin {"OK", "GONE", "CHANGED"}
      /\ op \in Op
  BY TurnNull DEF TypeOK, Stages, Outcomes, Verdicts
<1>2. /\ ended[n] \in Verdicts => audits[n] = ended[n]
      /\ <<n, "generate">> \in billed /\ ended[n] \in {"OK", "GONE", "CHANGED"}
           => audits[n] # Null
  BY DEF AuditTrail
<1>3. CASE op.pc = "rest"
  BY <1>2, <1>3 DEF Next, Work, Ask, Analysed, Generated, Reviewed, CallFails, CallBusy,
       ChainRefused, Record, RecordFails, Spoken, VoiceFails, HangUp, Crash, CommitFails, Shown,
       Backtracked, Unneeded, MayCommit, Calls
<1>4. CASE op.pc # "rest" /\ n # asked
  <2>1. \A outcome : End(outcome) => ended'[n] = ended[n]
    BY <1>1, <1>4 DEF End, TypeOK
  <2>2. ended'[n] = ended[n]
    BY <1>4, <2>1 DEF Next, Work, Ask, Analysed, Generated, Reviewed, CallFails, CallBusy,
         ChainRefused, Record, RecordFails, Spoken, VoiceFails, HangUp, Crash, CommitFails, Shown,
         Backtracked, Unneeded, StageFails
  <2>3. audits'[n] = audits[n]
    BY <1>4 DEF Next, Work, Ask, Analysed, Generated, Reviewed, CallFails, CallBusy,
         ChainRefused, Record, RecordFails, Spoken, VoiceFails, HangUp, Crash, CommitFails, Shown,
         Backtracked, Unneeded, TypeOK
  <2>4. billed' = billed \/ \E what : Bill(what)
    BY <1>4 DEF Next, Work, Ask, Analysed, Generated, Reviewed, CallFails, CallBusy, ChainRefused,
         Record, RecordFails, Spoken, VoiceFails, HangUp, Crash, CommitFails, Shown,
         Backtracked, Unneeded
  <2>5. <<n, "generate">> \in billed' => <<n, "generate">> \in billed
    BY <1>4, <2>4 DEF Bill
  <2> QED BY <1>2, <2>2, <2>3, <2>5
<1>5. CASE op.pc # "rest" /\ n = asked
  <2>1. \A outcome : End(outcome) => ended'[n] = outcome
    BY <1>1, <1>5 DEF End, TypeOK
  <2>2. CASE ended' = ended
    BY <1>1, <1>5, <2>2
  <2>3. ASSUME NEW outcome \in {"ERROR", "BUSY", "UNRECORDED", "CRASH"}, End(outcome)
        PROVE  ended'[n] \notin Verdicts /\ ended'[n] \notin {"OK", "GONE", "CHANGED"}
    BY <2>1, <2>3 DEF Verdicts
  <2>4. CASE CommitFails \/ Shown \/ Backtracked \/ Unneeded
    <3>1. op.pc = "commit" /\ audits' = audits /\ billed' = billed
      BY <2>4 DEF CommitFails, Shown, Backtracked, Unneeded, MayCommit
    <3>2. End("OK") \/ End("CHANGED") \/ End("ERROR")
      BY <2>4 DEF CommitFails, Shown, Backtracked, Unneeded
    <3>3. ended'[n] \notin Verdicts
      BY <2>1, <3>2 DEF Verdicts
    <3>4. <<asked, "generate">> \in billed => audits[asked] # Null
      BY <1>1, <3>1, TurnNull DEF Stages, Passed, Outcomes, Verdicts
    <3> QED BY <1>5, <3>1, <3>3, <3>4
  <2>5. ASSUME NEW d \in {0, RecordTimeout}, Record(d)
        PROVE  /\ ended'[n] \in Verdicts => audits'[n] = ended'[n]
               /\ <<n, "generate">> \in billed' /\ ended'[n] \in {"OK", "GONE", "CHANGED"}
                    => audits'[n] # Null
    <3>1. op.pc = "record" /\ audits'[n] = op.verdict /\ op.verdict # Null
      BY <1>1, <1>5, <2>5 DEF Record, TypeOK, Stages
    <3>2. ended' = ended \/ ended'[n] \in {"GONE", op.verdict}
      BY <2>1, <2>5 DEF Record
    <3> QED BY <1>1, <1>5, <3>1, <3>2 DEF Verdicts
  <2>6. CASE HangUp
    <3>1. audits' = audits /\ billed' = billed
      BY <2>6 DEF HangUp
    <3>2. ended' = ended \/ (ended'[n] = "GONE" /\ op.pc \notin {"review", "record"})
      BY <2>1, <2>6 DEF HangUp
    <3>3. CASE ended'[n] = "GONE" /\ op.pc \notin {"review", "record"}
      <4>1. <<asked, "generate">> \in billed => audits[asked] # Null
        BY <1>1, <1>5, <3>3, TurnNull
        DEF Stages, Passed, Op, Steps, Calls, Outcomes, Verdicts
      <4> QED BY <1>5, <3>1, <3>3, <4>1 DEF Verdicts
    <3> QED BY <2>2, <3>2, <3>3
  <2>7. \/ ended' = ended
        \/ \E outcome \in {"ERROR", "BUSY", "UNRECORDED", "CRASH"} : End(outcome)
        \/ CommitFails \/ Shown \/ Backtracked \/ Unneeded
        \/ \E d \in {0, RecordTimeout} : Record(d)
        \/ HangUp
    BY DEF Next, Work, Ask, Analysed, Generated, Reviewed, CallFails, CallBusy, ChainRefused,
         RecordFails, Spoken, VoiceFails, Crash, StageFails
  <2> QED BY <2>2, <2>3, <2>4, <2>5, <2>6, <2>7
<1> QED BY <1>3, <1>4, <1>5

\* What was recorded of usage stays recorded, and a turn that is shown has all of it.
LEMMA PaidStep == Stages /\ PaidFor /\ Next => PaidFor'
<1> SUFFICES ASSUME Stages, PaidFor, Next PROVE PaidFor'
  OBVIOUS
<1>1. billed \subseteq billed'
  BY DEF Next, Work, Ask, Analysed, Generated, Reviewed, CallFails, CallBusy, ChainRefused,
         Record, RecordFails, Spoken, VoiceFails, HangUp, Crash, CommitFails, Shown,
         Backtracked, Unneeded, Bill
<1>2. shown' = shown \/ Shown
  BY DEF Next, Work, Ask, Analysed, Generated, Reviewed, CallFails, CallBusy, ChainRefused,
         Record, RecordFails, Spoken, VoiceFails, HangUp, Crash, CommitFails, Shown,
         Backtracked, Unneeded
<1>3. CASE shown' = shown
  BY <1>1, <1>3 DEF PaidFor
<1>4. CASE Shown
  <2> DEFINE spoken == op.decision.next = "VOICE_EXPLAIN"
  <2>1. Passed /\ (spoken => <<asked, "voice">> \in billed)
    BY <1>4 DEF Shown, MayCommit, Stages
  <2>2. shown' = shown \cup {[text |-> asked, spoken |-> spoken]}
    BY <1>4 DEF Shown
  <2> HIDE DEF spoken
  <2>3. ASSUME NEW t \in shown'
        PROVE  /\ {<<t.text, "generate">>, <<t.text, "review">>} \subseteq billed'
               /\ t.spoken => <<t.text, "voice">> \in billed'
    <3>1. CASE t \in shown
      BY <1>1, <3>1 DEF PaidFor
    <3>2. CASE t = [text |-> asked, spoken |-> spoken]
      <4>1. t.text = asked /\ t.spoken = spoken
        BY <3>2
      <4> QED BY <1>1, <2>1, <4>1 DEF Passed
    <3> QED BY <2>2, <2>3, <3>1, <3>2
  <2> QED BY <2>3 DEF PaidFor
<1> QED BY <1>2, <1>3, <1>4

\* Every step keeps the invariant.
LEMMA TurnStep == TurnInv /\ [Next]_vars => TurnInv'
<1> SUFFICES ASSUME TurnInv, [Next]_vars PROVE TurnInv'
  OBVIOUS
<1>1. CASE Next
  BY <1>1, TypeStep, FreshStep, BudgetStep, StagesStep, ApprovedStep, TrailStep, PaidStep
  DEF TurnInv
<1>2. CASE UNCHANGED vars
  BY <1>2 DEF vars, TurnInv, TypeOK, Fresh, Budget, Stages, Passed, NeedsTurn, ApprovedOnly,
              Approved, AuditTrail, PaidFor
<1> QED BY <1>1, <1>2

\* The invariant holds throughout.
LEMMA TurnInvariant == Spec => []TurnInv
BY TurnInitial, TurnStep, PTL DEF Spec

-----------------------------------------------------------------------------
\* Every variable of an operation keeps its type (ai, tutoraudit, classroom).
THEOREM TurnTypeCorrect == Spec => []TypeOK
<1>1. TurnInv => TypeOK
  BY DEF TurnInv
<1> QED BY <1>1, TurnInvariant, PTL

\* No text of a model is shown or built upon that the deterministic check and the reviewer
\* have not both passed, with the record to say so (AuditTutorOutput fails closed).
THEOREM OnlyApprovedShown == Spec => []ApprovedOnly
<1>1. TurnInv => ApprovedOnly
  BY DEF TurnInv
<1> QED BY <1>1, TurnInvariant, PTL

\* A turn that was written leaves its audit row, whether it passed, was refused or was cut
\* off by the student (context.WithoutCancel in AuditTutorOutput).
THEOREM AuditTrailKept == Spec => []AuditTrail
<1>1. TurnInv => AuditTrail
  BY DEF TurnInv
<1> QED BY <1>1, TurnInvariant, PTL

\* An operation comes to its commit within its lease as long as the deadlines of its retry
\* loops, of the record and of the voice add up to less (BudgetAssumption).
THEOREM LeaseCoversTurn == Spec => []LeaseOutlivesTurn
<1>1. TurnInv => LeaseOutlivesTurn
  BY BudgetAssumption DEF TurnInv, TypeOK, Op, Budget, LeaseOutlivesTurn
<1> QED BY <1>1, TurnInvariant, PTL

\* What was shown has been paid for: the usage of its generation, of its review and of its
\* voice is recorded (RecordAIUsage).
THEOREM ShownIsPaidFor == Spec => []PaidFor
<1>1. TurnInv => PaidFor
  BY DEF TurnInv
<1> QED BY <1>1, TurnInvariant, PTL
=============================================================================
