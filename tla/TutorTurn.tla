------------------------------ MODULE TutorTurn ------------------------------
(***************************************************************************)
(* What one operation of the classroom does between its lease and its      *)
(* commit: a model analyses the answer, the rules engine decides, a model  *)
(* writes the tutor's turn, an independent model and a deterministic check *)
(* audit it, it may be spoken, and it is shown.  Packages ai, tutoraudit   *)
(* and classroom of server/internal, with a teaching agent configured.     *)
(*                                                                         *)
(* One operation of a session is at work at a time, as it holds the lease; *)
(* what pauses, logouts, recovery and stale versions do to it is in        *)
(* Classroom, what the commit writes about learning is in Lessons.  The    *)
(* text of a turn is the number of the operation that had it written.      *)
(*                                                                         *)
(* Time is counted per operation, from its lease on: op.clock.  A call may *)
(* take all the time it has left; database work takes none, except the     *)
(* audit record, which has a timeout of its own.                           *)
(***************************************************************************)
EXTENDS TutorEngine

CONSTANTS
    LeaseTime,      \* sessionLeaseTime
    RetryTimeout,   \* TutorRetryOverallTimeout, also of the reviewer's retries
    TurnTimeout,    \* tutorOutputOperationTimeout
    HTTPTimeout,    \* http.Client.Timeout of the speech provider
    RecordTimeout,  \* the audit record's timeout
    MaxAttempts,    \* TutorRetryMaxAttempts
    BaseDelay,      \* TutorRetryBaseDelay
    Pauses,         \* jitters, and Retry-After values the providers send
    MaxWait,        \* TutorRetryMaxWait
    Latencies,      \* what a call may take, if its deadline does not end it
    MaxOps,         \* bound: operations in a behaviour
    MaxFaults,      \* bound: calls, reviews, records and commits that fail, leaks and crashes
    Null

ASSUME BudgetAssumption ==
    /\ LeaseTime \in Nat /\ RetryTimeout \in Nat /\ TurnTimeout \in Nat
    /\ HTTPTimeout \in Nat /\ RecordTimeout \in Nat
    /\ MaxAttempts \in Nat /\ BaseDelay \in Nat /\ MaxWait \in Nat /\ Pauses \subseteq Nat
    /\ Latencies \subseteq Nat
    /\ RetryTimeout + TurnTimeout + RecordTimeout + HTTPTimeout < LeaseTime
ASSUME TurnBounds == MaxOps \in Nat /\ MaxFaults \in Nat

VARIABLES
    chain,      \* learning_sessions.teaching_response_id: the text the next turn builds on
    shown,      \* the texts the student was shown, and whether they were spoken
    op,         \* the operation that holds the lease
    asked,      \* operations begun; the number of the last one is its id
    ended,      \* how each operation ended
    audits,     \* tutor_output_audits.final_result, by operation
    billed,     \* ai_usage_records
    leaks,      \* history: the texts that contain a protected answer
    unchained,  \* OpenAIResponsesClient.chainingUnsupported
    faults      \* failures so far

vars == <<chain, shown, op, asked, ended, audits, billed, leaks, unchained, faults>>

-----------------------------------------------------------------------------
Kinds == {"ANSWER", "HINT", "EXPLAIN"}
Calls == {"analyse", "generate", "review"}
Steps == Calls \cup {"rest", "record", "voice", "commit"}
Verdicts == {"PASS", "REJECTED", "UNAVAILABLE", "PROVENANCE"}
Outcomes == Verdicts \cup {"OK", "BUSY", "ERROR", "GONE", "UNRECORDED", "CHANGED", "CRASH"}
Ops == 1 .. MaxOps

ASSUME TurnNull == Null \notin Nat \cup Decision \cup Outcomes

\* An operation at work.  att, delay, waited and until belong to the retry loop it is
\* in; outer is the deadline of generation and audit together.  right is what the commit will
\* take the answer for: it matches, or the model is sure that it is right.
Op == [pc : Steps, kind : Kinds, att : Nat, delay : Nat, waited : Nat,
       clock : Nat, until : Nat, outer : Nat, gone : BOOLEAN,
       right : BOOLEAN, decision : Decision \cup {Null}, verdict : Verdicts \cup {Null}]
Resting == [pc |-> "rest", kind |-> "ANSWER", att |-> 0, delay |-> 0,
            waited |-> 0, clock |-> 0, until |-> 0, outer |-> 0, gone |-> FALSE,
            right |-> FALSE, decision |-> Null, verdict |-> Null]

Init ==
    /\ chain = Null /\ shown = {}
    /\ op = Resting /\ asked = 0 /\ ended = [n \in Ops |-> Null]
    /\ audits = [n \in Ops |-> Null] /\ billed = {} /\ leaks = {}
    /\ unchained = FALSE /\ faults = 0

-----------------------------------------------------------------------------
(* Calls of the models.                                                    *)

\* An operation enters the retry loop of a call.
Entering(o, step, until) ==
    [o EXCEPT !.pc = step, !.att = 1, !.delay = BaseDelay, !.waited = 0, !.until = until]

\* The operation ends; endSessionOperation gives the lease back.
End(outcome) ==
    /\ op' = Resting
    /\ ended' = [ended EXCEPT ![asked] = outcome]

\* generateTurn: generation and audit share one deadline.
Generating(o, decision) ==
    LET outer == o.clock + TurnTimeout IN
    [Entering(o, "generate", Smaller(outer, o.clock + RetryTimeout))
        EXCEPT !.outer = outer, !.decision = decision]

\* AuditTutorOutput calls the reviewer, within what generation has left.
Reviewing(o) == Entering(o, "review", Smaller(o.outer, o.clock + RetryTimeout))

\* Submit or RequestSupport takes the lease.
Ask(kind) ==
    /\ op.pc = "rest" /\ asked < MaxOps
    /\ asked' = asked + 1
    /\ IF kind = "ANSWER"
       THEN \E match \in BOOLEAN :
              op' = Entering([Resting EXCEPT !.right = match], "analyse", RetryTimeout)
       ELSE op' = Generating([Resting EXCEPT !.kind = kind], Reply(kind, 0))
    /\ UNCHANGED <<chain, shown, ended, audits, billed, leaks, unchained, faults>>

\* How long a call of the current loop may take.
Spans == LET left == op.until - op.clock IN {d \in Latencies : d <= left} \cup {left}

Taking(d) == [op EXCEPT !.clock = @ + d]

\* The operation leaves its retry loop.
Leaving(o, step) == [o EXCEPT !.pc = step, !.att = 0, !.delay = 0, !.waited = 0, !.until = 0]

\* Faulty variant: a reply counts before its usage is recorded.
BillNothing(what) == UNCHANGED billed

\* RecordAIUsage
Bill(what) == billed' = billed \cup {<<asked, what>>}

Fault == faults < MaxFaults /\ faults' = faults + 1

\* AnalyzeAnswer succeeds and the engine decides with the session's failed rounds; a
\* right answer needs no turn.
Analysed(d, a, fails) ==
    /\ op.pc = "analyse"
    /\ LET decision == Decide(fails, a)
           known == [Taking(d) EXCEPT !.right = @ \/ (a.right /\ a.sure), !.decision = decision]
       IN op' = IF decision.next = "VARIANT" THEN Leaving(known, "commit")
                ELSE Generating(known, decision)
    /\ Bill("analyse")
    /\ UNCHANGED <<chain, shown, asked, ended, audits, leaks, unchained, faults>>

\* A turn with the decided action, valid against the schema; it may hold the answer.
Generated(d) ==
    /\ op.pc = "generate"
    /\ op' = Reviewing(Taking(d))
    /\ \/ UNCHANGED <<leaks, faults>>
       \/ Fault /\ leaks' = leaks \cup {asked}
    /\ Bill("generate")
    /\ UNCHANGED <<chain, shown, asked, ended, audits, unchained>>

\* Faulty variant: the deterministic check speaks only when the reviewer does not.
VerdictOfReviewer(known, pass) ==
    IF known THEN IF pass THEN "PASS" ELSE "REJECTED"
    ELSE IF asked \in leaks THEN "REJECTED" ELSE "PASS"

\* AuditTutorOutput: the reviewer must be the configured one, the deterministic check
\* finds no protected answer, and the reviewer approves.
Verdict(known, pass) ==
    CASE ~known -> "PROVENANCE"
      [] known /\ (~pass \/ asked \in leaks) -> "REJECTED"
      [] OTHER -> "PASS"

\* The reviewer answers with a consistent review.
Reviewed(d) ==
    /\ op.pc = "review"
    /\ \E known, pass \in BOOLEAN :
         /\ IF known /\ pass THEN UNCHANGED faults ELSE Fault
         /\ op' = [Leaving(Taking(d), "record") EXCEPT !.verdict = Verdict(known, pass)]
    /\ Bill("review")
    /\ UNCHANGED <<chain, shown, asked, ended, audits, leaks, unchained>>

\* A loop ends without a reply: without a review the turn is refused, with a record.
StageFails(o, outcome) ==
    IF op.pc = "review"
    THEN /\ op' = [Leaving(o, "record") EXCEPT !.verdict = "UNAVAILABLE"]
         /\ UNCHANGED ended
    ELSE End(outcome)

\* The provider refuses, the network or the deadline ends the call, the usage cannot
\* be recorded, or the reply is billed and then found unusable: not tried again.
CallFails(d) ==
    /\ op.pc \in Calls
    /\ Fault
    /\ StageFails(Taking(d), "ERROR")
    /\ \/ UNCHANGED billed
       \/ Bill(op.pc)
    /\ UNCHANGED <<chain, shown, asked, audits, leaks, unchained>>

\* Faulty variant: the deadline of the loop starts again with each attempt.
RetriedAfresh(o, pause) ==
    [o EXCEPT !.att = @ + 1, !.delay = 2 * @, !.waited = @ + pause, !.clock = @ + pause,
              !.until = o.clock + pause + RetryTimeout]

Retried(o, pause) ==
    [o EXCEPT !.att = @ + 1, !.delay = 2 * @, !.waited = @ + pause, !.clock = @ + pause]

\* The loop waits once more: attempts and waiting are bounded.
MayRetry(pause) == op.att < MaxAttempts /\ pause <= MaxWait - op.waited

\* HTTP 429 or 5xx, perhaps with Retry-After; the wait itself may meet the deadline.
CallBusy(d) ==
    /\ op.pc \in Calls
    /\ Fault
    /\ \E p \in Pauses, asks \in BOOLEAN :
         LET pause == IF asks THEN Larger(p, op.delay) ELSE op.delay + p
             late == op.clock + d + pause >= op.until
         IN IF MayRetry(pause) /\ ~late
            THEN op' = Retried(Taking(d), pause) /\ UNCHANGED ended
            ELSE StageFails(IF MayRetry(pause) THEN [op EXCEPT !.clock = op.until] ELSE Taking(d),
                            "BUSY")
    /\ UNCHANGED <<chain, shown, asked, audits, billed, leaks, unchained>>

\* GenerateStructured: the endpoint refuses previous_response_id; the call is repeated
\* without it, now and for as long as the process lives.
ChainRefused(d) ==
    /\ op.pc = "generate" /\ chain # Null /\ ~unchained
    /\ unchained' = TRUE
    /\ op' = Taking(d)
    /\ UNCHANGED <<chain, shown, asked, ended, audits, billed, leaks, faults>>

-----------------------------------------------------------------------------
(* The audit record, the voice, and what ends an operation.                *)

\* The next step after the turn passed the audit.
AfterAudit ==
    IF op.kind = "ANSWER" /\ ~op.right /\ op.decision.next = "VOICE_EXPLAIN"
    THEN "voice" ELSE "commit"

\* RecordTutorOutputAudit, under a context of its own.
Record(d) ==
    /\ op.pc = "record"
    /\ audits' = [audits EXCEPT ![asked] = op.verdict]
    /\ IF op.verdict = "PASS" /\ ~op.gone
       THEN op' = [Taking(d) EXCEPT !.pc = AfterAudit] /\ UNCHANGED ended
       ELSE End(IF op.gone THEN "GONE" ELSE op.verdict)
    /\ UNCHANGED <<chain, shown, asked, billed, leaks, unchained, faults>>

\* The record fails, and with it the operation.
RecordFails ==
    /\ op.pc = "record"
    /\ Fault
    /\ End("UNRECORDED")
    /\ UNCHANGED <<chain, shown, asked, audits, billed, leaks, unchained>>

\* prepareVoice: the audited message is spoken.
Spoken(d) ==
    /\ op.pc = "voice"
    /\ op' = [Taking(d) EXCEPT !.pc = "commit"]
    /\ Bill("voice")
    /\ UNCHANGED <<chain, shown, asked, ended, audits, leaks, unchained, faults>>

VoiceFails ==
    /\ op.pc = "voice"
    /\ Fault
    /\ End("ERROR")
    /\ UNCHANGED <<chain, shown, asked, audits, leaks, unchained>>
    /\ \/ UNCHANGED billed
       \/ Bill("voice")

\* Faulty variant: a review that is cut off leaves no record.
HangUpUnrecorded ==
    /\ op.pc # "rest" /\ ~op.gone
    /\ Fault
    /\ IF op.pc = "record" THEN op' = [op EXCEPT !.gone = TRUE] /\ UNCHANGED ended ELSE End("GONE")
    /\ UNCHANGED <<chain, shown, asked, audits, billed, leaks, unchained>>

\* The client hangs up: every call under the request's context ends, but an audit under
\* way is recorded.
HangUp ==
    /\ op.pc # "rest" /\ ~op.gone
    /\ Fault
    /\ CASE op.pc = "review" ->
              /\ op' = [Leaving(op, "record") EXCEPT !.gone = TRUE, !.verdict = "UNAVAILABLE"]
              /\ UNCHANGED ended
         [] op.pc = "record" -> op' = [op EXCEPT !.gone = TRUE] /\ UNCHANGED ended
         [] OTHER -> End("GONE")
    /\ UNCHANGED <<chain, shown, asked, audits, billed, leaks, unchained>>

\* The process dies and starts again.
Crash ==
    /\ op.pc # "rest"
    /\ Fault
    /\ End("CRASH")
    /\ unchained' = FALSE
    /\ UNCHANGED <<chain, shown, asked, audits, billed, leaks>>

-----------------------------------------------------------------------------
(* The commit.                                                             *)

MayCommit == op.pc = "commit" /\ op.clock < LeaseTime

\* The transaction fails, or comes after the lease.
CommitFails ==
    /\ op.pc = "commit"
    /\ \/ Fault /\ End("ERROR")
       \/ op.clock >= LeaseTime /\ UNCHANGED faults /\ End("CHANGED")
    /\ UNCHANGED <<chain, shown, asked, audits, billed, leaks, unchained>>

\* Whether the answer or the request is answered with the model's turn.
NeedsTurn == op.kind # "ANSWER" \/ (~op.right /\ op.decision.next # "VARIANT")

\* Faulty variant: the turn that is kept as context is shown.
ShownBefore ==
    /\ MayCommit /\ NeedsTurn /\ op.decision.next # "BACKTRACK"
    /\ shown' = shown \cup {[text |-> chain, spoken |-> op.decision.next = "VOICE_EXPLAIN"]}
    /\ chain' = asked
    /\ End("OK")
    /\ UNCHANGED <<asked, audits, billed, leaks, unchained, faults>>

\* The turn is shown, and the next one builds on it.
Shown ==
    /\ MayCommit /\ NeedsTurn /\ op.decision.next # "BACKTRACK"
    /\ shown' = shown \cup {[text |-> asked, spoken |-> op.decision.next = "VOICE_EXPLAIN"]}
    /\ chain' = asked
    /\ End("OK")
    /\ UNCHANGED <<asked, audits, billed, leaks, unchained, faults>>

\* beginBacktrack shows a message of its own and keeps the turn as context; without a
\* prerequisite even that is left.
Backtracked ==
    /\ MayCommit /\ NeedsTurn /\ op.decision.next = "BACKTRACK"
    /\ chain' \in {asked, chain}
    /\ End("OK")
    /\ UNCHANGED <<shown, asked, audits, billed, leaks, unchained, faults>>

\* A right answer, and one that the model takes for right without being sure: no turn of
\* the model is shown.
Unneeded ==
    /\ MayCommit /\ ~NeedsTurn
    /\ End("OK")
    /\ UNCHANGED <<chain, shown, asked, audits, billed, leaks, unchained, faults>>

-----------------------------------------------------------------------------
Work ==
    \/ \E d \in Spans : Generated(d) \/ Reviewed(d) \/ ChainRefused(d) \/ CallFails(d) \/ CallBusy(d)
    \/ \E d \in Spans, a \in Analysis, fails \in 0 .. MaxRounds : Analysed(d, a, fails)
    \/ \E d \in {0, RecordTimeout} : Record(d)
    \/ \E d \in {0, HTTPTimeout} : Spoken(d)
    \/ RecordFails \/ VoiceFails \/ CommitFails
    \/ Shown \/ Backtracked \/ Unneeded

Next ==
    \/ \E kind \in Kinds : Ask(kind)
    \/ Work
    \/ HangUp
    \/ Crash

Spec == Init /\ [][Next]_vars

-----------------------------------------------------------------------------
(* Type.                                                                   *)

\* Every variable keeps its type; no counter leaves its bound.
TypeOK ==
    /\ chain \in Ops \cup {Null}
    /\ shown \subseteq [text : Ops, spoken : BOOLEAN]
    /\ op \in Op /\ asked \in 0 .. MaxOps
    /\ ended \in [Ops -> Outcomes \cup {Null}]
    /\ audits \in [Ops -> Verdicts \cup {Null}]
    /\ billed \subseteq Ops \X (Calls \cup {"voice"}) /\ leaks \subseteq Ops
    /\ unchained \in BOOLEAN /\ faults \in 0 .. MaxFaults

-----------------------------------------------------------------------------
(* Safety.                                                                 *)

\* A text that may be used: its audit row says PASS, and it contains no protected answer.
Approved(text) == text # Null => audits[text] = "PASS" /\ text \notin leaks

\* Whatever calls fail, time out or are repeated, no model's text reaches the student or
\* the context of the next turn unless the deterministic check and the reviewer have both
\* passed it and the record says so (REQ-AI-AUDIT-01, fail closed).
ApprovedOnly == Approved(chain) /\ \A t \in shown : Approved(t.text)

\* A turn that was written and then passed, rejected or not reviewed leaves its audit
\* row, also when the student has hung up during the review; only a crash or a database
\* that refuses the row loses it (AuditTutorOutput, WithoutCancel).
AuditTrail ==
    \A n \in Ops :
        /\ ended[n] \in Verdicts => audits[n] = ended[n]
        /\ <<n, "generate">> \in billed /\ ended[n] \in {"OK", "GONE", "CHANGED"}
             => audits[n] # Null

\* Retries of the analysis, of the generation and of the review, the record and the
\* voice fit into the lease: an operation that nobody disturbs always commits.
LeaseOutlivesTurn == op.pc = "commit" => op.clock < LeaseTime

\* Everything a model did for what the student was shown has its usage record: the
\* turn, its review, and the voice.
PaidFor ==
    \A t \in shown :
        /\ {<<t.text, "generate">>, <<t.text, "review">>} \subseteq billed
        /\ t.spoken => <<t.text, "voice">> \in billed
=============================================================================
