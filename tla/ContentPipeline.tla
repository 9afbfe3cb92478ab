--------------------------- MODULE ContentPipeline ---------------------------
(***************************************************************************)
(* How a question comes into the classroom, and out of it: package         *)
(* server/internal/contentpipeline over the tables and the status trigger  *)
(* of migration 000006.                                                    *)
(*                                                                         *)
(* An owner's request is a chain of reads, AI calls and one writing        *)
(* transaction, and nothing is held between them; each is one action.      *)
(* Several owners work at once.  A question's asset never changes once its *)
(* draft is stored, so what the code reads of it (LoadAsset) is constant   *)
(* here, and one content version and one schema version are enough.        *)
(*                                                                         *)
(* A question whose prompt repeats one that the migrations seeded fails    *)
(* its validation like any other unsound one.                              *)
(***************************************************************************)
EXTENDS Naturals, Sequences

CONSTANTS
    Questions,   \* question ids
    Prompts,     \* normalised prompts
    Prompt,      \* the normalised prompt of a question
    Sound,       \* the questions that pass every check but the one for duplicates
    Identities,  \* "provider:model" of generators and reviewers
    Requests,    \* owner requests in flight at once
    Kinds,       \* the requests the owners send
    MaxRequests, \* bound: requests that arrive in a behaviour
    Null         \* SQL NULL, and what a request does not have

AllKinds == {"IMPORT", "GENERATE", "VALIDATE", "REVIEW", "RELEASE", "QUARANTINE"}

ASSUME PromptAssumption == Prompt \in [Questions -> Prompts] /\ Sound \subseteq Questions
ASSUME PipelineKindsAssumption == Kinds \subseteq AllKinds /\ MaxRequests \in Nat
ASSUME PipelineNullAssumption == Null \notin Questions \cup Identities

VARIABLES
    status,      \* questions.status
    origin,      \* content_versions.generator_provider and generator_model
    validations, \* content_validations.status of a question's rows
    reviews,     \* content_reviews
    log,         \* content_release_records of a question, in order
    reviewer,    \* the identity of the configured reviewer
    clock,       \* now(): the start of the latest recording transaction
    req,         \* the requests in flight
    arrived      \* requests that have arrived

vars == <<status, origin, validations, reviews, log, reviewer, clock, req, arrived>>

-----------------------------------------------------------------------------
Stages == {"ABSENT", "DRAFT", "AUTOMATIC_VALIDATED", "REJECTED_AUTOMATIC", "AI_REVIEWED",
           "RELEASED", "QUARANTINED"}

\* What a review says: PASS with every flag set, PASS with a flag that is not, or
\* another result.
Verdicts == {"CLEAN", "FLAGGED", "NOT_PASS"}

\* content_reviews; at is created_at, the start of the transaction that wrote it.
Row == [question : Questions, at : Nat, verdict : Verdicts, by : Identities]

\* content_release_records
Entry == [to : {"RELEASED", "QUARANTINED"}, review : Row \cup {Null}]

\* A request in flight: the drafts it makes and those it has not compared yet, or the
\* question it is about; whether the question was found unique; and the review it
\* is going to record or to cite.
Request == [pc : {"idle", "compare", "judge", "lookup", "commit"},
            kind : AllKinds \cup {"NONE"}, q : Questions \cup {Null},
            batch : SUBSET Questions, left : SUBSET Questions,
            by : Identities \cup {Null}, unique : BOOLEAN, row : Row \cup {Null}]
Resting == [pc |-> "idle", kind |-> "NONE", q |-> Null, batch |-> {}, left |-> {},
            by |-> Null, unique |-> FALSE, row |-> Null]

Init ==
    /\ status = [q \in Questions |-> "ABSENT"]
    /\ origin = [q \in Questions |-> Null]
    /\ validations = [q \in Questions |-> {}]
    /\ reviews = {}
    /\ log = [q \in Questions |-> <<>>]
    /\ reviewer \in Identities \cup {Null}
    /\ clock = 0
    /\ req = [r \in Requests |-> Resting]
    /\ arrived = 0

-----------------------------------------------------------------------------
(* What the database checks: enforce_question_content_state.               *)

Edges == {<<"DRAFT", "AUTOMATIC_VALIDATED">>, <<"DRAFT", "REJECTED_AUTOMATIC">>,
          <<"AUTOMATIC_VALIDATED", "AI_REVIEWED">>, <<"AI_REVIEWED", "RELEASED">>,
          <<"RELEASED", "QUARANTINED">>, <<"QUARANTINED", "DRAFT">>}

\* The reviews of q whose result is PASS, whatever their flags.
Passing(q, rows) == {row \in rows : row.question = q /\ row.verdict \in {"CLEAN", "FLAGGED"}}

\* The trigger lets q move to stage to, given the evidence of the transaction.
TriggerAllows(q, to, verdicts, rows) ==
    \/ status[q] = to
    \/ /\ <<status[q], to>> \in Edges
       /\ to \in {"AUTOMATIC_VALIDATED", "RELEASED"} => "PASS" \in verdicts
       /\ to \in {"AI_REVIEWED", "RELEASED"} => Passing(q, rows) # {}

-----------------------------------------------------------------------------
(* Requests.                                                               *)

\* Faulty variant: only what has passed is compared.
NewPromptAmongPassed(q, others) ==
    \A p \in others : status[p] \notin {"ABSENT", "DRAFT", "REJECTED_AUTOMATIC"}
                        => Prompt[p] # Prompt[q]

\* DuplicateExists finds none among the others, whatever their status.
NewPrompt(q, others) == \A p \in others : status[p] # "ABSENT" => Prompt[p] # Prompt[q]

\* A generated batch that passes the local preflight, before its prompts are compared
\* with the stored ones.
Preflighted(batch) ==
    /\ batch # {} /\ batch \subseteq Sound
    /\ \A p, q \in batch : Prompt[p] = Prompt[q] => p = q

Creating(kind, batch, by) ==
    [Resting EXCEPT !.kind = kind, !.batch = batch, !.by = by,
                    !.pc = IF kind = "GENERATE" THEN "compare" ELSE "commit",
                    !.left = IF kind = "GENERATE" THEN batch ELSE {}]

About(kind, q) ==
    [Resting EXCEPT !.kind = kind, !.q = q,
                    !.pc = CASE kind = "VALIDATE" -> "compare"
                             [] kind = "REVIEW" -> "judge"
                             [] kind = "RELEASE" -> "lookup"
                             [] OTHER -> "commit"]

\* An owner imports a draft, has a batch generated (the AI call included; the configured
\* generator is not the reviewer), or names a stored question.  Imports of an id that is
\* stored already are refused without effect and left out.
Ask(r) ==
    /\ req[r].pc = "idle"
    /\ arrived < MaxRequests
    /\ \/ /\ "IMPORT" \in Kinds
          /\ \E q \in Questions, by \in Identities :
               /\ status[q] = "ABSENT"
               /\ req' = [req EXCEPT ![r] = Creating("IMPORT", {q}, by)]
       \/ /\ "GENERATE" \in Kinds
          /\ \E batch \in SUBSET {q \in Questions : status[q] = "ABSENT"},
                by \in Identities \ {reviewer} :
               /\ Preflighted(batch)
               /\ req' = [req EXCEPT ![r] = Creating("GENERATE", batch, by)]
       \/ \E kind \in Kinds \ {"IMPORT", "GENERATE"}, q \in Questions :
            /\ status[q] # "ABSENT"
            /\ req' = [req EXCEPT ![r] = About(kind, q)]
    /\ arrived' = arrived + 1
    /\ UNCHANGED <<status, origin, validations, reviews, log, reviewer, clock>>

\* A guard refuses the request, the AI service fails, the owner hangs up, or the
\* database fails; its transaction, if any, leaves nothing.
Refuse(r) ==
    /\ req[r].pc # "idle"
    /\ req' = [req EXCEPT ![r] = Resting]
    /\ UNCHANGED <<status, origin, validations, reviews, log, reviewer, clock, arrived>>

\* The server restarts, perhaps with another reviewer or none.
Restart ==
    /\ reviewer' \in Identities \cup {Null}
    /\ req' = [r \in Requests |-> Resting]
    /\ UNCHANGED <<status, origin, validations, reviews, log, clock, arrived>>

-----------------------------------------------------------------------------
(* ImportDraft and GenerateDrafts.                                         *)

\* One prompt of a generated batch is compared with all stored prompts.
ComparePrompt(r) ==
    /\ req[r].pc = "compare" /\ req[r].kind = "GENERATE"
    /\ \E q \in req[r].left :
         /\ NewPrompt(q, Questions)
         /\ LET left == req[r].left \ {q}
                next == IF left = {} THEN "commit" ELSE "compare"
            IN req' = [req EXCEPT ![r].left = left, ![r].pc = next]
    /\ UNCHANGED <<status, origin, validations, reviews, log, reviewer, clock, arrived>>

\* CreateDrafts: the whole batch or nothing; the ids must be new.
CreateDrafts(r) ==
    LET batch == req[r].batch IN
    /\ req[r].pc = "commit" /\ req[r].kind \in {"IMPORT", "GENERATE"}
    /\ \A q \in batch : status[q] = "ABSENT"
    /\ status' = [q \in Questions |-> IF q \in batch THEN "DRAFT" ELSE status[q]]
    /\ origin' = [q \in Questions |-> IF q \in batch THEN req[r].by ELSE origin[q]]
    /\ req' = [req EXCEPT ![r] = Resting]
    /\ UNCHANGED <<validations, reviews, log, reviewer, clock, arrived>>

-----------------------------------------------------------------------------
(* Validate.                                                               *)

\* The asset and the stored prompts are read; the verdict stays in memory.
CompareQuestion(r) ==
    /\ req[r].pc = "compare" /\ req[r].kind = "VALIDATE"
    /\ req' = [req EXCEPT ![r].unique = NewPrompt(req[r].q, Questions \ {req[r].q}),
                          ![r].pc = "commit"]
    /\ UNCHANGED <<status, origin, validations, reviews, log, reviewer, clock, arrived>>

\* The row lock, the status check, the evidence and the new status, in one transaction.
RecordValidation(r) ==
    LET q == req[r].q
        passed == req[r].unique /\ q \in Sound
        next == IF passed THEN "AUTOMATIC_VALIDATED" ELSE "REJECTED_AUTOMATIC"
        verdicts == validations[q] \cup {IF passed THEN "PASS" ELSE "REJECTED_AUTOMATIC"}
    IN
    /\ req[r].pc = "commit" /\ req[r].kind = "VALIDATE"
    /\ status[q] = "DRAFT"
    /\ TriggerAllows(q, next, verdicts, reviews)
    /\ validations' = [validations EXCEPT ![q] = verdicts]
    /\ status' = [status EXCEPT ![q] = next]
    /\ req' = [req EXCEPT ![r] = Resting]
    /\ UNCHANGED <<origin, reviews, log, reviewer, clock, arrived>>

-----------------------------------------------------------------------------
(* Review.                                                                 *)

\* Faulty variant: the generator may review its own question.
JudgeAnyone(r) ==
    LET q == req[r].q IN
    /\ req[r].pc = "judge"
    /\ reviewer # Null
    /\ \E verdict \in Verdicts :
         req' = [req EXCEPT ![r].row = [question |-> q, at |-> clock + 1, verdict |-> verdict,
                                        by |-> reviewer],
                            ![r].pc = "commit"]
    /\ clock' = clock + 1
    /\ UNCHANGED <<status, origin, validations, reviews, log, reviewer, arrived>>

\* Another identity than the generator's judges the asset, with any verdict; then the
\* recording transaction begins, which fixes the created_at of its row.
Judge(r) ==
    LET q == req[r].q IN
    /\ req[r].pc = "judge"
    /\ reviewer # Null /\ origin[q] # reviewer
    /\ \E verdict \in Verdicts :
         req' = [req EXCEPT ![r].row = [question |-> q, at |-> clock + 1, verdict |-> verdict,
                                        by |-> reviewer],
                            ![r].pc = "commit"]
    /\ clock' = clock + 1
    /\ UNCHANGED <<status, origin, validations, reviews, log, reviewer, arrived>>

\* Faulty variant: the result PASS is enough, as it is for the trigger.
RecordReviewLenient(r) ==
    LET q == req[r].q
        rows == reviews \cup {req[r].row}
        next == IF req[r].row.verdict # "NOT_PASS" THEN "AI_REVIEWED" ELSE "AUTOMATIC_VALIDATED"
    IN
    /\ req[r].pc = "commit" /\ req[r].kind = "REVIEW"
    /\ status[q] = "AUTOMATIC_VALIDATED"
    /\ TriggerAllows(q, next, validations[q], rows)
    /\ reviews' = rows
    /\ status' = [status EXCEPT ![q] = next]
    /\ req' = [req EXCEPT ![r] = Resting]
    /\ UNCHANGED <<origin, validations, log, reviewer, clock, arrived>>

\* The row lock, the status check, the evidence, and the new status if the review is
\* clean, in the transaction that Judge began.
RecordReview(r) ==
    LET q == req[r].q
        rows == reviews \cup {req[r].row}
        next == IF req[r].row.verdict = "CLEAN" THEN "AI_REVIEWED" ELSE "AUTOMATIC_VALIDATED"
    IN
    /\ req[r].pc = "commit" /\ req[r].kind = "REVIEW"
    /\ status[q] = "AUTOMATIC_VALIDATED"
    /\ TriggerAllows(q, next, validations[q], rows)
    /\ reviews' = rows
    /\ status' = [status EXCEPT ![q] = next]
    /\ req' = [req EXCEPT ![r] = Resting]
    /\ UNCHANGED <<origin, validations, log, reviewer, clock, arrived>>

-----------------------------------------------------------------------------
(* Release and Quarantine.                                                 *)

\* ReleaseEvidence: a passed validation and the latest review with result PASS.
LookUpEvidence(r) ==
    LET q == req[r].q IN
    /\ req[r].pc = "lookup"
    /\ status[q] = "AI_REVIEWED"
    /\ "PASS" \in validations[q]
    /\ \E row \in Passing(q, reviews) :
         /\ \A other \in Passing(q, reviews) : other.at <= row.at
         /\ req' = [req EXCEPT ![r].row = row, ![r].pc = "commit"]
    /\ UNCHANGED <<status, origin, validations, reviews, log, reviewer, clock, arrived>>

\* Faulty variant: the record names the stage that the question leaves.
LeftForRelease(row) == [to |-> "AI_REVIEWED", review |-> row]

Released(row) == [to |-> "RELEASED", review |-> row]

\* Faulty variant: the evidence query has looked at the status already.
ReleaseTrusting(r) ==
    LET q == req[r].q IN
    /\ req[r].pc = "commit" /\ req[r].kind = "RELEASE"
    /\ TriggerAllows(q, "RELEASED", validations[q], reviews)
    /\ status' = [status EXCEPT ![q] = "RELEASED"]
    /\ log' = [log EXCEPT ![q] = Append(@, Released(req[r].row))]
    /\ req' = [req EXCEPT ![r] = Resting]
    /\ UNCHANGED <<origin, validations, reviews, reviewer, clock, arrived>>

\* The row lock, the status check, the new status and the release record.
Release(r) ==
    LET q == req[r].q IN
    /\ req[r].pc = "commit" /\ req[r].kind = "RELEASE"
    /\ status[q] = "AI_REVIEWED"
    /\ TriggerAllows(q, "RELEASED", validations[q], reviews)
    /\ status' = [status EXCEPT ![q] = "RELEASED"]
    /\ log' = [log EXCEPT ![q] = Append(@, Released(req[r].row))]
    /\ req' = [req EXCEPT ![r] = Resting]
    /\ UNCHANGED <<origin, validations, reviews, reviewer, clock, arrived>>

\* One conditional update and the record; nothing is read before.
Quarantine(r) ==
    LET q == req[r].q IN
    /\ req[r].pc = "commit" /\ req[r].kind = "QUARANTINE"
    /\ status[q] = "RELEASED"
    /\ TriggerAllows(q, "QUARANTINED", validations[q], reviews)
    /\ status' = [status EXCEPT ![q] = "QUARANTINED"]
    /\ log' = [log EXCEPT ![q] = Append(@, [to |-> "QUARANTINED", review |-> Null])]
    /\ req' = [req EXCEPT ![r] = Resting]
    /\ UNCHANGED <<origin, validations, reviews, reviewer, clock, arrived>>

-----------------------------------------------------------------------------
Handle(r) ==
    \/ Ask(r) \/ Refuse(r)
    \/ ComparePrompt(r) \/ CreateDrafts(r)
    \/ CompareQuestion(r) \/ RecordValidation(r)
    \/ Judge(r) \/ RecordReview(r)
    \/ LookUpEvidence(r) \/ Release(r) \/ Quarantine(r)

Next == (\E r \in Requests : Handle(r)) \/ Restart

Spec == Init /\ [][Next]_vars

-----------------------------------------------------------------------------
(* Properties.                                                             *)

\* Every variable keeps its type; only rows that exist are cited.
TypeOK ==
    /\ status \in [Questions -> Stages]
    /\ origin \in [Questions -> Identities \cup {Null}]
    /\ validations \in [Questions -> SUBSET {"PASS", "REJECTED_AUTOMATIC"}]
    /\ reviews \subseteq Row
    /\ log \in [Questions -> Seq(Entry)]
    /\ reviewer \in Identities \cup {Null}
    /\ clock \in Nat
    /\ req \in [Requests -> Request]
    /\ arrived \in 0 .. MaxRequests

\* Of the questions with the same prompt at most one ever passes the validation,
\* although the check for duplicates and the record of its result are separate and
\* drafts are stored in between.
NoTwinsPass ==
    \A p, q \in Questions :
        Prompt[p] = Prompt[q] /\ "PASS" \in validations[p] /\ "PASS" \in validations[q] => p = q

Accepted == {"AI_REVIEWED", "RELEASED", "QUARANTINED"}
CleanRows(q) == {row \in reviews : row.question = q /\ row.verdict = "CLEAN"}

\* A question past the review has passed its one validation and has exactly one clean
\* review, by another identity than its generator's, however many owners asked for
\* reviews at once and whichever reviewer the server was restarted with; a question
\* not past it has none.
BackedByEvidence ==
    \A q \in Questions :
        IF status[q] \in Accepted
        THEN /\ validations[q] = {"PASS"}
             /\ \E row \in reviews : CleanRows(q) = {row} /\ row.by # origin[q]
        ELSE CleanRows(q) = {}

\* The release records tell the whole story of a question: one release for a question
\* in the classroom, a release and a quarantine for one taken out, none otherwise.
LogTellsStatus ==
    \A q \in Questions :
        /\ log[q] = <<>> <=> status[q] \notin {"RELEASED", "QUARANTINED"}
        /\ status[q] = "RELEASED" => Len(log[q]) = 1 /\ log[q][1].to = "RELEASED"
        /\ status[q] = "QUARANTINED" =>
             Len(log[q]) = 2 /\ log[q][1].to = "RELEASED" /\ log[q][2].to = "QUARANTINED"

\* The pipeline, seen through the gate of gate.go.
Gate == INSTANCE ReleaseGate WITH
    stage <- status,
    passed <- {q \in Questions : "PASS" \in validations[q]},
    cleared <- {q \in Questions : \E row \in CleanRows(q) : row.by # origin[q]}

\* Every transaction of the pipeline is one step of the release gate or leaves it alone.
ImplementsGate == Gate!GSpec
=============================================================================
