------------------------ MODULE ContentPipelineProofs ------------------------
(***************************************************************************)
(* The content pipeline for any questions, owners and reviewers: types,    *)
(* the uniqueness of validated prompts, the evidence behind a release, the *)
(* release records, and the refinement of the gate.                        *)
(***************************************************************************)
EXTENDS ContentPipeline, SequenceTheorems, TLAPS

Creators == {"IMPORT", "GENERATE"}

\* What a request in flight keeps, given the stored statuses and generators.
Sane(x, stored, made) ==
    /\ x.pc # "idle" /\ x.kind \in Creators => x.by \in Identities
    /\ x.pc # "idle" /\ x.kind \notin Creators => x.q \in Questions /\ stored[x.q] # "ABSENT"
    /\ x.pc = "judge" => x.kind = "REVIEW"
    /\ x.pc = "lookup" => x.kind = "RELEASE"
    /\ x.pc = "commit" /\ x.kind = "REVIEW" =>
         x.row \in Row /\ x.row.question = x.q /\ x.row.by # made[x.q]
    /\ x.pc = "commit" /\ x.kind = "RELEASE" => x.row \in Row

RequestShape == \A r \in Requests : Sane(req[r], status, origin)

TypeInv == TypeOK /\ RequestShape

\* A stored question stays stored, with the generator it came from.
Kept == \A q \in Questions :
          status[q] # "ABSENT" => status'[q] # "ABSENT" /\ origin'[q] = origin[q]

-----------------------------------------------------------------------------
(* Requests.                                                               *)

\* A request at rest is a request.
LEMMA RestingType == Resting \in Request /\ Resting.pc = "idle"
  BY DEF Resting, Request

\* What Creating returns.
LEMMA CreatingType ==
    ASSUME NEW kind \in Creators, NEW batch \in SUBSET Questions, NEW by \in Identities
    PROVE  /\ Creating(kind, batch, by) \in Request
           /\ Creating(kind, batch, by).pc \in {"compare", "commit"}
           /\ Creating(kind, batch, by).kind = kind
           /\ Creating(kind, batch, by).by = by
  BY DEF Creating, Creators, Resting, Request, AllKinds

\* What About returns.
LEMMA AboutType ==
    ASSUME NEW kind \in AllKinds \ Creators, NEW q \in Questions
    PROVE  /\ About(kind, q) \in Request
           /\ About(kind, q).kind = kind /\ About(kind, q).q = q
           /\ About(kind, q).pc = "judge" => kind = "REVIEW"
           /\ About(kind, q).pc = "lookup" => kind = "RELEASE"
           /\ About(kind, q).pc = "commit" => kind = "QUARANTINE"
           /\ About(kind, q).pc # "idle"
           /\ ~About(kind, q).unique
  BY DEF About, Creators, Resting, Request, AllKinds

\* One request changes, the stored questions stay: the others are as sane as before.
LEMMA ShapeStep ==
    ASSUME TypeInv, NEW r \in Requests, NEW x, req' = [req EXCEPT ![r] = x],
           Kept, Sane(x, status', origin')
    PROVE  RequestShape'
<1> SUFFICES ASSUME NEW p \in Requests
             PROVE  Sane(req'[p], status', origin')
  BY DEF RequestShape
<1>1. CASE p = r
  <2>1. x = req'[p]
    BY <1>1 DEF TypeInv, TypeOK
  <2>2. Sane(x, status', origin')
    OBVIOUS
  <2> QED
    BY <2>1, <2>2, Zenon
<1>2. CASE p # r
  <2>1. req'[p] = req[p] /\ Sane(req[p], status, origin)
    BY <1>2 DEF TypeInv, TypeOK, RequestShape
  <2> QED
    BY <2>1 DEF Sane, Kept, Creators
<1> QED
  BY <1>1, <1>2

\* A request that ends.
LEMMA RestStep ==
    ASSUME TypeInv, NEW r \in Requests, req' = [req EXCEPT ![r] = Resting], Kept
    PROVE  RequestShape' /\ req' \in [Requests -> Request]
<1>1. Sane(Resting, status', origin')
  BY RestingType DEF Sane
<1> QED
  BY <1>1, RestingType, ShapeStep DEF TypeInv, TypeOK

-----------------------------------------------------------------------------
(* Type correctness.                                                       *)

\* The initial state is well typed.
LEMMA TypeInit == Init => TypeInv
<1> SUFFICES ASSUME Init
             PROVE  TypeInv
  OBVIOUS
<1>1. TypeOK
  BY RestingType, PipelineKindsAssumption DEF Init, TypeOK, Stages
<1>2. RequestShape
  BY RestingType DEF Init, RequestShape, Sane
<1> QED
  BY <1>1, <1>2 DEF TypeInv

\* A request that ends with a change of one question's status.
LEMMA Moved ==
    ASSUME TypeInv, NEW q \in Questions, NEW to \in Stages \ {"ABSENT"},
           status[q] # "ABSENT", status' = [status EXCEPT ![q] = to], UNCHANGED origin
    PROVE  Kept /\ status' \in [Questions -> Stages]
  BY DEF TypeInv, TypeOK, Kept

\* A request that arrives keeps the types.
LEMMA AskType == ASSUME TypeInv, NEW r \in Requests, Ask(r) PROVE TypeInv'
<1> USE DEF TypeInv
<1>1. Kept
  BY DEF Ask, Kept
<1>2. \E x \in Request : req' = [req EXCEPT ![r] = x] /\ Sane(x, status', origin')
  <2>1. CASE \E q \in Questions, by \in Identities :
               req' = [req EXCEPT ![r] = Creating("IMPORT", {q}, by)]
    <3>1. PICK q \in Questions, by \in Identities :
                 req' = [req EXCEPT ![r] = Creating("IMPORT", {q}, by)]
      BY <2>1
    <3>2. {q} \in SUBSET Questions /\ "IMPORT" \in Creators
      BY DEF Creators
    <3>3. Sane(Creating("IMPORT", {q}, by), status', origin')
      BY <3>2, CreatingType DEF Sane
    <3> QED
      BY <3>1, <3>2, <3>3, CreatingType
  <2>2. CASE \E batch \in SUBSET Questions, by \in Identities :
               req' = [req EXCEPT ![r] = Creating("GENERATE", batch, by)]
    <3>1. PICK batch \in SUBSET Questions, by \in Identities :
                 req' = [req EXCEPT ![r] = Creating("GENERATE", batch, by)]
      BY <2>2
    <3>2. "GENERATE" \in Creators
      BY DEF Creators
    <3>3. Sane(Creating("GENERATE", batch, by), status', origin')
      BY <3>2, CreatingType DEF Sane
    <3> QED
      BY <3>1, <3>2, <3>3, CreatingType
  <2>3. CASE \E kind \in AllKinds \ Creators, q \in Questions :
               status[q] # "ABSENT" /\ req' = [req EXCEPT ![r] = About(kind, q)]
    <3>1. PICK kind \in AllKinds \ Creators, q \in Questions :
                 status[q] # "ABSENT" /\ req' = [req EXCEPT ![r] = About(kind, q)]
      BY <2>3
    <3>2. status' = status
      BY DEF Ask
    <3>3. PICK x \in Request : x = About(kind, q)
      BY AboutType
    <3>4. x.kind = kind /\ x.q = q /\ x.pc # "idle"
      BY <3>3, AboutType
    <3>5. x.pc = "judge" => kind = "REVIEW"
      BY <3>3, AboutType
    <3>6. x.pc = "lookup" => kind = "RELEASE"
      BY <3>3, AboutType
    <3>7. x.pc = "commit" => kind = "QUARANTINE"
      BY <3>3, AboutType
    <3>8. Sane(x, status', origin')
      BY <3>1, <3>2, <3>4, <3>5, <3>6, <3>7 DEF Sane
    <3> QED
      BY <3>1, <3>3, <3>8
  <2> QED
    BY <2>1, <2>2, <2>3, PipelineKindsAssumption DEF Ask, Creators
<1>3. RequestShape'
  BY <1>1, <1>2, ShapeStep
<1>4. TypeOK'
  BY <1>2, PipelineKindsAssumption DEF Ask, TypeOK
<1> QED
  BY <1>3, <1>4

\* Comparing, judging and looking up keep the types.
LEMMA CompareType ==
    ASSUME TypeInv, NEW r \in Requests,
           ComparePrompt(r) \/ CompareQuestion(r) \/ Judge(r) \/ LookUpEvidence(r)
    PROVE  TypeInv'
<1> USE DEF TypeInv
<1>1. Kept
  BY DEF ComparePrompt, CompareQuestion, Judge, LookUpEvidence, Kept
<1>2. req[r] \in Request /\ Sane(req[r], status, origin)
  BY DEF TypeOK, RequestShape
<1>3. \E x \in Request : req' = [req EXCEPT ![r] = x] /\ Sane(x, status', origin')
  <2>1. CASE ComparePrompt(r)
    <3>1. PICK q \in req[r].left :
                 LET left == req[r].left \ {q}
                     next == IF left = {} THEN "commit" ELSE "compare"
                 IN req' = [req EXCEPT ![r].left = left, ![r].pc = next]
      BY <2>1 DEF ComparePrompt
    <3> DEFINE left == req[r].left \ {q}
               next == IF left = {} THEN "commit" ELSE "compare"
               x == [req[r] EXCEPT !.left = left, !.pc = next]
    <3>2. req' = [req EXCEPT ![r] = x]
      BY <3>1 DEF TypeOK
    <3>3. x \in Request /\ x.kind = req[r].kind /\ x.by = req[r].by /\ x.pc \in {"commit", "compare"}
      BY <1>2 DEF Request
    <3>4. req[r].kind = "GENERATE" /\ req[r].pc # "idle"
      BY <2>1 DEF ComparePrompt
    <3>5. Sane(x, status', origin')
      BY <1>2, <3>3, <3>4 DEF Sane, Creators
    <3> QED
      BY <3>2, <3>3, <3>5
  <2>2. CASE CompareQuestion(r)
    <3> DEFINE u == NewPrompt(req[r].q, Questions \ {req[r].q})
               x == [req[r] EXCEPT !.unique = u, !.pc = "commit"]
    <3>1. req' = [req EXCEPT ![r] = x]
      BY <2>2 DEF CompareQuestion, TypeOK
    <3>2. u \in BOOLEAN
      BY DEF NewPrompt
    <3>3. x \in Request /\ x.kind = req[r].kind /\ x.q = req[r].q /\ x.pc = "commit"
      BY <1>2, <3>2 DEF Request
    <3>4. req[r].kind = "VALIDATE" /\ req[r].pc # "idle" /\ status' = status
      BY <2>2 DEF CompareQuestion
    <3>5. Sane(x, status', origin')
      BY <1>2, <3>3, <3>4 DEF Sane, Creators
    <3> QED
      BY <3>1, <3>3, <3>5
  <2>3. CASE Judge(r)
    <3>1. PICK verdict \in Verdicts :
                 req' = [req EXCEPT ![r].row = [question |-> req[r].q, at |-> clock + 1,
                                                verdict |-> verdict, by |-> reviewer],
                                    ![r].pc = "commit"]
      BY <2>3 DEF Judge
    <3> DEFINE row == [question |-> req[r].q, at |-> clock + 1,
                       verdict |-> verdict, by |-> reviewer]
               x == [req[r] EXCEPT !.row = row, !.pc = "commit"]
    <3>2. req' = [req EXCEPT ![r] = x]
      BY <3>1 DEF TypeOK
    <3>3. req[r].kind = "REVIEW" /\ req[r].q \in Questions /\ status[req[r].q] # "ABSENT"
      BY <1>2, <2>3 DEF Judge, Sane, Creators
    <3>8. reviewer \in Identities
      BY <2>3 DEF Judge, TypeOK
    <3>9. clock + 1 \in Nat
      BY DEF TypeOK
    <3>10. origin[req[r].q] # reviewer
      BY <2>3 DEF Judge
    <3>4. row \in Row /\ row.question = req[r].q /\ row.by # origin[req[r].q]
      BY <3>3, <3>8, <3>9, <3>10 DEF Row
    <3> HIDE DEF row
    <3>5. /\ x \in Request /\ x.kind = "REVIEW" /\ x.q = req[r].q /\ x.pc = "commit"
          /\ x.row = row
      BY <1>2, <3>3, <3>4 DEF Request
    <3>6. status' = status /\ origin' = origin
      BY <2>3 DEF Judge
    <3>7. Sane(x, status', origin')
      BY <3>3, <3>4, <3>5, <3>6 DEF Sane, Creators
    <3> QED
      BY <3>2, <3>5, <3>7
  <2>4. CASE LookUpEvidence(r)
    <3>1. PICK row \in Passing(req[r].q, reviews) :
                 req' = [req EXCEPT ![r].row = row, ![r].pc = "commit"]
      BY <2>4 DEF LookUpEvidence
    <3> DEFINE x == [req[r] EXCEPT !.row = row, !.pc = "commit"]
    <3>2. req' = [req EXCEPT ![r] = x]
      BY <3>1 DEF TypeOK
    <3>3. row \in Row
      BY DEF Passing, TypeOK
    <3>4. req[r].kind = "RELEASE" /\ req[r].q \in Questions /\ status[req[r].q] # "ABSENT"
      BY <1>2, <2>4 DEF LookUpEvidence, Sane, Creators
    <3>5. /\ x \in Request /\ x.kind = "RELEASE" /\ x.q = req[r].q /\ x.pc = "commit"
          /\ x.row = row
      BY <1>2, <3>3, <3>4 DEF Request
    <3>6. status' = status
      BY <2>4 DEF LookUpEvidence
    <3>7. Sane(x, status', origin')
      BY <3>3, <3>4, <3>5, <3>6 DEF Sane, Creators
    <3> QED
      BY <3>2, <3>5, <3>7
  <2> QED
    BY <2>1, <2>2, <2>3, <2>4
<1>4. RequestShape'
  BY <1>1, <1>3, ShapeStep
<1>5. UNCHANGED <<status, origin, validations, reviews, log, reviewer, arrived>> /\ clock' \in Nat
  BY DEF ComparePrompt, CompareQuestion, Judge, LookUpEvidence, TypeOK
<1>6. TypeOK'
  BY <1>3, <1>5 DEF TypeOK
<1> QED
  BY <1>4, <1>6

\* The question of a request that records something, and its row.
LEMMA Recording ==
    ASSUME TypeInv, NEW r \in Requests,
           RecordValidation(r) \/ RecordReview(r) \/ Release(r) \/ Quarantine(r)
    PROVE  /\ req[r].q \in Questions /\ status[req[r].q] # "ABSENT"
           /\ RecordReview(r) => req[r].row \in Row /\ req[r].row.question = req[r].q
                                   /\ req[r].row.by # origin[req[r].q]
           /\ Release(r) => req[r].row \in Row
<1>1. Sane(req[r], status, origin)
  BY DEF TypeInv, RequestShape
<1>2. /\ req[r].pc = "commit"
      /\ req[r].kind \in {"VALIDATE", "REVIEW", "RELEASE", "QUARANTINE"}
      /\ RecordReview(r) => req[r].kind = "REVIEW"
      /\ Release(r) => req[r].kind = "RELEASE"
  BY DEF RecordValidation, RecordReview, Release, Quarantine
<1> QED
  BY <1>1, <1>2 DEF Sane, Creators

\* The recording transactions keep the types.
LEMMA RecordType ==
    ASSUME TypeInv, NEW r \in Requests,
           RecordValidation(r) \/ RecordReview(r) \/ Release(r) \/ Quarantine(r)
    PROVE  TypeInv'
<1> DEFINE q == req[r].q
<1>1. q \in Questions /\ status[q] # "ABSENT"
  BY Recording
<1> HIDE DEF q
<1>2. \E to \in Stages \ {"ABSENT"} : status' = [status EXCEPT ![q] = to]
  BY DEF RecordValidation, RecordReview, Release, Quarantine, Stages, q
<1>3. Kept /\ status' \in [Questions -> Stages]
  <2>1. UNCHANGED origin
    BY DEF RecordValidation, RecordReview, Release, Quarantine
  <2> QED
    BY <1>1, <1>2, <2>1, Moved
<1>4. RequestShape' /\ req' \in [Requests -> Request]
  BY <1>3, RestStep DEF RecordValidation, RecordReview, Release, Quarantine
<1>5. validations' \in [Questions -> SUBSET {"PASS", "REJECTED_AUTOMATIC"}]
  <2>1. CASE RecordValidation(r)
    <3>1. PICK verdict \in {"PASS", "REJECTED_AUTOMATIC"} :
                 validations' = [validations EXCEPT ![q] = validations[q] \cup {verdict}]
      BY <2>1 DEF RecordValidation, q
    <3>2. validations[q] \cup {verdict} \in SUBSET {"PASS", "REJECTED_AUTOMATIC"}
      BY <1>1 DEF TypeInv, TypeOK
    <3> QED
      BY <3>1, <3>2 DEF TypeInv, TypeOK
  <2>2. CASE RecordReview(r) \/ Release(r) \/ Quarantine(r)
    BY <2>2 DEF RecordReview, Release, Quarantine, TypeInv, TypeOK
  <2> QED
    BY <2>1, <2>2
<1>6. reviews' \subseteq Row
  <2>1. CASE RecordReview(r)
    <3>1. reviews' = reviews \cup {req[r].row}
      BY <2>1 DEF RecordReview
    <3> QED
      BY <2>1, <3>1, Recording DEF TypeInv, TypeOK
  <2>2. CASE RecordValidation(r) \/ Release(r) \/ Quarantine(r)
    BY <2>2 DEF RecordValidation, Release, Quarantine, TypeInv, TypeOK
  <2> QED
    BY <2>1, <2>2
<1>7. log' \in [Questions -> Seq(Entry)]
  <2>1. log \in [Questions -> Seq(Entry)] /\ log[q] \in Seq(Entry)
    BY <1>1 DEF TypeInv, TypeOK
  <2>2. CASE Release(r)
    <3>1. Released(req[r].row) \in Entry
      BY <2>2, Recording DEF Released, Entry
    <3>2. Append(log[q], Released(req[r].row)) \in Seq(Entry)
      BY <2>1, <3>1
    <3>3. log' = [log EXCEPT ![q] = Append(log[q], Released(req[r].row))]
      BY <2>2 DEF Release, q
    <3> QED
      BY <1>1, <2>1, <3>2, <3>3
  <2>3. CASE Quarantine(r)
    <3> DEFINE out == [to |-> "QUARANTINED", review |-> Null]
    <3>1. out \in Entry
      BY DEF Entry
    <3>2. log' = [log EXCEPT ![q] = Append(log[q], out)]
      BY <2>3 DEF Quarantine, q
    <3> HIDE DEF out
    <3>3. Append(log[q], out) \in Seq(Entry)
      BY <2>1, <3>1
    <3> QED
      BY <1>1, <2>1, <3>2, <3>3
  <2>4. CASE RecordValidation(r) \/ RecordReview(r)
    BY <2>1, <2>4 DEF RecordValidation, RecordReview
  <2> QED
    BY <2>2, <2>3, <2>4
<1>8. UNCHANGED <<origin, reviewer, clock, arrived>>
  BY DEF RecordValidation, RecordReview, Release, Quarantine
<1>9. TypeOK'
  BY <1>3, <1>4, <1>5, <1>6, <1>7, <1>8 DEF TypeInv, TypeOK
<1> QED
  BY <1>4, <1>9 DEF TypeInv

\* Storing drafts keeps the types.
LEMMA CreateType == ASSUME TypeInv, NEW r \in Requests, CreateDrafts(r) PROVE TypeInv'
<1> DEFINE batch == req[r].batch
<1>1. Kept
  BY DEF CreateDrafts, Kept, TypeInv, TypeOK
<1>2. RequestShape' /\ req' \in [Requests -> Request]
  BY <1>1, RestStep DEF CreateDrafts
<1>3. req[r].by \in Identities
  BY DEF CreateDrafts, TypeInv, RequestShape, Sane, Creators
<1>4. status' \in [Questions -> Stages] /\ origin' \in [Questions -> Identities \cup {Null}]
  BY <1>3 DEF CreateDrafts, TypeInv, TypeOK, Stages
<1>5. TypeOK'
  BY <1>2, <1>4 DEF CreateDrafts, TypeInv, TypeOK
<1> QED
  BY <1>2, <1>5 DEF TypeInv

\* A refused request keeps the types.
LEMMA RefuseType == ASSUME TypeInv, NEW r \in Requests, Refuse(r) PROVE TypeInv'
<1>1. Kept
  BY DEF Refuse, Kept
<1>2. RequestShape' /\ req' \in [Requests -> Request]
  BY <1>1, RestStep DEF Refuse
<1> QED
  BY <1>2 DEF Refuse, TypeInv, TypeOK

\* A restart keeps the types.
LEMMA RestartType == ASSUME TypeInv, Restart PROVE TypeInv'
<1>1. req' \in [Requests -> Request] /\ \A r \in Requests : req'[r] = Resting
  BY RestingType DEF Restart
<1>2. RequestShape'
  BY <1>1, RestingType DEF RequestShape, Sane
<1> QED
  BY <1>1, <1>2 DEF Restart, TypeInv, TypeOK

\* TypeInv is inductive.
LEMMA TypeStep == TypeInv /\ [Next]_vars => TypeInv'
<1> SUFFICES ASSUME TypeInv, [Next]_vars
             PROVE  TypeInv'
  OBVIOUS
<1>1. CASE UNCHANGED vars
  BY <1>1 DEF vars, TypeInv, TypeOK, RequestShape, Sane
<1>2. ASSUME NEW r \in Requests, Handle(r)
      PROVE  TypeInv'
  BY <1>2, AskType, RefuseType, CompareType, CreateType, RecordType DEF Handle
<1> QED
  BY <1>1, <1>2, RestartType DEF Next

\* Every variable keeps its type, and a request in flight the shape its handler gave it.
THEOREM TypeCorrect == Spec => []TypeOK
<1>1. TypeInv => TypeOK
  BY DEF TypeInv
<1> QED
  BY <1>1, TypeInit, TypeStep, PTL DEF Spec

-----------------------------------------------------------------------------
(* The evidence behind a status.                                           *)

Validated == {"AUTOMATIC_VALIDATED"} \cup Accepted

\* The rows of the validations are those that the status speaks of.
ValidationInv ==
    \A q \in Questions :
        /\ status[q] \in {"ABSENT", "DRAFT"} => validations[q] = {}
        /\ status[q] = "REJECTED_AUTOMATIC" => validations[q] = {"REJECTED_AUTOMATIC"}
        /\ status[q] \in Validated => validations[q] = {"PASS"}

EvidenceInv == ValidationInv /\ BackedByEvidence

\* A step that leaves the stored questions and their evidence alone.
Apart == UNCHANGED <<status, origin, validations, reviews, log>>

\* The steps before the recording transactions store nothing.
LEMMA ApartSteps ==
    ASSUME NEW r \in Requests,
           Ask(r) \/ Refuse(r) \/ ComparePrompt(r) \/ CompareQuestion(r) \/ Judge(r)
             \/ LookUpEvidence(r)
    PROVE  Apart
  BY DEF Ask, Refuse, ComparePrompt, CompareQuestion, Judge, LookUpEvidence, Apart

\* A new draft has no evidence, so storing it keeps the invariant.
LEMMA CreateEvidence ==
    ASSUME TypeInv, EvidenceInv, NEW r \in Requests, CreateDrafts(r)
    PROVE  EvidenceInv'
<1>1. /\ UNCHANGED <<validations, reviews>>
      /\ \A q \in Questions :
           \/ status'[q] = status[q] /\ origin'[q] = origin[q]
           \/ status[q] = "ABSENT" /\ status'[q] = "DRAFT"
  BY DEF CreateDrafts, TypeInv, TypeOK
<1>2. ValidationInv'
  BY <1>1 DEF EvidenceInv, ValidationInv, Validated, Accepted
<1>3. \A q \in Questions : CleanRows(q)' = CleanRows(q)
  BY <1>1 DEF CleanRows
<1>4. BackedByEvidence'
  BY <1>1, <1>3 DEF EvidenceInv, BackedByEvidence, Accepted
<1> QED
  BY <1>2, <1>4 DEF EvidenceInv

\* What the transaction of a validation stores.
LEMMA ValidationStep ==
    ASSUME TypeInv, EvidenceInv, NEW r \in Requests, RecordValidation(r)
    PROVE  LET q == req[r].q
               passed == req[r].unique /\ q \in Sound
           IN /\ q \in Questions /\ status[q] = "DRAFT"
              /\ status' = [status EXCEPT ![q] = IF passed THEN "AUTOMATIC_VALIDATED"
                                                  ELSE "REJECTED_AUTOMATIC"]
              /\ validations' = [validations EXCEPT ![q] = IF passed THEN {"PASS"}
                                                            ELSE {"REJECTED_AUTOMATIC"}]
              /\ UNCHANGED <<origin, reviews, log>>
<1> DEFINE q == req[r].q
<1>1. q \in Questions /\ status[q] = "DRAFT"
  BY Recording DEF RecordValidation
<1>2. validations[q] = {}
  BY <1>1 DEF EvidenceInv, ValidationInv
<1> QED
  BY <1>1, <1>2 DEF RecordValidation

\* A validation is a question's first, and passes with the evidence it needs.
LEMMA ValidationEvidence ==
    ASSUME TypeInv, EvidenceInv, NEW r \in Requests, RecordValidation(r)
    PROVE  EvidenceInv'
<1> DEFINE q == req[r].q
           passed == req[r].unique /\ q \in Sound
<1>1. /\ q \in Questions /\ status[q] = "DRAFT"
      /\ status' = [status EXCEPT ![q] = IF passed THEN "AUTOMATIC_VALIDATED"
                                          ELSE "REJECTED_AUTOMATIC"]
      /\ validations' = [validations EXCEPT ![q] = IF passed THEN {"PASS"}
                                                    ELSE {"REJECTED_AUTOMATIC"}]
      /\ UNCHANGED <<origin, reviews>>
  BY ValidationStep
<1> HIDE DEF q, passed
<1>2. /\ \A p \in Questions \ {q} : status'[p] = status[p] /\ validations'[p] = validations[p]
      /\ status'[q] = IF passed THEN "AUTOMATIC_VALIDATED" ELSE "REJECTED_AUTOMATIC"
      /\ validations'[q] = IF passed THEN {"PASS"} ELSE {"REJECTED_AUTOMATIC"}
  BY <1>1 DEF TypeInv, TypeOK
<1>3. ValidationInv'
  BY <1>1, <1>2 DEF EvidenceInv, ValidationInv, Validated, Accepted
<1>4. \A p \in Questions : CleanRows(p)' = CleanRows(p)
  BY <1>1 DEF CleanRows
<1>5. \A p \in Questions : status'[p] \in Accepted <=> status[p] \in Accepted
  BY <1>1, <1>2 DEF Accepted
<1>6. \A p \in Questions : status[p] \in Accepted => validations'[p] = validations[p]
  BY <1>1, <1>2 DEF Accepted
<1>7. BackedByEvidence'
  BY <1>1, <1>4, <1>5, <1>6 DEF EvidenceInv, BackedByEvidence
<1> QED
  BY <1>3, <1>7 DEF EvidenceInv

\* What the transaction of a review stores.
LEMMA ReviewStep ==
    ASSUME TypeInv, EvidenceInv, NEW r \in Requests, RecordReview(r)
    PROVE  LET q == req[r].q
               row == req[r].row
           IN /\ q \in Questions /\ status[q] = "AUTOMATIC_VALIDATED"
              /\ row \in Row /\ row.question = q /\ row.by # origin[q]
              /\ status' = [status EXCEPT ![q] = IF row.verdict = "CLEAN" THEN "AI_REVIEWED"
                                                  ELSE "AUTOMATIC_VALIDATED"]
              /\ reviews' = reviews \cup {row}
              /\ UNCHANGED <<origin, validations, log>>
  BY Recording DEF RecordReview

\* A clean review is the first one of a validated question, by someone else.
LEMMA ReviewEvidence ==
    ASSUME TypeInv, EvidenceInv, NEW r \in Requests, RecordReview(r)
    PROVE  EvidenceInv'
<1> DEFINE q == req[r].q
           row == req[r].row
<1>1. /\ q \in Questions /\ status[q] = "AUTOMATIC_VALIDATED"
      /\ row \in Row /\ row.question = q /\ row.by # origin[q]
      /\ status' = [status EXCEPT ![q] = IF row.verdict = "CLEAN" THEN "AI_REVIEWED"
                                          ELSE "AUTOMATIC_VALIDATED"]
      /\ reviews' = reviews \cup {row}
      /\ UNCHANGED <<origin, validations>>
  BY ReviewStep
<1> HIDE DEF q, row
<1>2. /\ \A p \in Questions \ {q} : status'[p] = status[p]
      /\ status'[q] = IF row.verdict = "CLEAN" THEN "AI_REVIEWED" ELSE "AUTOMATIC_VALIDATED"
  BY <1>1 DEF TypeInv, TypeOK
<1>3. ValidationInv'
  BY <1>1, <1>2 DEF EvidenceInv, ValidationInv, Validated, Accepted
<1>4. \A p \in Questions \ {q} : CleanRows(p)' = CleanRows(p)
  BY <1>1 DEF CleanRows
<1>5. CleanRows(q) = {} /\ validations[q] = {"PASS"}
  BY <1>1 DEF EvidenceInv, BackedByEvidence, ValidationInv, Accepted, Validated
<1>6. \A p \in Questions :
        p = q => CleanRows(p)' = IF row.verdict = "CLEAN" THEN {row} ELSE {}
  <2> SUFFICES CleanRows(q) \cup {x \in {row} : x.verdict = "CLEAN"}
                 = IF row.verdict = "CLEAN" THEN {row} ELSE {}
    BY <1>1 DEF CleanRows
  <2> QED
    BY <1>5
<1>7. ASSUME NEW p \in Questions
      PROVE  IF status'[p] \in Accepted
             THEN /\ validations'[p] = {"PASS"}
                  /\ \E x \in reviews' : CleanRows(p)' = {x} /\ x.by # origin'[p]
             ELSE CleanRows(p)' = {}
  <2>1. CASE p = q
    BY <1>1, <1>2, <1>5, <1>6, <2>1 DEF Accepted
  <2>2. CASE p # q
    <3>1. /\ status'[p] = status[p] /\ CleanRows(p)' = CleanRows(p)
          /\ validations'[p] = validations[p] /\ origin'[p] = origin[p]
      BY <1>1, <1>2, <1>4, <2>2
    <3>2. IF status[p] \in Accepted
          THEN /\ validations[p] = {"PASS"}
               /\ \E x \in reviews : CleanRows(p) = {x} /\ x.by # origin[p]
          ELSE CleanRows(p) = {}
      BY DEF EvidenceInv, BackedByEvidence
    <3> QED
      BY <1>1, <3>1, <3>2
  <2> QED
    BY <2>1, <2>2
<1>8. BackedByEvidence'
  BY <1>7 DEF BackedByEvidence
<1> QED
  BY <1>3, <1>8 DEF EvidenceInv

\* Release and quarantine leave the evidence alone.
LEMMA ReleaseEvidence ==
    ASSUME TypeInv, EvidenceInv, NEW r \in Requests, Release(r) \/ Quarantine(r)
    PROVE  EvidenceInv'
<1> DEFINE q == req[r].q
<1>1. /\ q \in Questions /\ status[q] \in Accepted
      /\ \E to \in Accepted : status' = [status EXCEPT ![q] = to]
      /\ UNCHANGED <<origin, validations, reviews>>
  BY Recording DEF Release, Quarantine, Accepted
<1> HIDE DEF q
<1>2. \A p \in Questions :
        status'[p] = status[p] \/ (status[p] \in Accepted /\ status'[p] \in Accepted)
  BY <1>1 DEF TypeInv, TypeOK
<1>3. ValidationInv'
  BY <1>1, <1>2 DEF EvidenceInv, ValidationInv, Validated, Accepted
<1>4. \A p \in Questions : CleanRows(p)' = CleanRows(p)
  BY <1>1 DEF CleanRows
<1>5. BackedByEvidence'
  BY <1>1, <1>2, <1>4 DEF EvidenceInv, BackedByEvidence
<1> QED
  BY <1>3, <1>5 DEF EvidenceInv

\* A step that stores nothing keeps the evidence.
LEMMA ApartEvidence == EvidenceInv /\ Apart => EvidenceInv'
  BY DEF EvidenceInv, ValidationInv, BackedByEvidence, CleanRows, Apart

\* Nothing is stored at first.
LEMMA EvidenceInit == Init => EvidenceInv
  BY DEF Init, EvidenceInv, ValidationInv, BackedByEvidence, CleanRows, Accepted, Validated

\* EvidenceInv is inductive over typed steps.
LEMMA EvidenceStep == TypeInv /\ EvidenceInv /\ [Next]_vars => EvidenceInv'
<1> SUFFICES ASSUME TypeInv, EvidenceInv, [Next]_vars
             PROVE  EvidenceInv'
  OBVIOUS
<1>1. CASE UNCHANGED vars \/ Restart
  BY <1>1, ApartEvidence DEF vars, Restart, Apart
<1>2. ASSUME NEW r \in Requests, Handle(r)
      PROVE  EvidenceInv'
  BY <1>2, ApartSteps, ApartEvidence, CreateEvidence, ValidationEvidence, ReviewEvidence,
     ReleaseEvidence DEF Handle
<1> QED
  BY <1>1, <1>2 DEF Next

\* A question past the review has one validation, passed, and exactly one clean review,
\* by someone other than its generator; the others have no clean review.
THEOREM BackedByEvidenceHolds == Spec => []BackedByEvidence
<1>1. EvidenceInv => BackedByEvidence
  BY DEF EvidenceInv
<1> QED
  BY <1>1, TypeInit, TypeStep, EvidenceInit, EvidenceStep, PTL DEF Spec

-----------------------------------------------------------------------------
(* The release records.                                                    *)

\* A release appends the first record of its question.
LEMMA LogRelease ==
    ASSUME TypeInv, LogTellsStatus, NEW r \in Requests, Release(r)
    PROVE  LogTellsStatus'
<1> DEFINE q == req[r].q
           entry == Released(req[r].row)
<1>1. /\ q \in Questions /\ status[q] = "AI_REVIEWED"
      /\ status' = [status EXCEPT ![q] = "RELEASED"]
      /\ log' = [log EXCEPT ![q] = Append(log[q], entry)]
  BY Recording DEF Release
<1>2. entry \in Entry /\ entry.to = "RELEASED"
  BY Recording DEF Released, Entry
<1> HIDE DEF q, entry
<1>3. log[q] = <<>>
  BY <1>1 DEF LogTellsStatus
<1>4. Append(log[q], entry) = <<entry>>
  BY <1>2, <1>3
<1>5. /\ status'[q] = "RELEASED" /\ log'[q] = <<entry>>
      /\ \A p \in Questions \ {q} : status'[p] = status[p] /\ log'[p] = log[p]
  BY <1>1, <1>4 DEF TypeInv, TypeOK
<1>6. /\ log'[q] # <<>> /\ Len(log'[q]) = 1 /\ log'[q][1].to = "RELEASED"
  BY <1>2, <1>5
<1>7. ASSUME NEW p \in Questions
      PROVE  /\ log'[p] = <<>> <=> status'[p] \notin {"RELEASED", "QUARANTINED"}
             /\ status'[p] = "RELEASED" => Len(log'[p]) = 1 /\ log'[p][1].to = "RELEASED"
             /\ status'[p] = "QUARANTINED" =>
                  /\ Len(log'[p]) = 2
                  /\ log'[p][1].to = "RELEASED" /\ log'[p][2].to = "QUARANTINED"
  <2>1. CASE p = q
    BY <1>5, <1>6, <2>1
  <2>2. CASE p # q
    <3>1. status'[p] = status[p] /\ log'[p] = log[p]
      BY <1>5, <2>2
    <3> QED
      BY <3>1 DEF LogTellsStatus
  <2> QED
    BY <2>1, <2>2
<1> QED
  BY <1>7 DEF LogTellsStatus

\* A second element behind the first.
LEMMA SecondEntry ==
    ASSUME NEW E, NEW s \in Seq(E), NEW e \in E, Len(s) = 1
    PROVE  /\ Append(s, e) \in Seq(E) /\ Len(Append(s, e)) = 2
           /\ Append(s, e)[1] = s[1] /\ Append(s, e)[2] = e
<1>1. Append(s, e) \in Seq(E) /\ Len(Append(s, e)) = Len(s) + 1
  BY AppendProperties, Zenon
<1>2. \A i \in 1 .. Len(s) : Append(s, e)[i] = s[i]
  OBVIOUS
<1>3. Append(s, e)[Len(s) + 1] = e
  BY AppendProperties, Zenon
<1> DEFINE n == Append(s, e)
<1> HIDE DEF n
<1>4. 1 \in 1 .. Len(s) /\ Len(s) + 1 = 2
  OBVIOUS
<1>5. n[1] = s[1] /\ n[2] = e
  BY <1>2, <1>3, <1>4 DEF n
<1> QED
  BY <1>1, <1>4, <1>5 DEF n

\* A quarantine appends the second.
LEMMA LogQuarantine ==
    ASSUME TypeInv, LogTellsStatus, NEW r \in Requests, Quarantine(r)
    PROVE  LogTellsStatus'
<1> DEFINE q == req[r].q
           entry == [to |-> "QUARANTINED", review |-> Null]
<1>1. /\ q \in Questions /\ status[q] = "RELEASED"
      /\ status' = [status EXCEPT ![q] = "QUARANTINED"]
      /\ log' = [log EXCEPT ![q] = Append(log[q], entry)]
  BY Recording DEF Quarantine
<1>2. entry \in Entry /\ entry.to = "QUARANTINED"
  BY DEF Entry
<1> HIDE DEF q, entry
<1>3. log[q] \in Seq(Entry) /\ Len(log[q]) = 1 /\ log[q][1].to = "RELEASED"
  BY <1>1 DEF LogTellsStatus, TypeInv, TypeOK
<1> DEFINE new == Append(log[q], entry)
<1>4. /\ new \in Seq(Entry) /\ Len(new) = 2 /\ new[1] = log[q][1] /\ new[2] = entry
  BY <1>2, <1>3, SecondEntry
<1>5. new # <<>>
  BY <1>4
<1>6. /\ status'[q] = "QUARANTINED" /\ log'[q] = new
      /\ \A p \in Questions \ {q} : status'[p] = status[p] /\ log'[p] = log[p]
  BY <1>1 DEF TypeInv, TypeOK
<1> HIDE DEF new
<1> QED
  BY <1>1, <1>2, <1>3, <1>4, <1>5, <1>6 DEF LogTellsStatus

\* LogTellsStatus is inductive over typed steps.
LEMMA LogStep == TypeInv /\ LogTellsStatus /\ [Next]_vars => LogTellsStatus'
<1> SUFFICES ASSUME TypeInv, LogTellsStatus, [Next]_vars
             PROVE  LogTellsStatus'
  OBVIOUS
<1>1. ASSUME Apart
      PROVE  LogTellsStatus'
  BY <1>1 DEF Apart, LogTellsStatus
<1>2. CASE UNCHANGED vars \/ Restart
  BY <1>1, <1>2 DEF vars, Restart, Apart
<1>3. ASSUME NEW r \in Requests, Handle(r)
      PROVE  LogTellsStatus'
  <2>1. CASE CreateDrafts(r) \/ RecordValidation(r) \/ RecordReview(r)
    <3>1. log' = log
      BY <2>1 DEF CreateDrafts, RecordValidation, RecordReview
    <3>2. \A q \in Questions : status'[q] = status[q]
            \/ (/\ status[q] \notin {"RELEASED", "QUARANTINED"}
                /\ status'[q] \notin {"RELEASED", "QUARANTINED"})
      BY <2>1 DEF CreateDrafts, RecordValidation, RecordReview, TypeInv, TypeOK
    <3> QED
      BY <3>1, <3>2 DEF LogTellsStatus
  <2> QED
    BY <1>1, <1>3, <2>1, ApartSteps, LogRelease, LogQuarantine DEF Handle
<1> QED
  BY <1>2, <1>3 DEF Next

\* The release records tell a question's whole story, although several owners release
\* and quarantine at once.
THEOREM LogTellsStatusHolds == Spec => []LogTellsStatus
<1>1. Init => LogTellsStatus
  BY DEF Init, LogTellsStatus
<1> QED
  BY <1>1, TypeInit, TypeStep, LogStep, PTL DEF Spec

-----------------------------------------------------------------------------
(* Prompts that have passed.                                               *)

\* A validation of q that found its prompt new and has not been recorded yet.
FoundNew(x, q) == x.pc = "commit" /\ x.kind = "VALIDATE" /\ x.q = q /\ x.unique

\* q has passed its validation, or is about to.
Distinct(q) == "PASS" \in validations[q] \/ \E r \in Requests : FoundNew(req[r], q)

TwinInv ==
    \A p, q \in Questions : Distinct(p) /\ Distinct(q) /\ Prompt[p] = Prompt[q] => p = q

\* Only a stored question is compared or validated.
LEMMA DistinctStored ==
    ASSUME TypeInv, EvidenceInv, NEW q \in Questions, Distinct(q)
    PROVE  status[q] # "ABSENT"
<1>1. CASE "PASS" \in validations[q]
  BY <1>1 DEF EvidenceInv, ValidationInv
<1>2. CASE \E r \in Requests : FoundNew(req[r], q)
  BY <1>2 DEF FoundNew, TypeInv, RequestShape, Sane, Creators
<1> QED
  BY <1>1, <1>2 DEF Distinct

\* No step but a comparison makes a question distinct.
LEMMA DistinctKept ==
    ASSUME TypeInv, EvidenceInv, NEW r \in Requests, Handle(r), ~CompareQuestion(r),
           NEW q \in Questions, Distinct(q)'
    PROVE  Distinct(q)
<1>1. ASSUME NEW p \in Requests, FoundNew(req'[p], q)
      PROVE  FoundNew(req[p], q)
  <2>1. CASE p # r
    <3>1. req'[p] = req[p]
      BY <2>1 DEF Handle, Ask, Refuse, ComparePrompt, CreateDrafts, RecordValidation, Judge,
         RecordReview, LookUpEvidence, Release, Quarantine, TypeInv, TypeOK
    <3> QED
      BY <1>1, <3>1
  <2>2. CASE p = r
    <3>1. CASE Ask(r)
      <4>1. \/ \E kind \in Creators, batch \in SUBSET Questions, by \in Identities :
                 req'[r] = Creating(kind, batch, by)
            \/ \E kind \in AllKinds \ Creators, c \in Questions : req'[r] = About(kind, c)
        <5>1. CASE \E c \in Questions, by \in Identities :
                     req' = [req EXCEPT ![r] = Creating("IMPORT", {c}, by)]
          <6>1. PICK c \in Questions, by \in Identities :
                       req' = [req EXCEPT ![r] = Creating("IMPORT", {c}, by)]
            BY <5>1
          <6>2. req'[r] = Creating("IMPORT", {c}, by) /\ {c} \in SUBSET Questions
            BY <6>1 DEF TypeInv, TypeOK
          <6> QED
            BY <6>2 DEF Creators
        <5>2. CASE \E batch \in SUBSET Questions, by \in Identities :
                     req' = [req EXCEPT ![r] = Creating("GENERATE", batch, by)]
          BY <5>2 DEF Creators, TypeInv, TypeOK
        <5>3. CASE \E kind \in AllKinds \ Creators, c \in Questions :
                     req' = [req EXCEPT ![r] = About(kind, c)]
          BY <5>3 DEF TypeInv, TypeOK
        <5> QED
          BY <3>1, <5>1, <5>2, <5>3, PipelineKindsAssumption DEF Ask, Creators
      <4>2. ASSUME NEW kind \in Creators, NEW batch \in SUBSET Questions, NEW by \in Identities,
                   req'[r] = Creating(kind, batch, by)
            PROVE  req'[r].kind # "VALIDATE"
        BY <4>2, CreatingType DEF Creators
      <4>3. ASSUME NEW kind \in AllKinds \ Creators, NEW c \in Questions,
                   req'[r] = About(kind, c)
            PROVE  ~req'[r].unique
        <5>1. ~About(kind, c).unique
          BY AboutType
        <5> QED
          BY <4>3, <5>1
      <4> QED
        BY <1>1, <2>2, <4>1, <4>2, <4>3 DEF FoundNew
    <3>2. CASE ComparePrompt(r) \/ Judge(r) \/ LookUpEvidence(r)
      <4>1. req[r] \in Request /\ Sane(req[r], status, origin)
        BY DEF TypeInv, TypeOK, RequestShape
      <4>2. req[r].kind \in {"GENERATE", "REVIEW", "RELEASE"}
        BY <3>2, <4>1 DEF ComparePrompt, Judge, LookUpEvidence, Sane
      <4>3. req'[r].kind = req[r].kind
        <5>1. CASE ComparePrompt(r)
          BY <4>1, <5>1 DEF ComparePrompt, TypeInv, TypeOK, Request
        <5>2. CASE Judge(r)
          BY <4>1, <5>2 DEF Judge, TypeInv, TypeOK, Request
        <5>3. CASE LookUpEvidence(r)
          BY <4>1, <5>3 DEF LookUpEvidence, TypeInv, TypeOK, Request
        <5> QED
          BY <3>2, <5>1, <5>2, <5>3
      <4> QED
        BY <1>1, <2>2, <4>2, <4>3 DEF FoundNew
    <3>3. CASE Refuse(r) \/ CreateDrafts(r) \/ RecordValidation(r) \/ RecordReview(r)
                 \/ Release(r) \/ Quarantine(r)
      <4>1. req'[r] = Resting
        BY <3>3 DEF Refuse, CreateDrafts, RecordValidation, RecordReview, Release, Quarantine,
           TypeInv, TypeOK
      <4> QED
        BY <1>1, <2>2, <4>1, RestingType DEF FoundNew
    <3> QED
      BY <3>1, <3>2, <3>3 DEF Handle
  <2> QED
    BY <2>1, <2>2
<1>2. ASSUME "PASS" \in validations'[q], "PASS" \notin validations[q]
      PROVE  FoundNew(req[r], q)
  <2>1. RecordValidation(r)
    BY <1>2, ApartSteps DEF Handle, Apart, CreateDrafts, RecordReview, Release, Quarantine
  <2>2. req[r].q \in Questions
    BY <2>1, Recording
  <2>3. q = req[r].q /\ req[r].unique
    BY <1>2, <2>1, <2>2, ValidationStep DEF TypeInv, TypeOK
  <2> QED
    BY <2>1, <2>3 DEF RecordValidation, FoundNew
<1> QED
  BY <1>1, <1>2 DEF Distinct

\* A comparison that finds the prompt new finds no distinct question with it.
LEMMA CompareTwins ==
    ASSUME TypeInv, EvidenceInv, TwinInv, NEW r \in Requests, CompareQuestion(r)
    PROVE  TwinInv'
<1> DEFINE c == req[r].q
<1>1. c \in Questions
  BY DEF CompareQuestion, TypeInv, RequestShape, Sane, Creators
<1>2. /\ UNCHANGED validations
      /\ \A p \in Requests \ {r} : req'[p] = req[p]
      /\ req'[r].q = c /\ (req'[r].unique = NewPrompt(c, Questions \ {c}))
  BY DEF CompareQuestion, TypeInv, TypeOK, Request
<1> HIDE DEF c
<1>3. ASSUME NEW q \in Questions, Distinct(q)'
      PROVE  Distinct(q) \/ (q = c /\ NewPrompt(c, Questions \ {c}))
  BY <1>2, <1>3 DEF Distinct, FoundNew
<1>4. ASSUME NEW q \in Questions, Distinct(q), NewPrompt(c, Questions \ {c}),
             Prompt[q] = Prompt[c]
      PROVE  q = c
  BY <1>4, DistinctStored DEF NewPrompt
<1>5. ASSUME NEW p \in Questions, NEW q \in Questions, Distinct(p)', Distinct(q)',
             Prompt[p] = Prompt[q]
      PROVE  p = q
  <2>1. CASE Distinct(p) /\ Distinct(q)
    BY <1>5, <2>1 DEF TwinInv
  <2>2. CASE q = c /\ NewPrompt(c, Questions \ {c})
    BY <1>3, <1>4, <1>5, <2>2
  <2>3. CASE p = c /\ NewPrompt(c, Questions \ {c})
    BY <1>3, <1>4, <1>5, <2>3
  <2> QED
    BY <1>3, <1>5, <2>1, <2>2, <2>3
<1> QED
  BY <1>5 DEF TwinInv

\* TwinInv is inductive over typed steps with evidence.
LEMMA TwinStep == TypeInv /\ EvidenceInv /\ TwinInv /\ [Next]_vars => TwinInv'
<1> SUFFICES ASSUME TypeInv, EvidenceInv, TwinInv, [Next]_vars
             PROVE  TwinInv'
  OBVIOUS
<1>1. CASE UNCHANGED vars
  BY <1>1 DEF vars, TwinInv, Distinct, FoundNew
<1>2. CASE Restart
  <2>1. UNCHANGED validations /\ \A r \in Requests : req'[r] = Resting
    BY <1>2 DEF Restart
  <2>2. \A q \in Questions : Distinct(q)' => Distinct(q)
    BY <2>1, RestingType DEF Distinct, FoundNew
  <2> QED
    BY <2>2 DEF TwinInv
<1>3. ASSUME NEW r \in Requests, Handle(r)
      PROVE  TwinInv'
  <2>1. CASE CompareQuestion(r)
    BY <2>1, CompareTwins
  <2>2. CASE ~CompareQuestion(r)
    <3>1. \A q \in Questions : Distinct(q)' => Distinct(q)
      BY <1>3, <2>2, DistinctKept
    <3> QED
      BY <3>1 DEF TwinInv
  <2> QED
    BY <2>1, <2>2
<1> QED
  BY <1>1, <1>2, <1>3 DEF Next

\* No two drafts are stored at first.
LEMMA TwinInit == Init => TwinInv
  BY RestingType DEF Init, TwinInv, Distinct, FoundNew

\* Of the questions with one prompt at most one ever passes its validation.
THEOREM NoTwinsPassHolds == Spec => []NoTwinsPass
<1>1. TwinInv => NoTwinsPass
  BY DEF TwinInv, NoTwinsPass, Distinct
<1> QED
  BY <1>1, TypeInit, TypeStep, EvidenceInit, EvidenceStep, TwinInit, TwinStep, PTL DEF Spec

-----------------------------------------------------------------------------
(* The gate.                                                               *)

PassedSet == {q \in Questions : "PASS" \in validations[q]}
ClearedSet == {q \in Questions : \E row \in CleanRows(q) : row.by # origin[q]}

\* What the gate sees, told by the status alone.
GateViewOK ==
    /\ PassedSet = {q \in Questions : status[q] \in Validated}
    /\ ClearedSet = {q \in Questions : status[q] \in Accepted}

\* The evidence, seen through the gate: what has passed, and what has been cleared.
LEMMA GateView == TypeInv /\ EvidenceInv => GateViewOK
<1> SUFFICES ASSUME TypeInv, EvidenceInv
             PROVE  GateViewOK
  OBVIOUS
<1>1. ASSUME NEW q \in Questions
      PROVE  "PASS" \in validations[q] <=> status[q] \in Validated
  <2>1. status[q] \in Stages
    BY DEF TypeInv, TypeOK
  <2> QED
    BY <2>1 DEF EvidenceInv, ValidationInv, Stages, Validated, Accepted
<1>2. ASSUME NEW q \in Questions
      PROVE  (\E row \in CleanRows(q) : row.by # origin[q]) <=> status[q] \in Accepted
  BY DEF EvidenceInv, BackedByEvidence
<1> QED
  BY <1>1, <1>2 DEF GateViewOK, PassedSet, ClearedSet

\* In both states of a step.
LEMMA GateViews ==
    ASSUME TypeInv, EvidenceInv, TypeInv', EvidenceInv'
    PROVE  /\ PassedSet = {q \in Questions : status[q] \in Validated}
           /\ ClearedSet = {q \in Questions : status[q] \in Accepted}
           /\ PassedSet' = {q \in Questions : status'[q] \in Validated}
           /\ ClearedSet' = {q \in Questions : status'[q] \in Accepted}
<1>1. TypeInv' /\ EvidenceInv' => GateViewOK'
  BY GateView, PTL
<1> QED
  BY <1>1, GateView DEF GateViewOK

\* A question that moves within the stages before or after both marks.
LEMMA MarksStay ==
    ASSUME EvidenceInv, TypeInv, EvidenceInv', TypeInv', NEW q \in Questions, NEW to \in Stages,
           status' = [status EXCEPT ![q] = to],
           status[q] \in Validated <=> to \in Validated,
           status[q] \in Accepted <=> to \in Accepted
    PROVE  PassedSet' = PassedSet /\ ClearedSet' = ClearedSet
<1>1. \A p \in Questions : /\ status'[p] \in Validated <=> status[p] \in Validated
                           /\ status'[p] \in Accepted <=> status[p] \in Accepted
  BY DEF TypeInv, TypeOK
<1> QED
  BY <1>1, GateViews

\* CreateDrafts is Enter.
LEMMA GateCreate ==
    ASSUME TypeInv, EvidenceInv, TypeInv', EvidenceInv', NEW r \in Requests, CreateDrafts(r)
    PROVE  Gate!GNext
<1> DEFINE batch == req[r].batch
<1>1. batch \in SUBSET Questions
  BY DEF TypeInv, TypeOK, Request
<1>2. /\ \A q \in batch : status[q] = "ABSENT"
      /\ status' = [q \in Questions |-> IF q \in batch THEN "DRAFT" ELSE status[q]]
  BY DEF CreateDrafts
<1> HIDE DEF batch
<1>3. \A q \in Questions : /\ status'[q] \in Validated <=> status[q] \in Validated
                           /\ status'[q] \in Accepted <=> status[q] \in Accepted
  BY <1>2 DEF Validated, Accepted
<1>4. PassedSet' = PassedSet /\ ClearedSet' = ClearedSet
  BY <1>3, GateViews
<1>5. Gate!Enter(batch)
  BY <1>2, <1>4 DEF Gate!Enter, PassedSet, ClearedSet
<1> QED
  BY <1>1, <1>5 DEF Gate!GNext

\* RecordValidation is Pass or Reject.
LEMMA GateValidation ==
    ASSUME TypeInv, EvidenceInv, TwinInv, TypeInv', EvidenceInv',
           NEW r \in Requests, RecordValidation(r)
    PROVE  Gate!GNext
<1>1. PICK q \in Questions : q = req[r].q
  BY Recording
<1>2. status[q] = "DRAFT"
  BY <1>1 DEF RecordValidation
<1>3. CASE req[r].unique /\ q \in Sound
  <2>1. status' = [status EXCEPT ![q] = "AUTOMATIC_VALIDATED"]
    BY <1>1, <1>3, ValidationStep
  <2>2. ASSUME NEW p \in PassedSet
        PROVE  Prompt[p] # Prompt[q]
    <3>1. p \in Questions /\ Distinct(p)
      BY DEF PassedSet, Distinct
    <3>2. Distinct(q)
      BY <1>1, <1>3 DEF RecordValidation, Distinct, FoundNew
    <3>3. p # q
      BY <1>2, <2>2, GateView DEF GateViewOK, Validated, Accepted
    <3> QED
      BY <3>1, <3>2, <3>3 DEF TwinInv
  <2>3. \A p \in Questions :
          /\ status'[p] \in Validated <=> (status[p] \in Validated \/ p = q)
          /\ status'[p] \in Accepted <=> status[p] \in Accepted
    BY <1>2, <2>1 DEF Validated, Accepted, TypeInv, TypeOK
  <2>4. PassedSet' = PassedSet \cup {q} /\ ClearedSet' = ClearedSet
    BY <2>3, GateViews
  <2>5. Gate!Pass(q)
    BY <1>2, <2>1, <2>2, <2>4 DEF Gate!Pass, Gate!Step, PassedSet, ClearedSet
  <2> QED
    BY <2>5 DEF Gate!GNext
<1>4. CASE ~(req[r].unique /\ q \in Sound)
  <2>1. status' = [status EXCEPT ![q] = "REJECTED_AUTOMATIC"]
    BY <1>1, <1>4, ValidationStep
  <2>2. PassedSet' = PassedSet /\ ClearedSet' = ClearedSet
    BY <1>2, <2>1, MarksStay DEF Validated, Accepted, Stages
  <2>3. Gate!Reject(q)
    BY <1>2, <2>1, <2>2 DEF Gate!Reject, Gate!Step, PassedSet, ClearedSet
  <2> QED
    BY <2>3 DEF Gate!GNext
<1> QED
  BY <1>3, <1>4

\* RecordReview is Clear, or a stutter when the review is not clean.
LEMMA GateReview ==
    ASSUME TypeInv, EvidenceInv, TypeInv', EvidenceInv', NEW r \in Requests, RecordReview(r)
    PROVE  [Gate!GNext]_Gate!gvars
<1>1. PICK q \in Questions : q = req[r].q
  BY Recording
<1>2. status[q] = "AUTOMATIC_VALIDATED"
  BY <1>1 DEF RecordReview
<1>3. CASE req[r].row.verdict = "CLEAN"
  <2>1. status' = [status EXCEPT ![q] = "AI_REVIEWED"]
    BY <1>1, <1>3, ReviewStep
  <2>2. \A p \in Questions :
          /\ status'[p] \in Validated <=> status[p] \in Validated
          /\ status'[p] \in Accepted <=> (status[p] \in Accepted \/ p = q)
    BY <1>2, <2>1 DEF Validated, Accepted, TypeInv, TypeOK
  <2>3. PassedSet' = PassedSet /\ ClearedSet' = ClearedSet \cup {q}
    BY <2>2, GateViews
  <2>4. q \in PassedSet
    BY <1>2, GateView DEF GateViewOK, Validated
  <2>5. Gate!Clear(q)
    BY <1>2, <2>1, <2>3, <2>4 DEF Gate!Clear, Gate!Step, PassedSet, ClearedSet
  <2> QED
    BY <2>5 DEF Gate!GNext
<1>4. CASE req[r].row.verdict # "CLEAN"
  <2>1. status' = [status EXCEPT ![q] = "AUTOMATIC_VALIDATED"]
    BY <1>1, <1>4, ReviewStep
  <2>2. status' = status
    BY <1>2, <2>1 DEF TypeInv, TypeOK
  <2>3. PassedSet' = PassedSet /\ ClearedSet' = ClearedSet
    BY <2>2, GateViews
  <2> QED
    BY <2>2, <2>3 DEF Gate!gvars, PassedSet, ClearedSet
<1> QED
  BY <1>3, <1>4

\* Release is Publish and Quarantine is Withdraw.
LEMMA GateRelease ==
    ASSUME TypeInv, EvidenceInv, TypeInv', EvidenceInv',
           NEW r \in Requests, Release(r) \/ Quarantine(r)
    PROVE  Gate!GNext
<1>1. PICK q \in Questions : q = req[r].q
  BY Recording
<1>2. CASE Release(r)
  <2>1. status[q] = "AI_REVIEWED" /\ status' = [status EXCEPT ![q] = "RELEASED"]
    BY <1>1, <1>2 DEF Release
  <2>2. PassedSet' = PassedSet /\ ClearedSet' = ClearedSet
    BY <2>1, MarksStay DEF Validated, Accepted, Stages
  <2>3. q \in PassedSet /\ q \in ClearedSet
    BY <2>1, GateView DEF GateViewOK, Validated, Accepted
  <2>4. Gate!Publish(q)
    BY <2>1, <2>2, <2>3 DEF Gate!Publish, Gate!Step, PassedSet, ClearedSet
  <2> QED
    BY <2>4 DEF Gate!GNext
<1>3. CASE Quarantine(r)
  <2>1. status[q] = "RELEASED" /\ status' = [status EXCEPT ![q] = "QUARANTINED"]
    BY <1>1, <1>3 DEF Quarantine
  <2>2. PassedSet' = PassedSet /\ ClearedSet' = ClearedSet
    BY <2>1, MarksStay DEF Validated, Accepted, Stages
  <2>3. Gate!Withdraw(q)
    BY <2>1, <2>2 DEF Gate!Withdraw, Gate!Step, PassedSet, ClearedSet
  <2> QED
    BY <2>3 DEF Gate!GNext
<1> QED
  BY <1>2, <1>3

\* Every step of the pipeline is a step of the gate or a stutter.
LEMMA GateStep ==
    TypeInv /\ EvidenceInv /\ TwinInv /\ TypeInv' /\ EvidenceInv' /\ [Next]_vars
        => [Gate!GNext]_Gate!gvars
<1> SUFFICES ASSUME TypeInv, EvidenceInv, TwinInv, TypeInv', EvidenceInv', [Next]_vars
             PROVE  [Gate!GNext]_Gate!gvars
  OBVIOUS
<1>1. ASSUME Apart
      PROVE  UNCHANGED Gate!gvars
  BY <1>1 DEF Apart, Gate!gvars, CleanRows
<1>2. CASE UNCHANGED vars \/ Restart
  BY <1>1, <1>2 DEF vars, Restart, Apart
<1>3. ASSUME NEW r \in Requests, Handle(r)
      PROVE  [Gate!GNext]_Gate!gvars
  BY <1>1, <1>3, ApartSteps, GateCreate, GateValidation, GateReview, GateRelease DEF Handle
<1> QED
  BY <1>2, <1>3 DEF Next

\* The initial states of the pipeline are initial states of the gate.
LEMMA GateInit == Init => Gate!GInit
  BY DEF Init, Gate!GInit, CleanRows

\* The pipeline implements the gate: with owners, retries, races and restarts, every
\* transaction is one step of gate.go's state machine or changes nothing it speaks of.
THEOREM ImplementsGateHolds == Spec => ImplementsGate
<1> QED
  BY TypeInit, TypeStep, EvidenceInit, EvidenceStep, TwinInit, TwinStep, GateInit, GateStep, PTL
  DEF Spec, ImplementsGate, Gate!GSpec
=============================================================================
