# Formal models of the learning app

TLA+ models of the learning app (a classroom for one student, supervised by parents, with AI
teachers and a gated question bank): its Go server under `src/server`, and the stores of its web
client under `src/apps/web` that merge what the server tells them. Beside the models, the TLC
runs that check them on small instances, and TLAPS proofs of the most important
properties for every instance. `PROJECT.json` is the machine-readable index: the
components, the runs, the map from definitions to source lines, the hazards and the
theorems. Everything is translated from the Go, SQL, TypeScript and Vue sources; documents are used only
where a run compares the code with what they say.

    tlc -workers 2 -config review_plan.cfg MCReviewPlan.tla     # a run
    tlapm ReviewPlanProofs.tla                                  # the proofs of a module

## 1. The system and its parts

The server is a set of HTTP handlers over one PostgreSQL database (READ COMMITTED), one
background loop (`cmd/api/main.go:86`, stale-session recovery every minute), one
in-process hub for live observers, and calls to external AI, speech and provider
services. Nothing is held in memory between two transactions of a request except what
the request itself has read: every hard behaviour is an interleaving of transactions, a
request that dies between two of them, or a value read in one and used in another.

| Component (`server/internal/...`) | State | Operations | Interacts with | What is hard, and what makes it correct |
|---|---|---|---|---|
| classroom sessions (`classroom`) | `learning_sessions`: lifecycle status, plan block, tutor state, active and original task, evidence form, failed review, versions, processing lease, last activity | start, answer, support, voice return, pause, resume, abandon, heartbeat, recovery, logout, parent's notice | locks the authentication row; writes plan blocks and `review_queue`; calls the teaching agent and the tutor-output audit between two transactions; ends in a planner call | an AI call of many seconds between reading and committing; a lease that runs out meanwhile; recovery, logout and other devices in between; crashes. One open session; blocks in step with sessions; no stale, cut or revoked decision is committed; versions order the teaching; silent sessions close |
| review queue (`classroom/review_queue.go`, migration 000023) | `review_queue` items: PENDING or not, due date, source | created by wrong answers and by plans, closed with a successor by right answers and by abandoned failures | bound to blocks and sessions by `review_queue_id` | two blocks bound to one item; a due date that moves; a failure settled hours later. Bound items can be finished; due by the block's day; spaced |
| planner (`planner`) | `learning_plans`, `learning_plan_blocks` | ensure the plan of today or tomorrow, replace it after new preferences | reads the queue, misconceptions, preferences and sessions; writes plans and queue items | its time is taken before its transaction, perhaps before midnight; preferences are saved in another transaction. Today's started plan is stable; new preferences take effect on the date named |
| authentication sessions (`auth/session.go`) | `auth_sessions` (revoked, expiry) | authenticate, revoke, `LockPrincipalSession` | row lock shared with every writing request | the middleware checks once, the request lasts minutes. A revoked request writes nothing |
| login and accounts (`auth`) | users, failed-login counters, locks | login, lockout, password and account changes | revokes sessions | counter and lock at their limits |
| tutor engine (`tutor`) | pure | next state and round for an analysis | used by the classroom | the decision against what the row accepts: failed rounds stay in the range of the schema |
| mastery and reward (`mastery`, `reward`) | skill rows, evidence, reward events, growth | evaluate evidence, schedule, reward | written in the committing transaction | help, backtracks and changes of task within one session. Evidence is unaided, mastery has every form, a reward counts once |
| study clock (`classroom/lifecycle.go`, migration 000021) | accumulated seconds, last resume, last activity | checkpoint by every lifecycle write | read by clients and parents | each writer credits up to a moment of its own. Never more than the attended time |
| content pipeline (`contentpipeline`, migration 000006) | questions with a status, content versions, validations, reviews, release records | import, generate, validate, review, release, quarantine | status trigger in the database; AI generator and reviewer; the classroom reads RELEASED questions | several owners, evidence read in one transaction and used in another, restarts with another reviewer. Nothing passes the gate without its evidence; no prompt twice; the records tell the story |
| content checks (`contentpipeline/validator.go`, `reviewer.go`) | pure and external | verdicts | used by the pipeline | a verdict is any verdict |
| realtime (`realtime`) | event rows with a sequence, hub subscriptions | publish, subscribe | written by the classroom after its commit | events published out of order, dropped by full buffers, sockets that outlive their authorisation |
| parent live view (`parent`, `apps/web/src/stores/supervision.ts`) | the selected child and session, the last list, a timer, a socket | open, choose a child, refresh, reconnect, leave | calls `ParentChildren` and `LiveSession`, fed by the hub | replies, timers and sockets of the child before. One child's session is never shown under another's name; a lost socket comes back |
| tutor output audit (`tutoraudit`) | audit rows | review with retries, deterministic check, record | part of the AI call | never show what was not approved; always leave the row |
| AI gateway, speech, usage (`ai`, `speech`, `usage`) | usage records; whether chaining is supported | calls with deadlines, retries and Retry-After; voice; one record per reply | used by classroom and pipeline | loops nested in deadlines under one lease: a turn that was waited for must still be committed, and paid for |
| curriculum, content, subject | read-only | look up | - | - |
| student questions, trial reflections | rows | single inserts | - | - |
| web client stores and pages (`apps/web/src`) | the last snapshot of a session, its versions, what is awaited | load, operate, poll, hide; merge the replies | HTTP | replies out of order or lost, two version counters. The status shown is a real one, the newest turns are fetched, a change elsewhere is noticed |
| API server, health, migrations | none | wiring | - | - |

`PROJECT.json` lists each of them with its files and its status. The hazards (40 of them,
each at its line) are what the properties are for; six have none and say why.

## 2. Modules

| Module | What it is |
|---|---|
| `Classroom` | sessions, blocks, bound review items, leases, authentications and requests of one student |
| `SessionContract` | what the classroom promises of its rows, without requests, leases or time |
| `MCClassroom` | model values and symmetry for TLC |
| `ClassroomProofs`, `ClassroomDecisions` | types, open sessions and blocks, the refinement of `SessionContract`; leases and cut operations, decisions and versions |
| `ContentPipeline` | questions, their evidence, and the owners' requests |
| `ReleaseGate` | the gate of `gate.go` as an abstract specification |
| `MCContentPipeline`, `ContentPipelineProofs` | TLC instance; types, evidence, twins, records and the refinement of `ReleaseGate` |
| `ReviewPlan` | plans, the review queue and the sessions of one student over several days |
| `MCReviewPlan`, `ReviewPlanProofs` | TLC instance; types and the five properties |
| `TutorEngine`, `Mastery` | the rules of `tutor`, `mastery` and `reward` as functions |
| `TutorTurn` | one operation from its lease to its commit: calls, retries, audit, voice |
| `TutorTurnProofs` | types, approval, audit rows, the lease as a budget, usage records |
| `Lessons` | what operations commit about learning: help, failed rounds, backtracks, evidence, rewards |
| `LessonsProofs` | types, independent evidence, mastery and growth |
| `MCLessons`, `MCOperations` | two dependent knowledge points; `TutorTurn` and `Lessons` for TLC |
| `StudyClock`, `StudyClockProofs` | the study time of one session; types and the credit |
| `ClassroomStore` | the student's store against the server's session |
| `ParentView` | the parent's store, the hub and the socket, against the children's sessions |
| `BrowserProofs` | types of the two stores; what the student and the parent are shown |
| `MCClients` | `StudyClock`, `ClassroomStore` and `ParentView` for TLC |

`Classroom` composes the session, its lease and the authentications, since the same
transactions write or lock them all. `ReviewPlan` looks at the same sessions from the
planner's side: a session is one record there, and its lease, authentication, lifecycle and
teaching versions are left to `Classroom`. The two share the plan block and the queue item:
`Classroom` shows what happens between two transactions of one session, `ReviewPlan` what
happens between days and between plans.

`TutorTurn` opens up the one step that an AI call is in `Classroom`, and `Lessons` the one step
that a commit is: the first has one operation at a time, because the lease admits one, and takes
what analyses say for granted; the second has operations one after another, because commits are
serialised, and leaves out how they came about. `TutorTurn` extends `TutorEngine`; `Lessons`
extends `TutorEngine` and `Mastery`. `StudyClock`, `ClassroomStore` and `ParentView` look at the
same session rows from outside the classroom: through what they credit, and through what two
browsers see of them. `MCOperations` and `MCClients` check modules that share no variable in one
run: a variable (`half`, `part`), chosen at the start, says which of them a behaviour moves.

### 2.1 Classroom

A request (`req[r]`) runs as its handler does: a chain of transactions with nothing held
between them. Each transaction is one action, because the code takes the student's row (or
the session row) `FOR UPDATE` first, so that transactions on one student follow one
another; the reads outside transactions are actions too.

| Steps of a request | Code | Actions |
|---|---|---|
| arrives, passes the middleware | router, `auth` middleware | `Arrive` |
| recovers the student's stale sessions | `recoverStaleSessions` before every handler | `RecoverOwn` |
| tests the state in a read of its own | `Submit`, `service.go:142-156` | `Check` |
| takes the lease | `beginSessionOperation` | `Begin` |
| reads the row, asks the agent | `service.go:698` ff. | `Read`, `Voice` |
| commits under `operationLeaseValid`, `LockPrincipalSession` and the version | `Submit`, `RequestSupport`, `complete`, `beginBacktrack`, `returnToOriginal` | `AnswerTaught`, `AnswerBacktracks`, `AnswerReturns`, `AnswerCompletes`, `Support` |
| gives the lease back, or fails to | `endSessionOperation` | `End`, `EndFails` |
| one-transaction requests | `StartSession`, `transitionSession`, `ReturnFromVoice` | `Start`, `Pause`, `Resume`, `Heartbeat`, `Abandon`, `VoiceReturn` |
| ends early | every error path | `Refuse`, `GiveUp` |

Beside them: `RecoverAll` (the loop), `Logout` and `AuthExpires`, `ParentIntervention`,
`Crash` (all requests are lost, their tokens stay on the rows as `Orphan`), and `Tick`.
`idle` is the time since `last_activity_at`, and `lease.left` the time to
`processing_until`: the differences the SQL compares.

Review blocks of several plans may be bound to one `review_queue` row
(`planner/service.go:126-142`): `ItemOf` says which, any sharing is allowed, and `pending` is the
set of rows that are PENDING. A block can therefore stay AVAILABLE while its row was closed through
another block; what is promised of a review given back is `GivenBackPending`, that its row is pending
at the moment it is given back, and section 6 has what may happen to it later. A browser's
authentication is VALID, REVOKED by a logout, or EXPIRED (`auths`).

Abstractions: the tutor states that no guard of the package tells apart are one value
`TEACH`; answers, texts, study seconds and reports are left out; an AI call gives any
verdict or fails. A block of mode REVIEW that also carries an original task (a cross-subject
gap with a due review) is excluded here by `BlocksAssumption` and covered by `ReviewPlan`.
History: `cut` marks a request whose session was logged out, reclaimed or abandoned since it
took its lease.

### 2.2 ContentPipeline

An owner's request reads, calls the AI, and records in one transaction; each is an action
(`ComparePrompt`, `CreateDrafts`, `CompareQuestion`, `RecordValidation`, `Judge`,
`RecordReview`, `LookUpEvidence`, `Release`, `Quarantine`). `TriggerAllows` is the status
trigger of migration 000006, asked by every status change, so that what Go code checks and
what the database checks are apart. `clock` stands for `now()`, the start of a transaction,
by which the code picks a release's evidence. `Restart` loses the requests and may
configure another reviewer. The asset of a question never changes once its draft is stored;
imports that name an id already stored are refused by the primary key and left out; prompts
that the migrations seeded make a question unsound.

### 2.3 ReviewPlan

Three kinds of calls carry a time from one moment to a later transaction: `AskToday` (then
`Ensure`), `SavePreferences` (then `Replan`) and the plan of the next day after a completed
session (`AnswerCompletes`, then `Ensure`). `Tick` may come in between, midnight included.
`Build` is `ensureWithLocked` with `Engine.Build`: `Eligible`, `ModeOf`, `Allowed` and
`Selections` are its filters, `BlockFor` the rows it inserts. Which candidate of a subject is
taken depends on scores and minutes, and is a choice here. The student's session is one
record; its steps (`Start`, `WrongAnswer`, `AnswerReturns`, `AnswerCompletes`, `Abandon`) are
the transactions that write the queue or a block, with the time read inside them.
`queue[k][source]` is the one item of a knowledge point and a source that can be pending (a
unique index of migration 000023), and `gen` tells it from its predecessors, as row ids do.
A parent enables all subjects or some (`Choices`), and a plan for which nothing is left in them is a
`SubjectAvailabilityError`. The replan has three outcomes: `Replan` replaces the plan and answers
200; `ReplanUnavailable` rolls everything back, the withdrawal of the day's plan included, and answers
422 with "saved" and the same `applies_from` (`classroom/handler.go:386-397`); `FailCall` is any other error, 500
with no date. History: `last` is when the predecessor was closed, `promise` the date and the
preferences of the latest answer of each kind. `PreferencesTakeEffect` is what a 200 promises and the
code keeps, `AppliesFromKept` what a 422 promises and the code does not (section 6).

### 2.4 TutorTurn

| Steps of an operation | Code | Actions |
|---|---|---|
| takes the lease; support needs no analysis | `beginSessionOperation`, `RequestSupport` | `Ask` |
| analysis, retried | `analyzeAnswerWithRetry`, `prepareAgent` | `Analysed`, `CallBusy`, `CallFails` |
| turn, retried under the deadline it shares with the audit | `generateTurn`, `generateTutorTurn`, `GenerateStructured` | `Generated`, `ChainRefused`, `CallBusy`, `CallFails` |
| review, retried | `retryingReviewer`, `AuditTutorOutput` | `Reviewed`, `CallBusy`, `CallFails` |
| audit record, under a context of its own | `AuditTutorOutput`, `RecordTutorOutputAudit` | `Record`, `RecordFails` |
| voice | `prepareVoice` | `Spoken`, `VoiceFails` |
| commit under `operationLeaseValid` | `Submit`, `RequestSupport`, `beginBacktrack`, `complete` | `Shown`, `Backtracked`, `Unneeded`, `CommitFails` |

Beside them: `HangUp` (the request's context is cancelled at any time) and `Crash`. Time is counted
per operation from its lease (`op.clock`), in the code's seconds: a call takes any of `Latencies`
or all the time its deadline leaves, so that the longest way through the loops is a behaviour. A text is the number of the
operation it was written for; `leaks` says which texts hold a protected answer, which the
deterministic check is taken to find. `chain` is the text that the next turn builds on
(`teaching_response_id`): an unapproved text would reach the student through it too.

### 2.5 Lessons, TutorEngine, Mastery

`Decide` is `Engine.Decide`, `Succeeded`, `ReviewFailed` and `Score` are the mastery engine, `Award`
the points; a skill's counters are kept as far as a rule asks for them, that is whether they are
above zero. `AnswerTaught`, `AnswerBacktracks`, `AnswerRight`, `Supported`, `VoiceReturn`, `Begin`
and `Leave` are the learning parts of the commits of `Submit`, `beginBacktrack`, `complete` with
`returnToOriginal`, `RequestSupport`, `ReturnFromVoice`, `StartSession` and abandonment. The
analysis of an answer is any analysis. History: `seen`, the actions of the session's turns.

### 2.6 StudyClock

Every write of the clock's columns is an action (`Pause`, `Resume`, `Abandon`, `Heartbeat`,
`BeginOperation`, `EndOperation`, `Teach`, `Complete`, `Logout`, `Recover`); the calls of a student
recover the session first (`Found`). `Second` ticks make the second that the counters keep.
History: `attended` counts the ticks in which the session was ACTIVE with a sign of life within
`stalePauseAfter` or an operation at work.

### 2.7 ClassroomStore and ParentView

`ClassroomStore` is `stores/learning.ts` with the server's session: a request is sent, served, or
fails, and its reply is handled, in any order; a turn is served in two steps, as its commit comes
long after it was accepted. The counters `operationSequence`, `timingSequence`,
`sessionLoadSequence` and `sessionRefreshSequence` only say
whether a reply is still awaited, which is kept with the request (`awaited`). `Lose` stands for every
failure: the network's, and the server's refusal because it does not find the session for the
browser's login; a refused heartbeat reloads the session (`HeartbeatRefused`), other failures
leave what is shown. `Poll` is the timer
of `StudentLayout.vue`, `Hide` and `Reconcile` are a page that is hidden and shown again (`reconcileVisible`).
`version` and `timing` are the two version columns, `snapshot` the version
of the turns that are shown. `Elsewhere` is another device, a logout or recovery. History:
`statusAt`, `told` (the greatest version in a reply that was taken) and `missed` (the last reload
failed: the catch of `refreshSession`, `learning.ts:204-207`, says nothing unless the session is not
found, so that the store stays behind until the next poll).

`ParentView` is `stores/supervision.ts` with `realtime/hub.go`, the socket handler and the two
reads `ParentChildren` and `LiveSession`. Commits of the children's sessions leave their events in
`unsent`, of which each request publishes its own in order, and others in between; a subscription keeps `Buffer`
events and the hub drops the rest. `initialize` and `selectChild` start a new generation. Replies to
calls of an earlier one are dropped by a test at each use and are left out. Sockets of an earlier one
close late: `closing` holds the children whose sockets have been told to close, and `EarlierClosed` is
their `onclose`, which must not take the current connection away (`socketGeneration`).

## 3. Runs

Every run has CHECK_DEADLOCK FALSE: requests, calls and ticks are bounded, and the system may
really stop when its clients do.

| Run | Instance | Shows |
|---|---|---|
| `classroom_teaching` | one review session, 2 requests in flight, 2 devices, 4 arrivals, 1 notice, the agent configured, no PAUSE or HEARTBEAT requests (the other run has them); pause after 1 tick, lease 2, abandonment after 3; about 1,626,000 states | two requests race through lease, AI call and commit against everything else: `FreshBasis`, `CutNeverCommits`, `VersionOrdersTeaching`, `RevokedWritesNothing` |
| `classroom_lifecycle` | 2 sessions one after the other over two review blocks bound to one item and a backtrack block, 2 requests, 1 device, 3 arrivals, no agent; about 360,000 states | every way a session ends: `TypeOK`, `OneOpenSession`, `BlockTracksSession`, `LeaseOnlyWhileOpen`, `GivenBackPending`, the refinement `ImplementsContract` and the liveness `SilentSessionsClose` |
| `content_pipeline` | 3 questions, 2 of them twins and one unsound, 2 requests, 2 identities, 6 requests in all; about 454,000 states | `TypeOK`, `NoTwinsPass`, `BackedByEvidence`, `LogTellsStatus` and the refinement `ImplementsGate` |
| `review_plan` | 2 knowledge points of their own subjects, the second a prerequisite of the first with a review due at first, 2 calls in flight, 4 in all, 2 sessions, 1 change of preferences (all subjects or one), 2 ticks a day, ticks 0 to 2; about 2,210,000 states | `TypeOK`, `OpenReviewCanFinish`, `DueByPlanDay`, `SpacedReviews`, `PreferencesTakeEffect`, `HistoryStable` |
| `operations` | `TutorTurn`: 2 operations, 2 faults, the code's own timeouts in seconds (lease 300, retries 60, turn 85, voice 90, record 5, 3 attempts, back-off from 2, waits up to 20), calls of 0, 40 or all seconds left, pauses of 0, 1 or 21. `Lessons`: 2 knowledge points, one a prerequisite of the other, 4 sessions, 4 answers or requests, 3 failed rounds. About 1,358,000 states | `TypeOK`, `ApprovedOnly`, `AuditTrail`, `LeaseOutlivesTurn`, `PaidFor` of an operation; `LessonsTypeOK`, `IndependentUnaided`, `MasteryEarned`, `GrowthIsLedger` of what it commits |
| `clients` | `StudyClock`: 2 ticks a second, silence after 3, abandonment after 6, lease 5, 13 ticks. `ClassroomStore`: 2 requests under way, 3 clicks (a page shown again is one), 1 failure, versions to 2 by others. `ParentView`: 2 children with a session each, 2 commits, 3 choices, 1 fault, room for 1 event. About 869,000 states | `StudyClockTypeOK`, `CreditAttended`; `StoreTypeOK`, `ShowsRealStatus`, `QuietIsCurrent` and the liveness `CatchesUp`; `ParentTypeOK`, `ShowsSelectedChild` and the liveness `Reconnects` |
| `answer_in_voice`, `revoked_voice_return`, `review_not_settled`, `review_block_dead`, `applies_from_broken`, `rounds_in_range` | small instances of the same modules | a statement of a document, comment or schema that the code does not keep: section 6 |

Why the bounds are enough to make the interesting cases happen:

- Two requests are what a race needs: one holds the lease or an AI answer, the other or the
  environment takes the row away, and a third arrival (the resume that makes the row ACTIVE
  again) is a request that starts after one has ended. The teaching run has four arrivals:
  start, two racing operations, resume.
- The time constants keep the order of the code's (90 seconds to the pause, 5 minutes of lease,
  24 hours to abandonment, `lifecycle.go:18-20`): a lease outlives the pause threshold, and abandonment comes after
  both. Only comparisons of these durations are in the code.
- Two sessions are what "the one open session" and a block taken again need, and two review blocks
  of one item what it takes for a session to close the item under another block.
- In the pipeline, twins need two questions and the third is one that fails its checks; six
  requests carry one question through all stages with a rival at each of two stages.
- In `review_plan` the days 0 and 1 are lived and day 2 is planned; the step from tick 1 to 2
  is midnight. Two calls in flight let a replan and a plan of tomorrow race, and two sessions
  let blocks of both days be bound to one item.
- In `operations`, two operations are what it takes for a turn to build on the one before, and two
  faults for a retry to fail or a leak to meet a failing review. A pause of 21 seconds is one that
  the policy refuses to wait for. Four answers master a knowledge point in four forms, or fail three
  rounds and give another. What needs a fifth answer, such as a failed review after mastery, is
  outside this run.
- In `clients`, a lease outlives the silence that pauses, as in the code, and two ticks a second
  let a credit lose half a second. Two requests under way are what an overtaking needs, and three clicks
  load a session, change it, and change it again or load another time; in the parent's view the third choice may be
  a return to the first child, with timer, calls and socket of the second still there. Real buffers
  hold 32 events; one is enough to be full.

Every property of these runs is broken by a mutant of the code, listed in `PROJECT.json`: a
faulty variant of one definition, kept beside it in the module (`HoldsAny`,
`UpsertedLate`, `WithdrawnOn`, ...).

`classroom_lifecycle` uses no symmetry because it checks liveness.

**Fairness.** `classroom_lifecycle` assumes weak fairness of `Tick` (time goes on) and
of `RecoverAll` (`go classrooms.RunStaleSessionRecovery(ctx, time.Minute)`,
`cmd/api/main.go:86`, runs as long as the server and goes on after an error). Nothing is
assumed of clients, of requests in flight, of the AI services or of clean-ups: a session whose
operation hangs or died is closed all the same once its lease has run out.

`clients` assumes weak fairness of the runtime of a browser, never of its user: a request under way
is served or handled as long as there is one (`Serve` or `Receive` of some request; no particular
request has to be answered, and that is enough, since the polls that come round bring the newest
state), the 30-second timer of `StudentLayout.vue` polls as long as the page is there (`Poll`), and an attempt to
connect ends or the reconnect timer fires (`Opened` or `Reconnect`, of which at most one is enabled). How often requests and
connections fail is bounded (`MaxLosses`, `MaxFaults`): a network that never works lets nobody
catch up. In a part that a behaviour does not show, none of these is enabled. The other modules
state no liveness and assume no fairness.

## 4. Proofs

TLAPS proves the following for all values of the constants that meet the named assumptions,
that is for any number of sessions, blocks, requests, devices, questions, knowledge points,
calls and days. The assumptions are `ASSUME`s of the modules: constants are of their types, the
thresholds are ordered (`TimeAssumption`), every interval is a day or more
(`DayAssumption`), no knowledge point depends on itself (`DependencyAssumption`), `Null` is not a
value (`NullAssumption` and the like). TLC evaluates each of them in the runs.

| Theorem | Says |
|---|---|
| `ClassroomProofs!TypeCorrect` | `Spec => []TypeOK` |
| `ClassroomProofs!OneOpenSessionHolds`, `BlockTracksSessionHolds`, `GivenBackPendingHolds` | one open session; blocks in step with sessions; a review given back is pending |
| `ClassroomProofs!ImplementsContractHolds` | the classroom implements `SessionContract` |
| `ClassroomDecisions!LeaseOnlyWhileOpenHolds` | leases sit on open sessions and name operations at work |
| `ClassroomDecisions!VersionOrdersTeachingHolds`, `FreshBasisHolds`, `CutNeverCommitsHolds`, `RevokedWritesNothingHolds` | versions and decisions |
| `ContentPipelineProofs!TypeCorrect`, `BackedByEvidenceHolds`, `LogTellsStatusHolds`, `NoTwinsPassHolds`, `ImplementsGateHolds` | the pipeline's invariants, and that it implements `ReleaseGate` |
| `TutorTurnProofs!TurnTypeCorrect`, `OnlyApprovedShown`, `AuditTrailKept`, `LeaseCoversTurn`, `ShownIsPaidFor` | an operation between its lease and its commit, for any timeouts with RetryTimeout + TurnTimeout + RecordTimeout + HTTPTimeout < LeaseTime (`BudgetAssumption`; 60 + 85 + 5 + 90 = 240 < 300 in the code), any attempts, pauses and latencies |
| `StudyClockProofs!StudyClockTypeCorrect`, `CreditIsAttended` | the study clock, for any thresholds and horizon |
| `ReviewPlanProofs!TypeCorrect`, `OpenReviewCanFinishHolds`, `DueByPlanDayHolds`, `SpacedReviewsHolds`, `PreferencesTakeEffectHolds`, `HistoryStableHolds` | plans and reviews |
| `LessonsProofs!LessonsTypeCorrect`, `IndependentUnaidedHolds`, `MasteryEarnedHolds`, `GrowthIsLedgerHolds` | what is committed about learning, for any knowledge points, sessions and answers |
| `BrowserProofs!StoreTypeCorrect`, `ShowsRealStatusHolds`, `QuietIsCurrentHolds`, `NeverReopens` | the student's store, for any number of requests with replies late, lost or out of order |
| `BrowserProofs!ParentTypeCorrect`, `ShowsSelectedChildHolds` | the parent's view, for any children, buffer and faults |

The arguments:

- **Types of the classroom.** `TypeInv == TypeOK /\ RequestShape`: a request in a step past
  its arrival has a session, an authentication and the readings that step needs, without which
  a commit would write a value that is not there.
- **Open sessions.** `OpenInv == OneOpenSession /\ BlockTracksSession /\ OpenHoldsBlock /\
  OpenItemPending`, the last for any sharing of items among blocks: an open session's item is
  pending because only the one open session closes items. No part is inductive alone: giving a block back is right only
  because no other session holds it, and starting one only because none is open. The actions are sorted by what
  they do to open sessions: they keep them (`KeepsOpen`), give some up, complete one, or start
  one; each kind is shown once to keep `OpenInv`.
- **Leases.** `LeaseInv == LeaseOnlyWhileOpen /\ CutLost`: an operation that was cut does not hold
  the lease of its session any more, and as every commit asks for its own token, it can never
  write (`CutNeverCommits`).
- **Decisions.** Every step changes a session's row in one of a few ways, and moves the version
  whenever the teaching changes. Hence `BasisOfVersion`: of two readings of a row with one
  version both found the same basis, so that the version check of the commit protects the
  decision (`FreshBasis`).
- **Evidence of the pipeline.** `EvidenceInv` adds to `BackedByEvidence` that validations are as the
  status says (`ValidationInv`): the trigger and the row locks let the one record be made only
  in the stage before. `TwinInv` says that a request whose duplicate check found nothing stays
  right until it is recorded: a twin stored meanwhile finds this question when it is compared
  itself, so of twins only one is ever found new, and only one passes. The refinement proof maps each transaction to a step of
  `ReleaseGate` or a stutter, from `EvidenceInv`.
- **Plans.** `TypeInv == TypeOK /\ CallsTimely /\ OpenOnPlan`: a call carries a time that has come
  or the same hour of the next day. `ReviewInv == StartedByNow /\ BlocksBound /\ ItemsSpaced /\
  OpenSound /\ Promised`. `BlocksBound` says that a review block names an item that exists and,
  while it is pending, is due on the plan's day: items are shown to move in two ways only
  (`Moved`), an upsert that may only bring a pending one forward, or a closing that makes a
  successor of another generation. `Promised` adds to `PreferencesTakeEffect` that the preferences of
  an answer of 200 are not newer than those saved: whatever is built later is built from the
  preferences of its moment, which are then at least as new as the promise. `ItemsSpaced` and `OpenSound` carry the spacing from the
  queue into the open session. `HistoryStable` follows because a replan keeps a day that
  `Preserved` finds started, so that it can only take away one later than its own date.
- **Turns.** The strengthening says in each step what an operation knows: its deadlines
  lie within its lease (`op.until` and `op.outer`, by the sum of the timeouts that are behind
  it), its verdict is PASS only if its text holds no answer, and past the record the audit row is the verdict. From
  the voice on the row says PASS, so that a commit shows approved text only. What was generated,
  reviewed and spoken is billed in the same step that moves on.
- **The clock.** The invariant bounds credited plus running time by the attended time up to the last
  activity: while a session is ACTIVE and attended to, every tick is attended, so that a
  checkpoint up to now credits attended time only; once it is not, it is stale, and recovery or
  logout credits up to the last activity. Whole seconds only lose.

- **The contract.** The mapping forgets requests, leases, authentications and time. Each action is
  shown to be one step of `SessionContract` or a stutter; that a start is allowed
  there, and that a notice or a recovery concerns one session only, follow from `OpenInv`.
- **Help.** `HelpIsCounted`: a session whose counter of help is zero has shown no turn of a
  cognitive state. A turn raises the counter in the step that shows it, and the counter goes
  back to zero only with a new session, so that the test `help = 0` of an answer means what
  `IndependentUnaided` asks for.
- **Mastery.** `SkillsFromEvidence`: the forms of a skill are those of its evidence rows, and a skill
  with all four is MASTERED or REGRESSED. Without the last part `MasteryEarned` is not inductive:
  the score of a skill that regressed would be unknown. The rule of `Apply` is a lemma for success
  and one for failure, for each of the four states.
- **Growth.** `GrowthInv` adds that the ledger is finite, which `Cardinality` needs; a reward that is
  already there adds nothing, a new one adds one to its kind.
- **The student's store.** The actions are sorted into two kinds: the server or the network works on one
  request and may move the session on (`ServerStep`), or the store sends or drops one request
  and shows a timing that it had or that a reply brought (`ClientStep`). `RealInv`: session, store and
  every reply agree with the history of the session. The history has room for every timing
  version by `ClickInv`, which counts the clicks that the server has not answered: each new version is
  within the bound of the others, or closes a click. `EndIsLast` (no timing version follows an
  end) gives `NeverReopens`: a session that was shown as ended is never shown as going on, although
  `applySession` tests this less than `applyTiming` does.
- **Quiet.** `QuietInv == VersionsInv /\ LoadsInv /\ BehindInv`. While the store is behind a version it
  was told of, a reload is awaited or has failed, and an awaited reload that has its answer has one
  as new as what was told: whoever tells of a newer version outdates the earlier reloads in the same
  step. `LoadsInv` keeps the load of a new page apart from the requests of a session that is shown.
- **The parent's view.** `ShowsSelectedChild` is inductive with the types and shapes of what waits in
  the hub, the listing and the socket: every way to change the selection replaces the socket in
  the same step, and every way to show a session compares its child with the selection of
  that moment.

Every safety invariant and action property of the passing runs is stated by a theorem.
`NeverReopens` is stated by a theorem only; TLC agrees on the instance of `clients`. Only
model-checked are the liveness properties `SilentSessionsClose`, `CatchesUp` and `Reconnects`.
Liveness under fairness, ENABLED, and induction over data are out of the prover's reach; no
module uses RECURSIVE operators.

## 5. What is not modelled, and the plan

Done, in the order of the importance of the behaviour: (1) `Classroom` with `SessionContract`
and its proofs; (2) `ContentPipeline` with `ReleaseGate` and its proofs; (3) `ReviewPlan` with
its proofs; (4) `TutorTurn` with its proofs, and `Lessons`; (5) `StudyClock` with its proofs; (6) the
two stores of the web client with what feeds them.

Then the proofs of what was only model-checked before: the refinement of `SessionContract`,
`Lessons`, and the two stores. Next: abstract specifications for `ReviewPlan` (a queue whose items are
due once per misconception) and for the student's store (a view that follows the session), with
their refinements.

Not modelled:

- Login with its lockout, accounts of the owner: one row in one transaction each, apart from
  learning; what they revoke is `Logout` in `Classroom`.
- Scores, minutes and the ranking of a plan (choices of `ReviewPlan`); streaks; the provenance rows
  of single answers; prices of usage records.
- How a protected answer is recognised in a text, and how a question's text is validated: string
  algorithms whose verdict is a choice of `TutorTurn` and `ContentPipeline`.
- The student's socket, which only says that a session changed; authorisation of sockets; the
  growth and login stores; the queue that reconciles quick changes of a page's visibility; the seconds shown between two polls.
- Composition of `Classroom` with `ContentPipeline` (a question quarantined while a session works on
  it): they share one read, by which the session's writers refuse.
- Transcription, lookups, migrations as such, the wiring of the server, the pages of the web
  client: no state of their own, or none that another part decides by.

Known simplifications: one student (all locks and all rows are per student); one row of preferences
(with two parents the code picks the latest `updated_at`); transactions as single actions, which the
row locks justify; times as ticks.

## 6. Where the code and the documents differ

Six runs find a behaviour that a document, a comment or the schema excludes. Each property quotes the
statement; `PROJECT.json` has the lines.

- `answer_in_voice`: `Submit` tests VOICE_EXPLAIN before it takes the lease, and not again. The
  second of two answers is evaluated in VOICE_EXPLAIN. (docs/api/http.md:60)
- `revoked_voice_return`: `ReturnFromVoice` does not lock the authentication row, and a logout
  after its recovery transaction does not stop it. (REQ-SESSION-05, `auth/session.go:53`)
- `review_not_settled`: a review session that went through a prerequisite completes in form VARIANT,
  and its queue item stays PENDING. (REQ-REVIEW-01 and -02)
- `review_block_dead`: a block of today's plan stays AVAILABLE although its queue item was closed
  by another session, and cannot be started that day. (docs/api/http.md:21)
- `applies_from_broken`: when the new preferences leave nothing for the day of `applies_from`, the
  replan is rolled back and the answer is 422, which still says that the preferences are saved and
  apply from that day; the plan that was made from the old ones stays current for it.
  (docs/api/http.md:78)
- `rounds_in_range`: a prerequisite gap is decided before the limit of rounds is looked at. When no
  prerequisite is left, the fallback counts a fourth failed round after three, which the check of
  the row refuses: the answer fails with 500 each time the analysis says so, and is not recorded.
  (`migrations/000004_learning_realtime.sql:12`, docs/product, section 13.1)

Met while modelling, without a run of its own:

- A support request sets HINT or EXPLAIN from any tutor state, VOICE_EXPLAIN included, so that a
  local path leaves voice without the return step (`service.go:578`; docs/api/http.md:60,
  `tutor/state.go:47`). `Support` of `Classroom` and `Supported` of `Lessons` do so.
- An analysis that takes an answer for right without being sure gives VARIANT: the answer is wrong,
  no turn is generated, and an empty tutor message is committed; the failed round is not counted
  (`service.go:726`, `tutor/engine.go:60`). The two conditions are far apart, and no document says
  what such an answer should get.
- The MASTERY reward goes with the state, not with the success: a knowledge point mastered as a
  prerequisite gets CROSS_SUBJECT_INSIGHT, and a later assisted success, which keeps it MASTERED,
  gets MASTERY; one assisted success also takes a REGRESSED point that has all four forms back to
  MASTERED (`mastery/engine.go:95`, `service.go:845`). `MasteryEarned` holds all the same, as the evidence
  is there: it is about the state of a skill, and says nothing of the clause of REQ-MASTERY-04 on
  the reward.
- The parent's view: events of a session that is over may come after those of the next and switch
  the view back to it; two refreshes of one session may be answered out of order; the timer of a
  refresh is not stopped by a change of child, and then asks for the new child with the old session,
  which is refused; leaving the page does not end a pending `initialize`, which then opens a
  socket. None shows one child's session under another's name (`ShowsSelectedChild`).
- The evidence of a release is the latest-begun review with result PASS, flags unseen, which may not
  be the one that let the question pass (`contentpipeline/repository.go`).
- Making tomorrow's plan after a completed session may fail; that is logged, and the plan is made by
  the next request that needs one.
