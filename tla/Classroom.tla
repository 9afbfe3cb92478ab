------------------------------ MODULE Classroom ------------------------------
(***************************************************************************)
(* The classroom of one student: package server/internal/classroom with    *)
(* the authentication rows it locks (server/internal/auth).                *)
(*                                                                         *)
(* A request runs as the HTTP handler does, as a chain of PostgreSQL       *)
(* transactions with nothing held between them; each transaction is one    *)
(* action.  What lives across the chain is the processing lease of the     *)
(* session row (processing_token, processing_until) and what the request   *)
(* keeps in memory: the version it read and the decision it made from it.  *)
(*                                                                         *)
(* Data kept: a session's lifecycle status, its plan block, the tutor      *)
(* state as far as the code tests it, whether the active task is the       *)
(* original one, the evidence form, whether the review                    *)
(* attempt has failed, and the teaching version.  The tutor states that    *)
(* no guard of this package tells apart (ASK, PROBE, HINT, SCAFFOLD,       *)
(* ANALOGY, EXPLAIN, VARIANT, BREAK) are the one value "TEACH".            *)
(*                                                                         *)
(* Time is counted in ticks: idle[s] is now - last_activity_at, and        *)
(* lease[s].left is processing_until - now.                                *)
(***************************************************************************)
EXTENDS Naturals

CONSTANTS
    Sessions,         \* session ids the run may hand out
    Blocks,           \* the plan blocks, of today and of the days around it
    ReviewBlocks,     \* the blocks of mode REVIEW, each bound to a queue item
    Items,            \* review_queue items
    ItemOf,           \* learning_plan_blocks.review_queue_id; several blocks may share one
    BacktrackBlocks,  \* the blocks of mode MICRO_BACKTRACK
    Requests,         \* requests in flight at once; a lease token is a request
    Auths,            \* authentication sessions (devices) of the student
    Kinds,            \* the requests the clients send
    HasAgent,         \* a teaching agent is configured (WithTeachingAgent)
    PauseAfter,       \* stalePauseAfter
    LeaseTime,        \* sessionLeaseTime
    AbandonAfter,     \* staleAbandonAfter
    MaxArrivals,      \* bound: requests that arrive in a behaviour
    MaxInterventions, \* bound: parent interventions in a behaviour
    Null,             \* SQL NULL, and what a request has not read yet
    Orphan            \* a token whose operation is gone

\* Requests that run one transaction after the recovery transaction.
Lifecycle == {"START", "PAUSE", "RESUME", "ABANDON", "HEARTBEAT", "VOICE_RETURN"}
AllKinds == Lifecycle \cup {"SUBMIT", "SUPPORT"}

ASSUME BlocksAssumption ==
    /\ ReviewBlocks \subseteq Blocks /\ BacktrackBlocks \subseteq Blocks \ ReviewBlocks
    /\ ItemOf \in [ReviewBlocks -> Items]
ASSUME KindsAssumption == Kinds \subseteq AllKinds /\ HasAgent \in BOOLEAN
ASSUME TimeAssumption ==
    /\ PauseAfter \in Nat \ {0} /\ LeaseTime \in Nat \ {0} /\ AbandonAfter \in Nat
    /\ PauseAfter < AbandonAfter
ASSUME BoundsAssumption == MaxArrivals \in Nat /\ MaxInterventions \in Nat
ASSUME NullAssumption ==
    /\ Null \notin Sessions \cup Blocks \cup Requests \cup Auths
    /\ Orphan \notin Requests /\ Orphan # Null
ASSUME VersionAssumption == Null \notin Nat

VARIABLES
    auths,    \* sessions: the authentications, by revoked_at and expires_at
    blk,      \* learning_plan_blocks.status
    pending,  \* the review_queue items that are PENDING
    ses,      \* learning_sessions
    lease,    \* processing_token and processing_until
    idle,     \* now - last_activity_at
    req,      \* the requests in flight
    arrived,  \* requests that have arrived
    notices   \* parent interventions made

vars == <<auths, blk, pending, ses, lease, idle, req, arrived, notices>>

-----------------------------------------------------------------------------
Open == {"ACTIVE", "PAUSED"}
Terminal == {"COMPLETED", "ABANDONED"}
Teach == {"TEACH", "BACKTRACK", "VOICE_EXPLAIN", "RETURN", "COMPLETE"}
Tasks == {"ORIGINAL", "PREREQUISITE"}
Forms == {"LIFE", "VARIANT", "TEXTBOOK", "REVIEW"}   \* evidence_form
Verdicts == {"CORRECT", "TEACH", "BACKTRACK", "VOICE_EXPLAIN"}
Steps == {"idle", "recover", "check", "begin", "read", "voice", "commit", "end", "apply"}

\* learning_sessions
Row == [status : {"NONE"} \cup Open \cup Terminal, block : Blocks \cup {Null},
        teach : Teach, task : Tasks, form : Forms,
        failed : BOOLEAN, version : Nat]
Unborn == [status |-> "NONE", block |-> Null, teach |-> "TEACH", task |-> "ORIGINAL",
           form |-> "LIFE", failed |-> FALSE, version |-> 0]

\* What a teaching decision is taken from.
Basis(s) == <<ses[s].teach, ses[s].task, ses[s].form>>

Free == [token |-> Null, left |-> 0]

\* What a request has read and decided: the agent's decision with the version and the
\* row it was taken from, and the version a voice explanation was prepared for.
Prepared == [ver : Nat \cup {Null}, basis : (Teach \X Tasks \X Forms) \cup {Null},
             verdict : Verdicts \cup {Null}, voice : Nat \cup {Null}]
Nothing == [ver |-> Null, basis |-> Null, verdict |-> Null, voice |-> Null]

\* One request in flight.  cut is history: since this request took its lease, the
\* session was paused by a logout, reclaimed or abandoned.
Request == [pc : Steps, kind : AllKinds \cup {"NONE"}, auth : Auths \cup {Null},
            ses : Sessions \cup {Null}, prep : Prepared, cut : BOOLEAN]
Resting == [pc |-> "idle", kind |-> "NONE", auth |-> Null, ses |-> Null, prep |-> Nothing,
            cut |-> FALSE]
Admitted(k, a, s) ==
    [pc |-> "recover", kind |-> k, auth |-> a, ses |-> s, prep |-> Nothing, cut |-> FALSE]
Done(s) ==
    [pc |-> "end", kind |-> "NONE", auth |-> Null, ses |-> s, prep |-> Nothing, cut |-> FALSE]

Working == {"read", "voice", "commit"}   \* between begin and commit

Init ==
    /\ auths = [a \in Auths |-> "VALID"]
    /\ blk = [b \in Blocks |-> "AVAILABLE"]
    /\ pending \in SUBSET Items   \* sessions of earlier plans may have closed some
    /\ ses = [s \in Sessions |-> Unborn]
    /\ lease = [s \in Sessions |-> Free]
    /\ idle = [s \in Sessions |-> 0]
    /\ req = [r \in Requests |-> Resting]
    /\ arrived = 0
    /\ notices = 0

-----------------------------------------------------------------------------
(* Helpers of the transactions.                                            *)

\* The authentications neither revoked nor expired.
Live == {a \in Auths : auths[a] = "VALID"}

\* LockPrincipalSession finds the row of the request's authentication.
Authentic(r) == req[r].auth \in Live

\* Faulty variant: any lease that has not run out will do.
HoldsAny(r) == lease[req[r].ses].left > 0

\* operationLeaseValid
Holds(r) == LET l == lease[req[r].ses] IN l.token = r /\ l.left > 0

\* Faulty variant: a paused session is forgotten.
NoActiveSession == \A s \in Sessions : ses[s].status # "ACTIVE"

\* The query of StartSession for an open session of the student.
NoOpenSession == \A s \in Sessions : ses[s].status \notin Open

At(q, step) == [q EXCEPT !.pc = step]

\* version = version + 1
Bump(row) == [row EXCEPT !.version = @ + 1]

WithStatus(row, status) == [row EXCEPT !.status = status]

\* A row with another tutor state, active task and evidence form.
Taught(row, teach, task, form) ==
    [status |-> row.status, block |-> row.block, teach |-> teach, task |-> task, form |-> form,
     failed |-> row.failed, version |-> row.version]

\* req with the work on the sessions in gone marked as cut off.
Cut(gone) == [r \in Requests |->
    IF req[r].pc \in Working /\ req[r].ses \in gone THEN [req[r] EXCEPT !.cut = TRUE] ELSE req[r]]

\* The queue item that a review block is bound to is still PENDING.
ItemPending(b) == b \in ReviewBlocks /\ ItemOf[b] \in pending

\* resolveFailedReviewOnAbandon closes the queue item of a failed attempt.
ClosesReview(s) == ses[s].failed /\ ItemPending(ses[s].block)

\* The items that the abandonment of the sessions in gone closes.
ClosedItems(gone) == {ItemOf[ses[s].block] : s \in {t \in gone : ClosesReview(t)}}

\* Faulty variant: the abandonment does not move the version.
AbandonedInPlace(s) == WithStatus(ses[s], "ABANDONED")

Abandoned(s) == Bump(WithStatus(ses[s], "ABANDONED"))

\* Faulty variant: the block always opens up again, the settled review included.
ReleaseAvailable(gone) ==
    /\ blk' = [b \in Blocks |->
                 IF blk[b] = "ACTIVE" /\ \E s \in gone : ses[s].block = b
                 THEN "AVAILABLE" ELSE blk[b]]
    /\ pending' = pending \ ClosedItems(gone)

\* Faulty variant: the session is given up, its block is not.
ReleaseNothing(gone) ==
    /\ UNCHANGED blk
    /\ pending' = pending \ ClosedItems(gone)

\* The plan blocks of the abandoned sessions in gone open up again, or are done
\* when the abandonment settled a failed review.
Release(gone) ==
    /\ blk' = [b \in Blocks |->
                 IF blk[b] = "ACTIVE" /\ \E s \in gone : ses[s].block = b
                 THEN IF \E s \in gone : ses[s].block = b /\ ClosesReview(s)
                      THEN "COMPLETED" ELSE "AVAILABLE"
                 ELSE blk[b]]
    /\ pending' = pending \ ClosedItems(gone)

-----------------------------------------------------------------------------
(* Stale-session recovery: recoverStaleSessions.                           *)

\* Faulty variant: paused sessions are never looked at again.
StaleActive(s) == lease[s].left = 0 /\ ses[s].status = "ACTIVE" /\ idle[s] >= PauseAfter

Stale(s) ==
    /\ lease[s].left = 0
    /\ \/ ses[s].status = "ACTIVE" /\ idle[s] >= PauseAfter
       \/ ses[s].status = "PAUSED" /\ idle[s] >= AbandonAfter

\* One recovery transaction: the stale sessions pause, those in gone are abandoned.
Recovery(stale, gone) ==
    /\ ses' = [s \in Sessions |->
                 IF s \in gone THEN Abandoned(s)
                 ELSE IF s \in stale THEN WithStatus(ses[s], "PAUSED") ELSE ses[s]]
    /\ lease' = [s \in Sessions |-> IF s \in stale THEN Free ELSE lease[s]]
    /\ Release(gone)

StaleSessions == {s \in Sessions : Stale(s)}
LostSessions == {s \in StaleSessions : idle[s] >= AbandonAfter}

\* RunStaleSessionRecovery: the background loop, without a principal.
RecoverAll ==
    /\ StaleSessions # {}
    /\ Recovery(StaleSessions, LostSessions)
    /\ req' = Cut(StaleSessions)
    /\ UNCHANGED <<auths, idle, arrived, notices>>

\* Every handler first recovers the sessions of its own student.
RecoverOwn(r) ==
    /\ req[r].pc = "recover"
    /\ Authentic(r)
    /\ Recovery(StaleSessions, LostSessions)
    /\ LET next == CASE req[r].kind = "SUBMIT" -> "check"
                     [] req[r].kind = "SUPPORT" -> "begin"
                     [] OTHER -> "apply"
       IN req' = [Cut(StaleSessions) EXCEPT ![r] = At(req[r], next)]
    /\ UNCHANGED <<auths, idle, arrived, notices>>

-----------------------------------------------------------------------------
(* A request arrives, and ends.                                            *)

\* The middleware admits a request of a live authentication; the client names a
\* session it has been told of (START names a plan block, chosen in Start).
Arrive(r) ==
    /\ req[r].pc = "idle"
    /\ arrived < MaxArrivals
    /\ \E k \in Kinds, a \in Live, s \in Sessions \cup {Null} :
         /\ IF k = "START" THEN s = Null ELSE s # Null /\ ses[s].status # "NONE"
         /\ req' = [req EXCEPT ![r] = Admitted(k, a, s)]
    /\ arrived' = arrived + 1
    /\ UNCHANGED <<auths, blk, pending, ses, lease, idle, notices>>

\* A request without a lease fails: a guard refuses it, the principal was
\* revoked, the client hung up or the database failed.
Refuse(r) ==
    /\ req[r].pc \in {"recover", "check", "begin", "apply"}
    /\ req' = [req EXCEPT ![r] = Resting]
    /\ UNCHANGED <<auths, blk, pending, ses, lease, idle, arrived, notices>>

\* A request with a lease fails: the AI call or a guard of the commit refuses,
\* the context ends.  The deferred endSessionOperation still runs.
GiveUp(r) ==
    /\ req[r].pc \in Working
    /\ req' = [req EXCEPT ![r] = Done(req[r].ses)]
    /\ UNCHANGED <<auths, blk, pending, ses, lease, idle, arrived, notices>>

\* endSessionOperation clears the lease if its token is still this operation's.
End(r) ==
    /\ req[r].pc = "end"
    /\ lease' = [lease EXCEPT ![req[r].ses] = IF @.token = r THEN Free ELSE @]
    /\ req' = [req EXCEPT ![r] = Resting]
    /\ UNCHANGED <<auths, blk, pending, ses, idle, arrived, notices>>

\* The clean-up statement of endSessionOperation fails (its error is dropped).
EndFails(r) ==
    /\ req[r].pc = "end"
    /\ lease[req[r].ses].token = r
    /\ lease' = [lease EXCEPT ![req[r].ses].token = Orphan]
    /\ req' = [req EXCEPT ![r] = Resting]
    /\ UNCHANGED <<auths, blk, pending, ses, idle, arrived, notices>>

\* The server process dies and restarts: requests are gone, rows stay.
Crash ==
    /\ \E r \in Requests : req[r].pc # "idle"
    /\ req' = [r \in Requests |-> Resting]
    /\ lease' = [s \in Sessions |->
                   IF lease[s].token \in Requests THEN [lease[s] EXCEPT !.token = Orphan]
                   ELSE lease[s]]
    /\ UNCHANGED <<auths, blk, pending, ses, idle, arrived, notices>>

-----------------------------------------------------------------------------
(* StartSession and transitionSession.                                     *)

\* The session a plan block starts.  A block of mode REMEDIATION starts in form
\* VARIANT; nothing below tells that from LIFE.
Started(b) ==
    [status |-> "ACTIVE", block |-> b, teach |-> "TEACH",
     task |-> IF b \in BacktrackBlocks THEN "PREREQUISITE" ELSE "ORIGINAL",
     form |-> IF b \in ReviewBlocks THEN "REVIEW"
              ELSE IF b \in BacktrackBlocks THEN "TEXTBOOK" ELSE "LIFE",
     failed |-> FALSE, version |-> 1]

Start(r) ==
    /\ req[r].pc = "apply" /\ req[r].kind = "START"
    /\ Authentic(r)
    /\ \E b \in Blocks :
         \/ /\ \E s \in Sessions : ses[s].status \in Open /\ ses[s].block = b
            /\ UNCHANGED <<blk, ses, idle>>       \* the open session is returned
         \/ /\ NoOpenSession
            /\ blk[b] = "AVAILABLE"
            /\ b \in ReviewBlocks => ItemPending(b)
            /\ \E s \in Sessions :
                 /\ ses[s].status = "NONE"
                 /\ ses' = [ses EXCEPT ![s] = Started(b)]
                 /\ idle' = [idle EXCEPT ![s] = 0]
            /\ blk' = [blk EXCEPT ![b] = "ACTIVE"]
    /\ req' = [req EXCEPT ![r] = Resting]
    /\ UNCHANGED <<auths, pending, lease, arrived, notices>>

\* Faulty variant: the transition moves the teaching version.
TransitionVersioned(r, kind, from, to) ==
    LET s == req[r].ses IN
    /\ req[r].pc = "apply" /\ req[r].kind = kind
    /\ Authentic(r)
    /\ ses[s].status = from
    /\ ses' = [ses EXCEPT ![s] = Bump(WithStatus(@, to))]
    /\ idle' = [idle EXCEPT ![s] = 0]
    /\ req' = [req EXCEPT ![r] = Resting]
    /\ UNCHANGED <<auths, blk, pending, lease, arrived, notices>>

\* A transition that changes only the lifecycle status; the teaching version and
\* a lease held by an operation in flight stay as they are.
Transition(r, kind, from, to) ==
    LET s == req[r].ses IN
    /\ req[r].pc = "apply" /\ req[r].kind = kind
    /\ Authentic(r)
    /\ ses[s].status \in Open
    /\ IF ses[s].status = from
       THEN /\ ses' = [ses EXCEPT ![s] = WithStatus(@, to)]
            /\ idle' = [idle EXCEPT ![s] = 0]
       ELSE UNCHANGED <<ses, idle>>
    /\ req' = [req EXCEPT ![r] = Resting]
    /\ UNCHANGED <<auths, blk, pending, lease, arrived, notices>>

Pause(r) == Transition(r, "PAUSE", "ACTIVE", "PAUSED")
Resume(r) == Transition(r, "RESUME", "PAUSED", "ACTIVE")
Heartbeat(r) == Transition(r, "HEARTBEAT", "ACTIVE", "ACTIVE")

Abandon(r) ==
    LET s == req[r].ses IN
    /\ req[r].pc = "apply" /\ req[r].kind = "ABANDON"
    /\ Authentic(r)
    /\ ses[s].status \in Open
    /\ ses' = [ses EXCEPT ![s] = Abandoned(s)]
    /\ lease' = [lease EXCEPT ![s] = Free]
    /\ idle' = [idle EXCEPT ![s] = 0]
    /\ Release({s})
    /\ req' = [Cut({s}) EXCEPT ![r] = Resting]
    /\ UNCHANGED <<auths, arrived, notices>>

-----------------------------------------------------------------------------
(* Teaching operations: Submit, RequestSupport, ReturnFromVoice.           *)

\* Submit reads the state before it asks for the lease (currentState).
Check(r) ==
    /\ req[r].pc = "check"
    /\ ses[req[r].ses].status = "ACTIVE"
    /\ ses[req[r].ses].teach # "VOICE_EXPLAIN"
    /\ req' = [req EXCEPT ![r] = At(@, "begin")]
    /\ UNCHANGED <<auths, blk, pending, ses, lease, idle, arrived, notices>>

\* beginSessionOperation
Begin(r) ==
    LET s == req[r].ses IN
    /\ req[r].pc = "begin"
    /\ Authentic(r)
    /\ ses[s].status = "ACTIVE"
    /\ lease[s].left = 0
    /\ lease' = [lease EXCEPT ![s] = [token |-> r, left |-> LeaseTime]]
    /\ idle' = [idle EXCEPT ![s] = 0]
    /\ LET next == IF HasAgent \/ req[r].kind = "SUPPORT" THEN "read" ELSE "voice"
       IN req' = [req EXCEPT ![r] = At(@, next)]
    /\ UNCHANGED <<auths, blk, pending, ses, arrived, notices>>

\* prepareAgent, and the first query of RequestSupport: the operation reads the
\* row, and the AI call decides from what was read.
Read(r) ==
    LET s == req[r].ses IN
    /\ req[r].pc = "read"
    /\ ses[s].status \in Open /\ Holds(r)
    /\ \E v \in IF req[r].kind = "SUBMIT" THEN Verdicts ELSE {"TEACH"} :
         LET read == [ver |-> ses[s].version, basis |-> Basis(s), verdict |-> v, voice |-> Null]
             next == IF req[r].kind = "SUBMIT" THEN "voice" ELSE "commit"
         IN req' = [req EXCEPT ![r] = At([@ EXCEPT !.prep = read], next)]
    /\ UNCHANGED <<auths, blk, pending, ses, lease, idle, arrived, notices>>

\* prepareVoice reads the row again; a voice explanation is synthesised for that
\* version when the decision asks for one.
Voice(r) ==
    LET s == req[r].ses IN
    /\ req[r].pc = "voice"
    /\ ses[s].status \in Open /\ Holds(r)
    /\ \E v \in IF HasAgent THEN {req[r].prep.verdict} ELSE {Null, "VOICE_EXPLAIN"} :
         LET spoken == [ver |-> req[r].prep.ver, basis |-> req[r].prep.basis, verdict |-> v,
                        voice |-> IF v = "VOICE_EXPLAIN" THEN ses[s].version ELSE Null]
         IN req' = [req EXCEPT ![r] = At([@ EXCEPT !.prep = spoken], "commit")]
    /\ UNCHANGED <<auths, blk, pending, ses, lease, idle, arrived, notices>>

\* Faulty variant: the commit does not look at the authentication again.
MayCommitUnchecked(r, kind) ==
    LET s == req[r].ses IN
    /\ req[r].pc = "commit" /\ req[r].kind = kind
    /\ ses[s].status \in Open
    /\ Holds(r)
    /\ req[r].prep.ver \in {Null, ses[s].version}
    /\ req[r].prep.voice \in {Null, ses[s].version}

\* loadSessionForOperation and the version checks of the commit transaction.
MayCommit(r, kind) ==
    LET s == req[r].ses IN
    /\ req[r].pc = "commit" /\ req[r].kind = kind
    /\ Authentic(r)
    /\ ses[s].status \in Open
    /\ Holds(r)
    /\ req[r].prep.ver \in {Null, ses[s].version}
    /\ req[r].prep.voice \in {Null, ses[s].version}

\* The commit evaluates the answer: with an agent as it was prepared; without
\* one against the row itself, where a prepared voice means a wrong answer.
Answered(r, v) ==
    /\ MayCommit(r, "SUBMIT")
    /\ v \in IF req[r].prep.verdict = Null THEN {"CORRECT", "TEACH"} ELSE {req[r].prep.verdict}

\* Faulty variant: the commit leaves the lease to endSessionOperation.
CommitKeepsLease(r, row) ==
    LET s == req[r].ses IN
    /\ ses' = [ses EXCEPT ![s] = Bump(row)]
    /\ idle' = [idle EXCEPT ![s] = IF ses[s].status = "ACTIVE" THEN 0 ELSE @]
    /\ req' = [req EXCEPT ![r] = Done(s)]
    /\ UNCHANGED <<auths, lease, arrived, notices>>

\* The commit of an operation: it writes row, drops the lease, moves the version,
\* and counts as activity only if the session was not paused meanwhile.
Commit(r, row) ==
    LET s == req[r].ses IN
    /\ ses' = [ses EXCEPT ![s] = Bump(row)]
    /\ lease' = [lease EXCEPT ![s] = Free]
    /\ idle' = [idle EXCEPT ![s] = IF ses[s].status = "ACTIVE" THEN 0 ELSE @]
    /\ req' = [req EXCEPT ![r] = Done(s)]
    /\ UNCHANGED <<auths, arrived, notices>>

\* recordReviewFailure: the first wrong answer of a review session.
Wrong(s) == IF ses[s].form = "REVIEW" THEN [ses[s] EXCEPT !.failed = TRUE] ELSE ses[s]

\* A wrong answer is taught; a prerequisite gap without released prerequisite
\* content falls back to a smaller step of the same task.
AnswerTaught(r) ==
    /\ \E v \in {"TEACH", "BACKTRACK", "VOICE_EXPLAIN"} :
         /\ Answered(r, v)
         /\ LET s == req[r].ses
                teach == IF v = "VOICE_EXPLAIN" THEN v ELSE "TEACH"
            IN Commit(r, Taught(Wrong(s), teach, ses[s].task, ses[s].form))
    /\ UNCHANGED <<blk, pending>>

\* beginBacktrack: the prerequisite becomes the active task, in textbook form.
AnswerBacktracks(r) ==
    /\ Answered(r, "BACKTRACK")
    /\ Commit(r, Taught(Wrong(req[r].ses), "BACKTRACK", "PREREQUISITE", "TEXTBOOK"))
    /\ UNCHANGED <<blk, pending>>

\* complete and returnToOriginal: a prerequisite solved restores the original
\* task, in variant form.
AnswerReturns(r) ==
    LET s == req[r].ses IN
    /\ Answered(r, "CORRECT")
    /\ ses[s].task = "PREREQUISITE"
    /\ Commit(r, Taught(ses[s], "RETURN", "ORIGINAL", "VARIANT"))
    /\ UNCHANGED <<blk, pending>>

Completed(s) ==
    Taught(WithStatus(ses[s], "COMPLETED"), "COMPLETE", "ORIGINAL", ses[s].form)

\* Faulty variant: every completed block goes back to the review queue.
AnswerCompletesRequeued(r) ==
    LET s == req[r].ses IN
    /\ Answered(r, "CORRECT")
    /\ ses[s].task = "ORIGINAL"
    /\ Commit(r, Completed(s))
    /\ blk' = [blk EXCEPT ![ses[s].block] = "COMPLETED"]
    /\ pending' = pending \cup {ses[s].block}

\* complete: the original task solved ends the session, its block and, in review
\* form, the bound queue item, which must still be pending.
AnswerCompletes(r) ==
    LET s == req[r].ses IN
    /\ Answered(r, "CORRECT")
    /\ ses[s].task = "ORIGINAL"
    /\ ses[s].form = "REVIEW" => ItemPending(ses[s].block)
    /\ Commit(r, Completed(s))
    /\ blk' = [blk EXCEPT ![ses[s].block] = "COMPLETED"]
    /\ pending' = IF ses[s].form = "REVIEW" THEN pending \ {ItemOf[ses[s].block]} ELSE pending

\* RequestSupport
Support(r) ==
    /\ MayCommit(r, "SUPPORT")
    /\ LET row == ses[req[r].ses] IN Commit(r, Taught(row, "TEACH", row.task, row.form))
    /\ UNCHANGED <<blk, pending>>

\* Faulty variant: the return is not counted as a teaching mutation.
VoiceReturnUnversioned(r) ==
    LET s == req[r].ses IN
    /\ req[r].pc = "apply" /\ req[r].kind = "VOICE_RETURN"
    /\ ses[s].status = "ACTIVE" /\ ses[s].teach = "VOICE_EXPLAIN"
    /\ ses' = [ses EXCEPT ![s].teach = "RETURN"]
    /\ idle' = [idle EXCEPT ![s] = 0]
    /\ req' = [req EXCEPT ![r] = Resting]
    /\ UNCHANGED <<auths, blk, pending, lease, arrived, notices>>

\* ReturnFromVoice: one transaction on the locked row.  It takes no lease and
\* does not look for one, and it does not lock the authentication.
VoiceReturn(r) ==
    LET s == req[r].ses IN
    /\ req[r].pc = "apply" /\ req[r].kind = "VOICE_RETURN"
    /\ ses[s].status = "ACTIVE" /\ ses[s].teach = "VOICE_EXPLAIN"
    /\ ses' = [ses EXCEPT ![s] = Bump(Taught(@, "RETURN", @.task, @.form))]
    /\ idle' = [idle EXCEPT ![s] = 0]
    /\ req' = [req EXCEPT ![r] = Resting]
    /\ UNCHANGED <<auths, blk, pending, lease, arrived, notices>>

-----------------------------------------------------------------------------
(* Actors beside the classroom's own requests.                             *)

\* RevokeAuthenticationAndPauseLearning: one transaction revokes the
\* authentication and takes every open session of the user from its operation.
Logout(a) ==
    LET paused == {s \in Sessions : ses[s].status = "ACTIVE"}
        stripped == {s \in Sessions : ses[s].status = "PAUSED" /\ lease[s].token # Null}
    IN
    /\ a \in Live
    /\ auths' = [auths EXCEPT ![a] = "REVOKED"]
    /\ ses' = [s \in Sessions |->
                 IF s \in paused THEN Bump(WithStatus(ses[s], "PAUSED"))
                 ELSE IF s \in stripped THEN Bump(ses[s]) ELSE ses[s]]
    /\ lease' = [s \in Sessions |-> IF s \in paused \cup stripped THEN Free ELSE lease[s]]
    /\ idle' = [s \in Sessions |-> IF s \in paused THEN 0 ELSE idle[s]]
    /\ req' = Cut(paused \cup stripped)
    /\ UNCHANGED <<blk, pending, arrived, notices>>

\* expires_at passes; nothing in the classroom is told.
AuthExpires(a) ==
    /\ a \in Live
    /\ auths' = [auths EXCEPT ![a] = "EXPIRED"]
    /\ UNCHANGED <<blk, pending, ses, lease, idle, req, arrived, notices>>

\* ParentIntervention REDUCE_INTENSITY or STATE_NOT_GOOD touches the active session.
ParentIntervention ==
    /\ notices < MaxInterventions
    /\ \E s \in Sessions : ses[s].status = "ACTIVE"
    /\ ses' = [s \in Sessions |->
                 IF ses[s].status = "ACTIVE" THEN Bump(ses[s]) ELSE ses[s]]
    /\ notices' = notices + 1
    /\ UNCHANGED <<auths, blk, pending, lease, idle, req, arrived>>

\* Time passes.  Inactivity is counted up to AbandonAfter, beyond which the code
\* makes no difference.
Tick ==
    LET open == {s \in Sessions : ses[s].status \in Open} IN
    /\ \E s \in open : idle[s] < AbandonAfter \/ lease[s].left > 0
    /\ idle' = [s \in Sessions |->
                  IF s \in open /\ idle[s] < AbandonAfter THEN idle[s] + 1 ELSE idle[s]]
    /\ lease' = [s \in Sessions |->
                   IF lease[s].left > 0 THEN [lease[s] EXCEPT !.left = @ - 1] ELSE lease[s]]
    /\ UNCHANGED <<auths, blk, pending, ses, req, arrived, notices>>

-----------------------------------------------------------------------------
Handle(r) ==
    \/ Arrive(r) \/ RecoverOwn(r) \/ Refuse(r) \/ GiveUp(r) \/ End(r) \/ EndFails(r)
    \/ Start(r) \/ Pause(r) \/ Resume(r) \/ Heartbeat(r) \/ Abandon(r)
    \/ Check(r) \/ Begin(r) \/ Read(r) \/ Voice(r)
    \/ AnswerTaught(r) \/ AnswerBacktracks(r) \/ AnswerReturns(r) \/ AnswerCompletes(r)
    \/ Support(r) \/ VoiceReturn(r)

Next ==
    \/ \E r \in Requests : Handle(r)
    \/ \E a \in Auths : Logout(a) \/ AuthExpires(a)
    \/ RecoverAll
    \/ ParentIntervention
    \/ Crash
    \/ Tick

Spec == Init /\ [][Next]_vars

\* Time goes on and the recovery loop runs every minute.  Nothing is assumed of
\* clients, of requests in flight or of the AI services they wait for.
FairSpec == Spec /\ WF_vars(Tick) /\ WF_vars(RecoverAll)

-----------------------------------------------------------------------------
(* Type.                                                                   *)

\* Every variable keeps its type, and no counter leaves its bound.
TypeOK ==
    /\ auths \in [Auths -> {"VALID", "REVOKED", "EXPIRED"}]
    /\ blk \in [Blocks -> {"AVAILABLE", "ACTIVE", "COMPLETED"}]
    /\ pending \subseteq Items
    /\ ses \in [Sessions -> Row]
    /\ lease \in [Sessions -> [token : Requests \cup {Null, Orphan}, left : 0 .. LeaseTime]]
    /\ idle \in [Sessions -> 0 .. AbandonAfter]
    /\ req \in [Requests -> Request]
    /\ arrived \in 0 .. MaxArrivals
    /\ notices \in 0 .. MaxInterventions

-----------------------------------------------------------------------------
(* Safety.                                                                 *)

\* The student has at most one session that is not over, whatever starts,
\* resumptions and recoveries race (StartSession; the unique index
\* learning_sessions_one_open_per_student is never what decides).
OneOpenSession ==
    \A s, t \in Sessions : ses[s].status \in Open /\ ses[t].status \in Open => s = t

\* A plan block is ACTIVE exactly while an open session works on it: no path out of
\* a session leaves its block stuck, and none frees a block that is in use.
BlockTracksSession ==
    \A b \in Blocks :
        blk[b] = "ACTIVE" <=> \E s \in Sessions : ses[s].status \in Open /\ ses[s].block = b

\* A processing lease is held only on an open session, and one that names a request
\* names one that is still at work on that session: no lease survives the end of a
\* session, and no request that is over still seems to be answering.
LeaseOnlyWhileOpen ==
    \A s \in Sessions :
        /\ lease[s] # Free => ses[s].status \in Open
        /\ lease[s].token \in Requests =>
             LET q == req[lease[s].token] IN q.pc \in Working \cup {"end"} /\ q.ses = s

\* An operation that may still commit the agent's decision took it from the very
\* teaching row it is about to change, however long the AI call took and whatever
\* happened to the session meanwhile.
FreshBasis ==
    \A r \in Requests :
        req[r].pc = "commit" /\ req[r].prep.basis # Null /\ MayCommit(r, req[r].kind)
            => req[r].prep.basis = Basis(req[r].ses)

\* An operation whose session was logged out, reclaimed or abandoned after it began
\* never writes to a session again, also when the session was resumed and the
\* lease granted anew meanwhile.
CutNeverCommits ==
    [][\A r \in Requests : req[r].cut /\ req'[r].pc # req[r].pc => ses' = ses]_vars

\* Every change of what is taught, and every end of a session, moves the teaching
\* version up, and the version never falls (docs/api/http.md, "version orders teaching
\* and terminal mutations").
VersionOrdersTeaching ==
    [][\A s \in Sessions :
         /\ ses'[s].version >= ses[s].version
         /\ (Basis(s))' # Basis(s) \/ ses'[s].status \in Terminal \ {ses[s].status}
              => ses'[s].version > ses[s].version]_vars

\* A review block that the end of a session gives back to the plan can be reviewed again as
\* far as the queue goes: its item, which blocks of other plans may be bound to as well, is
\* still pending then.  An abandonment that closes the item closes the block with it
\* (recoverStaleSessions and ABANDON after resolveFailedReviewOnAbandon).  Later, a session
\* of another plan may close the item of a block that waits: see ReviewPlan.
GivenBackPending ==
    [][\A b \in ReviewBlocks :
         blk[b] = "ACTIVE" /\ blk'[b] = "AVAILABLE" => ItemOf[b] \in pending']_vars

\* Once its authentication is revoked or expired a request changes no session and no
\* plan block, even if it passed the middleware before and another device has resumed
\* the session since.  ReturnFromVoice is apart: see RevokedNeverReturns.
RevokedWritesNothing ==
    [][\A r \in Requests :
         /\ req[r].auth # Null /\ ~Authentic(r) /\ req[r].kind # "VOICE_RETURN"
         /\ req'[r].pc # req[r].pc
         => ses' = ses /\ blk' = blk]_vars

-----------------------------------------------------------------------------
(* Liveness, under FairSpec.                                               *)

\* A session its student has left is closed in the end, whatever became of its
\* operation: the lease runs out, the session is paused, then abandoned, and its
\* block is given back.  MaxArrivals makes every behaviour end in silence.
SilentSessionsClose ==
    \A s \in Sessions : ses[s].status \in Open ~> ses[s].status \in Terminal

-----------------------------------------------------------------------------
(* Refinement.                                                             *)

\* The rows of learning_sessions, seen through SessionContract.
Contract == INSTANCE SessionContract WITH
    status <- [s \in Sessions |-> ses[s].status],
    holds <- [s \in Sessions |-> ses[s].block],
    teach <- [s \in Sessions |-> <<ses[s].teach, ses[s].task>>],
    version <- [s \in Sessions |-> ses[s].version]

\* Each transaction of the classroom, recovery and logout included, is one step of
\* the session contract or changes nothing that the contract speaks of.
ImplementsContract == Contract!CSpec

-----------------------------------------------------------------------------
(* Statements of the documents that the code does not keep.                *)

\* docs/api/http.md:60: no answer is evaluated while the session is in VOICE_EXPLAIN.
AnswerNeverInVoice ==
    [][\A r \in Requests :
         req[r].kind = "SUBMIT" /\ req[r].pc = "commit" /\ ses' # ses /\ req'[r].pc = "end"
            => ses[req[r].ses].teach # "VOICE_EXPLAIN"]_vars

\* auth/session.go:53: request writes are serialised with logout, so that a request of a
\* revoked authentication writes nothing, also once another device has resumed the session.
RevokedNeverReturns ==
    [][\A r \in Requests :
         req[r].kind = "VOICE_RETURN" /\ auths[req[r].auth] = "REVOKED" /\ req'[r].pc # req[r].pc
            => ses' = ses]_vars

\* REQ-REVIEW-01: a review block that is done has had its queue item closed.
ReviewBlockSettled == \A b \in ReviewBlocks : blk[b] = "COMPLETED" => ~ItemPending(b)
=============================================================================
