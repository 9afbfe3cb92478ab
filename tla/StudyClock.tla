------------------------------ MODULE StudyClock ------------------------------
(***************************************************************************)
(* How the study time of one learning session is counted                   *)
(* (server/internal/classroom/lifecycle.go, and the commits of service.go  *)
(* that touch the clock of the session).                                   *)
(*                                                                         *)
(* Time runs in ticks, several to a second.  A handler that recovers stale *)
(* sessions before it works does both at one time.  Who may call, and what *)
(* else the calls change, is in Classroom.                                 *)
(***************************************************************************)
EXTENDS Integers

CONSTANTS
    Second,      \* ticks of a second; the counters keep whole seconds
    StaleAfter,  \* stalePauseAfter
    GoneAfter,   \* staleAbandonAfter
    LeaseSpan,   \* sessionLeaseTime
    MaxTime      \* bound: the latest time

ASSUME ClockAssumption ==
    /\ Second \in Nat \ {0} /\ StaleAfter \in Nat \ {0}
    /\ GoneAfter \in Nat /\ GoneAfter > StaleAfter
    /\ LeaseSpan \in Nat /\ MaxTime \in Nat

VARIABLES
    time,      \* service.now()
    clocked,   \* the clock of the session: columns of learning_sessions
    attended   \* history: ticks in which the session was active and attended to

clockVars == <<time, clocked, attended>>

-----------------------------------------------------------------------------
Open == {"ACTIVE", "PAUSED"}
Closed == {"COMPLETED", "ABANDONED"}

\* The last two fields are last_activity_at and processing_until (0: none).
Clocked == [status : Open \cup Closed, accumulated : Nat, resumed : Nat, activity : Nat,
            until : Nat]

\* StartSession
StudyClockInit ==
    /\ time = 0 /\ attended = 0
    /\ clocked = [status |-> "ACTIVE", accumulated |-> 0, resumed |-> 0, activity |-> 0, until |-> 0]

-----------------------------------------------------------------------------
Leased(row) == row.until > time
Idle(row) == time - row.activity

\* Whether an active session is attended to: a sign of life lately, or an operation at work.
Attended(row) == row.status = "ACTIVE" /\ (Idle(row) < StaleAfter \/ Leased(row))

\* elapsedSeconds
Elapsed(from, to) == IF to > from THEN (to - from) \div Second ELSE 0

\* checkpointTotal
Checkpoint(row, end) ==
    IF row.status = "ACTIVE" THEN row.accumulated + Elapsed(row.resumed, end) ELSE row.accumulated

\* A session that stops counting; its lease stays where it is.
Stopped(row, status, end) == [row EXCEPT !.status = status, !.accumulated = Checkpoint(row, end)]

Stale(row) ==
    /\ ~Leased(row)
    /\ \/ row.status = "ACTIVE" /\ Idle(row) >= StaleAfter
       \/ row.status = "PAUSED" /\ Idle(row) >= GoneAfter

\* Faulty variant: the silence counts.
CreditedToNow(row) == time

\* A recovered session has been studied up to its last sign of life.
CreditedTo(row) == row.activity

\* What recoverStaleSessions makes of a session.
Recovered(row) ==
    IF Stale(row)
    THEN [Stopped(row, IF Idle(row) >= GoneAfter THEN "ABANDONED" ELSE "PAUSED", CreditedTo(row))
            EXCEPT !.until = 0]
    ELSE row

-----------------------------------------------------------------------------
Tick ==
    /\ time < MaxTime
    /\ time' = time + 1
    /\ attended' = IF Attended(clocked) THEN attended + 1 ELSE attended
    /\ UNCHANGED clocked

Becomes(row) == clocked' = row /\ UNCHANGED <<time, attended>>

\* RunStaleSessionRecovery, and a call that stops after its recovery.
Recover == Stale(clocked) /\ Becomes(Recovered(clocked))

\* The session as a call of the student finds it: the call recovers it first.
Found == Recovered(clocked)

\* PAUSE leaves the lease with an operation that is at work.
Pause ==
    /\ Found.status = "ACTIVE"
    /\ Becomes([Stopped(Found, "PAUSED", time) EXCEPT !.activity = time])

Resume ==
    /\ Found.status = "PAUSED"
    /\ Becomes([Found EXCEPT !.status = "ACTIVE", !.resumed = time, !.activity = time])

\* Faulty variant: an operation at work keeps its lease.
AbandonLeased ==
    /\ Found.status \in Open
    /\ Becomes([Stopped(Found, "ABANDONED", time) EXCEPT !.activity = time])

Abandon ==
    /\ Found.status \in Open
    /\ Becomes([Stopped(Found, "ABANDONED", time) EXCEPT !.activity = time, !.until = 0])

\* A heartbeat, or ReturnFromVoice.
Heartbeat ==
    /\ Found.status = "ACTIVE"
    /\ Becomes([Found EXCEPT !.activity = time])

\* beginSessionOperation
BeginOperation ==
    /\ Found.status = "ACTIVE"
    /\ ~Leased(Found)
    /\ Becomes([Found EXCEPT !.until = time + LeaseSpan, !.activity = time])

\* endSessionOperation, after an operation that failed; a crash leaves the lease.
EndOperation ==
    /\ clocked.until > 0
    /\ Becomes([clocked EXCEPT !.until = 0])

\* The commit of an operation under its lease, also into a session that was paused.
Teach ==
    /\ Leased(clocked) /\ clocked.status \in Open
    /\ Becomes([clocked EXCEPT !.activity = IF clocked.status = "ACTIVE" THEN time ELSE @,
                               !.until = 0])

\* complete
Complete ==
    /\ Leased(clocked) /\ clocked.status \in Open
    /\ Becomes([Stopped(clocked, "COMPLETED", time) EXCEPT
                  !.activity = IF clocked.status = "ACTIVE" THEN time ELSE @, !.until = 0])

\* RevokeAuthenticationAndPauseLearning; it does not recover first.
Logout ==
    \/ /\ clocked.status = "ACTIVE"
       /\ Becomes([Stopped(clocked, "PAUSED",
                           IF Idle(clocked) >= StaleAfter THEN clocked.activity ELSE time)
                     EXCEPT !.activity = time, !.until = 0])
    \/ /\ clocked.status = "PAUSED"
       /\ Becomes([clocked EXCEPT !.until = 0])

StudyClockNext ==
    \/ Tick \/ Recover
    \/ Pause \/ Resume \/ Abandon \/ Heartbeat
    \/ BeginOperation \/ EndOperation \/ Teach \/ Complete
    \/ Logout

StudyClockSpec == StudyClockInit /\ [][StudyClockNext]_clockVars

-----------------------------------------------------------------------------
\* No time of the clock lies in the future, and a closed session has no lease.
StudyClockTypeOK ==
    /\ time \in 0 .. MaxTime /\ attended \in 0 .. time
    /\ clocked \in Clocked
    /\ clocked.resumed <= time /\ clocked.activity <= time
    /\ clocked.until <= time + LeaseSpan
    /\ clocked.status \in Closed => clocked.until = 0

\* However pauses, resumes, recoveries, logouts, operations and crashes follow each other,
\* a session is credited with no more time than it was attended to while active: no
\* silence, no pause, and nothing twice (REQ-SESSION-02).
CreditAttended == clocked.accumulated * Second <= attended
=============================================================================
