--------------------------- MODULE StudyClockProofs ---------------------------
(***************************************************************************)
(* The properties of StudyClock, for every length of a second, a lease and *)
(* the limits of silence.                                                  *)
(*                                                                         *)
(* CreditAttended is not inductive: what an active session will be given   *)
(* when it stops is not in its counter yet.  The invariant says of an      *)
(* active session that it may be credited up to its last sign of life, and *)
(* as long as it is attended to, up to now.                                *)
(***************************************************************************)
EXTENDS StudyClock, TLAPS

\* What an active session is owed is covered by the time that it was attended to.
Covered ==
    /\ clocked.accumulated * Second <= attended
    /\ clocked.status = "ACTIVE" =>
         /\ clocked.resumed <= clocked.activity
         /\ clocked.accumulated * Second + (clocked.activity - clocked.resumed) <= attended
         /\ Attended(clocked) =>
              clocked.accumulated * Second + (time - clocked.resumed) <= attended

ClockInv == StudyClockTypeOK /\ Covered

\* A row that may stand in the place of clocked, as ClockInv has it.
Sound(row, now, ticks) ==
    /\ row \in Clocked /\ row.resumed <= now /\ row.activity <= now
    /\ row.until <= now + LeaseSpan
    /\ row.status \in Closed => row.until = 0
    /\ row.accumulated * Second <= ticks
    /\ row.status = "ACTIVE" =>
         /\ row.resumed <= row.activity
         /\ row.accumulated * Second + (row.activity - row.resumed) <= ticks
         /\ (now - row.activity < StaleAfter \/ row.until > now) =>
              row.accumulated * Second + (now - row.resumed) <= ticks

-----------------------------------------------------------------------------
\* Whole seconds never make more than the ticks they are counted from.
LEMMA ElapsedBound ==
    ASSUME NEW from \in Nat, NEW to \in Nat
    PROVE  Elapsed(from, to) \in Nat
           /\ Elapsed(from, to) * Second <= (IF to > from THEN to - from ELSE 0)
<1>1. Second \in Nat \ {0}
  BY ClockAssumption
<1>2. CASE to > from
  <2>1. to - from \in Nat
    BY <1>2
  <2>2. \A d \in Nat, s \in Nat \ {0} : d \div s \in Nat /\ (d \div s) * s <= d
    OBVIOUS
  <2>3. (to - from) \div Second \in Nat /\ ((to - from) \div Second) * Second <= to - from
    BY <1>1, <2>1, <2>2
  <2> QED BY <1>2, <2>3 DEF Elapsed
<1>3. CASE ~(to > from)
  BY <1>1, <1>3 DEF Elapsed
<1> QED BY <1>2, <1>3

\* A checkpoint of a sound row is covered when it ends at its last sign of life, and up to now
\* as long as it is attended to.
LEMMA CheckpointCovered ==
    ASSUME NEW row, NEW now \in Nat, NEW ticks \in Nat, Sound(row, now, ticks), NEW end \in Nat,
           \/ row.status # "ACTIVE"
           \/ end = row.activity
           \/ end = now /\ (now - row.activity < StaleAfter \/ row.until > now)
    PROVE  Checkpoint(row, end) \in Nat /\ Checkpoint(row, end) * Second <= ticks
<1>1. Second \in Nat \ {0}
  BY ClockAssumption
<1>2. row.accumulated \in Nat /\ row.resumed \in Nat /\ row.activity \in Nat
  BY DEF Sound, Clocked
<1>3. CASE row.status # "ACTIVE"
  BY <1>2, <1>3 DEF Checkpoint, Sound
<1>4. CASE row.status = "ACTIVE"
  <2> DEFINE q == Elapsed(row.resumed, end)
  <2>1. q \in Nat /\ q * Second <= (IF end > row.resumed THEN end - row.resumed ELSE 0)
    BY <1>2, ElapsedBound
  <2>2. Checkpoint(row, end) = row.accumulated + q
    BY <1>4 DEF Checkpoint
  <2>3. row.accumulated * Second + (end - row.resumed) <= ticks
    BY <1>4, <1>2 DEF Sound
  <2>4. row.accumulated * Second <= ticks
    BY DEF Sound
  <2>5. \A a, b \in Nat, s \in Nat \ {0} : (a + b) * s = a * s + b * s
    OBVIOUS
  <2> DEFINE kept == row.accumulated * Second
             gained == q * Second
  <2>6. (row.accumulated + q) * Second = kept + gained
    BY <1>1, <1>2, <2>1, <2>5
  <2>7. kept \in Nat /\ gained \in Nat
    BY <1>1, <1>2, <2>1
  <2>8. /\ gained <= (IF end > row.resumed THEN end - row.resumed ELSE 0)
        /\ kept + (end - row.resumed) <= ticks /\ kept <= ticks
    BY <2>1, <2>3, <2>4
  <2>9. row.accumulated + q \in Nat
    BY <1>2, <2>1
  <2> HIDE DEF q, kept, gained
  <2>10. kept + gained <= ticks
    BY <2>7, <2>8, <1>2
  <2> QED BY <2>2, <2>6, <2>9, <2>10
<1> QED BY <1>3, <1>4

\* ClockInv is soundness of the row that the session has.
LEMMA InvIsSound ==
    ASSUME time \in Nat, attended \in Nat
    PROVE  ClockInv <=> time <= MaxTime /\ attended <= time /\ Sound(clocked, time, attended)
BY ClockAssumption DEF ClockInv, StudyClockTypeOK, Covered, Sound, Attended, Idle, Leased

\* A row that does not count is sound when its fields are.
LEMMA QuietIsSound ==
    ASSUME NEW next \in Clocked, NEW now \in Nat, NEW ticks \in Nat,
           next.status # "ACTIVE", next.accumulated * Second <= ticks,
           next.resumed <= now, next.activity <= now, next.until <= now + LeaseSpan,
           next.status = "PAUSED" \/ next.until = 0
    PROVE  Sound(next, now, ticks)
BY DEF Sound, Closed

\* Recovery leaves a sound row that is attended to when it is active.
LEMMA RecoveredIsSound ==
    ASSUME NEW row, time \in Nat, attended \in Nat, Sound(row, time, attended)
    PROVE  /\ Sound(Recovered(row), time, attended)
           /\ Recovered(row).status = "ACTIVE" => Attended(Recovered(row))
<1>1. CASE ~Stale(row)
  <2>1. Recovered(row) = row /\ row \in Clocked
    BY <1>1 DEF Recovered, Sound
  <2>2. row.status = "ACTIVE" => Attended(row)
    BY <1>1, <2>1, ClockAssumption DEF Stale, Attended, Idle, Leased, Clocked
  <2> QED BY <2>1, <2>2
<1>2. CASE Stale(row)
  <2>1. row \in Clocked /\ row.activity \in Nat /\ row.resumed \in Nat
    BY DEF Sound, Clocked
  <2>2. Checkpoint(row, row.activity) \in Nat /\ Checkpoint(row, row.activity) * Second <= attended
    BY <2>1, CheckpointCovered
  <2> DEFINE status == IF Idle(row) >= GoneAfter THEN "ABANDONED" ELSE "PAUSED"
  <2>3. status \in Open \cup Closed /\ status # "ACTIVE"
    BY DEF Open, Closed
  <2> HIDE DEF status
  <2>4. Recovered(row) = [Stopped(row, status, row.activity) EXCEPT !.until = 0]
    BY <1>2 DEF Recovered, CreditedTo, status
  <2>5. Stopped(row, status, row.activity) =
          [row EXCEPT !.status = status, !.accumulated = Checkpoint(row, row.activity)]
    BY DEF Stopped
  <2> DEFINE total == Checkpoint(row, row.activity)
             next == [row EXCEPT !.status = status, !.accumulated = total, !.until = 0]
  <2>6. Recovered(row) = next
    BY <2>1, <2>4, <2>5 DEF Clocked
  <2>7. total \in Nat /\ total * Second <= attended
    BY <2>2
  <2> HIDE DEF total
  <2>8. /\ next \in Clocked /\ next.status = status /\ next.resumed = row.resumed
        /\ next.activity = row.activity /\ next.until = 0 /\ next.accumulated = total
    BY <2>1, <2>3, <2>7 DEF Clocked
  <2> HIDE DEF next
  <2>9. row.resumed <= time /\ row.activity <= time /\ 0 <= time + LeaseSpan
    BY ClockAssumption DEF Sound
  <2>10. Sound(next, time, attended)
    BY <2>3, <2>7, <2>8, <2>9, QuietIsSound
  <2> QED BY <2>3, <2>6, <2>8, <2>10
<1> QED BY <1>1, <1>2

-----------------------------------------------------------------------------
\* The session as it starts is sound.
LEMMA ClockInitial == StudyClockInit => ClockInv
<1> SUFFICES ASSUME StudyClockInit PROVE ClockInv
  OBVIOUS
<1>1. Second \in Nat /\ 0 * Second = 0
  BY ClockAssumption
<1> QED BY <1>1, ClockAssumption
  DEF StudyClockInit, ClockInv, StudyClockTypeOK, Covered, Attended, Idle, Leased, Clocked, Open,
      Closed

\* Every step leaves a sound row.
LEMMA ClockStep == ClockInv /\ [StudyClockNext]_clockVars => ClockInv'
<1> SUFFICES ASSUME ClockInv, [StudyClockNext]_clockVars PROVE ClockInv'
  OBVIOUS
<1>1. time \in Nat /\ attended \in Nat /\ time <= MaxTime /\ attended <= time
  BY ClockAssumption DEF ClockInv, StudyClockTypeOK
<1>2. Sound(clocked, time, attended) /\ clocked \in Clocked
  BY <1>1, InvIsSound DEF Sound
<1>3. ASSUME NEW row, Becomes(row), Sound(row, time, attended) PROVE ClockInv'
  BY <1>1, <1>3, ClockAssumption
  DEF Becomes, Sound, ClockInv, StudyClockTypeOK, Covered, Attended, Idle, Leased
<1>4. /\ Found \in Clocked /\ Sound(Found, time, attended)
      /\ Found.status = "ACTIVE" => Attended(Found)
  BY <1>1, <1>2, RecoveredIsSound DEF Found, Sound
<1>5. CASE Tick
  BY <1>1, <1>2, <1>5, ClockAssumption
  DEF Tick, Sound, ClockInv, StudyClockTypeOK, Covered, Attended, Idle, Leased, Clocked
<1>6. CASE Recover
  BY <1>1, <1>2, <1>3, <1>6, RecoveredIsSound DEF Recover
<1>7. CASE Pause
  <2> DEFINE row == [Stopped(Found, "PAUSED", time) EXCEPT !.activity = time]
  <2>1. Found.until \in Nat /\ Found.until <= time + LeaseSpan /\ Found.resumed <= time
    BY <1>4 DEF Sound, Clocked
  <2>2. row = [Found EXCEPT !.status = "PAUSED", !.accumulated = Checkpoint(Found, time),
                            !.activity = time, !.until = Found.until]
    BY <1>4 DEF Stopped, Clocked
  <2> DEFINE total == Checkpoint(Found, time)
  <2>3. total \in Nat /\ total * Second <= attended
    BY <1>1, <1>4, <1>7, CheckpointCovered DEF Pause, Attended, Idle, Leased
  <2> HIDE DEF total, row
  <2>4. /\ row \in Clocked /\ row.status = "PAUSED" /\ row.resumed = Found.resumed
        /\ row.activity = time /\ row.until = Found.until /\ row.accumulated = total
    BY <1>1, <1>4, <1>7, <2>1, <2>2, <2>3 DEF total, Clocked, Open, Closed
  <2>5. Sound(row, time, attended)
    BY <1>1, <2>1, <2>3, <2>4, QuietIsSound
  <2> USE DEF row
  <2> QED BY <1>3, <1>7, <2>5 DEF Pause
<1>8. CASE Resume
  <2> DEFINE row == [Found EXCEPT !.status = "ACTIVE", !.resumed = time, !.activity = time]
  <2>1. /\ row \in Clocked /\ row.resumed = time /\ row.activity = time
        /\ row.until = Found.until /\ row.accumulated = Found.accumulated
        /\ row.status = "ACTIVE"
    BY <1>1, <1>4 DEF Clocked, Open
  <2>2. Sound(row, time, attended)
    BY <1>1, <1>4, <2>1, ClockAssumption DEF Sound, Clocked, Closed
  <2> QED BY <1>3, <1>8, <2>2 DEF Resume
<1>9. CASE Abandon
  <2> DEFINE row == [Stopped(Found, "ABANDONED", time) EXCEPT !.activity = time, !.until = 0]
  <2>1. row = [Found EXCEPT !.status = "ABANDONED", !.accumulated = Checkpoint(Found, time),
                            !.activity = time, !.until = 0]
    BY <1>4 DEF Stopped, Clocked
  <2> DEFINE total == Checkpoint(Found, time)
  <2>2. total \in Nat /\ total * Second <= attended
    BY <1>1, <1>4, CheckpointCovered DEF Attended, Idle, Leased
  <2> HIDE DEF total, row
  <2>3. /\ row \in Clocked /\ row.status = "ABANDONED" /\ row.resumed = Found.resumed
        /\ row.activity = time /\ row.until = 0 /\ row.accumulated = total
    BY <1>1, <1>4, <2>1, <2>2 DEF total, Clocked, Open, Closed
  <2>4. Sound(row, time, attended)
    BY <1>1, <1>4, <2>1, <2>2, <2>3, QuietIsSound, ClockAssumption DEF Sound
  <2> USE DEF row
  <2> QED BY <1>3, <1>9, <2>4 DEF Abandon
<1>10. CASE Heartbeat
  <2> DEFINE row == [Found EXCEPT !.activity = time]
  <2>1. /\ row \in Clocked /\ row.resumed = Found.resumed /\ row.activity = time
        /\ row.until = Found.until /\ row.accumulated = Found.accumulated
        /\ row.status = Found.status
    BY <1>1, <1>4 DEF Clocked
  <2>2. Found.status = "ACTIVE" /\ Attended(Found)
    BY <1>4, <1>10 DEF Heartbeat
  <2>3. Sound(row, time, attended)
    BY <1>1, <1>4, <2>1, <2>2, ClockAssumption
    DEF Sound, Clocked, Attended, Idle, Leased, Closed
  <2> QED BY <1>3, <1>10, <2>3 DEF Heartbeat
<1>11. CASE BeginOperation
  <2> DEFINE row == [Found EXCEPT !.until = time + LeaseSpan, !.activity = time]
  <2> DEFINE until == time + LeaseSpan
  <2>0. until \in Nat
    BY <1>1, ClockAssumption
  <2> HIDE DEF until
  <2>1. /\ [Found EXCEPT !.until = until, !.activity = time] \in Clocked
        /\ row.resumed = Found.resumed /\ row.activity = time
        /\ row.until = time + LeaseSpan /\ row.accumulated = Found.accumulated
        /\ row.status = Found.status
    BY <1>1, <1>4, <2>0 DEF Clocked
  <2> USE DEF until
  <2>2. Found.status = "ACTIVE" /\ Attended(Found)
    BY <1>4, <1>11 DEF BeginOperation
  <2>3. Sound(row, time, attended)
    BY <1>1, <1>4, <2>1, <2>2, ClockAssumption
    DEF Sound, Clocked, Attended, Idle, Leased, Closed
  <2> QED BY <1>3, <1>11, <2>3 DEF BeginOperation
<1>12. CASE EndOperation
  <2> DEFINE row == [clocked EXCEPT !.until = 0]
  <2>1. Sound(row, time, attended)
    BY <1>1, <1>2, ClockAssumption DEF Sound, Clocked
  <2> QED BY <1>3, <1>12, <2>1 DEF EndOperation
<1>13. CASE Teach
  <2> DEFINE row == [clocked EXCEPT !.activity = IF clocked.status = "ACTIVE" THEN time ELSE @,
                                    !.until = 0]
  <2>1. /\ row \in Clocked /\ row.resumed = clocked.resumed
        /\ row.activity = IF clocked.status = "ACTIVE" THEN time ELSE clocked.activity
        /\ row.until = 0 /\ row.accumulated = clocked.accumulated
        /\ row.status = clocked.status
    BY <1>1, <1>2 DEF Clocked
  <2>2. Leased(clocked)
    BY <1>13 DEF Teach
  <2>3. Sound(row, time, attended)
    BY <1>1, <1>2, <2>1, <2>2, ClockAssumption DEF Sound, Clocked, Leased
  <2> QED BY <1>3, <1>13, <2>3 DEF Teach
<1>14. CASE Complete
  <2> DEFINE activity == IF clocked.status = "ACTIVE" THEN time ELSE clocked.activity
             row == [Stopped(clocked, "COMPLETED", time) EXCEPT
                       !.activity = IF clocked.status = "ACTIVE" THEN time ELSE @, !.until = 0]
  <2>1. activity \in Nat /\ activity <= time
    BY <1>1, <1>2 DEF Sound, Clocked
  <2>2. clocked.status = "ACTIVE" => Attended(clocked)
    BY <1>14 DEF Complete, Attended
  <2>3. row = [clocked EXCEPT !.status = "COMPLETED", !.accumulated = Checkpoint(clocked, time),
                              !.activity = activity, !.until = 0]
    BY <1>2 DEF Stopped, Clocked
  <2> HIDE DEF activity
  <2> DEFINE total == Checkpoint(clocked, time)
  <2>4. total \in Nat /\ total * Second <= attended
    BY <1>1, <1>2, <2>2, CheckpointCovered DEF Attended, Idle, Leased
  <2> HIDE DEF total, row
  <2>5. /\ row \in Clocked /\ row.status = "COMPLETED" /\ row.resumed = clocked.resumed
        /\ row.activity = activity /\ row.until = 0 /\ row.accumulated = total
    BY <1>1, <1>2, <2>2, <2>1, <2>3, <2>4 DEF total, Clocked, Open, Closed
  <2>6. Sound(row, time, attended)
    BY <1>1, <1>2, <2>2, <2>1, <2>3, <2>4, <2>5, QuietIsSound, ClockAssumption DEF Sound
  <2> USE DEF row
  <2> QED BY <1>3, <1>14, <2>6 DEF Complete
<1>15. CASE Logout
  <2>1. CASE clocked.status = "ACTIVE"
    <3> DEFINE end == IF Idle(clocked) >= StaleAfter THEN clocked.activity ELSE time
               row == [Stopped(clocked, "PAUSED", end) EXCEPT !.activity = time, !.until = 0]
    <3>1. clocked.activity \in Nat
      BY <1>2 DEF Clocked
    <3>2. end \in Nat /\ (end = clocked.activity \/ (end = time /\ Attended(clocked)))
      BY <1>1, <2>1, <3>1, ClockAssumption DEF Attended, Idle
    <3>3. row = [clocked EXCEPT !.status = "PAUSED", !.accumulated = Checkpoint(clocked, end),
                                !.activity = time, !.until = 0]
      BY <1>2 DEF Stopped, Clocked
    <3> HIDE DEF end
    <3> DEFINE total == Checkpoint(clocked, end)
    <3>4. total \in Nat /\ total * Second <= attended
      BY <1>1, <1>2, <3>2, CheckpointCovered DEF Attended, Idle, Leased
    <3> HIDE DEF total, row
    <3>5. /\ row \in Clocked /\ row.status = "PAUSED" /\ row.resumed = clocked.resumed
          /\ row.activity = time /\ row.until = 0 /\ row.accumulated = total
      BY <1>1, <1>2, <3>2, <3>3, <3>4 DEF total, Clocked, Open, Closed
    <3>6. Sound(row, time, attended)
      BY <1>1, <1>2, <3>2, <3>3, <3>4, <3>5, QuietIsSound, ClockAssumption DEF Sound
    <3> USE DEF row
    <3> USE DEF end
    <3> QED BY <1>3, <1>15, <2>1, <3>6 DEF Logout
  <2>2. CASE clocked.status = "PAUSED"
    <3> DEFINE row == [clocked EXCEPT !.until = 0]
    <3>1. Sound(row, time, attended)
      BY <1>1, <1>2, ClockAssumption DEF Sound, Clocked
    <3> QED BY <1>3, <1>15, <2>2, <3>1 DEF Logout
  <2> QED BY <1>15, <2>1, <2>2 DEF Logout
<1>16. CASE UNCHANGED clockVars
  BY <1>16 DEF clockVars, ClockInv, StudyClockTypeOK, Covered, Attended, Idle, Leased
<1> QED BY <1>5, <1>6, <1>7, <1>8, <1>9, <1>10, <1>11, <1>12, <1>13, <1>14, <1>15, <1>16
      DEF StudyClockNext

\* The invariant holds throughout.
LEMMA ClockInvariant == StudyClockSpec => []ClockInv
BY ClockInitial, ClockStep, PTL DEF StudyClockSpec

\* Every variable of the clock keeps its type and no time lies in the future (lifecycle.go).
THEOREM StudyClockTypeCorrect == StudyClockSpec => []StudyClockTypeOK
<1>1. ClockInv => StudyClockTypeOK
  BY DEF ClockInv
<1> QED BY <1>1, ClockInvariant, PTL

\* No session is ever credited with more than the time it was attended to, however calls,
\* recoveries, logouts and operations follow each other (checkpointTotal, recoverStaleSessions).
THEOREM CreditIsAttended == StudyClockSpec => []CreditAttended
<1>1. ClockInv => CreditAttended
  BY DEF ClockInv, Covered, CreditAttended
<1> QED BY <1>1, ClockInvariant, PTL
=============================================================================
