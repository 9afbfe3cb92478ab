-------------------------- MODULE ClassroomDecisions --------------------------
(***************************************************************************)
(* Processing leases and teaching versions of the classroom: an operation  *)
(* that has lost its session or its authentication writes nothing, and one *)
(* that commits a decision took it from the row it changes.                *)
(***************************************************************************)
EXTENDS ClassroomProofs

USE BlocksAssumption, KindsAssumption, TimeAssumption, BoundsAssumption, NullAssumption

Busy == Working \cup {"end"}

\* The strengthening: a request that was cut off is at work without the lease.
CutLost ==
    \A r \in Requests :
        req[r].cut => req[r].pc \in Working /\ lease[req[r].ses].token # r

LeaseInv == LeaseOnlyWhileOpen /\ CutLost

\* No lease is held at first.
LEMMA LeaseInit == Init => LeaseInv
BY DEF Init, LeaseInv, LeaseOnlyWhileOpen, CutLost, Free, Resting

\* What most steps do to leases and requests: the sessions in gone lose their lease,
\* every other lease stays on its open session, and a request keeps at its work on its
\* session, was not at work, or holds no lease afterwards.
Frees(gone) ==
    /\ \A s \in Sessions : lease'[s] = IF s \in gone THEN Free ELSE lease[s]
    /\ \A s \in Sessions \ gone : IsOpen(s) => OpensAfter(s)
    /\ \A o \in Requests :
         \/ /\ req[o].pc \in Busy /\ req'[o].pc \in Busy /\ req'[o].ses = req[o].ses
            /\ req'[o].cut => req'[o].pc \in Working /\ (req[o].cut \/ req[o].ses \in gone)
         \/ req[o].pc \notin Busy /\ ~req'[o].cut
         \/ ~req'[o].cut /\ \A s \in Sessions : lease'[s].token # o

\* A step that only frees leases, and those of all sessions it ends, keeps the invariant.
LEMMA FreesKeeps ==
    ASSUME TypeInv, LeaseInv, NEW gone, Frees(gone)
    PROVE  LeaseInv'
<1> USE DEF LeaseInv, Frees
<1>1. Free.token = Null /\ Null \notin Requests
  BY DEF Free
<1>2. LeaseOnlyWhileOpen'
  <2> SUFFICES ASSUME NEW s \in Sessions
               PROVE  /\ lease'[s] # Free => ses'[s].status \in Open
                      /\ lease'[s].token \in Requests =>
                           /\ req'[lease'[s].token].pc \in Busy
                           /\ req'[lease'[s].token].ses = s
    BY DEF LeaseOnlyWhileOpen, Busy
  <2>1. CASE s \in gone
    BY <1>1, <2>1
  <2>2. CASE s \notin gone
    <3>1. lease'[s] = lease[s]
      BY <2>2
    <3>2. lease[s] # Free => ses'[s].status \in Open
      BY <2>2 DEF LeaseOnlyWhileOpen, IsOpen, OpensAfter
    <3>3. ASSUME lease[s].token \in Requests
          PROVE  req'[lease[s].token].pc \in Busy /\ req'[lease[s].token].ses = s
      <4> DEFINE o == lease[s].token
      <4>1. o \in Requests /\ req[o].pc \in Busy /\ req[o].ses = s
        BY <3>3 DEF LeaseOnlyWhileOpen, Busy
      <4> QED
        BY <3>1, <4>1
    <3> QED
      BY <3>1, <3>2, <3>3
  <2> QED
    BY <2>1, <2>2
<1>3. CutLost'
  <2> SUFFICES ASSUME NEW o \in Requests, req'[o].cut
               PROVE  req'[o].pc \in Working /\ lease'[req'[o].ses].token # o
    BY DEF CutLost
  <2>1. /\ req[o].pc \in Busy /\ req'[o].ses = req[o].ses /\ req'[o].pc \in Working
        /\ req[o].cut \/ req[o].ses \in gone
    OBVIOUS
  <2>2. req[o].ses \in Sessions
    BY <2>1 DEF TypeInv, RequestShape, Busy, Working
  <2>3. CASE req[o].ses \in gone
    BY <1>1, <2>1, <2>2, <2>3
  <2>4. CASE req[o].cut /\ req[o].ses \notin gone
    BY <2>1, <2>2, <2>4 DEF CutLost
  <2> QED
    BY <2>1, <2>3, <2>4
<1> QED
  BY <1>2, <1>3

\* A step of one request that touches no lease and no session's openness.
LEMMA MovesKeep ==
    ASSUME TypeInv, LeaseInv, NEW r \in Requests, NEW q \in Request,
           req' = [req EXCEPT ![r] = q], UNCHANGED lease,
           \A s \in Sessions : IsOpen(s) => OpensAfter(s),
           \/ /\ req[r].pc \in Busy /\ q.pc \in Busy /\ q.ses = req[r].ses
              /\ q.cut => q.pc \in Working /\ req[r].cut
           \/ req[r].pc \notin Busy /\ ~q.cut
    PROVE  LeaseInv'
<1>1. \A o \in Requests : req'[o] = IF o = r THEN q ELSE req[o]
  BY DEF TypeInv, TypeOK
<1>2. ASSUME NEW o \in Requests
      PROVE  \/ /\ req[o].pc \in Busy /\ req'[o].pc \in Busy /\ req'[o].ses = req[o].ses
                /\ req'[o].cut => req'[o].pc \in Working /\ req[o].cut
             \/ req[o].pc \notin Busy /\ ~req'[o].cut
  BY <1>1 DEF LeaseInv, CutLost, Busy
<1>3. Frees({})
  BY <1>2 DEF Frees
<1> QED
  BY <1>3, FreesKeeps

\* Requests that arrive, fail or prepare touch no lease.
LEMMA LeaseRequests ==
    ASSUME TypeInv, LeaseInv, NEW r \in Requests,
           Arrive(r) \/ Refuse(r) \/ GiveUp(r) \/ Check(r) \/ Read(r) \/ Voice(r)
    PROVE  LeaseInv'
<1>1. UNCHANGED lease /\ \A s \in Sessions : IsOpen(s) => OpensAfter(s)
  BY DEF Arrive, Refuse, GiveUp, Check, Read, Voice, IsOpen, OpensAfter
<1>2. req[r] \in Request /\ (req[r].cut => req[r].pc \in Working)
  BY DEF TypeInv, TypeOK, LeaseInv, CutLost
<1>3. CASE Arrive(r)
  <2>1. PICK k \in Kinds, a \in Live, s \in Sessions \cup {Null} :
          req' = [req EXCEPT ![r] = Admitted(k, a, s)]
    BY <1>3 DEF Arrive
  <2>2. Admitted(k, a, s) \in Request /\ ~Admitted(k, a, s).cut
    <3>1. k \in AllKinds /\ a \in Auths
      BY KindsAssumption DEF Live
    <3> QED
      BY <3>1, WrittenTypes DEF Admitted
  <2>3. req[r].pc \notin Busy
    BY <1>3 DEF Arrive, Busy, Working
  <2> QED
    BY <1>1, <2>1, <2>2, <2>3, MovesKeep
<1>4. CASE Refuse(r)
  <2>1. Resting \in Request /\ ~Resting.cut
    BY WrittenTypes DEF Resting
  <2> QED
    BY <1>1, <1>4, <2>1, MovesKeep DEF Refuse, Busy, Working
<1>5. CASE GiveUp(r)
  <2> DEFINE q == Done(req[r].ses)
  <2>1. req[r].ses \in Sessions
    BY <1>5 DEF GiveUp, TypeInv, RequestShape, Working
  <2>2. q \in Request /\ ~q.cut /\ q.pc = "end" /\ q.ses = req[r].ses
    BY <2>1, WrittenTypes DEF Done
  <2> HIDE DEF q
  <2>3. req' = [req EXCEPT ![r] = q] /\ req[r].pc \in Busy /\ q.pc \in Busy
    BY <1>5, <2>2 DEF GiveUp, Busy, q
  <2> QED
    BY <1>1, <2>2, <2>3, MovesKeep
<1>6. CASE Check(r)
  <2>1. At(req[r], "begin") \in Request /\ (At(req[r], "begin").cut = req[r].cut)
    BY <1>2, AtRequest DEF Steps
  <2>2. req' = [req EXCEPT ![r] = At(req[r], "begin")] /\ req[r].pc \notin Busy
    BY <1>6 DEF Check, Busy, Working
  <2> QED
    BY <1>1, <1>2, <2>1, <2>2, MovesKeep DEF Busy
<1>7. CASE Read(r) \/ Voice(r)
  <2>1. PICK p \in Prepared, step \in {"voice", "commit"} :
          req' = [req EXCEPT ![r] = At([req[r] EXCEPT !.prep = p], step)]
    BY <1>7, PreparedTypes
  <2> DEFINE q == At([req[r] EXCEPT !.prep = p], step)
  <2>2. step \in Steps
    BY DEF Steps
  <2>3. q \in Request /\ q.pc = step /\ q.ses = req[r].ses /\ (q.cut = req[r].cut)
    BY <1>2, <2>2, PreparedRequest
  <2>4. req' = [req EXCEPT ![r] = q]
    BY <2>1
  <2> HIDE DEF q
  <2>5. req[r].pc \in Busy
    BY <1>7 DEF Read, Voice, Busy, Working
  <2>6. q.pc \in Working
    BY <2>3 DEF Working
  <2> QED
    BY <1>1, <2>3, <2>4, <2>5, <2>6, MovesKeep DEF Busy
<1> QED
  BY <1>3, <1>4, <1>5, <1>6, <1>7

\* The one-transaction requests touch none either, and end no session.
LEMMA LeaseLifecycle ==
    ASSUME TypeInv, LeaseInv, NEW r \in Requests,
           Start(r) \/ Pause(r) \/ Resume(r) \/ Heartbeat(r) \/ VoiceReturn(r)
    PROVE  LeaseInv'
<1>1. UNCHANGED lease /\ req' = [req EXCEPT ![r] = Resting] /\ req[r].pc = "apply"
  BY DEF Start, Pause, Resume, Heartbeat, Transition, VoiceReturn
<1>2. \A s \in Sessions : IsOpen(s) => OpensAfter(s)
  BY StartStarts, TransitionKeepsOpen DEF KeepsOpen, Starts
<1>3. Resting \in Request /\ ~Resting.cut
  BY WrittenTypes DEF Resting
<1> QED
  BY <1>1, <1>2, <1>3, MovesKeep DEF Busy, Working

\* A cut marks the work on the sessions in gone, and nothing else.
LEMMA CutMarks ==
    ASSUME TypeOK, NEW gone, NEW o \in Requests
    PROVE  /\ Cut(gone)[o].pc = req[o].pc /\ Cut(gone)[o].ses = req[o].ses
           /\ Cut(gone)[o].cut => req[o].cut \/ (req[o].pc \in Working /\ req[o].ses \in gone)
<1>1. Cut(gone)[o] = IF req[o].pc \in Working /\ req[o].ses \in gone
                     THEN [req[o] EXCEPT !.cut = TRUE] ELSE req[o]
  BY DEF Cut
<1> QED
  BY <1>1, CutTypes

\* A step that frees the sessions in gone and marks the work on them keeps the invariant.
LEMMA CutFrees ==
    ASSUME TypeInv, LeaseInv, NEW gone,
           \A s \in Sessions : lease'[s] = IF s \in gone THEN Free ELSE lease[s],
           \A s \in Sessions \ gone : IsOpen(s) => OpensAfter(s),
           \/ req' = Cut(gone)
           \/ \E r \in Requests, q \in Request :
                req' = [Cut(gone) EXCEPT ![r] = q] /\ req[r].pc \notin Busy /\ ~q.cut
    PROVE  LeaseInv'
<1>1. ASSUME NEW o \in Requests, req'[o] = Cut(gone)[o]
      PROVE  \/ /\ req[o].pc \in Busy /\ req'[o].pc \in Busy /\ req'[o].ses = req[o].ses
                /\ req'[o].cut => req'[o].pc \in Working /\ (req[o].cut \/ req[o].ses \in gone)
             \/ req[o].pc \notin Busy /\ ~req'[o].cut
  <2>1. /\ req'[o].pc = req[o].pc /\ req'[o].ses = req[o].ses
        /\ req'[o].cut => req[o].cut \/ (req[o].pc \in Working /\ req[o].ses \in gone)
    BY <1>1, CutMarks DEF TypeInv
  <2>2. req[o].cut => req[o].pc \in Working
    BY DEF LeaseInv, CutLost
  <2> QED
    BY <2>1, <2>2 DEF Busy
<1>2. CASE req' = Cut(gone)
  <2>1. Frees(gone)
    BY <1>1, <1>2 DEF Frees
  <2> QED
    BY <2>1, FreesKeeps
<1>3. ASSUME NEW r \in Requests, NEW q \in Request,
             req' = [Cut(gone) EXCEPT ![r] = q], req[r].pc \notin Busy, ~q.cut
      PROVE  LeaseInv'
  <2>1. \A o \in Requests : req'[o] = IF o = r THEN q ELSE Cut(gone)[o]
    BY <1>3, CutTypes DEF TypeInv
  <2>2. Frees(gone)
    BY <1>1, <1>3, <2>1 DEF Frees
  <2> QED
    BY <2>2, FreesKeeps
<1> QED
  BY <1>2, <1>3

\* Recovery is such a step.
LEMMA LeaseRecovery ==
    ASSUME TypeInv, LeaseInv, RecoverAll \/ \E r \in Requests : RecoverOwn(r)
    PROVE  LeaseInv'
<1>1. Recovery(StaleSessions, LostSessions) /\ TypeOK
  BY DEF RecoverAll, RecoverOwn, TypeInv
<1>2. /\ \A s \in Sessions : lease'[s] = IF s \in StaleSessions THEN Free ELSE lease[s]
      /\ \A s \in Sessions \ StaleSessions : IsOpen(s) => OpensAfter(s)
  <2>1. LostSessions \subseteq StaleSessions
    BY DEF LostSessions
  <2> QED
    BY <1>1, <2>1 DEF Recovery, IsOpen, OpensAfter
<1>3. CASE RecoverAll
  BY <1>2, <1>3, CutFrees DEF RecoverAll
<1>4. ASSUME NEW r \in Requests, RecoverOwn(r) PROVE LeaseInv'
  <2>1. PICK next \in {"check", "begin", "apply"} :
          req' = [Cut(StaleSessions) EXCEPT ![r] = At(req[r], next)]
    BY <1>4 DEF RecoverOwn
  <2>2. next \in Steps
    BY DEF Steps
  <2>3. req[r].pc \notin Busy /\ ~req[r].cut
    BY <1>4 DEF RecoverOwn, Busy, Working, LeaseInv, CutLost
  <2>4. At(req[r], next) \in Request /\ (At(req[r], next).cut = req[r].cut)
    BY <2>2, SteppedRequest, AtRequest
  <2> DEFINE q == At(req[r], next)
  <2> HIDE DEF q
  <2> QED
    BY <1>2, <2>1, <2>3, <2>4, CutFrees DEF q
<1> QED
  BY <1>3, <1>4

\* So is an abandonment by the student.
LEMMA LeaseAbandon ==
    ASSUME TypeInv, LeaseInv, NEW r \in Requests, Abandon(r)
    PROVE  LeaseInv'
<1> DEFINE s == req[r].ses
<1>1. GivesUp({s})
  BY AbandonGivesUp
<1>2. \A t \in Sessions \ {s} : IsOpen(t) => OpensAfter(t)
  BY <1>1 DEF GivesUp
<1>3. \A t \in Sessions : lease'[t] = IF t \in {s} THEN Free ELSE lease[t]
  BY DEF Abandon, TypeInv, TypeOK
<1>4. req' = [Cut({s}) EXCEPT ![r] = Resting] /\ req[r].pc \notin Busy
  BY DEF Abandon, Busy, Working
<1>5. Resting \in Request /\ ~Resting.cut
  BY WrittenTypes DEF Resting
<1> QED
  BY <1>2, <1>3, <1>4, <1>5, CutFrees

\* So is a logout.
LEMMA LeaseLogout ==
    ASSUME TypeInv, LeaseInv, NEW a \in Auths, Logout(a)
    PROVE  LeaseInv'
<1> DEFINE paused == {s \in Sessions : ses[s].status = "ACTIVE"}
           stripped == {s \in Sessions : ses[s].status = "PAUSED" /\ lease[s].token # Null}
           gone == paused \cup stripped
<1>1. \A s \in Sessions : lease'[s] = IF s \in gone THEN Free ELSE lease[s]
  BY DEF Logout
<1>2. req' = Cut(gone)
  BY DEF Logout
<1>3. \A s \in Sessions : IsOpen(s) => OpensAfter(s)
  BY ActorsKeepOpen DEF KeepsOpen
<1> HIDE DEF gone
<1> QED
  BY <1>1, <1>2, <1>3, CutFrees

\* The commit drops the lease and sends the operation to its clean-up.
LEMMA LeaseCommit ==
    ASSUME TypeInv, LeaseInv, NEW r \in Requests, req[r].pc = "commit",
           NEW row \in Row, Commit(r, row)
    PROVE  LeaseInv'
<1> DEFINE s == req[r].ses
<1>1. s \in Sessions
  BY DEF TypeInv, RequestShape, Working
<1>2. \A t \in Sessions : lease'[t] = IF t \in {s} THEN Free ELSE lease[t]
  BY DEF Commit, TypeInv, TypeOK
<1>3. \A t \in Sessions \ {s} : IsOpen(t) => OpensAfter(t)
  BY DEF Commit, TypeInv, TypeOK, IsOpen, OpensAfter
<1>4. Done(s).pc = "end" /\ Done(s).ses = s /\ ~Done(s).cut
  BY DEF Done
<1>5. \A o \in Requests : req'[o] = IF o = r THEN Done(s) ELSE req[o]
  BY DEF Commit, TypeInv, TypeOK
<1>6. ASSUME NEW o \in Requests
      PROVE  \/ /\ req[o].pc \in Busy /\ req'[o].pc \in Busy /\ req'[o].ses = req[o].ses
                /\ req'[o].cut => req'[o].pc \in Working /\ req[o].cut
             \/ req[o].pc \notin Busy /\ ~req'[o].cut
  BY <1>4, <1>5 DEF LeaseInv, CutLost, Busy, Working
<1>7. Frees({s})
  BY <1>2, <1>3, <1>6 DEF Frees
<1> QED
  BY <1>7, FreesKeeps

\* All commits of operations drop the lease.
LEMMA LeaseCommits ==
    ASSUME TypeInv, LeaseInv, NEW r \in Requests,
           \/ AnswerTaught(r) \/ AnswerBacktracks(r) \/ AnswerReturns(r) \/ Support(r)
           \/ AnswerCompletes(r)
    PROVE  LeaseInv'
<1>1. CASE AnswerTaught(r) \/ AnswerBacktracks(r) \/ AnswerReturns(r) \/ Support(r)
  BY <1>1, CommittedRow, LeaseCommit
<1>2. CASE AnswerCompletes(r)
  BY <1>2, CompletedRow, LeaseCommit
<1> QED
  BY <1>1, <1>2

\* A lease is granted only on an open session, to the operation that begins.
LEMMA LeaseBegin ==
    ASSUME TypeInv, LeaseInv, NEW r \in Requests, Begin(r)
    PROVE  LeaseInv'
<1> DEFINE s == req[r].ses
<1>1. s \in Sessions /\ req[r].pc = "begin" /\ IsOpen(s)
  BY DEF Begin, TypeInv, RequestShape, IsOpen, Open
<1>2. PICK next \in Working : req' = [req EXCEPT ![r] = At(req[r], next)]
  BY DEF Begin, Working
<1>3. At(req[r], next).pc = next /\ At(req[r], next).ses = s
      /\ (At(req[r], next).cut = req[r].cut)
  BY SteppedRequest, AtRequest DEF Working, Steps
<1>4. ~req[r].cut
  BY <1>1 DEF LeaseInv, CutLost, Working
<1>5. /\ req'[r].pc \in Working /\ req'[r].ses = s /\ ~req'[r].cut
      /\ \A o \in Requests \ {r} : req'[o] = req[o]
  BY <1>2, <1>3, <1>4 DEF TypeInv, TypeOK
<1>6. /\ lease'[s].token = r
      /\ \A t \in Sessions \ {s} : lease'[t] = lease[t]
      /\ UNCHANGED ses
  BY <1>1 DEF Begin, TypeInv, TypeOK
<1>7. \A t \in Sessions : lease[t].token # r
  BY <1>1 DEF LeaseInv, LeaseOnlyWhileOpen, Working
<1>8. LeaseOnlyWhileOpen'
  <2> SUFFICES ASSUME NEW t \in Sessions
               PROVE  /\ lease'[t] # Free => ses'[t].status \in Open
                      /\ lease'[t].token \in Requests =>
                           /\ req'[lease'[t].token].pc \in Busy
                           /\ req'[lease'[t].token].ses = t
    BY DEF LeaseOnlyWhileOpen, Busy
  <2>1. CASE t = s
    BY <1>1, <1>5, <1>6, <2>1 DEF IsOpen, Busy
  <2>2. CASE t # s
    BY <1>5, <1>6, <1>7, <2>2 DEF LeaseInv, LeaseOnlyWhileOpen, Busy
  <2> QED
    BY <2>1, <2>2
<1>9. CutLost'
  <2> SUFFICES ASSUME NEW o \in Requests, req'[o].cut
               PROVE  req'[o].pc \in Working /\ lease'[req'[o].ses].token # o
    BY DEF CutLost
  <2>1. o # r /\ req'[o] = req[o] /\ req[o].pc \in Working
    BY <1>5 DEF LeaseInv, CutLost
  <2>2. req[o].ses \in Sessions
    BY <2>1 DEF TypeInv, RequestShape, Working
  <2> QED
    BY <1>6, <2>1, <2>2 DEF LeaseInv, CutLost
<1> QED
  BY <1>8, <1>9 DEF LeaseInv

\* The clean-up of an operation, also when its statement fails.
LEMMA LeaseEnd ==
    ASSUME TypeInv, LeaseInv, NEW r \in Requests, End(r) \/ EndFails(r)
    PROVE  LeaseInv'
<1> DEFINE s == req[r].ses
<1>1. s \in Sessions /\ req[r].pc = "end" /\ UNCHANGED ses
  BY DEF End, EndFails, TypeInv, RequestShape
<1>2. Resting.pc = "idle" /\ ~Resting.cut
  BY DEF Resting
<1>3. \A o \in Requests : req'[o] = IF o = r THEN Resting ELSE req[o]
  BY DEF End, EndFails, TypeInv, TypeOK
<1>4. \A t \in Sessions \ {s} : lease'[t] = lease[t] /\ lease[t].token # r
  BY <1>1 DEF End, EndFails, TypeInv, TypeOK, LeaseInv, LeaseOnlyWhileOpen
<1>5. /\ lease'[s].token # r
      /\ lease'[s] = Free \/ lease'[s] = lease[s] \/ (lease[s] # Free /\ lease'[s].token = Orphan)
  <2>1. Free.token = Null
    BY DEF Free
  <2>2. CASE End(r)
    BY <1>1, <2>1, <2>2 DEF End, TypeInv, TypeOK
  <2>3. CASE EndFails(r)
    BY <1>1, <2>1, <2>3 DEF EndFails, TypeInv, TypeOK
  <2> QED
    BY <2>2, <2>3
<1>6. LeaseOnlyWhileOpen'
  <2> SUFFICES ASSUME NEW t \in Sessions
               PROVE  /\ lease'[t] # Free => ses'[t].status \in Open
                      /\ lease'[t].token \in Requests =>
                           /\ req'[lease'[t].token].pc \in Busy
                           /\ req'[lease'[t].token].ses = t
    BY DEF LeaseOnlyWhileOpen, Busy
  <2>1. Free.token = Null
    BY DEF Free
  <2>2. CASE t = s
    BY <1>1, <1>3, <1>5, <2>1, <2>2 DEF LeaseInv, LeaseOnlyWhileOpen, Busy
  <2>3. CASE t # s
    BY <1>1, <1>3, <1>4, <2>3 DEF LeaseInv, LeaseOnlyWhileOpen, Busy
  <2> QED
    BY <2>2, <2>3
<1>7. CutLost'
  <2> SUFFICES ASSUME NEW o \in Requests, req'[o].cut
               PROVE  req'[o].pc \in Working /\ lease'[req'[o].ses].token # o
    BY DEF CutLost
  <2>1. req'[o] = req[o] /\ req[o].pc \in Working /\ lease[req[o].ses].token # o
    BY <1>2, <1>3 DEF LeaseInv, CutLost
  <2>2. req[o].ses \in Sessions
    BY <2>1 DEF TypeInv, RequestShape, Working
  <2>3. Free.token = Null
    BY DEF Free
  <2> QED
    BY <1>4, <1>5, <2>1, <2>2, <2>3
<1> QED
  BY <1>6, <1>7 DEF LeaseInv

\* Expiry, notices, crashes and time grant no lease; a crash orphans them.
LEMMA LeaseActors ==
    ASSUME TypeInv, LeaseInv,
           \/ \E a \in Auths : AuthExpires(a)
           \/ ParentIntervention \/ Crash \/ Tick
    PROVE  LeaseInv'
<1>1. \A s \in Sessions : OpensAfter(s) <=> IsOpen(s)
  BY ActorsKeepOpen DEF KeepsOpen
<1>2. CASE UNCHANGED <<lease, req>>
  BY <1>1, <1>2 DEF LeaseInv, LeaseOnlyWhileOpen, CutLost, IsOpen, OpensAfter
<1>3. CASE Crash
  <2>1. \A r \in Requests : req'[r] = Resting
    BY <1>3 DEF Crash
  <2>2. CutLost'
    BY <2>1 DEF CutLost, Resting
  <2>3. ASSUME NEW s \in Sessions
        PROVE  lease'[s].token \notin Requests /\ (lease[s] = Free => lease'[s] = Free)
    <3>1. CASE lease[s].token \in Requests
      <4>1. lease'[s] = [lease[s] EXCEPT !.token = Orphan]
        BY <1>3, <3>1 DEF Crash
      <4>2. lease[s] # Free
        BY <3>1 DEF Free
      <4> QED
        BY <4>1, <4>2 DEF TypeInv, TypeOK
    <3>2. CASE lease[s].token \notin Requests
      BY <1>3, <3>2 DEF Crash
    <3> QED
      BY <3>1, <3>2
  <2>4. LeaseOnlyWhileOpen'
    BY <1>1, <2>3 DEF LeaseInv, LeaseOnlyWhileOpen, IsOpen, OpensAfter
  <2> QED
    BY <2>2, <2>4 DEF LeaseInv
<1>4. CASE Tick
  <2>1. UNCHANGED req
    BY <1>4 DEF Tick
  <2>2. ASSUME NEW s \in Sessions
        PROVE  lease'[s].token = lease[s].token /\ (lease[s] = Free => lease'[s] = Free)
    <3>1. CASE lease[s].left > 0
      <4>1. lease'[s] = [lease[s] EXCEPT !.left = @ - 1]
        BY <1>4, <3>1 DEF Tick
      <4>2. lease[s] # Free
        BY <3>1 DEF Free
      <4> QED
        BY <4>1, <4>2 DEF TypeInv, TypeOK
    <3>2. CASE ~(lease[s].left > 0)
      BY <1>4, <3>2 DEF Tick
    <3> QED
      BY <3>1, <3>2
  <2>3. LeaseOnlyWhileOpen'
    BY <1>1, <2>1, <2>2 DEF LeaseInv, LeaseOnlyWhileOpen, IsOpen, OpensAfter
  <2>4. CutLost'
    <3> SUFFICES ASSUME NEW o \in Requests, req[o].cut
                 PROVE  req[o].pc \in Working /\ lease'[req[o].ses].token # o
      BY <2>1 DEF CutLost
    <3>1. req[o].pc \in Working /\ lease[req[o].ses].token # o
      BY DEF LeaseInv, CutLost
    <3>2. req[o].ses \in Sessions
      BY <3>1 DEF TypeInv, RequestShape, Working
    <3> QED
      BY <2>2, <3>1, <3>2
  <2> QED
    BY <2>3, <2>4 DEF LeaseInv
<1> QED
  BY <1>2, <1>3, <1>4 DEF AuthExpires, ParentIntervention

\* LeaseInv is inductive over the typed steps of the classroom.
THEOREM LeaseStep == TypeInv /\ LeaseInv /\ [Next]_vars => LeaseInv'
<1> SUFFICES ASSUME TypeInv, LeaseInv, [Next]_vars PROVE LeaseInv'
  OBVIOUS
<1>1. ASSUME NEW r \in Requests, Handle(r) PROVE LeaseInv'
  BY <1>1, LeaseRequests, LeaseLifecycle, LeaseRecovery, LeaseAbandon, LeaseCommits, LeaseBegin,
     LeaseEnd
  DEF Handle
<1>2. ASSUME NEW a \in Auths, Logout(a) PROVE LeaseInv'
  BY <1>2, LeaseLogout
<1>3. CASE \/ \E a \in Auths : AuthExpires(a)
           \/ ParentIntervention \/ Crash \/ Tick
  BY <1>3, LeaseActors
<1>4. CASE RecoverAll
  BY <1>4, LeaseRecovery
<1>5. CASE UNCHANGED vars
  BY <1>5 DEF vars, LeaseInv, LeaseOnlyWhileOpen, CutLost
<1> QED
  BY <1>1, <1>2, <1>3, <1>4, <1>5 DEF Next

\* A lease never outlives its session, nor names a request that is over.
THEOREM LeaseOnlyWhileOpenHolds == Spec => []LeaseOnlyWhileOpen
<1>1. LeaseInv => LeaseOnlyWhileOpen
  BY DEF LeaseInv
<1> QED
  BY <1>1, TypeInit, TypeStep, LeaseInit, LeaseStep, PTL DEF Spec

-----------------------------------------------------------------------------
(***************************************************************************)
(* Teaching versions and the decisions taken from them: the version orders *)
(* what is taught, a decision that may still be committed was taken from   *)
(* the row it changes, and neither an operation that lost its session nor  *)
(* a request whose authentication is gone writes.                          *)
(***************************************************************************)
BasisOf(row) == <<row.teach, row.task, row.form>>

\* What a step may do to a session's row: nothing, a change of the lifecycle status
\* alone, a teaching mutation, or the start of the session.
RowStep(row, next) ==
    \/ next = row
    \/ /\ next.status \in Open /\ next.version = row.version
       /\ next.teach = row.teach /\ next.task = row.task /\ next.form = row.form
    \/ next.status # "NONE" /\ next.version = row.version + 1
    \/ row.status = "NONE" /\ next.status = "ACTIVE" /\ next.version = 1

\* A change of the lifecycle status alone is one step of a row.
LEMMA StatusStep ==
    ASSUME NEW row \in Row, NEW st \in Open
    PROVE  RowStep(row, WithStatus(row, st))
<1>1. /\ WithStatus(row, st).status = st /\ WithStatus(row, st).version = row.version
      /\ WithStatus(row, st).teach = row.teach /\ WithStatus(row, st).task = row.task
      /\ WithStatus(row, st).form = row.form
  BY DEF WithStatus, Row
<1> QED
  BY <1>1 DEF RowStep

\* So is any change with the version moved up by one.
LEMMA BumpStep ==
    ASSUME NEW row \in Row, NEW next \in Row, next.status # "NONE", next.version = row.version
    PROVE  RowStep(row, Bump(next))
<1>1. Bump(next).version = row.version + 1 /\ Bump(next).status # "NONE"
  BY RowHelpers
<1> QED
  BY <1>1 DEF RowStep

\* The commits of operations move the version of the row they write.
LEMMA CommitRowStep ==
    ASSUME TypeInv, NEW r \in Requests,
           \/ AnswerTaught(r) \/ AnswerBacktracks(r) \/ AnswerReturns(r) \/ Support(r)
           \/ AnswerCompletes(r)
    PROVE  \A s \in Sessions : RowStep(ses[s], ses'[s])
<1> DEFINE c == req[r].ses
<1>1. c \in Sessions /\ ses[c] \in Row /\ MayCommit(r, req[r].kind)
  BY CommittedRow, CompletedRow
<1>2. ses[c].status # "NONE"
  BY <1>1 DEF MayCommit, Open
<1>3. PICK row \in Row : /\ row.status # "NONE" /\ row.version = ses[c].version
                         /\ Commit(r, row)
  <2>1. CASE AnswerTaught(r) \/ AnswerBacktracks(r) \/ AnswerReturns(r) \/ Support(r)
    BY <1>2, <2>1, CommittedRow
  <2>2. CASE AnswerCompletes(r)
    BY <2>2, CompletedRow
  <2> QED
    BY <2>1, <2>2
<1>4. \A s \in Sessions : ses'[s] = IF s = c THEN Bump(row) ELSE ses[s]
  BY <1>3 DEF Commit, TypeInv, TypeOK
<1>5. RowStep(ses[c], Bump(row))
  BY <1>1, <1>3, BumpStep
<1> QED
  BY <1>4, <1>5 DEF RowStep

\* The one-transaction requests start a row, change its status, or move its version.
LEMMA LifecycleRowStep ==
    ASSUME TypeInv, NEW r \in Requests,
           Start(r) \/ Pause(r) \/ Resume(r) \/ Heartbeat(r) \/ VoiceReturn(r) \/ Abandon(r)
    PROVE  \A s \in Sessions : RowStep(ses[s], ses'[s])
<1> DEFINE c == req[r].ses
<1>1. CASE Start(r)
  <2>1. \/ UNCHANGED ses
        \/ \E s \in Sessions, b \in Blocks :
             ses[s].status = "NONE" /\ ses' = [ses EXCEPT ![s] = Started(b)]
    BY <1>1 DEF Start
  <2>2. \A b \in Blocks : Started(b).status = "ACTIVE" /\ Started(b).version = 1
    BY DEF Started
  <2> QED
    BY <2>1, <2>2 DEF RowStep, TypeInv, TypeOK
<1>2. ASSUME NEW kind \in {"PAUSE", "RESUME", "HEARTBEAT"}, NEW from \in Open, NEW to \in Open,
             Transition(r, kind, from, to)
      PROVE  \A s \in Sessions : RowStep(ses[s], ses'[s])
  <2>1. c \in Sessions /\ ses[c] \in Row
    BY <1>2, SteppedRequest DEF Transition
  <2>2. RowStep(ses[c], WithStatus(ses[c], to))
    BY <2>1, StatusStep
  <2>3. ses' = [ses EXCEPT ![c] = WithStatus(ses[c], to)] \/ UNCHANGED ses
    BY <1>2 DEF Transition
  <2>4. \A s \in Sessions : ses'[s] = ses[s] \/ (s = c /\ ses'[s] = WithStatus(ses[c], to))
    BY <2>3 DEF TypeInv, TypeOK
  <2> QED
    BY <2>2, <2>4 DEF RowStep
<1>3. CASE Pause(r) \/ Resume(r) \/ Heartbeat(r)
  BY <1>2, <1>3 DEF Pause, Resume, Heartbeat, Open
<1>4. ASSUME c \in Sessions, NEW row, row.status # "NONE",
             row.version = ses[c].version + 1, ses' = [ses EXCEPT ![c] = row]
      PROVE  \A s \in Sessions : RowStep(ses[s], ses'[s])
  <2>1. \A s \in Sessions : ses'[s] = IF s = c THEN row ELSE ses[s]
    BY <1>4 DEF TypeInv, TypeOK
  <2> QED
    BY <1>4, <2>1 DEF RowStep
<1>5. CASE VoiceReturn(r)
  <2> DEFINE row == Bump(Taught(ses[c], "RETURN", ses[c].task, ses[c].form))
  <2>1. c \in Sessions /\ ses[c] \in Row /\ ses[c].status # "NONE"
    BY <1>5, SteppedRequest DEF VoiceReturn
  <2>2. ses[c].task \in Tasks /\ ses[c].form \in Forms /\ "RETURN" \in Teach
    BY <2>1 DEF Row, Teach
  <2>3. row.status # "NONE" /\ row.version = ses[c].version + 1
    BY <2>1, <2>2, TurnedRow
  <2>4. ses' = [ses EXCEPT ![c] = row]
    BY <1>5 DEF VoiceReturn
  <2> HIDE DEF row
  <2> QED
    BY <1>4, <2>1, <2>3, <2>4
<1>6. CASE Abandon(r)
  <2>1. c \in Sessions /\ ses[c] \in Row
    BY <1>6, SteppedRequest DEF Abandon
  <2>2. Abandoned(c).status # "NONE" /\ Abandoned(c).version = ses[c].version + 1
    BY <2>1, AbandonedRow
  <2>3. ses' = [ses EXCEPT ![c] = Abandoned(c)]
    BY <1>6 DEF Abandon
  <2> QED
    BY <1>4, <2>1, <2>2, <2>3
<1> QED
  BY <1>1, <1>3, <1>5, <1>6

\* Recovery pauses rows or abandons them with the version moved.
LEMMA RecoveryRowStep ==
    ASSUME TypeOK, Recovery(StaleSessions, LostSessions)
    PROVE  \A s \in Sessions : RowStep(ses[s], ses'[s])
<1> SUFFICES ASSUME NEW s \in Sessions PROVE RowStep(ses[s], ses'[s])
  OBVIOUS
<1>1. ses[s] \in Row /\ "PAUSED" \in Open
  BY DEF TypeOK, Open
<1>2. ses'[s] \in {Abandoned(s), WithStatus(ses[s], "PAUSED"), ses[s]}
  BY DEF Recovery
<1>3. RowStep(ses[s], Abandoned(s))
  BY <1>1, AbandonedRow DEF RowStep
<1>4. RowStep(ses[s], WithStatus(ses[s], "PAUSED"))
  BY <1>1, StatusStep
<1>5. RowStep(ses[s], ses[s])
  BY DEF RowStep
<1> QED
  BY <1>2, <1>3, <1>4, <1>5

\* A logout and a parent's intervention move the version of what they touch.
LEMMA ActorsRowStep ==
    ASSUME TypeInv, ParentIntervention \/ \E a \in Auths : Logout(a)
    PROVE  \A s \in Sessions : RowStep(ses[s], ses'[s])
<1> SUFFICES ASSUME NEW s \in Sessions PROVE RowStep(ses[s], ses'[s])
  OBVIOUS
<1>1. ses[s] \in Row
  BY DEF TypeInv, TypeOK
<1>2. RowStep(ses[s], Bump(WithStatus(ses[s], "PAUSED")))
  BY <1>1, LoggedOutRow DEF RowStep
<1>3. ses[s].status # "NONE" => RowStep(ses[s], Bump(ses[s]))
  BY <1>1, BumpStep
<1>4. RowStep(ses[s], ses[s])
  BY DEF RowStep
<1>5. \/ ses'[s] = ses[s]
      \/ ses'[s] = Bump(WithStatus(ses[s], "PAUSED"))
      \/ ses[s].status # "NONE" /\ ses'[s] = Bump(ses[s])
  BY DEF ParentIntervention, Logout
<1> QED
  BY <1>2, <1>3, <1>4, <1>5

\* Every step of the classroom takes every row one RowStep further.
LEMMA RowSteps ==
    ASSUME TypeInv, [Next]_vars
    PROVE  \A s \in Sessions : RowStep(ses[s], ses'[s])
<1>1. CASE UNCHANGED ses
  BY <1>1 DEF RowStep
<1>2. TypeOK
  BY DEF TypeInv
<1>3. ASSUME NEW r \in Requests, Handle(r)
      PROVE  \A s \in Sessions : RowStep(ses[s], ses'[s])
  <2>1. CASE RecoverOwn(r)
    BY <1>2, <2>1, RecoveryRowStep DEF RecoverOwn
  <2>2. CASE \/ Arrive(r) \/ Refuse(r) \/ GiveUp(r) \/ End(r) \/ EndFails(r)
             \/ Check(r) \/ Begin(r) \/ Read(r) \/ Voice(r)
    BY <1>1, <2>2 DEF Arrive, Refuse, GiveUp, End, EndFails, Check, Begin, Read, Voice
  <2> QED
    BY <1>3, <2>1, <2>2, CommitRowStep, LifecycleRowStep DEF Handle
<1>4. CASE RecoverAll
  BY <1>2, <1>4, RecoveryRowStep DEF RecoverAll
<1>5. CASE \E a \in Auths : Logout(a) \/ AuthExpires(a)
  BY <1>1, <1>5, ActorsRowStep DEF AuthExpires
<1>6. CASE ParentIntervention \/ Crash \/ Tick
  BY <1>1, <1>6, ActorsRowStep DEF Crash, Tick
<1> QED
  BY <1>1, <1>3, <1>4, <1>5, <1>6 DEF Next, vars

-----------------------------------------------------------------------------
\* A session that has not been started is at version 0.
UnbornVersion == \A s \in Sessions : ses[s].status = "NONE" => ses[s].version = 0

\* No session has been started at first.
LEMMA UnbornInit == Init => UnbornVersion
BY DEF Init, UnbornVersion, Unborn

\* A row that is not started is at version 0 after any step.
LEMMA UnbornStep ==
    ASSUME TypeInv, UnbornVersion, [Next]_vars
    PROVE  UnbornVersion'
<1> SUFFICES ASSUME NEW s \in Sessions, ses'[s].status = "NONE" PROVE ses'[s].version = 0
  BY DEF UnbornVersion
<1>1. RowStep(ses[s], ses'[s])
  BY RowSteps
<1> QED
  BY <1>1 DEF RowStep, UnbornVersion, Open

\* The version never falls, and moves with what is taught and with the end.
LEMMA RowStepOrders ==
    ASSUME NEW row \in Row, NEW next \in Row, RowStep(row, next),
           row.status = "NONE" => row.version = 0
    PROVE  /\ next.version >= row.version
           /\ BasisOf(next) # BasisOf(row) \/ next.status \in Terminal \ {row.status}
                => next.version > row.version
<1>1. row.version \in Nat /\ next.version \in Nat
  BY DEF Row
<1> QED
  BY <1>1 DEF RowStep, BasisOf, Open, Terminal

\* VersionOrdersTeaching for one step and one session.
LEMMA VersionStep ==
    ASSUME TypeInv, UnbornVersion, [Next]_vars, NEW s \in Sessions
    PROVE  /\ ses'[s].version >= ses[s].version
           /\ BasisOf(ses'[s]) # BasisOf(ses[s]) \/ ses'[s].status \in Terminal \ {ses[s].status}
                => ses'[s].version > ses[s].version
<1>1. ses[s] \in Row /\ ses'[s] \in Row
  BY TypeStep DEF TypeInv, TypeOK
<1>2. RowStep(ses[s], ses'[s])
  BY RowSteps
<1>3. ses[s].status = "NONE" => ses[s].version = 0
  BY DEF UnbornVersion
<1> QED
  BY <1>1, <1>2, <1>3, RowStepOrders

\* docs/api/http.md: version orders teaching and terminal mutations, whatever
\* recoveries, logouts, interventions and operations race on the row.
THEOREM VersionOrdersTeachingHolds == Spec => VersionOrdersTeaching
<1>1. TypeInv /\ UnbornVersion /\ [Next]_vars =>
        [\A s \in Sessions :
          /\ ses'[s].version >= ses[s].version
          /\ (Basis(s))' # Basis(s) \/ ses'[s].status \in Terminal \ {ses[s].status}
               => ses'[s].version > ses[s].version]_vars
  BY VersionStep DEF Basis, BasisOf
<1> QED
  BY <1>1, TypeInit, TypeStep, UnbornInit, UnbornStep, PTL DEF Spec, VersionOrdersTeaching

-----------------------------------------------------------------------------
\* What a request has read is not newer than the row, and if the row still has the
\* version that was read it still teaches what was read.
BasisOfVersion ==
    \A r \in Requests :
        LET p == req[r].prep
            s == req[r].ses
        IN  p.basis # Null =>
              /\ s \in Sessions /\ p.ver \in Nat /\ p.ver <= ses[s].version
              /\ p.ver = ses[s].version => p.basis = BasisOf(ses[s])

\* No request has read anything at first.
LEMMA BasisInit == Init => BasisOfVersion
BY DEF Init, BasisOfVersion, Resting, Nothing

\* What a step may do to what a request has read.
ReadStep(r) ==
    \/ req'[r].prep.basis = Null
    \/ /\ req'[r].prep.basis = req[r].prep.basis /\ req'[r].prep.ver = req[r].prep.ver
       /\ req'[r].ses = req[r].ses
    \/ /\ req'[r].ses \in Sessions /\ UNCHANGED ses
       /\ req'[r].prep.basis = BasisOf(ses[req'[r].ses])
       /\ req'[r].prep.ver = ses[req'[r].ses].version

\* Read and Voice take the basis together with its version, from the row as it is.
LEMMA ReadingSteps ==
    ASSUME TypeInv, NEW r \in Requests, Read(r) \/ Voice(r)
    PROVE  ReadStep(r)
<1> DEFINE s == req[r].ses
<1>1. req[r] \in Request /\ s \in Sessions /\ ses[s] \in Row
  <2>1. req[r].pc \in Working
    BY DEF Read, Voice, Working
  <2> QED
    BY <2>1 DEF TypeInv, TypeOK, RequestShape, Working
<1>2. ses[s].version \in Nat /\ Basis(s) \in Teach \X Tasks \X Forms
  BY <1>1 DEF Row, Basis
<1>3. CASE Read(r)
  <2>1. PICK v \in Verdicts, next \in {"voice", "commit"} :
          req' = [req EXCEPT ![r] = At([@ EXCEPT !.prep =
            [ver |-> ses[s].version, basis |-> Basis(s), verdict |-> v, voice |-> Null]], next)]
    BY <1>3 DEF Read, Verdicts
  <2> DEFINE p == [ver |-> ses[s].version, basis |-> Basis(s), verdict |-> v, voice |-> Null]
             q == At([req[r] EXCEPT !.prep = p], next)
  <2>2. p \in Prepared
    BY <1>2 DEF Prepared
  <2>3. p.ver = ses[s].version /\ p.basis = BasisOf(ses[s])
    BY DEF Basis, BasisOf
  <2>4. req'[r] = q
    BY <2>1 DEF TypeInv, TypeOK
  <2> HIDE DEF p
  <2>5. q.prep = p /\ q.ses = s
    BY <1>1, <2>2, PreparedRequest DEF Steps
  <2> HIDE DEF q
  <2> QED
    BY <1>1, <1>3, <2>3, <2>4, <2>5 DEF ReadStep, Read
<1>4. CASE Voice(r)
  <2>1. PICK v \in {req[r].prep.verdict, Null, "VOICE_EXPLAIN"}, n \in {Null, ses[s].version} :
          req' = [req EXCEPT ![r] = At([@ EXCEPT !.prep =
            [ver |-> req[r].prep.ver, basis |-> req[r].prep.basis, verdict |-> v, voice |-> n]],
            "commit")]
    BY <1>4 DEF Voice
  <2> DEFINE p == [ver |-> req[r].prep.ver, basis |-> req[r].prep.basis, verdict |-> v,
                   voice |-> n]
             q == At([req[r] EXCEPT !.prep = p], "commit")
  <2>2. req[r].prep \in Prepared
    BY <1>1 DEF Request
  <2>3. p \in Prepared
    BY <1>2, <2>2 DEF Prepared, Verdicts
  <2>4. p.ver = req[r].prep.ver /\ p.basis = req[r].prep.basis
    OBVIOUS
  <2>5. req'[r] = q
    BY <2>1 DEF TypeInv, TypeOK
  <2> HIDE DEF p
  <2>6. q.prep = p /\ q.ses = s
    BY <1>1, <2>3, PreparedRequest DEF Steps
  <2> HIDE DEF q
  <2> QED
    BY <2>4, <2>5, <2>6 DEF ReadStep
<1> QED
  BY <1>3, <1>4

\* A request that rests, arrives, ends, moves on, is cut off or waits reads nothing.
LEMMA MovingSteps ==
    ASSUME TypeInv, NEW r \in Requests,
           \/ req'[r] = Resting
           \/ \E k, a, s : req'[r] = Admitted(k, a, s)
           \/ \E s : req'[r] = Done(s)
           \/ \E step \in Steps : req'[r] = At(req[r], step)
           \/ \E gone : req'[r] = Cut(gone)[r]
           \/ req'[r] = req[r]
    PROVE  ReadStep(r)
<1>1. /\ Resting.prep.basis = Null
      /\ \A k, a, s : Admitted(k, a, s).prep.basis = Null
      /\ \A s : Done(s).prep.basis = Null
  BY DEF Resting, Admitted, Done, Nothing
<1>2. \A step \in Steps : At(req[r], step).prep = req[r].prep /\ At(req[r], step).ses = req[r].ses
  BY AtRequest DEF TypeInv, TypeOK
<1>3. \A gone : Cut(gone)[r].prep = req[r].prep /\ Cut(gone)[r].ses = req[r].ses
  BY CutTypes DEF TypeInv
<1> QED
  BY <1>1, <1>2, <1>3 DEF ReadStep

\* The request that acts is the only one that moves; the others may be cut off.
LEMMA OthersWait ==
    ASSUME TypeInv, NEW r \in Requests, Handle(r), NEW o \in Requests \ {r}
    PROVE  req'[o] = req[o] \/ \E gone : req'[o] = Cut(gone)[o]
<1>1. ASSUME NEW q, req' = [req EXCEPT ![r] = q] PROVE req'[o] = req[o]
  BY <1>1 DEF TypeInv, TypeOK
<1>2. ASSUME NEW q, NEW gone, req' = [Cut(gone) EXCEPT ![r] = q] PROVE req'[o] = Cut(gone)[o]
  BY <1>2, CutTypes DEF TypeInv
<1>3. \/ \E q : req' = [req EXCEPT ![r] = q]
      \/ \E q, gone : req' = [Cut(gone) EXCEPT ![r] = q]
  <2>1. CASE RecoverOwn(r) \/ Abandon(r)
    BY <2>1 DEF RecoverOwn, Abandon
  <2>2. CASE Arrive(r) \/ Refuse(r) \/ GiveUp(r) \/ End(r) \/ EndFails(r) \/ Start(r)
    BY <2>2 DEF Arrive, Refuse, GiveUp, End, EndFails, Start
  <2>3. CASE Pause(r) \/ Resume(r) \/ Heartbeat(r) \/ VoiceReturn(r)
    BY <2>3 DEF Pause, Resume, Heartbeat, Transition, VoiceReturn
  <2>4. CASE Check(r) \/ Begin(r) \/ Read(r) \/ Voice(r)
    BY <2>4 DEF Check, Begin, Read, Voice
  <2>5. CASE AnswerTaught(r) \/ AnswerBacktracks(r) \/ AnswerReturns(r)
             \/ AnswerCompletes(r) \/ Support(r)
    BY <2>5 DEF AnswerTaught, AnswerBacktracks, AnswerReturns, AnswerCompletes, Support, Commit
  <2> QED
    BY <2>1, <2>2, <2>3, <2>4, <2>5 DEF Handle
<1> QED
  BY <1>1, <1>2, <1>3

\* Whatever the acting request does, it keeps, drops or freshly reads its basis.
LEMMA ActingSteps ==
    ASSUME TypeInv, NEW r \in Requests, Handle(r)
    PROVE  ReadStep(r)
<1>1. ASSUME NEW q, req' = [req EXCEPT ![r] = q] PROVE req'[r] = q
  BY <1>1 DEF TypeInv, TypeOK
<1>2. ASSUME NEW q, NEW gone, req' = [Cut(gone) EXCEPT ![r] = q] PROVE req'[r] = q
  BY <1>2, CutTypes DEF TypeInv
<1>3. CASE RecoverOwn(r)
  <2>1. \E step \in Steps : req' = [Cut(StaleSessions) EXCEPT ![r] = At(req[r], step)]
    BY <1>3 DEF RecoverOwn, Steps
  <2> QED
    BY <1>2, <2>1, MovingSteps
<1>4. CASE Abandon(r)
  BY <1>2, <1>4, MovingSteps DEF Abandon
<1>5. CASE Arrive(r) \/ Refuse(r) \/ GiveUp(r) \/ End(r) \/ EndFails(r) \/ Start(r)
  <2>1. \E q : /\ req' = [req EXCEPT ![r] = q]
               /\ \/ q = Resting
                  \/ \E k, a, s : q = Admitted(k, a, s)
                  \/ \E s : q = Done(s)
    BY <1>5 DEF Arrive, Refuse, GiveUp, End, EndFails, Start
  <2> QED
    BY <1>1, <2>1, MovingSteps
<1>6. CASE Pause(r) \/ Resume(r) \/ Heartbeat(r) \/ VoiceReturn(r)
  <2>1. req' = [req EXCEPT ![r] = Resting]
    BY <1>6 DEF Pause, Resume, Heartbeat, Transition, VoiceReturn
  <2> QED
    BY <1>1, <2>1, MovingSteps
<1>7. CASE Check(r) \/ Begin(r)
  <2>1. \E step \in Steps : req' = [req EXCEPT ![r] = At(req[r], step)]
    BY <1>7 DEF Check, Begin, Steps
  <2> QED
    BY <1>1, <2>1, MovingSteps
<1>8. CASE Read(r) \/ Voice(r)
  BY <1>8, ReadingSteps
<1>9. CASE AnswerTaught(r) \/ AnswerBacktracks(r) \/ AnswerReturns(r)
           \/ AnswerCompletes(r) \/ Support(r)
  <2>1. \E s : req' = [req EXCEPT ![r] = Done(s)]
    BY <1>9 DEF AnswerTaught, AnswerBacktracks, AnswerReturns, AnswerCompletes, Support, Commit
  <2> QED
    BY <1>1, <2>1, MovingSteps
<1> QED
  BY <1>3, <1>4, <1>5, <1>6, <1>7, <1>8, <1>9 DEF Handle

\* So does every request in any step of the classroom.
LEMMA ReadSteps ==
    ASSUME TypeInv, [Next]_vars, NEW o \in Requests
    PROVE  ReadStep(o)
<1>1. ASSUME NEW r \in Requests, Handle(r) PROVE ReadStep(o)
  BY <1>1, OthersWait, ActingSteps, MovingSteps
<1>2. CASE \/ \E a \in Auths : Logout(a) \/ AuthExpires(a)
           \/ RecoverAll \/ ParentIntervention \/ Crash \/ Tick \/ UNCHANGED vars
  <2>1. \/ UNCHANGED req
        \/ \E gone : req' = Cut(gone)
        \/ req' = [r \in Requests |-> Resting]
    BY <1>2 DEF Logout, AuthExpires, RecoverAll, ParentIntervention, Crash, Tick, vars
  <2> QED
    BY <2>1, MovingSteps
<1> QED
  BY <1>1, <1>2 DEF Next

\* The version a request has read determines the basis it has read, also after a step.
LEMMA BasisStep ==
    ASSUME TypeInv, UnbornVersion, BasisOfVersion, [Next]_vars
    PROVE  BasisOfVersion'
<1> SUFFICES ASSUME NEW r \in Requests, req'[r].prep.basis # Null
             PROVE  /\ req'[r].ses \in Sessions
                    /\ req'[r].prep.ver \in Nat
                    /\ req'[r].prep.ver <= ses'[req'[r].ses].version
                    /\ req'[r].prep.ver = ses'[req'[r].ses].version =>
                         req'[r].prep.basis = BasisOf(ses'[req'[r].ses])
  BY DEF BasisOfVersion, BasisOf
<1>1. ReadStep(r)
  BY ReadSteps
<1>2. \A s \in Sessions : ses[s].version \in Nat /\ ses'[s].version \in Nat
  <2>1. \A s \in Sessions : ses[s] \in Row /\ ses'[s] \in Row
    BY TypeStep DEF TypeInv, TypeOK
  <2> QED
    BY <2>1 DEF Row
<1>3. CASE /\ req'[r].prep.basis = req[r].prep.basis /\ req'[r].prep.ver = req[r].prep.ver
           /\ req'[r].ses = req[r].ses
  <2> DEFINE s == req[r].ses
  <2>1. /\ s \in Sessions /\ req[r].prep.ver \in Nat /\ req[r].prep.ver <= ses[s].version
        /\ req[r].prep.ver = ses[s].version => req[r].prep.basis = BasisOf(ses[s])
    BY <1>3 DEF BasisOfVersion
  <2>2. /\ ses'[s].version >= ses[s].version
        /\ BasisOf(ses'[s]) # BasisOf(ses[s]) => ses'[s].version > ses[s].version
    BY <2>1, VersionStep
  <2> QED
    BY <1>2, <1>3, <2>1, <2>2
<1>4. CASE /\ req'[r].ses \in Sessions /\ UNCHANGED ses
           /\ req'[r].prep.basis = BasisOf(ses[req'[r].ses])
           /\ req'[r].prep.ver = ses[req'[r].ses].version
  BY <1>2, <1>4
<1> QED
  BY <1>1, <1>3, <1>4 DEF ReadStep

\* A decision that may still be committed was taken from the row it is about to change:
\* the version check of the commit stands for a comparison of everything that was read.
THEOREM FreshBasisHolds == Spec => []FreshBasis
<1>1. BasisOfVersion => FreshBasis
  <2> SUFFICES ASSUME BasisOfVersion, NEW r \in Requests, req[r].pc = "commit",
                      req[r].prep.basis # Null, MayCommit(r, req[r].kind)
               PROVE  req[r].prep.basis = Basis(req[r].ses)
    BY DEF FreshBasis
  <2>1. req[r].prep.ver \in Nat
    BY DEF BasisOfVersion
  <2>2. req[r].prep.ver = ses[req[r].ses].version
    BY <2>1, VersionAssumption DEF MayCommit
  <2> QED
    BY <2>2 DEF BasisOfVersion, Basis, BasisOf
<1> QED
  BY <1>1, TypeInit, TypeStep, UnbornInit, UnbornStep, BasisInit, BasisStep, PTL DEF Spec

-----------------------------------------------------------------------------
\* What moves a request on, if it is at work: one of its own steps, or a crash.
LEMMA MovesItself ==
    ASSUME TypeInv, [Next]_vars, NEW r \in Requests, req'[r].pc # req[r].pc
    PROVE  Handle(r) \/ Crash
<1>1. ASSUME NEW o \in Requests, Handle(o), o # r PROVE FALSE
  <2>1. req'[r] = req[r] \/ \E gone : req'[r] = Cut(gone)[r]
    BY <1>1, OthersWait
  <2> QED
    BY <2>1, CutTypes DEF TypeInv
<1>2. CASE \/ \E a \in Auths : Logout(a) \/ AuthExpires(a)
           \/ RecoverAll \/ ParentIntervention \/ Tick \/ UNCHANGED vars
  <2>1. UNCHANGED req \/ \E gone : req' = Cut(gone)
    BY <1>2 DEF Logout, AuthExpires, RecoverAll, ParentIntervention, Tick, vars
  <2> QED
    BY <2>1, CutTypes DEF TypeInv
<1> QED
  BY <1>1, <1>2 DEF Next

\* An operation cut off by a logout, a recovery or an abandonment never writes to a
\* session again, whoever holds the lease now.
THEOREM CutNeverCommitsHolds == Spec => CutNeverCommits
<1>1. TypeInv /\ LeaseInv /\ [Next]_vars =>
        [\A r \in Requests : req[r].cut /\ req'[r].pc # req[r].pc => ses' = ses]_vars
  <2> SUFFICES ASSUME TypeInv, LeaseInv, [Next]_vars, NEW r \in Requests,
                      req[r].cut, req'[r].pc # req[r].pc
               PROVE  ses' = ses
    OBVIOUS
  <2>1. req[r].pc \in Working /\ ~Holds(r)
    BY DEF LeaseInv, CutLost, Holds
  <2>2. CASE Handle(r)
    <3>1. CASE GiveUp(r)
      BY <3>1 DEF GiveUp
    <3>2. CASE \/ Arrive(r) \/ RecoverOwn(r) \/ Refuse(r) \/ End(r) \/ EndFails(r) \/ Start(r)
               \/ Pause(r) \/ Resume(r) \/ Heartbeat(r) \/ Abandon(r) \/ VoiceReturn(r)
               \/ Check(r) \/ Begin(r)
      BY <2>1, <3>2 DEF Working, Arrive, RecoverOwn, Refuse, End, EndFails, Start, Pause, Resume,
         Heartbeat, Transition, Abandon, VoiceReturn, Check, Begin
    <3>3. CASE \/ Read(r) \/ Voice(r) \/ AnswerTaught(r) \/ AnswerBacktracks(r)
               \/ AnswerReturns(r) \/ AnswerCompletes(r) \/ Support(r)
      BY <2>1, <3>3 DEF Read, Voice, AnswerTaught, AnswerBacktracks, AnswerReturns,
         AnswerCompletes, Support, Answered, MayCommit
    <3> QED
      BY <2>2, <3>1, <3>2, <3>3 DEF Handle
  <2>3. CASE Crash
    BY <2>3 DEF Crash
  <2> QED
    BY <2>2, <2>3, MovesItself
<1> QED
  BY <1>1, TypeInit, TypeStep, LeaseInit, LeaseStep, PTL DEF Spec, CutNeverCommits

\* A request whose authentication was revoked after the middleware let it in writes
\* nothing: every writing transaction but that of ReturnFromVoice locks the row again.
THEOREM RevokedWritesNothingHolds == Spec => RevokedWritesNothing
<1>1. TypeInv /\ [Next]_vars =>
        [\A r \in Requests :
           /\ req[r].auth # Null /\ ~Authentic(r) /\ req[r].kind # "VOICE_RETURN"
           /\ req'[r].pc # req[r].pc
           => ses' = ses /\ blk' = blk]_vars
  <2> SUFFICES ASSUME TypeInv, [Next]_vars, NEW r \in Requests,
                      ~Authentic(r), req[r].kind # "VOICE_RETURN", req'[r].pc # req[r].pc
               PROVE  ses' = ses /\ blk' = blk
    OBVIOUS
  <2>1. CASE Handle(r)
    <3>1. CASE \/ RecoverOwn(r) \/ Start(r) \/ Pause(r) \/ Resume(r) \/ Heartbeat(r)
               \/ Abandon(r) \/ Begin(r) \/ VoiceReturn(r)
      BY <3>1 DEF RecoverOwn, Start, Pause, Resume, Heartbeat, Transition, Abandon, Begin,
         VoiceReturn
    <3>2. CASE \/ AnswerTaught(r) \/ AnswerBacktracks(r) \/ AnswerReturns(r)
               \/ AnswerCompletes(r) \/ Support(r)
      BY <3>2 DEF AnswerTaught, AnswerBacktracks, AnswerReturns, AnswerCompletes, Support,
         Answered, MayCommit
    <3>3. CASE \/ Arrive(r) \/ Refuse(r) \/ GiveUp(r) \/ End(r) \/ EndFails(r)
               \/ Check(r) \/ Read(r) \/ Voice(r)
      BY <3>3 DEF Arrive, Refuse, GiveUp, End, EndFails, Check, Read, Voice
    <3> QED
      BY <2>1, <3>1, <3>2, <3>3 DEF Handle
  <2>2. CASE Crash
    BY <2>2 DEF Crash
  <2> QED
    BY <2>1, <2>2, MovesItself
<1> QED
  BY <1>1, TypeInit, TypeStep, PTL DEF Spec, RevokedWritesNothing
=============================================================================
