--------------------------- MODULE ClassroomProofs ---------------------------
(***************************************************************************)
(* Theorems about the classroom for any number of sessions, blocks,        *)
(* requests and devices, any clients and any time limits.                  *)
(***************************************************************************)
EXTENDS Classroom, TLAPS

\* The shape of a request: past its recovery step a request that is not a START
\* names a session that exists, and only an operation reaches the steps of one.
RequestShape ==
    \A r \in Requests :
        /\ req[r].pc # "idle" /\ req[r].kind # "START" =>
             /\ req[r].ses \in Sessions
             /\ ses[req[r].ses].status # "NONE"
        /\ req[r].pc \in {"check", "begin"} \cup Working => req[r].kind \in {"SUBMIT", "SUPPORT"}
        /\ req[r].pc = "end" => req[r].kind = "NONE"
        /\ req[r].pc \in {"recover", "apply"} => req[r].kind \in AllKinds

TypeInv == TypeOK /\ RequestShape

USE BlocksAssumption, KindsAssumption, TimeAssumption, BoundsAssumption, NullAssumption

\* The rows and requests the actions write are rows and requests.
LEMMA WrittenTypes ==
    /\ Unborn \in Row
    /\ Resting \in Request
    /\ Free \in [token : Requests \cup {Null, Orphan}, left : 0 .. LeaseTime]
    /\ \A s \in Sessions : Done(s) \in Request
    /\ \A k \in AllKinds, a \in Auths, s \in Sessions \cup {Null} : Admitted(k, a, s) \in Request
    /\ \A b \in Blocks : Started(b) \in Row
<1>1. Unborn \in Row
  BY DEF Unborn, Row, Teach, Tasks, Forms
<1>2. Nothing \in Prepared
  BY DEF Nothing, Prepared
<1>3. Resting \in Request
  BY <1>2 DEF Resting, Request, Steps
<1>4. Free \in [token : Requests \cup {Null, Orphan}, left : 0 .. LeaseTime]
  BY DEF Free
<1>5. \A s \in Sessions : Done(s) \in Request
  BY <1>2 DEF Done, Request, Steps
<1>6. \A k \in AllKinds, a \in Auths, s \in Sessions \cup {Null} : Admitted(k, a, s) \in Request
  BY <1>2 DEF Admitted, Request, Steps
<1>7. \A b \in Blocks : Started(b) \in Row
  BY DEF Started, Row, Open, Teach, Tasks, Forms
<1> QED
  BY <1>1, <1>3, <1>4, <1>5, <1>6, <1>7

\* What the row helpers return for a row.
LEMMA RowHelpers ==
    ASSUME NEW row \in Row
    PROVE  /\ Bump(row) \in Row
           /\ Bump(row).version = row.version + 1
           /\ Bump(row).status = row.status /\ Bump(row).block = row.block
           /\ \A st \in Open \cup Terminal :
                /\ WithStatus(row, st) \in Row
                /\ WithStatus(row, st).status = st
                /\ WithStatus(row, st).block = row.block
                /\ WithStatus(row, st).version = row.version
           /\ \A t \in Teach, k \in Tasks, f \in Forms :
                /\ Taught(row, t, k, f) \in Row
                /\ Taught(row, t, k, f).status = row.status
                /\ Taught(row, t, k, f).block = row.block
                /\ Taught(row, t, k, f).version = row.version
<1>1. /\ Bump(row) \in Row
      /\ Bump(row).version = row.version + 1
      /\ Bump(row).status = row.status /\ Bump(row).block = row.block
  BY DEF Bump, Row
<1>2. ASSUME NEW st \in Open \cup Terminal
      PROVE  /\ WithStatus(row, st) \in Row
             /\ WithStatus(row, st).status = st
             /\ WithStatus(row, st).block = row.block
             /\ WithStatus(row, st).version = row.version
  BY DEF Row, WithStatus
<1>3. ASSUME NEW t \in Teach, NEW k \in Tasks, NEW f \in Forms
      PROVE  /\ Taught(row, t, k, f) \in Row
             /\ Taught(row, t, k, f).status = row.status
             /\ Taught(row, t, k, f).block = row.block
             /\ Taught(row, t, k, f).version = row.version
  BY DEF Taught, Row
<1> QED
  BY <1>1, <1>2, <1>3

\* A request at another step is a request that differs only there.
LEMMA AtRequest ==
    ASSUME NEW q \in Request, NEW step \in Steps
    PROVE  /\ At(q, step) \in Request /\ At(q, step).pc = step
           /\ At(q, step).kind = q.kind /\ At(q, step).ses = q.ses /\ At(q, step).auth = q.auth
           /\ At(q, step).prep = q.prep /\ (At(q, step).cut = q.cut)
BY DEF At, Request

\* So is one that is marked as cut off.
LEMMA CutRequest ==
    ASSUME NEW q \in Request
    PROVE  LET next == [q EXCEPT !.cut = TRUE] IN
           /\ next \in Request /\ next.cut = TRUE
           /\ next.pc = q.pc /\ next.kind = q.kind /\ next.ses = q.ses /\ next.auth = q.auth
           /\ next.prep = q.prep
BY DEF Request

\* And one that has prepared a decision and goes on.
LEMMA PreparedRequest ==
    ASSUME NEW q \in Request, NEW p \in Prepared, NEW step \in Steps
    PROVE  LET next == At([q EXCEPT !.prep = p], step) IN
           /\ next \in Request /\ next.pc = step /\ next.prep = p
           /\ next.kind = q.kind /\ next.ses = q.ses /\ next.auth = q.auth
           /\ (next.cut = q.cut)
<1> DEFINE read == [q EXCEPT !.prep = p]
<1>1. /\ read \in Request /\ read.prep = p
      /\ read.kind = q.kind /\ read.ses = q.ses /\ read.auth = q.auth /\ (read.cut = q.cut)
  BY DEF Request
<1> HIDE DEF read
<1>2. /\ At(read, step) \in Request /\ At(read, step).pc = step /\ At(read, step).prep = p
      /\ At(read, step).kind = q.kind /\ At(read, step).ses = q.ses
      /\ At(read, step).auth = q.auth /\ (At(read, step).cut = q.cut)
  BY <1>1, AtRequest
<1> QED
  BY <1>2 DEF read

\* A teaching mutation keeps status and block and moves the version.
LEMMA TurnedRow ==
    ASSUME NEW row \in Row, NEW t \in Teach, NEW k \in Tasks, NEW f \in Forms
    PROVE  LET turned == Bump(Taught(row, t, k, f)) IN
           /\ turned \in Row /\ turned.status = row.status /\ turned.block = row.block
           /\ turned.version = row.version + 1
<1> DEFINE taught == Taught(row, t, k, f)
<1>1. /\ taught \in Row /\ taught.status = row.status /\ taught.block = row.block
      /\ taught.version = row.version
  BY RowHelpers
<1> HIDE DEF taught
<1>2. /\ Bump(taught) \in Row /\ Bump(taught).status = taught.status
      /\ Bump(taught).block = taught.block /\ Bump(taught).version = taught.version + 1
  BY <1>1, RowHelpers
<1> QED
  BY <1>1, <1>2 DEF taught

\* The initial state is well typed and no request has begun.
THEOREM TypeInit == Init => TypeInv
<1> SUFFICES ASSUME Init PROVE TypeInv
  OBVIOUS
<1>1. TypeOK
  BY WrittenTypes DEF Init, TypeOK
<1>2. RequestShape
  BY DEF Init, RequestShape, Resting, Working
<1> QED
  BY <1>1, <1>2 DEF TypeInv

\* Cutting requests off changes nothing but their history.
LEMMA CutTypes ==
    ASSUME TypeOK, NEW gone
    PROVE  /\ Cut(gone) \in [Requests -> Request]
           /\ \A r \in Requests :
                /\ Cut(gone)[r].pc = req[r].pc /\ Cut(gone)[r].kind = req[r].kind
                /\ Cut(gone)[r].ses = req[r].ses /\ Cut(gone)[r].auth = req[r].auth
                /\ Cut(gone)[r].prep = req[r].prep
<1>1. ASSUME NEW r \in Requests
      PROVE  /\ Cut(gone)[r] \in Request
             /\ Cut(gone)[r].pc = req[r].pc /\ Cut(gone)[r].kind = req[r].kind
             /\ Cut(gone)[r].ses = req[r].ses /\ Cut(gone)[r].auth = req[r].auth
             /\ Cut(gone)[r].prep = req[r].prep
  <2> DEFINE marked == [req[r] EXCEPT !.cut = TRUE]
  <2>1. req[r] \in Request
    BY DEF TypeOK
  <2>2. /\ marked \in Request
        /\ marked.pc = req[r].pc /\ marked.kind = req[r].kind
        /\ marked.ses = req[r].ses /\ marked.auth = req[r].auth /\ marked.prep = req[r].prep
    BY <2>1, CutRequest
  <2>3. Cut(gone)[r] = req[r] \/ Cut(gone)[r] = marked
    BY DEF Cut
  <2> HIDE DEF marked
  <2> QED
    BY <2>1, <2>2, <2>3
<1>2. Cut(gone) \in [Requests -> Request]
  BY <1>1 DEF Cut
<1> QED
  BY <1>1, <1>2

\* Release writes block states and takes queue items away.
LEMMA ReleaseTypes ==
    ASSUME TypeOK, NEW gone \in SUBSET Sessions, Release(gone)
    PROVE  /\ blk' \in [Blocks -> {"AVAILABLE", "ACTIVE", "COMPLETED"}]
           /\ pending' \subseteq Items
BY DEF TypeOK, Release

\* What Abandoned returns for a row.
LEMMA AbandonedRow ==
    ASSUME NEW s \in Sessions, ses[s] \in Row
    PROVE  /\ Abandoned(s) \in Row
           /\ Abandoned(s).status = "ABANDONED" /\ Abandoned(s).block = ses[s].block
           /\ Abandoned(s).version = ses[s].version + 1
BY RowHelpers DEF Abandoned, Terminal

\* A recovery transaction writes rows, blocks and leases of their types.
LEMMA RecoveryTypes ==
    ASSUME TypeOK, Recovery(StaleSessions, LostSessions)
    PROVE  /\ blk' \in [Blocks -> {"AVAILABLE", "ACTIVE", "COMPLETED"}]
           /\ pending' \subseteq Items
           /\ ses' \in [Sessions -> Row]
           /\ lease' \in [Sessions -> [token : Requests \cup {Null, Orphan}, left : 0 .. LeaseTime]]
           /\ \A s \in Sessions : ses[s].status # "NONE" => ses'[s].status # "NONE"
<1>1. LostSessions \in SUBSET Sessions
  BY DEF LostSessions, StaleSessions
<1>2. \A s \in Sessions : /\ Abandoned(s) \in Row /\ Abandoned(s).status = "ABANDONED"
                           /\ WithStatus(ses[s], "PAUSED") \in Row
                           /\ WithStatus(ses[s], "PAUSED").status = "PAUSED"
  <2> SUFFICES ASSUME NEW s \in Sessions
               PROVE  /\ Abandoned(s) \in Row /\ Abandoned(s).status = "ABANDONED"
                      /\ WithStatus(ses[s], "PAUSED") \in Row
                      /\ WithStatus(ses[s], "PAUSED").status = "PAUSED"
    OBVIOUS
  <2>1. ses[s] \in Row /\ "PAUSED" \in Open \cup Terminal
    BY DEF TypeOK, Open
  <2>2. Abandoned(s) \in Row /\ Abandoned(s).status = "ABANDONED"
    BY <2>1, AbandonedRow
  <2>3. WithStatus(ses[s], "PAUSED") \in Row /\ WithStatus(ses[s], "PAUSED").status = "PAUSED"
    BY <2>1, RowHelpers
  <2> QED
    BY <2>2, <2>3
<1>3. ses' \in [Sessions -> Row]
  <2>1. ASSUME NEW s \in Sessions PROVE ses'[s] \in Row
    BY <1>2 DEF TypeOK, Recovery
  <2> QED
    BY <2>1 DEF Recovery
<1>4. \A s \in Sessions : ses[s].status # "NONE" => ses'[s].status # "NONE"
  BY <1>2 DEF Recovery
<1>5. lease' \in [Sessions -> [token : Requests \cup {Null, Orphan}, left : 0 .. LeaseTime]]
  BY WrittenTypes DEF TypeOK, Recovery
<1>6. Release(LostSessions)
  BY DEF Recovery
<1> QED
  BY <1>1, <1>3, <1>4, <1>5, <1>6, ReleaseTypes

\* A step of one request that keeps its shape, and un-starts no session, keeps all shapes.
LEMMA RequestStep ==
    ASSUME TypeInv, NEW r \in Requests, NEW q \in Request, req' = [req EXCEPT ![r] = q],
           \A s \in Sessions : ses[s].status # "NONE" => ses'[s].status # "NONE",
           q.pc # "idle" /\ q.kind # "START" => q.ses \in Sessions /\ ses[q.ses].status # "NONE",
           q.pc \in {"check", "begin"} \cup Working => q.kind \in {"SUBMIT", "SUPPORT"},
           q.pc = "end" => q.kind = "NONE",
           q.pc \in {"recover", "apply"} => q.kind \in AllKinds
    PROVE  req' \in [Requests -> Request] /\ RequestShape'
BY DEF TypeInv, TypeOK, RequestShape

\* The types of the variables that the teaching rows and the requests leave alone.
LEMMA SteppedRequest ==
    ASSUME TypeInv, NEW r \in Requests
    PROVE  /\ req[r] \in Request
           /\ req[r].pc # "idle" /\ req[r].kind # "START" =>
                req[r].ses \in Sessions /\ ses[req[r].ses] \in Row /\ ses[req[r].ses].status # "NONE"
           /\ \A step \in Steps :
                /\ At(req[r], step) \in Request /\ At(req[r], step).pc = step
                /\ At(req[r], step).kind = req[r].kind /\ At(req[r], step).ses = req[r].ses
<1>1. req[r] \in Request
  BY DEF TypeInv, TypeOK
<1>2. req[r].pc # "idle" /\ req[r].kind # "START" =>
        req[r].ses \in Sessions /\ ses[req[r].ses] \in Row /\ ses[req[r].ses].status # "NONE"
  BY DEF TypeInv, TypeOK, RequestShape
<1> QED
  BY <1>1, <1>2, AtRequest

\* An operation that ends goes to its clean-up.
LEMMA DoneStep ==
    ASSUME TypeInv, NEW r \in Requests, req[r].pc \in Working,
           req' = [req EXCEPT ![r] = Done(req[r].ses)],
           \A s \in Sessions : ses[s].status # "NONE" => ses'[s].status # "NONE"
    PROVE  req' \in [Requests -> Request] /\ RequestShape'
<1> DEFINE q == Done(req[r].ses)
<1>1. req[r].ses \in Sessions /\ ses[req[r].ses].status # "NONE"
  BY DEF TypeInv, RequestShape, Working
<1>2. q \in Request
  BY <1>1, WrittenTypes
<1>3. q.pc = "end" /\ q.kind = "NONE" /\ q.ses = req[r].ses
  BY DEF Done
<1> HIDE DEF q
<1> QED
  BY <1>1, <1>2, <1>3, RequestStep DEF q, Working

\* A request that is over is at rest again.
LEMMA RestStep ==
    ASSUME TypeInv, NEW r \in Requests, req' = [req EXCEPT ![r] = Resting],
           \A s \in Sessions : ses[s].status # "NONE" => ses'[s].status # "NONE"
    PROVE  req' \in [Requests -> Request] /\ RequestShape'
<1>1. Resting \in Request /\ Resting.pc = "idle"
  BY WrittenTypes DEF Resting
<1> QED
  BY <1>1, RequestStep DEF Working

\* Cutting requests off keeps their type and shape.
LEMMA CutStep ==
    ASSUME TypeInv, NEW gone, req' = Cut(gone),
           \A s \in Sessions : ses[s].status # "NONE" => ses'[s].status # "NONE"
    PROVE  req' \in [Requests -> Request] /\ RequestShape'
<1>1. TypeOK
  BY DEF TypeInv
<1>2. RequestShape'
  BY <1>1, CutTypes DEF RequestShape, TypeInv
<1> QED
  BY <1>1, <1>2, CutTypes

\* As CutStep, when the request r that does it moves on.
LEMMA CutRequestStep ==
    ASSUME TypeInv, NEW gone, NEW r \in Requests, NEW q \in Request,
           req' = [Cut(gone) EXCEPT ![r] = q],
           \A s \in Sessions : ses[s].status # "NONE" => ses'[s].status # "NONE",
           q.pc # "idle" /\ q.kind # "START" => q.ses \in Sessions /\ ses[q.ses].status # "NONE",
           q.pc \in {"check", "begin"} \cup Working => q.kind \in {"SUBMIT", "SUPPORT"},
           q.pc = "end" => q.kind = "NONE",
           q.pc \in {"recover", "apply"} => q.kind \in AllKinds
    PROVE  req' \in [Requests -> Request] /\ RequestShape'
<1>1. TypeOK
  BY DEF TypeInv
<1>2. req' \in [Requests -> Request]
  BY <1>1, CutTypes
<1>3. \A o \in Requests : o # r => /\ req'[o].pc = req[o].pc /\ req'[o].kind = req[o].kind
                                   /\ req'[o].ses = req[o].ses
  BY <1>1, CutTypes
<1>4. req'[r] = q
  BY <1>1, CutTypes
<1>5. RequestShape'
  <2> SUFFICES ASSUME NEW o \in Requests
               PROVE  /\ req'[o].pc # "idle" /\ req'[o].kind # "START" =>
                           /\ req'[o].ses \in Sessions
                           /\ ses'[req'[o].ses].status # "NONE"
                      /\ req'[o].pc \in {"check", "begin"} \cup Working =>
                           req'[o].kind \in {"SUBMIT", "SUPPORT"}
                      /\ req'[o].pc = "end" => req'[o].kind = "NONE"
                      /\ req'[o].pc \in {"recover", "apply"} => req'[o].kind \in AllKinds
    BY DEF RequestShape
  <2>1. CASE o = r
    BY <2>1, <1>4
  <2>2. CASE o # r
    BY <2>2, <1>3 DEF TypeInv, RequestShape
  <2> QED
    BY <2>1, <2>2
<1> QED
  BY <1>2, <1>5

\* The commit of an operation writes a row and leaves for the clean-up.
LEMMA CommitTypes ==
    ASSUME TypeInv, NEW r \in Requests, req[r].pc = "commit", NEW row \in Row,
           row.status # "NONE", Commit(r, row)
    PROVE  /\ ses' \in [Sessions -> Row]
           /\ lease' \in [Sessions -> [token : Requests \cup {Null, Orphan}, left : 0 .. LeaseTime]]
           /\ idle' \in [Sessions -> 0 .. AbandonAfter]
           /\ req' \in [Requests -> Request]
           /\ RequestShape'
<1>1. req[r].ses \in Sessions
  BY DEF TypeInv, RequestShape, Working
<1>2. Bump(row) \in Row /\ Bump(row).status # "NONE"
  BY RowHelpers
<1>3. ses' \in [Sessions -> Row]
  BY <1>1, <1>2 DEF Commit, TypeInv, TypeOK
<1>4. \A s \in Sessions : ses[s].status # "NONE" => ses'[s].status # "NONE"
  BY <1>1, <1>2 DEF Commit, TypeInv, TypeOK
<1>5. lease' \in [Sessions -> [token : Requests \cup {Null, Orphan}, left : 0 .. LeaseTime]]
  BY WrittenTypes DEF Commit, TypeInv, TypeOK
<1>6. idle' \in [Sessions -> 0 .. AbandonAfter]
  <2> DEFINE next == IF ses[req[r].ses].status = "ACTIVE" THEN 0 ELSE idle[req[r].ses]
  <2>1. idle \in [Sessions -> 0 .. AbandonAfter]
    BY DEF TypeInv, TypeOK
  <2>2. next \in 0 .. AbandonAfter
    BY <1>1, <2>1
  <2>3. idle' = [idle EXCEPT ![req[r].ses] = next]
    BY DEF Commit
  <2> HIDE DEF next
  <2> QED
    BY <2>1, <2>2, <2>3
<1>7. req' = [req EXCEPT ![r] = Done(req[r].ses)]
  BY DEF Commit
<1> QED
  BY <1>3, <1>4, <1>5, <1>6, <1>7, DoneStep DEF Working

\* Every step keeps the types: requests that arrive, stop and end.
LEMMA TypeRequests ==
    ASSUME TypeInv, NEW r \in Requests,
           Arrive(r) \/ Refuse(r) \/ GiveUp(r) \/ End(r) \/ EndFails(r)
    PROVE  TypeInv'
<1> USE DEF TypeInv
<1>1. CASE Arrive(r)
  <2>1. PICK k \in Kinds, a \in Live, s \in Sessions \cup {Null} :
          /\ IF k = "START" THEN s = Null ELSE s # Null /\ ses[s].status # "NONE"
          /\ req' = [req EXCEPT ![r] = Admitted(k, a, s)]
    BY <1>1 DEF Arrive
  <2> DEFINE q == Admitted(k, a, s)
  <2>2. k \in AllKinds /\ a \in Auths
    BY KindsAssumption DEF Live
  <2>3. q \in Request
    BY <2>2, WrittenTypes
  <2>4. q.pc = "recover" /\ q.kind = k /\ q.ses = s
    BY DEF Admitted
  <2> HIDE DEF q
  <2>5. req' = [req EXCEPT ![r] = q]
    BY <2>1 DEF q
  <2>6. /\ UNCHANGED ses
        /\ k = "START" => s = Null
        /\ k # "START" => s # Null /\ ses[s].status # "NONE"
    BY <1>1, <2>1 DEF Arrive
  <2>7. req' \in [Requests -> Request] /\ RequestShape'
    BY <2>1, <2>2, <2>3, <2>4, <2>5, <2>6, RequestStep DEF Working
  <2> QED
    BY <1>1, <2>7 DEF Arrive, TypeOK
<1>2. CASE Refuse(r)
  <2>1. req' \in [Requests -> Request] /\ RequestShape'
    BY <1>2, RestStep DEF Refuse
  <2> QED
    BY <1>2, <2>1 DEF Refuse, TypeOK
<1>3. CASE GiveUp(r)
  <2>1. req' \in [Requests -> Request] /\ RequestShape'
    BY <1>3, DoneStep DEF GiveUp
  <2> QED
    BY <1>3, <2>1 DEF GiveUp, TypeOK
<1>4. CASE End(r)
  <2>1. req' \in [Requests -> Request] /\ RequestShape'
    BY <1>4, RestStep DEF End
  <2>2. lease' \in [Sessions -> [token : Requests \cup {Null, Orphan}, left : 0 .. LeaseTime]]
    BY <1>4, WrittenTypes DEF End, TypeOK
  <2> QED
    BY <1>4, <2>1, <2>2 DEF End, TypeOK
<1>5. CASE EndFails(r)
  <2>1. req' \in [Requests -> Request] /\ RequestShape'
    BY <1>5, RestStep DEF EndFails
  <2>2. lease' \in [Sessions -> [token : Requests \cup {Null, Orphan}, left : 0 .. LeaseTime]]
    <3> DEFINE left == [lease[req[r].ses] EXCEPT !.token = Orphan]
    <3>1. lease \in [Sessions -> [token : Requests \cup {Null, Orphan}, left : 0 .. LeaseTime]]
      BY DEF TypeOK
    <3>2. req[r].ses \in Sessions =>
            left \in [token : Requests \cup {Null, Orphan}, left : 0 .. LeaseTime]
      BY <3>1
    <3>3. lease' = [lease EXCEPT ![req[r].ses] = left]
      BY <1>5 DEF EndFails
    <3> HIDE DEF left
    <3> QED
      BY <3>1, <3>2, <3>3
  <2> QED
    BY <1>5, <2>1, <2>2 DEF EndFails, TypeOK
<1> QED
  BY <1>1, <1>2, <1>3, <1>4, <1>5

\* Both recoveries keep the types.
LEMMA TypeRecovery ==
    ASSUME TypeInv, RecoverAll \/ \E r \in Requests : RecoverOwn(r)
    PROVE  TypeInv'
<1> USE DEF TypeInv
<1>1. CASE RecoverAll
  <2>1. Recovery(StaleSessions, LostSessions)
    BY <1>1 DEF RecoverAll
  <2>2. req' \in [Requests -> Request] /\ RequestShape'
    BY <1>1, <2>1, RecoveryTypes, CutStep DEF RecoverAll
  <2> QED
    BY <1>1, <2>1, <2>2, RecoveryTypes DEF RecoverAll, TypeOK
<1>2. ASSUME NEW r \in Requests, RecoverOwn(r) PROVE TypeInv'
  <2>1. Recovery(StaleSessions, LostSessions)
    BY <1>2 DEF RecoverOwn
  <2>2. PICK next \in {"check", "begin", "apply"} :
          /\ req' = [Cut(StaleSessions) EXCEPT ![r] = At(req[r], next)]
          /\ next \in {"check", "begin"} => req[r].kind \in {"SUBMIT", "SUPPORT"}
    BY <1>2 DEF RecoverOwn
  <2>3. req[r].pc = "recover" /\ req[r].kind \in AllKinds
    BY <1>2 DEF RecoverOwn, RequestShape
  <2>4. next \in Steps
    BY DEF Steps
  <2>5. /\ At(req[r], next) \in Request /\ At(req[r], next).pc = next
        /\ At(req[r], next).kind = req[r].kind /\ At(req[r], next).ses = req[r].ses
        /\ req[r].kind # "START" => req[r].ses \in Sessions /\ ses[req[r].ses].status # "NONE"
    BY <2>3, <2>4, SteppedRequest
  <2>6. \A s \in Sessions : ses[s].status # "NONE" => ses'[s].status # "NONE"
    BY <2>1, RecoveryTypes
  <2> DEFINE q == At(req[r], next)
  <2> HIDE DEF q
  <2>7. req' \in [Requests -> Request] /\ RequestShape'
    BY <2>2, <2>3, <2>5, <2>6, CutRequestStep DEF q, Working
  <2> QED
    BY <1>2, <2>1, <2>7, RecoveryTypes DEF RecoverOwn, TypeOK
<1> QED
  BY <1>1, <1>2

\* A request of one transaction rests afterwards.
LEMMA TypeLifecycle ==
    ASSUME TypeInv, NEW r \in Requests,
           Start(r) \/ Pause(r) \/ Resume(r) \/ Heartbeat(r) \/ Abandon(r) \/ VoiceReturn(r)
    PROVE  TypeInv'
<1> USE DEF TypeInv
<1>1. CASE Start(r)
  <2>1. req' = [req EXCEPT ![r] = Resting]
    BY <1>1 DEF Start
  <2>2. ses' \in [Sessions -> Row] /\ idle' \in [Sessions -> 0 .. AbandonAfter]
        /\ blk' \in [Blocks -> {"AVAILABLE", "ACTIVE", "COMPLETED"}]
        /\ \A s \in Sessions : ses[s].status # "NONE" => ses'[s].status # "NONE"
    <3>1. CASE UNCHANGED <<blk, ses, idle>>
      BY <3>1 DEF TypeOK
    <3>2. ASSUME NEW b \in Blocks, NEW s \in Sessions, ses' = [ses EXCEPT ![s] = Started(b)],
                 idle' = [idle EXCEPT ![s] = 0], blk' = [blk EXCEPT ![b] = "ACTIVE"]
          PROVE  /\ ses' \in [Sessions -> Row] /\ idle' \in [Sessions -> 0 .. AbandonAfter]
                 /\ blk' \in [Blocks -> {"AVAILABLE", "ACTIVE", "COMPLETED"}]
                 /\ \A t \in Sessions : ses[t].status # "NONE" => ses'[t].status # "NONE"
      <4>1. Started(b) \in Row /\ Started(b).status # "NONE"
        BY WrittenTypes DEF Started
      <4>2. ses' \in [Sessions -> Row]
            /\ \A t \in Sessions : ses[t].status # "NONE" => ses'[t].status # "NONE"
        BY <3>2, <4>1 DEF TypeOK
      <4>3. idle' \in [Sessions -> 0 .. AbandonAfter]
        BY <3>2 DEF TypeOK
      <4>4. blk' \in [Blocks -> {"AVAILABLE", "ACTIVE", "COMPLETED"}]
        BY <3>2 DEF TypeOK
      <4> QED
        BY <4>2, <4>3, <4>4
    <3> QED
      BY <1>1, <3>1, <3>2 DEF Start
  <2>3. req' \in [Requests -> Request] /\ RequestShape'
    BY <2>1, <2>2, RestStep
  <2> QED
    BY <1>1, <2>2, <2>3 DEF Start, TypeOK
<1>2. ASSUME NEW kind \in {"PAUSE", "RESUME", "HEARTBEAT"}, NEW from \in Open, NEW to \in Open,
             Transition(r, kind, from, to)
      PROVE  TypeInv'
  <2> DEFINE s == req[r].ses
             row == WithStatus(ses[s], to)
  <2>1. s \in Sessions /\ ses[s] \in Row
    BY <1>2, SteppedRequest DEF Transition
  <2>2. row \in Row /\ row.status # "NONE"
    BY <2>1, RowHelpers DEF Open
  <2>3. \/ ses' = [ses EXCEPT ![s] = row] /\ idle' = [idle EXCEPT ![s] = 0]
        \/ UNCHANGED <<ses, idle>>
    BY <1>2 DEF Transition
  <2>4. req' = [req EXCEPT ![r] = Resting]
    BY <1>2 DEF Transition
  <2> HIDE DEF row
  <2>5. ses' \in [Sessions -> Row] /\ idle' \in [Sessions -> 0 .. AbandonAfter]
        /\ \A t \in Sessions : ses[t].status # "NONE" => ses'[t].status # "NONE"
    BY <2>1, <2>2, <2>3 DEF TypeOK
  <2>6. req' \in [Requests -> Request] /\ RequestShape'
    BY <2>4, <2>5, RestStep
  <2> QED
    BY <1>2, <2>5, <2>6 DEF Transition, TypeOK
<1>3. CASE Pause(r) \/ Resume(r) \/ Heartbeat(r)
  BY <1>2, <1>3 DEF Pause, Resume, Heartbeat, Open
<1>4. CASE Abandon(r)
  <2> DEFINE s == req[r].ses
  <2>1. s \in Sessions /\ ses[s] \in Row
    BY <1>4, SteppedRequest DEF Abandon
  <2>2. Abandoned(s) \in Row /\ Abandoned(s).status # "NONE"
    BY <2>1, AbandonedRow
  <2>3. ses' = [ses EXCEPT ![s] = Abandoned(s)] /\ Release({s})
        /\ req' = [Cut({s}) EXCEPT ![r] = Resting]
    BY <1>4 DEF Abandon
  <2>4. ses' \in [Sessions -> Row]
        /\ \A t \in Sessions : ses[t].status # "NONE" => ses'[t].status # "NONE"
    BY <2>1, <2>2, <2>3 DEF TypeOK
  <2>5. Resting \in Request /\ Resting.pc = "idle"
    BY WrittenTypes DEF Resting
  <2>6. req' \in [Requests -> Request] /\ RequestShape'
    BY <2>3, <2>4, <2>5, CutRequestStep DEF Working
  <2>7. blk' \in [Blocks -> {"AVAILABLE", "ACTIVE", "COMPLETED"}] /\ pending' \subseteq Items
    BY <2>1, <2>3, ReleaseTypes
  <2>8. lease' \in [Sessions -> [token : Requests \cup {Null, Orphan}, left : 0 .. LeaseTime]]
    BY <1>4, WrittenTypes DEF Abandon, TypeOK
  <2>9. idle' \in [Sessions -> 0 .. AbandonAfter]
    <3>1. idle \in [Sessions -> 0 .. AbandonAfter] /\ 0 \in 0 .. AbandonAfter
      BY DEF TypeOK
    <3>2. idle' = [idle EXCEPT ![s] = 0]
      BY <1>4 DEF Abandon
    <3> QED
      BY <3>1, <3>2
  <2> QED
    BY <1>4, <2>4, <2>6, <2>7, <2>8, <2>9 DEF Abandon, TypeOK
<1>5. CASE VoiceReturn(r)
  <2> DEFINE s == req[r].ses
             row == Bump(Taught(ses[s], "RETURN", ses[s].task, ses[s].form))
  <2>1. s \in Sessions /\ ses[s] \in Row /\ ses[s].status # "NONE"
    BY <1>5, SteppedRequest DEF VoiceReturn
  <2>2. ses[s].task \in Tasks /\ ses[s].form \in Forms /\ "RETURN" \in Teach
    BY <2>1 DEF Row, Teach
  <2>3. row \in Row /\ row.status # "NONE"
    BY <2>1, <2>2, TurnedRow
  <2>4. ses' = [ses EXCEPT ![s] = row] /\ idle' = [idle EXCEPT ![s] = 0]
        /\ req' = [req EXCEPT ![r] = Resting]
    BY <1>5 DEF VoiceReturn
  <2> HIDE DEF row
  <2>5. ses' \in [Sessions -> Row] /\ idle' \in [Sessions -> 0 .. AbandonAfter]
        /\ \A t \in Sessions : ses[t].status # "NONE" => ses'[t].status # "NONE"
    BY <2>1, <2>3, <2>4 DEF TypeOK
  <2>6. req' \in [Requests -> Request] /\ RequestShape'
    BY <2>4, <2>5, RestStep
  <2> QED
    BY <1>5, <2>5, <2>6 DEF VoiceReturn, TypeOK
<1> QED
  BY <1>1, <1>3, <1>4, <1>5

\* What an operation prepares is a decision.
LEMMA PreparedTypes ==
    ASSUME TypeInv, NEW r \in Requests, Read(r) \/ Voice(r)
    PROVE  \E p \in Prepared, step \in {"voice", "commit"} :
             req' = [req EXCEPT ![r] = At([req[r] EXCEPT !.prep = p], step)]
<1> DEFINE s == req[r].ses
<1>1. req[r] \in Request /\ ses[s] \in Row
  <2>1. req[r].pc \in Working
    BY DEF Read, Voice, Working
  <2>2. req[r].kind \in {"SUBMIT", "SUPPORT"}
    BY <2>1 DEF TypeInv, RequestShape
  <2> QED
    BY <2>1, <2>2, SteppedRequest DEF Working
<1>2. CASE Read(r)
  <2>1. PICK v \in Verdicts, next \in {"voice", "commit"} :
          req' = [req EXCEPT ![r] = At([@ EXCEPT !.prep =
            [ver |-> ses[s].version, basis |-> Basis(s), verdict |-> v, voice |-> Null]], next)]
    BY <1>2 DEF Read, Verdicts
  <2>2. ses[s].version \in Nat /\ Basis(s) \in Teach \X Tasks \X Forms
    BY <1>1 DEF Row, Basis
  <2>3. [ver |-> ses[s].version, basis |-> Basis(s), verdict |-> v, voice |-> Null] \in Prepared
    BY <2>2 DEF Prepared
  <2> QED
    BY <2>1, <2>3
<1>3. CASE Voice(r)
  <2>1. PICK v \in {req[r].prep.verdict, Null, "VOICE_EXPLAIN"}, n \in {Null, ses[s].version} :
          req' = [req EXCEPT ![r] = At([@ EXCEPT !.prep =
            [ver |-> req[r].prep.ver, basis |-> req[r].prep.basis, verdict |-> v, voice |-> n]],
            "commit")]
    BY <1>3 DEF Voice
  <2>2. ses[s].version \in Nat /\ req[r].prep \in Prepared
    BY <1>1 DEF Row, Request
  <2>3. [ver |-> req[r].prep.ver, basis |-> req[r].prep.basis, verdict |-> v, voice |-> n]
          \in Prepared
    BY <2>2 DEF Prepared, Verdicts
  <2> QED
    BY <2>1, <2>3
<1> QED
  BY <1>2, <1>3

\* An operation before its commit.
LEMMA TypeOperations ==
    ASSUME TypeInv, NEW r \in Requests, Check(r) \/ Begin(r) \/ Read(r) \/ Voice(r)
    PROVE  TypeInv'
<1> USE DEF TypeInv
<1> DEFINE s == req[r].ses
<1>1. req[r] \in Request /\ req[r].kind \in {"SUBMIT", "SUPPORT"}
      /\ s \in Sessions /\ ses[s] \in Row /\ ses[s].status # "NONE"
  <2>1. req[r].pc \in {"check", "begin"} \cup Working
    BY DEF Check, Begin, Read, Voice, Working
  <2>2. req[r].kind \in {"SUBMIT", "SUPPORT"}
    BY <2>1 DEF RequestShape
  <2> QED
    BY <2>1, <2>2, SteppedRequest DEF Working
<1>2. ASSUME NEW q \in Request, q.kind = req[r].kind, q.ses = s,
             q.pc \in {"begin"} \cup Working, req' = [req EXCEPT ![r] = q], UNCHANGED ses
      PROVE  req' \in [Requests -> Request] /\ RequestShape'
  BY <1>1, <1>2, RequestStep DEF Working
<1>3. \A step \in Steps : At(req[r], step) \in Request /\ At(req[r], step).pc = step
        /\ At(req[r], step).kind = req[r].kind /\ At(req[r], step).ses = s
  BY SteppedRequest
<1>4. ASSUME NEW p \in Prepared, NEW step \in Working,
             req' = [req EXCEPT ![r] = At([@ EXCEPT !.prep = p], step)], UNCHANGED ses
      PROVE  req' \in [Requests -> Request] /\ RequestShape'
  <2> DEFINE q == At([req[r] EXCEPT !.prep = p], step)
  <2>1. step \in Steps
    BY DEF Working, Steps
  <2>2. q \in Request /\ q.pc = step /\ q.kind = req[r].kind /\ q.ses = s
    BY <1>1, <2>1, PreparedRequest
  <2>3. req' = [req EXCEPT ![r] = q]
    BY <1>4
  <2> HIDE DEF q
  <2> QED
    BY <1>2, <1>4, <2>2, <2>3
<1>5. CASE Check(r)
  <2>1. "begin" \in Steps
    BY DEF Steps
  <2>2. req' = [req EXCEPT ![r] = At(req[r], "begin")] /\ UNCHANGED ses
    BY <1>5 DEF Check
  <2>3. req' \in [Requests -> Request] /\ RequestShape'
    BY <1>2, <1>3, <2>1, <2>2
  <2> QED
    BY <1>5, <2>3 DEF Check, TypeOK
<1>6. CASE Begin(r)
  <2>1. PICK next \in Working : req' = [req EXCEPT ![r] = At(req[r], next)]
    BY <1>6 DEF Begin, Working
  <2>2. next \in Steps
    BY DEF Working, Steps
  <2>3. UNCHANGED ses
    BY <1>6 DEF Begin
  <2>4. req' \in [Requests -> Request] /\ RequestShape'
    BY <1>2, <1>3, <2>1, <2>2, <2>3
  <2>5. lease' \in [Sessions -> [token : Requests \cup {Null, Orphan}, left : 0 .. LeaseTime]]
    <3>1. [token |-> r, left |-> LeaseTime]
            \in [token : Requests \cup {Null, Orphan}, left : 0 .. LeaseTime]
      OBVIOUS
    <3>2. lease' = [lease EXCEPT ![s] = [token |-> r, left |-> LeaseTime]]
      BY <1>6 DEF Begin
    <3> QED
      BY <3>1, <3>2 DEF TypeOK
  <2>6. idle' \in [Sessions -> 0 .. AbandonAfter]
    <3>1. idle \in [Sessions -> 0 .. AbandonAfter] /\ 0 \in 0 .. AbandonAfter
      BY DEF TypeOK
    <3>2. idle' = [idle EXCEPT ![s] = 0]
      BY <1>6 DEF Begin
    <3> QED
      BY <3>1, <3>2
  <2> QED
    BY <1>6, <2>4, <2>5, <2>6 DEF Begin, TypeOK
<1>7. CASE Read(r) \/ Voice(r)
  <2>1. PICK p \in Prepared, next \in {"voice", "commit"} :
          req' = [req EXCEPT ![r] = At([@ EXCEPT !.prep = p], next)]
    BY <1>7, PreparedTypes
  <2>2. UNCHANGED ses /\ next \in Working
    BY <1>7 DEF Read, Voice, Working
  <2>3. req' \in [Requests -> Request] /\ RequestShape'
    BY <1>4, <2>1, <2>2
  <2> QED
    BY <1>7, <2>3 DEF Read, Voice, TypeOK
<1> QED
  BY <1>5, <1>6, <1>7

\* The row an operation commits, before its version moves.
LEMMA CommittedRow ==
    ASSUME TypeInv, NEW r \in Requests,
           AnswerTaught(r) \/ AnswerBacktracks(r) \/ AnswerReturns(r) \/ Support(r)
    PROVE  /\ req[r].pc = "commit" /\ MayCommit(r, req[r].kind)
           /\ req[r].ses \in Sessions /\ ses[req[r].ses] \in Row
           /\ \E row \in Row : /\ row.status = ses[req[r].ses].status
                               /\ row.block = ses[req[r].ses].block
                               /\ row.version = ses[req[r].ses].version
                               /\ Commit(r, row)
           /\ UNCHANGED <<blk, pending>>
<1> DEFINE s == req[r].ses
<1>1. /\ req[r].pc = "commit" /\ MayCommit(r, req[r].kind)
      /\ UNCHANGED <<blk, pending>>
  BY DEF AnswerTaught, AnswerBacktracks, AnswerReturns, Support, Answered, MayCommit
<1>2. s \in Sessions /\ ses[s] \in Row
  BY <1>1 DEF TypeInv, TypeOK, RequestShape, Working
<1>3. ses[s].task \in Tasks /\ ses[s].form \in Forms
  BY <1>2 DEF Row
<1>4. /\ Wrong(s) \in Row /\ Wrong(s).status = ses[s].status /\ Wrong(s).block = ses[s].block
      /\ Wrong(s).version = ses[s].version
  BY <1>2 DEF Wrong, Row
<1>5. \E base \in {ses[s], Wrong(s)}, t \in Teach, k \in Tasks, f \in Forms :
        Commit(r, Taught(base, t, k, f))
  <2>1. CASE AnswerTaught(r)
    BY <1>3, <2>1 DEF AnswerTaught, Teach
  <2>2. CASE AnswerBacktracks(r)
    BY <2>2 DEF AnswerBacktracks, Teach, Tasks, Forms
  <2>3. CASE AnswerReturns(r)
    BY <2>3 DEF AnswerReturns, Teach, Tasks, Forms
  <2>4. CASE Support(r)
    BY <1>3, <2>4 DEF Support, Teach
  <2> QED
    BY <2>1, <2>2, <2>3, <2>4
<1>6. PICK base \in {ses[s], Wrong(s)}, t \in Teach, k \in Tasks, f \in Forms :
        Commit(r, Taught(base, t, k, f))
  BY <1>5
<1>7. base \in Row /\ base.status = ses[s].status /\ base.block = ses[s].block
      /\ base.version = ses[s].version
  BY <1>2, <1>4
<1>8. /\ Taught(base, t, k, f) \in Row /\ Taught(base, t, k, f).status = ses[s].status
      /\ Taught(base, t, k, f).block = ses[s].block
      /\ Taught(base, t, k, f).version = ses[s].version
  BY <1>7, RowHelpers
<1> QED
  BY <1>1, <1>2, <1>6, <1>8

\* The row a solved original task commits.
LEMMA CompletedRow ==
    ASSUME TypeInv, NEW r \in Requests, AnswerCompletes(r)
    PROVE  /\ req[r].pc = "commit" /\ MayCommit(r, req[r].kind)
           /\ req[r].ses \in Sessions /\ ses[req[r].ses] \in Row
           /\ Completed(req[r].ses) \in Row
           /\ Completed(req[r].ses).status = "COMPLETED"
           /\ Completed(req[r].ses).block = ses[req[r].ses].block
           /\ Completed(req[r].ses).version = ses[req[r].ses].version
           /\ Commit(r, Completed(req[r].ses))
<1> DEFINE s == req[r].ses
           row == WithStatus(ses[s], "COMPLETED")
<1>1. req[r].pc = "commit" /\ MayCommit(r, req[r].kind) /\ Commit(r, Completed(s))
  BY DEF AnswerCompletes, Answered, MayCommit
<1>2. s \in Sessions /\ ses[s] \in Row
  BY <1>1 DEF TypeInv, TypeOK, RequestShape, Working
<1>3. ses[s].form \in Forms /\ "COMPLETE" \in Teach /\ "ORIGINAL" \in Tasks
      /\ "COMPLETED" \in Open \cup Terminal
  BY <1>2 DEF Row, Teach, Tasks, Terminal
<1>4. row \in Row /\ row.status = "COMPLETED" /\ row.block = ses[s].block
      /\ row.version = ses[s].version
  BY <1>2, <1>3, RowHelpers
<1>5. Completed(s) = Taught(row, "COMPLETE", "ORIGINAL", ses[s].form)
  BY DEF Completed
<1> HIDE DEF row
<1> QED
  BY <1>1, <1>2, <1>3, <1>4, <1>5, RowHelpers

\* The commits.
LEMMA TypeCommits ==
    ASSUME TypeInv, NEW r \in Requests,
           \/ AnswerTaught(r) \/ AnswerBacktracks(r) \/ AnswerReturns(r) \/ Support(r)
           \/ AnswerCompletes(r)
    PROVE  TypeInv'
<1> USE DEF TypeInv
<1>1. CASE AnswerTaught(r) \/ AnswerBacktracks(r) \/ AnswerReturns(r) \/ Support(r)
  <2>1. PICK row \in Row : row.status = ses[req[r].ses].status /\ Commit(r, row)
    BY <1>1, CommittedRow
  <2>2. req[r].pc = "commit" /\ ses[req[r].ses].status # "NONE" /\ UNCHANGED <<blk, pending>>
    BY <1>1, CommittedRow DEF MayCommit, Open
  <2>3. /\ ses' \in [Sessions -> Row]
        /\ lease' \in [Sessions -> [token : Requests \cup {Null, Orphan}, left : 0 .. LeaseTime]]
        /\ idle' \in [Sessions -> 0 .. AbandonAfter]
        /\ req' \in [Requests -> Request]
        /\ RequestShape'
    BY <2>1, <2>2, CommitTypes
  <2> QED
    BY <2>1, <2>2, <2>3 DEF Commit, TypeOK
<1>2. CASE AnswerCompletes(r)
  <2>1. Completed(req[r].ses).status # "NONE"
    BY <1>2, CompletedRow
  <2>2. /\ ses' \in [Sessions -> Row]
        /\ lease' \in [Sessions -> [token : Requests \cup {Null, Orphan}, left : 0 .. LeaseTime]]
        /\ idle' \in [Sessions -> 0 .. AbandonAfter]
        /\ req' \in [Requests -> Request]
        /\ RequestShape'
    BY <1>2, <2>1, CompletedRow, CommitTypes
  <2>3. /\ blk' \in [Blocks -> {"AVAILABLE", "ACTIVE", "COMPLETED"}]
        /\ pending' \subseteq Items
    BY <1>2 DEF AnswerCompletes, TypeOK
  <2>4. Commit(r, Completed(req[r].ses))
    BY <1>2, CompletedRow
  <2> QED
    BY <2>2, <2>3, <2>4 DEF Commit, TypeOK
<1> QED
  BY <1>1, <1>2

\* The row a logout leaves.
LEMMA LoggedOutRow ==
    ASSUME NEW s \in Sessions, ses[s] \in Row
    PROVE  LET row == Bump(WithStatus(ses[s], "PAUSED")) IN
           /\ row \in Row /\ row.status = "PAUSED" /\ row.block = ses[s].block
           /\ row.version = ses[s].version + 1
<1>1. "PAUSED" \in Open \cup Terminal
  BY DEF Open
<1> DEFINE paused == WithStatus(ses[s], "PAUSED")
<1>2. paused \in Row /\ paused.status = "PAUSED" /\ paused.block = ses[s].block
      /\ paused.version = ses[s].version
  BY <1>1, RowHelpers
<1> HIDE DEF paused
<1>3. Bump(paused) \in Row /\ Bump(paused).status = "PAUSED"
      /\ Bump(paused).block = ses[s].block /\ Bump(paused).version = ses[s].version + 1
  BY <1>2, RowHelpers
<1> QED
  BY <1>3 DEF paused

\* Logout, expiry, the parent, a crash and time.
LEMMA TypeActors ==
    ASSUME TypeInv,
           \/ \E a \in Auths : Logout(a) \/ AuthExpires(a)
           \/ ParentIntervention \/ Crash \/ Tick
    PROVE  TypeInv'
<1> USE DEF TypeInv
<1>1. \A s \in Sessions : ses[s] \in Row /\ Bump(ses[s]) \in Row
        /\ Bump(ses[s]).status = ses[s].status
  BY RowHelpers DEF TypeOK
<1>2. ASSUME NEW a \in Auths, Logout(a) PROVE TypeInv'
  <2> DEFINE paused == {s \in Sessions : ses[s].status = "ACTIVE"}
             stripped == {s \in Sessions : ses[s].status = "PAUSED" /\ lease[s].token # Null}
  <2>1. /\ ses' = [s \in Sessions |->
                 IF s \in paused THEN Bump(WithStatus(ses[s], "PAUSED"))
                 ELSE IF s \in stripped THEN Bump(ses[s]) ELSE ses[s]]
        /\ lease' = [s \in Sessions |-> IF s \in paused \cup stripped THEN Free ELSE lease[s]]
        /\ idle' = [s \in Sessions |-> IF s \in paused THEN 0 ELSE idle[s]]
        /\ req' = Cut(paused \cup stripped)
    BY <1>2 DEF Logout
  <2> HIDE DEF paused, stripped
  <2>2. ses' \in [Sessions -> Row]
        /\ \A s \in Sessions : ses[s].status # "NONE" => ses'[s].status # "NONE"
    BY <1>1, <2>1, LoggedOutRow
  <2>3. lease' \in [Sessions -> [token : Requests \cup {Null, Orphan}, left : 0 .. LeaseTime]]
    BY <2>1, WrittenTypes DEF TypeOK
  <2>4. idle' \in [Sessions -> 0 .. AbandonAfter]
    BY <2>1 DEF TypeOK
  <2>5. req' \in [Requests -> Request] /\ RequestShape'
    BY <2>1, <2>2, CutStep
  <2> QED
    BY <1>2, <2>2, <2>3, <2>4, <2>5 DEF Logout, TypeOK
<1>3. ASSUME NEW a \in Auths, AuthExpires(a) PROVE TypeInv'
  BY <1>3 DEF AuthExpires, TypeOK, RequestShape
<1>4. CASE ParentIntervention
  <2>1. ses' = [s \in Sessions |->
                 IF ses[s].status = "ACTIVE" THEN Bump(ses[s]) ELSE ses[s]]
        /\ notices' \in 0 .. MaxInterventions
        /\ UNCHANGED <<auths, blk, pending, lease, idle, req, arrived>>
    BY <1>4 DEF ParentIntervention, TypeOK
  <2>2. ses' \in [Sessions -> Row]
        /\ \A s \in Sessions : ses'[s].status = ses[s].status
    BY <1>1, <2>1
  <2>3. RequestShape'
    BY <2>1, <2>2 DEF RequestShape
  <2> QED
    BY <2>1, <2>2, <2>3 DEF TypeOK
<1>5. CASE Crash
  <2>1. \A r \in Requests : req'[r] = Resting
    BY <1>5 DEF Crash
  <2>2. req' \in [Requests -> Request]
    BY <1>5, WrittenTypes DEF Crash
  <2>3. RequestShape'
    BY <2>1 DEF RequestShape, Resting, Working
  <2>4. lease' \in [Sessions -> [token : Requests \cup {Null, Orphan}, left : 0 .. LeaseTime]]
    BY <1>5 DEF Crash, TypeOK
  <2> QED
    BY <1>5, <2>2, <2>3, <2>4 DEF Crash, TypeOK
<1>6. CASE Tick
  <2>1. lease' \in [Sessions -> [token : Requests \cup {Null, Orphan}, left : 0 .. LeaseTime]]
    BY <1>6 DEF Tick, TypeOK
  <2>2. idle' \in [Sessions -> 0 .. AbandonAfter]
    BY <1>6 DEF Tick, TypeOK
  <2>3. RequestShape'
    BY <1>6 DEF Tick, RequestShape
  <2> QED
    BY <1>6, <2>1, <2>2, <2>3 DEF Tick, TypeOK
<1> QED
  BY <1>2, <1>3, <1>4, <1>5, <1>6

\* Every step of the classroom keeps the types and the shape of the requests.
THEOREM TypeStep == TypeInv /\ [Next]_vars => TypeInv'
<1> SUFFICES ASSUME TypeInv, [Next]_vars PROVE TypeInv'
  OBVIOUS
<1>1. ASSUME NEW r \in Requests, Handle(r) PROVE TypeInv'
  BY <1>1, TypeRequests, TypeRecovery, TypeLifecycle, TypeOperations, TypeCommits DEF Handle
<1>2. CASE \/ \E a \in Auths : Logout(a) \/ AuthExpires(a)
           \/ ParentIntervention \/ Crash \/ Tick
  BY <1>2, TypeActors
<1>3. CASE RecoverAll
  BY <1>3, TypeRecovery
<1>4. CASE UNCHANGED vars
  BY <1>4 DEF vars, TypeInv, TypeOK, RequestShape
<1> QED
  BY <1>1, <1>2, <1>3, <1>4 DEF Next

\* For any number of sessions, blocks, requests and devices, the rows and requests of
\* the classroom keep their types and no lease or counter leaves its bound.
THEOREM TypeCorrect == Spec => []TypeOK
<1>1. TypeInv => TypeOK
  BY DEF TypeInv
<1> QED
  BY <1>1, TypeInit, TypeStep, PTL DEF Spec

-----------------------------------------------------------------------------
(***************************************************************************)
(* Sessions, plan blocks and the review queue agree.  The argument sorts   *)
(* the actions by what they do to the open sessions: they keep them        *)
(* (KeepsOpen), give some up (GivesUp), complete one (Completes) or start  *)
(* one (Starts).                                                           *)
(***************************************************************************)
IsOpen(s) == ses[s].status \in Open
OpensAfter(s) == ses'[s].status \in Open
SameBlocks == \A s \in Sessions : OpensAfter(s) => ses'[s].block = ses[s].block

KeepsOpen ==
    /\ \A s \in Sessions : OpensAfter(s) <=> IsOpen(s)
    /\ SameBlocks
    /\ UNCHANGED <<blk, pending>>

GivesUp(gone) ==
    /\ gone \subseteq {s \in Sessions : IsOpen(s)}
    /\ \A s \in Sessions : OpensAfter(s) <=> IsOpen(s) /\ s \notin gone
    /\ SameBlocks
    /\ Release(gone)

Completes(s) ==
    /\ IsOpen(s)
    /\ \A t \in Sessions : OpensAfter(t) <=> IsOpen(t) /\ t # s
    /\ SameBlocks
    /\ blk' = [blk EXCEPT ![ses[s].block] = "COMPLETED"]

Starts(s, b) ==
    /\ \A t \in Sessions : ~IsOpen(t)
    /\ blk[b] = "AVAILABLE"
    /\ b \in ReviewBlocks => ItemPending(b)
    /\ \A t \in Sessions : OpensAfter(t) <=> t = s
    /\ ses'[s].block = b
    /\ blk' = [blk EXCEPT ![b] = "ACTIVE"]
    /\ UNCHANGED pending

\* The inductive invariant: an open session has a plan block, and the block, the
\* session and the review queue agree.
OpenHoldsBlock == \A s \in Sessions : IsOpen(s) => ses[s].block \in Blocks

\* The queue item of an open review session is pending: the session was started on a
\* pending item, and only the open session closes items.
OpenItemPending ==
    \A s \in Sessions :
        IsOpen(s) /\ ses[s].block \in ReviewBlocks => ItemOf[ses[s].block] \in pending

OpenInv == OneOpenSession /\ BlockTracksSession /\ OpenHoldsBlock /\ OpenItemPending

\* No session is open and every block is available at first.
LEMMA OpenInit == Init => OpenInv
BY DEF Init, OpenInv, OneOpenSession, BlockTracksSession, OpenHoldsBlock, OpenItemPending,
       IsOpen, Unborn, Open

\* A step that keeps the open sessions keeps the invariant.
LEMMA KeepsOpenKeeps ==
    ASSUME TypeOK, OpenInv, KeepsOpen
    PROVE  OpenInv'
<1> USE DEF OpenInv, KeepsOpen, SameBlocks, IsOpen, OpensAfter
<1>1. OneOpenSession'
  BY DEF OneOpenSession
<1>2. BlockTracksSession'
  BY DEF BlockTracksSession
<1>3. OpenHoldsBlock'
  BY DEF OpenHoldsBlock
<1>4. OpenItemPending'
  BY DEF OpenItemPending
<1> QED
  BY <1>1, <1>2, <1>3, <1>4

\* So does one that gives sessions up and releases their blocks.
LEMMA GivesUpKeeps ==
    ASSUME TypeOK, OpenInv, NEW gone, GivesUp(gone)
    PROVE  OpenInv'
<1> USE DEF OpenInv, GivesUp, SameBlocks, IsOpen, OpensAfter
<1>1. OneOpenSession'
  BY DEF OneOpenSession
<1>2. OpenHoldsBlock'
  BY DEF OpenHoldsBlock
<1>3. ASSUME NEW b \in Blocks
      PROVE  blk'[b] = "ACTIVE" <=> blk[b] = "ACTIVE" /\ \A s \in gone : ses[s].block # b
  BY DEF Release
<1>4. BlockTracksSession'
  <2> SUFFICES ASSUME NEW b \in Blocks
               PROVE  blk'[b] = "ACTIVE"
                        <=> \E s \in Sessions : ses'[s].status \in Open /\ ses'[s].block = b
    BY DEF BlockTracksSession
  <2>1. ASSUME blk'[b] = "ACTIVE"
        PROVE  \E s \in Sessions : ses'[s].status \in Open /\ ses'[s].block = b
    <3>1. PICK s \in Sessions : ses[s].status \in Open /\ ses[s].block = b
      BY <1>3, <2>1 DEF BlockTracksSession
    <3> QED
      BY <1>3, <2>1, <3>1
  <2>2. ASSUME NEW s \in Sessions, ses'[s].status \in Open, ses'[s].block = b
        PROVE  blk'[b] = "ACTIVE"
    <3>1. ses[s].status \in Open /\ ses[s].block = b /\ s \notin gone
      BY <2>2
    <3>2. blk[b] = "ACTIVE"
      BY <3>1 DEF BlockTracksSession
    <3>3. \A t \in gone : ses[t].block # b
      BY <3>1 DEF OneOpenSession
    <3> QED
      BY <1>3, <3>2, <3>3
  <2> QED
    BY <2>1, <2>2
<1>5. OpenItemPending'
  <2> SUFFICES ASSUME NEW s \in Sessions, ses'[s].status \in Open,
                      ses'[s].block \in ReviewBlocks
               PROVE  ItemOf[ses'[s].block] \in pending'
    BY DEF OpenItemPending
  <2>1. ses[s].status \in Open /\ s \notin gone /\ ses'[s].block = ses[s].block
    OBVIOUS
  <2>2. gone = {}
    BY <2>1 DEF OneOpenSession
  <2>3. pending' = pending
    BY <2>2 DEF Release, ClosedItems
  <2> QED
    BY <2>1, <2>3 DEF OpenItemPending
<1> QED
  BY <1>1, <1>2, <1>4, <1>5

\* So does one that completes a session with its block and its queue item.
LEMMA CompletesKeeps ==
    ASSUME TypeOK, OpenInv, NEW s \in Sessions, Completes(s)
    PROVE  OpenInv'
<1> USE DEF OpenInv, Completes, SameBlocks, IsOpen, OpensAfter
<1>1. OneOpenSession'
  BY DEF OneOpenSession
<1>2. OpenHoldsBlock'
  BY DEF OpenHoldsBlock
<1>3. ses[s].block \in Blocks /\ \A t \in Sessions : ~(ses'[t].status \in Open)
  BY DEF OneOpenSession, OpenHoldsBlock
<1>4. \A b \in Blocks : blk'[b] = IF b = ses[s].block THEN "COMPLETED" ELSE blk[b]
  BY <1>3 DEF TypeOK
<1>5. BlockTracksSession'
  BY <1>3, <1>4 DEF BlockTracksSession, OneOpenSession
<1>6. OpenItemPending'
  BY <1>3 DEF OpenItemPending
<1> QED
  BY <1>1, <1>2, <1>5, <1>6

\* So does one that starts a session on a free block when none is open.
LEMMA StartsKeeps ==
    ASSUME TypeOK, OpenInv, NEW s \in Sessions, NEW b \in Blocks, Starts(s, b)
    PROVE  OpenInv'
<1> USE DEF OpenInv, Starts, IsOpen, OpensAfter
<1>1. OneOpenSession'
  BY DEF OneOpenSession
<1>2. OpenHoldsBlock'
  BY DEF OpenHoldsBlock
<1>3. \A c \in Blocks : blk'[c] = IF c = b THEN "ACTIVE" ELSE blk[c]
  BY DEF TypeOK
<1>4. BlockTracksSession'
  BY <1>3 DEF BlockTracksSession
<1>5. OpenItemPending'
  BY DEF OpenItemPending, ItemPending
<1> QED
  BY <1>1, <1>2, <1>4, <1>5

\* A step that leaves the sessions' rows and the plan alone keeps the open sessions.
LEMMA QuietKeepsOpen ==
    ASSUME UNCHANGED <<ses, blk, pending>>
    PROVE  KeepsOpen
BY DEF KeepsOpen, SameBlocks, IsOpen, OpensAfter

\* So does one that rewrites the row of one session, open before and after.
LEMMA RewriteKeepsOpen ==
    ASSUME TypeOK, NEW s \in Sessions, NEW row \in Row, ses' = [ses EXCEPT ![s] = row],
           row.block = ses[s].block, IsOpen(s), row.status \in Open, UNCHANGED <<blk, pending>>
    PROVE  KeepsOpen
BY DEF TypeOK, KeepsOpen, SameBlocks, IsOpen, OpensAfter

\* The session an operation is about to commit to is open.
LEMMA CommitsOpen ==
    ASSUME NEW r \in Requests, MayCommit(r, req[r].kind)
    PROVE  IsOpen(req[r].ses)
BY DEF MayCommit, IsOpen

\* Requests that arrive, fail, end or prepare keep the open sessions.
LEMMA QuietActions ==
    ASSUME TypeInv, NEW r \in Requests,
           \/ Arrive(r) \/ Refuse(r) \/ GiveUp(r) \/ End(r) \/ EndFails(r)
           \/ Check(r) \/ Begin(r) \/ Read(r) \/ Voice(r)
    PROVE  KeepsOpen
<1>1. UNCHANGED <<ses, blk, pending>>
  BY DEF Arrive, Refuse, GiveUp, End, EndFails, Check, Begin, Read, Voice
<1> QED
  BY <1>1, QuietKeepsOpen

\* Pause, resume, heartbeat and the voice return keep them.
LEMMA TransitionKeepsOpen ==
    ASSUME TypeInv, NEW r \in Requests, Pause(r) \/ Resume(r) \/ Heartbeat(r) \/ VoiceReturn(r)
    PROVE  KeepsOpen
<1> DEFINE s == req[r].ses
<1>1. TypeOK
  BY DEF TypeInv
<1>2. ASSUME NEW kind \in {"PAUSE", "RESUME", "HEARTBEAT"}, NEW from \in Open, NEW to \in Open,
             Transition(r, kind, from, to)
      PROVE  KeepsOpen
  <2>1. s \in Sessions /\ ses[s] \in Row /\ IsOpen(s)
    BY <1>2, SteppedRequest DEF Transition, IsOpen
  <2>2. WithStatus(ses[s], to) \in Row /\ WithStatus(ses[s], to).status = to
        /\ WithStatus(ses[s], to).block = ses[s].block
    <3>1. to \in Open \cup Terminal
      OBVIOUS
    <3> QED
      BY <2>1, <3>1, RowHelpers
  <2>3. UNCHANGED <<blk, pending>>
    BY <1>2 DEF Transition
  <2>4. CASE ses' = [ses EXCEPT ![s] = WithStatus(ses[s], to)]
    BY <1>1, <2>1, <2>2, <2>3, <2>4, RewriteKeepsOpen
  <2>5. CASE UNCHANGED ses
    BY <2>3, <2>5, QuietKeepsOpen
  <2> QED
    BY <1>2, <2>4, <2>5 DEF Transition
<1>3. CASE Pause(r) \/ Resume(r) \/ Heartbeat(r)
  BY <1>2, <1>3 DEF Pause, Resume, Heartbeat, Open
<1>4. CASE VoiceReturn(r)
  <2> DEFINE row == Bump(Taught(ses[s], "RETURN", ses[s].task, ses[s].form))
  <2>1. s \in Sessions /\ ses[s] \in Row /\ ses[s].status = "ACTIVE"
    BY <1>4, SteppedRequest DEF VoiceReturn
  <2>2. ses[s].task \in Tasks /\ ses[s].form \in Forms /\ "RETURN" \in Teach
    BY <2>1 DEF Row, Teach
  <2>3. row \in Row /\ row.status = "ACTIVE" /\ row.block = ses[s].block
    BY <2>1, <2>2, TurnedRow
  <2>4. ses' = [ses EXCEPT ![s] = row] /\ UNCHANGED <<blk, pending>>
    BY <1>4 DEF VoiceReturn
  <2> HIDE DEF row
  <2> QED
    BY <1>1, <2>1, <2>3, <2>4, RewriteKeepsOpen DEF IsOpen, Open
<1> QED
  BY <1>3, <1>4

\* Answers that do not complete, and support, keep them.
LEMMA TeachingKeepsOpen ==
    ASSUME TypeInv, NEW r \in Requests,
           AnswerTaught(r) \/ AnswerBacktracks(r) \/ AnswerReturns(r) \/ Support(r)
    PROVE  KeepsOpen
<1> DEFINE s == req[r].ses
<1>1. PICK row \in Row : row.status = ses[s].status /\ row.block = ses[s].block /\ Commit(r, row)
  BY CommittedRow
<1>2. s \in Sessions /\ MayCommit(r, req[r].kind) /\ UNCHANGED <<blk, pending>>
  BY CommittedRow
<1>3. IsOpen(s)
  BY <1>2, CommitsOpen
<1>4. Bump(row) \in Row /\ Bump(row).status = row.status /\ Bump(row).block = row.block
  BY RowHelpers
<1>5. ses' = [ses EXCEPT ![s] = Bump(row)]
  BY <1>1 DEF Commit
<1>6. TypeOK
  BY DEF TypeInv
<1> QED
  BY <1>1, <1>2, <1>3, <1>4, <1>5, <1>6, RewriteKeepsOpen DEF IsOpen

\* Logout, expiry, notices, crashes and time keep them.
LEMMA ActorsKeepOpen ==
    ASSUME TypeInv,
           \/ \E a \in Auths : Logout(a) \/ AuthExpires(a)
           \/ ParentIntervention \/ Crash \/ Tick
    PROVE  KeepsOpen
<1>1. \A s \in Sessions : ses[s] \in Row /\ Bump(ses[s]).status = ses[s].status
        /\ Bump(ses[s]).block = ses[s].block
  BY RowHelpers DEF TypeInv, TypeOK
<1>2. ASSUME NEW a \in Auths, Logout(a) PROVE KeepsOpen
  <2> DEFINE paused == {s \in Sessions : ses[s].status = "ACTIVE"}
             stripped == {s \in Sessions : ses[s].status = "PAUSED" /\ lease[s].token # Null}
  <2>1. ses' = [s \in Sessions |->
                 IF s \in paused THEN Bump(WithStatus(ses[s], "PAUSED"))
                 ELSE IF s \in stripped THEN Bump(ses[s]) ELSE ses[s]]
    BY <1>2 DEF Logout
  <2>2. \A s \in paused : IsOpen(s)
    BY DEF IsOpen, Open
  <2>3. UNCHANGED <<blk, pending>>
    BY <1>2 DEF Logout
  <2> HIDE DEF paused, stripped
  <2>4. ASSUME NEW s \in Sessions
        PROVE  (OpensAfter(s) <=> IsOpen(s)) /\ ses'[s].block = ses[s].block
    <3>1. CASE s \in paused
      BY <1>1, <2>1, <2>2, <3>1, LoggedOutRow DEF OpensAfter, Open
    <3>2. CASE s \notin paused
      BY <1>1, <2>1, <3>2 DEF OpensAfter, IsOpen
    <3> QED
      BY <3>1, <3>2
  <2> QED
    BY <2>3, <2>4 DEF KeepsOpen, SameBlocks
<1>3. ASSUME NEW a \in Auths, AuthExpires(a) PROVE KeepsOpen
  BY <1>3, QuietKeepsOpen DEF AuthExpires
<1>4. CASE ParentIntervention
  <2>1. ses' = [s \in Sessions |-> IF ses[s].status = "ACTIVE" THEN Bump(ses[s]) ELSE ses[s]]
        /\ UNCHANGED <<blk, pending>>
    BY <1>4 DEF ParentIntervention
  <2>2. \A s \in Sessions : ses'[s].status = ses[s].status /\ ses'[s].block = ses[s].block
    BY <1>1, <2>1
  <2> QED
    BY <2>1, <2>2 DEF KeepsOpen, SameBlocks, OpensAfter, IsOpen
<1>5. CASE Crash
  BY <1>5, QuietKeepsOpen DEF Crash
<1>6. CASE Tick
  BY <1>6, QuietKeepsOpen DEF Tick
<1> QED
  BY <1>2, <1>3, <1>4, <1>5, <1>6

\* Recovery gives up the sessions that have been silent for too long.
LEMMA RecoveryGivesUp ==
    ASSUME TypeOK, Recovery(StaleSessions, LostSessions)
    PROVE  GivesUp(LostSessions)
<1>1. \A s \in StaleSessions : s \in Sessions /\ IsOpen(s)
  BY DEF StaleSessions, Stale, IsOpen, Open
<1>2. LostSessions \subseteq StaleSessions
  BY DEF LostSessions
<1>3. ses' = [s \in Sessions |->
                IF s \in LostSessions THEN Abandoned(s)
                ELSE IF s \in StaleSessions THEN WithStatus(ses[s], "PAUSED") ELSE ses[s]]
      /\ Release(LostSessions)
  BY DEF Recovery
<1>4. ASSUME NEW s \in Sessions
      PROVE  (OpensAfter(s) <=> IsOpen(s) /\ s \notin LostSessions) /\ ses'[s].block = ses[s].block
  <2>1. ses[s] \in Row /\ "PAUSED" \in Open
    BY DEF TypeOK, Open
  <2>2. CASE s \in LostSessions
    BY <1>3, <2>1, <2>2, AbandonedRow DEF OpensAfter, Open
  <2>3. CASE s \in StaleSessions \ LostSessions
    <3>1. WithStatus(ses[s], "PAUSED").status = "PAUSED"
          /\ WithStatus(ses[s], "PAUSED").block = ses[s].block
      BY <2>1, RowHelpers
    <3> QED
      BY <1>1, <1>3, <2>1, <2>3, <3>1 DEF OpensAfter
  <2>4. CASE s \notin StaleSessions
    BY <1>2, <1>3, <2>4 DEF OpensAfter, IsOpen
  <2> QED
    BY <2>2, <2>3, <2>4
<1> QED
  BY <1>1, <1>2, <1>3, <1>4 DEF GivesUp, SameBlocks

\* The student's abandonment gives up that session.
LEMMA AbandonGivesUp ==
    ASSUME TypeInv, NEW r \in Requests, Abandon(r)
    PROVE  GivesUp({req[r].ses})
<1> DEFINE s == req[r].ses
<1>1. s \in Sessions /\ ses[s] \in Row /\ IsOpen(s)
  BY SteppedRequest DEF Abandon, IsOpen
<1>2. Abandoned(s).status = "ABANDONED" /\ Abandoned(s).block = ses[s].block
  BY <1>1, AbandonedRow
<1>3. ses' = [ses EXCEPT ![s] = Abandoned(s)] /\ Release({s})
  BY DEF Abandon
<1>4. \A t \in Sessions : ses'[t] = IF t = s THEN Abandoned(s) ELSE ses[t]
  BY <1>3 DEF TypeInv, TypeOK
<1> QED
  BY <1>1, <1>2, <1>3, <1>4 DEF GivesUp, SameBlocks, OpensAfter, IsOpen, Open

\* A correct answer to the original task completes its session.
LEMMA AnswerCompletesOne ==
    ASSUME TypeInv, NEW r \in Requests, AnswerCompletes(r)
    PROVE  Completes(req[r].ses)
<1> DEFINE s == req[r].ses
           row == Completed(s)
<1>1. s \in Sessions /\ IsOpen(s)
  BY CompletedRow, CommitsOpen
<1>2. Bump(row).status = "COMPLETED" /\ Bump(row).block = ses[s].block
  BY CompletedRow, RowHelpers
<1>3. ses' = [ses EXCEPT ![s] = Bump(row)]
  BY CompletedRow DEF Commit
<1> HIDE DEF row
<1>4. \A t \in Sessions : ses'[t] = IF t = s THEN Bump(row) ELSE ses[t]
  BY <1>3 DEF TypeInv, TypeOK
<1>5. blk' = [blk EXCEPT ![ses[s].block] = "COMPLETED"]
  BY DEF AnswerCompletes
<1> QED
  BY <1>1, <1>2, <1>4, <1>5 DEF Completes, SameBlocks, OpensAfter, IsOpen, Open

\* Start returns the open session or starts a new one.
LEMMA StartStarts ==
    ASSUME TypeInv, NEW r \in Requests, Start(r)
    PROVE  KeepsOpen \/ \E s \in Sessions, b \in Blocks : Starts(s, b)
<1>1. UNCHANGED pending
  BY DEF Start
<1>2. PICK b \in Blocks :
        \/ UNCHANGED <<blk, ses>>
        \/ /\ NoOpenSession /\ blk[b] = "AVAILABLE" /\ (b \in ReviewBlocks => ItemPending(b))
           /\ \E s \in Sessions : ses' = [ses EXCEPT ![s] = Started(b)]
           /\ blk' = [blk EXCEPT ![b] = "ACTIVE"]
  BY DEF Start
<1>3. CASE UNCHANGED <<blk, ses>>
  BY <1>1, <1>3, QuietKeepsOpen
<1>4. ASSUME NEW s \in Sessions, NoOpenSession, blk[b] = "AVAILABLE",
             b \in ReviewBlocks => ItemPending(b),
             ses' = [ses EXCEPT ![s] = Started(b)], blk' = [blk EXCEPT ![b] = "ACTIVE"]
      PROVE  Starts(s, b)
  <2>1. Started(b).status = "ACTIVE" /\ Started(b).block = b
    BY DEF Started
  <2>2. \A t \in Sessions : ses'[t] = IF t = s THEN Started(b) ELSE ses[t]
    BY <1>4 DEF TypeInv, TypeOK
  <2>3. \A t \in Sessions : ~IsOpen(t)
    BY <1>4 DEF NoOpenSession, IsOpen
  <2> QED
    BY <1>1, <1>4, <2>1, <2>2, <2>3 DEF Starts, OpensAfter, IsOpen, Open
<1> QED
  BY <1>2, <1>3, <1>4

\* Every step keeps, gives up, completes or starts sessions.
LEMMA StepKinds ==
    ASSUME TypeInv, [Next]_vars
    PROVE  \/ KeepsOpen
           \/ \E gone : GivesUp(gone)
           \/ \E s \in Sessions : Completes(s)
           \/ \E s \in Sessions, b \in Blocks : Starts(s, b)
<1>1. TypeOK
  BY DEF TypeInv
<1>2. ASSUME NEW r \in Requests, Handle(r)
      PROVE  \/ KeepsOpen
             \/ \E gone : GivesUp(gone)
             \/ \E s \in Sessions : Completes(s)
             \/ \E s \in Sessions, b \in Blocks : Starts(s, b)
  <2>1. CASE RecoverOwn(r)
    BY <1>1, <2>1, RecoveryGivesUp DEF RecoverOwn
  <2>2. CASE Abandon(r)
    BY <2>2, AbandonGivesUp
  <2>3. CASE AnswerCompletes(r)
    BY <2>3, AnswerCompletesOne, CompletedRow
  <2>4. CASE Start(r)
    BY <2>4, StartStarts
  <2> QED
    BY <1>2, <2>1, <2>2, <2>3, <2>4, QuietActions, TransitionKeepsOpen, TeachingKeepsOpen
    DEF Handle
<1>3. CASE RecoverAll
  BY <1>1, <1>3, RecoveryGivesUp DEF RecoverAll
<1>4. CASE \/ \E a \in Auths : Logout(a) \/ AuthExpires(a)
           \/ ParentIntervention \/ Crash \/ Tick
  BY <1>4, ActorsKeepOpen
<1>5. CASE UNCHANGED vars
  BY <1>5, QuietKeepsOpen DEF vars
<1> QED
  BY <1>2, <1>3, <1>4, <1>5 DEF Next

\* OpenInv is inductive over the typed steps of the classroom.
THEOREM OpenStep == TypeInv /\ OpenInv /\ [Next]_vars => OpenInv'
<1> SUFFICES ASSUME TypeInv, OpenInv, [Next]_vars PROVE OpenInv'
  OBVIOUS
<1>1. TypeOK
  BY DEF TypeInv
<1> QED
  BY <1>1, StepKinds, KeepsOpenKeeps, GivesUpKeeps, CompletesKeeps, StartsKeeps

\* The four parts of OpenInv hold together in every reachable state.
THEOREM OpenInvariant == Spec => []OpenInv
BY TypeInit, TypeStep, OpenInit, OpenStep, PTL DEF Spec

\* The student never has two open sessions: StartSession's query alone ensures it,
\* whatever recoveries, logouts and operations run between two starts.
THEOREM OneOpenSessionHolds == Spec => []OneOpenSession
<1>1. OpenInv => OneOpenSession
  BY DEF OpenInv
<1> QED
  BY <1>1, OpenInvariant, PTL

\* Blocks are ACTIVE exactly under an open session, through every path out of one.
THEOREM BlockTracksSessionHolds == Spec => []BlockTracksSession
<1>1. OpenInv => BlockTracksSession
  BY DEF OpenInv
<1> QED
  BY <1>1, OpenInvariant, PTL

\* A review block given back by the end of its session has its item pending then, for any
\* sharing of items between blocks: only the session that ends could have closed it, and
\* the abandonment that closes an item completes the block.
THEOREM GivenBackPendingHolds == Spec => GivenBackPending
<1>1. ASSUME TypeInv, OpenInv, [Next]_vars,
             NEW b \in ReviewBlocks, blk[b] = "ACTIVE", blk'[b] = "AVAILABLE"
      PROVE  ItemOf[b] \in pending'
  <2>1. b \in Blocks /\ TypeOK /\ blk'[b] # blk[b]
    BY <1>1, BlocksAssumption DEF TypeInv
  <2>2. PICK gone : GivesUp(gone)
    <3>1. ~KeepsOpen
      BY <2>1 DEF KeepsOpen
    <3>2. ASSUME NEW s \in Sessions, Completes(s) PROVE FALSE
      BY <1>1, <2>1, <3>2 DEF Completes, TypeOK
    <3>3. ASSUME NEW s \in Sessions, NEW c \in Blocks, Starts(s, c) PROVE FALSE
      BY <1>1, <2>1, <3>3 DEF Starts, TypeOK
    <3> QED
      BY <1>1, <3>1, <3>2, <3>3, StepKinds
  <2>3. PICK s \in gone : ses[s].block = b /\ ~ClosesReview(s)
    BY <1>1, <2>1, <2>2 DEF GivesUp, Release
  <2>4. s \in Sessions /\ IsOpen(s) /\ gone = {s}
    BY <1>1, <2>2, <2>3 DEF GivesUp, OpenInv, OneOpenSession, IsOpen
  <2>5. ItemOf[b] \in pending
    BY <1>1, <2>3, <2>4 DEF OpenInv, OpenItemPending
  <2>6. pending' = pending
    BY <2>2, <2>3, <2>4 DEF GivesUp, Release, ClosedItems
  <2> QED
    BY <2>5, <2>6
<1>2. TypeInv /\ OpenInv /\ [Next]_vars =>
        \A b \in ReviewBlocks :
           blk[b] = "ACTIVE" /\ blk'[b] = "AVAILABLE" => ItemOf[b] \in pending'
  BY <1>1
<1> QED
  BY <1>2, TypeInit, TypeStep, OpenInvariant, PTL DEF Spec, GivenBackPending
-----------------------------------------------------------------------------
(***************************************************************************)
(* The classroom implements SessionContract.  A step changes the row of    *)
(* one session at most, as only one is open, and does one of the           *)
(* contract's steps to it.                                                 *)
(***************************************************************************)

\* The row of one session becomes next.
Rewrites(s, next) == ses' = [t \in Sessions |-> IF t = s THEN next ELSE ses[t]]

\* A row that teaches the same task in the same state.
Teaches(row, next) == next.teach = row.teach /\ next.task = row.task

\* No session exists at first.
LEMMA ContractInit == Init => Contract!CInit
BY DEF Init, Contract!CInit, Unborn

\* A step that leaves rows and blocks alone is none of the contract's.
LEMMA ContractStutter ==
    ASSUME UNCHANGED <<ses, blk>>
    PROVE  UNCHANGED Contract!cvars
BY DEF Contract!cvars

\* A pause, with or without a new version, is the contract's.
LEMMA ContractPause ==
    ASSUME TypeOK, NEW s \in Sessions, NEW next \in Row, Rewrites(s, next), UNCHANGED blk,
           ses[s].status = "ACTIVE", next.status = "PAUSED",
           next.block = ses[s].block, Teaches(ses[s], next),
           next.version \in {ses[s].version, ses[s].version + 1}
    PROVE  Contract!CNext
<1>1. Contract!Pause(s)
  BY DEF Contract!Pause, Rewrites, Teaches
<1> QED
  BY <1>1 DEF Contract!CNext

\* So is a resume.
LEMMA ContractResume ==
    ASSUME TypeOK, NEW s \in Sessions, NEW next \in Row, Rewrites(s, next), UNCHANGED blk,
           ses[s].status = "PAUSED", next.status = "ACTIVE",
           next.block = ses[s].block, Teaches(ses[s], next), next.version = ses[s].version
    PROVE  Contract!CNext
<1>1. Contract!Resume(s)
  BY DEF Contract!Resume, Rewrites, Teaches
<1> QED
  BY <1>1 DEF Contract!CNext

\* A teaching mutation of an open session is a turn.
LEMMA ContractTurn ==
    ASSUME TypeOK, NEW s \in Sessions, NEW next \in Row, Rewrites(s, next), UNCHANGED blk,
           IsOpen(s), next.status = ses[s].status,
           next.block = ses[s].block, next.version = ses[s].version + 1
    PROVE  Contract!CNext
<1>1. Contract!Turn(s)
  BY DEF Contract!Turn, Contract!IsOpen, Contract!TeachesOnly, Rewrites, IsOpen, Open
<1> QED
  BY <1>1 DEF Contract!CNext

\* A session that is given up gives its block back, or has it done with the review.
LEMMA ContractGiveUp ==
    ASSUME TypeOK, OpenInv, NEW s \in Sessions, IsOpen(s), Rewrites(s, Abandoned(s)), Release({s})
    PROVE  Contract!CNext
<1>1. ses[s] \in Row /\ Abandoned(s) \in Row
  BY AbandonedRow DEF TypeOK
<1>2. /\ Abandoned(s).status = "ABANDONED" /\ Abandoned(s).block = ses[s].block
      /\ Abandoned(s).version = ses[s].version + 1
  BY <1>1, AbandonedRow
<1>3. Teaches(ses[s], Abandoned(s))
  BY <1>1 DEF Teaches, Abandoned, Bump, WithStatus, Row
<1>4. ses[s].block \in Blocks /\ blk[ses[s].block] = "ACTIVE"
  BY DEF OpenInv, OpenHoldsBlock, BlockTracksSession, IsOpen
<1>5. \E to \in {"AVAILABLE", "COMPLETED"} : blk' = [blk EXCEPT ![ses[s].block] = to]
  <2> DEFINE to == IF ClosesReview(s) THEN "COMPLETED" ELSE "AVAILABLE"
  <2>1. \A b \in Blocks : blk'[b] = IF b = ses[s].block THEN to ELSE blk[b]
    BY <1>4 DEF Release
  <2>2. blk' = [blk EXCEPT ![ses[s].block] = to]
    BY <2>1, <1>4 DEF Release, TypeOK
  <2> QED
    BY <2>2
<1> HIDE DEF Abandoned
<1>6. Contract!GiveUp(s)
  BY <1>2, <1>3, <1>5 DEF Contract!GiveUp, Contract!IsOpen, Rewrites, Teaches, IsOpen, Open
<1> QED
  BY <1>6 DEF Contract!CNext

\* A completed session has its block done.
LEMMA ContractComplete ==
    ASSUME TypeOK, NEW s \in Sessions, NEW next \in Row, Rewrites(s, next), IsOpen(s),
           next.status = "COMPLETED", next.block = ses[s].block,
           next.version = ses[s].version + 1,
           blk' = [blk EXCEPT ![ses[s].block] = "COMPLETED"]
    PROVE  Contract!CNext
<1>1. Contract!Complete(s)
  BY DEF Contract!Complete, Contract!IsOpen, Contract!TeachesOnly, Rewrites, IsOpen, Open
<1> QED
  BY <1>1 DEF Contract!CNext

\* A session starts on an available block while none is open.
LEMMA ContractStart ==
    ASSUME TypeOK, NEW s \in Sessions, NEW b \in Blocks, Rewrites(s, Started(b)),
           NoOpenSession, ses[s].status = "NONE", blk[b] = "AVAILABLE",
           blk' = [blk EXCEPT ![b] = "ACTIVE"]
    PROVE  Contract!CNext
<1>1. Started(b).status = "ACTIVE" /\ Started(b).block = b /\ Started(b).version = 1
  BY DEF Started
<1> HIDE DEF Started
<1>2. Contract!Start(s, b)
  BY <1>1 DEF Contract!Start, Contract!IsOpen, Contract!TeachesOnly, Rewrites, NoOpenSession, Open
<1> QED
  BY <1>2 DEF Contract!CNext

\* What EXCEPT writes is a rewritten row.
LEMMA RewrittenRow ==
    ASSUME TypeOK, NEW s \in Sessions, NEW next, ses' = [ses EXCEPT ![s] = next]
    PROVE  Rewrites(s, next)
BY DEF TypeOK, Rewrites

\* Neither a lifecycle status nor a version says what is taught.
LEMMA KeptTeaching ==
    ASSUME NEW row \in Row, NEW st \in Open \cup Terminal
    PROVE  /\ Teaches(row, WithStatus(row, st))
           /\ Teaches(row, Bump(WithStatus(row, st)))
<1> DEFINE moved == WithStatus(row, st)
<1>1. moved \in Row /\ Teaches(row, moved)
  BY DEF WithStatus, Row, Teaches
<1> HIDE DEF moved
<1>2. Teaches(moved, Bump(moved))
  BY <1>1 DEF Bump, Row, Teaches
<1> QED
  BY <1>1, <1>2 DEF Teaches, moved

\* Pause, resume and heartbeat are steps of the contract, or change nothing it speaks of.
LEMMA ContractTransition ==
    ASSUME TypeInv, NEW r \in Requests, Pause(r) \/ Resume(r) \/ Heartbeat(r)
    PROVE  Contract!CNext \/ UNCHANGED Contract!cvars
<1> DEFINE s == req[r].ses
<1>1. TypeOK
  BY DEF TypeInv
<1>2. UNCHANGED blk
  BY DEF Pause, Resume, Heartbeat, Transition
<1>3. s \in Sessions /\ ses[s] \in Row
  BY SteppedRequest DEF Pause, Resume, Heartbeat, Transition
<1>4. ASSUME NEW to \in Open
      PROVE  LET next == WithStatus(ses[s], to) IN
             /\ next \in Row /\ next.status = to /\ next.block = ses[s].block
             /\ next.version = ses[s].version /\ Teaches(ses[s], next)
  <2>1. to \in Open \cup Terminal
    OBVIOUS
  <2> QED
    BY <1>3, <2>1, RowHelpers, KeptTeaching
<1>5. "ACTIVE" \in Open /\ "PAUSED" \in Open
  BY DEF Open
<1>6. CASE UNCHANGED ses
  BY <1>2, <1>6, ContractStutter
<1>7. ASSUME ses[s].status = "ACTIVE", ses' = [ses EXCEPT ![s] = WithStatus(ses[s], "PAUSED")]
      PROVE  Contract!CNext
  <2> DEFINE next == WithStatus(ses[s], "PAUSED")
  <2>1. /\ next \in Row /\ next.status = "PAUSED" /\ next.block = ses[s].block
        /\ next.version = ses[s].version /\ Teaches(ses[s], next)
    BY <1>4, <1>5
  <2>2. Rewrites(s, next)
    BY <1>1, <1>3, <1>7, RewrittenRow
  <2> HIDE DEF next
  <2> QED
    BY <1>1, <1>2, <1>3, <1>7, <2>1, <2>2, ContractPause
<1>8. ASSUME ses[s].status = "PAUSED", ses' = [ses EXCEPT ![s] = WithStatus(ses[s], "ACTIVE")]
      PROVE  Contract!CNext
  <2> DEFINE next == WithStatus(ses[s], "ACTIVE")
  <2>1. /\ next \in Row /\ next.status = "ACTIVE" /\ next.block = ses[s].block
        /\ next.version = ses[s].version /\ Teaches(ses[s], next)
    BY <1>4, <1>5
  <2>2. Rewrites(s, next)
    BY <1>1, <1>3, <1>8, RewrittenRow
  <2> HIDE DEF next
  <2> QED
    BY <1>1, <1>2, <1>3, <1>8, <2>1, <2>2, ContractResume
<1>9. ASSUME ses[s].status = "ACTIVE", ses' = [ses EXCEPT ![s] = WithStatus(ses[s], "ACTIVE")]
      PROVE  UNCHANGED Contract!cvars
  <2>1. WithStatus(ses[s], "ACTIVE") = ses[s]
    BY <1>3, <1>9 DEF WithStatus, Row
  <2>2. UNCHANGED ses
    BY <1>1, <1>9, <2>1 DEF TypeOK
  <2> QED
    BY <1>2, <2>2, ContractStutter
<1> QED
  BY <1>6, <1>7, <1>8, <1>9 DEF Pause, Resume, Heartbeat, Transition

\* The voice return and the answers that do not complete are turns.
LEMMA ContractTeaching ==
    ASSUME TypeInv, NEW r \in Requests,
           \/ AnswerTaught(r) \/ AnswerBacktracks(r) \/ AnswerReturns(r) \/ Support(r)
           \/ VoiceReturn(r)
    PROVE  Contract!CNext
<1> DEFINE s == req[r].ses
<1>1. TypeOK
  BY DEF TypeInv
<1>2. CASE AnswerTaught(r) \/ AnswerBacktracks(r) \/ AnswerReturns(r) \/ Support(r)
  <2>1. PICK row \in Row :
          /\ row.status = ses[s].status /\ row.block = ses[s].block
          /\ row.version = ses[s].version /\ Commit(r, row)
    BY <1>2, CommittedRow
  <2>2. s \in Sessions /\ MayCommit(r, req[r].kind) /\ UNCHANGED blk
    BY <1>2, CommittedRow
  <2>3. IsOpen(s)
    BY <2>2, CommitsOpen
  <2>4. /\ Bump(row) \in Row /\ Bump(row).status = row.status /\ Bump(row).block = row.block
        /\ Bump(row).version = row.version + 1
    BY RowHelpers
  <2>5. Rewrites(s, Bump(row))
    BY <1>1, <2>1, <2>2, RewrittenRow DEF Commit
  <2> QED
    BY <1>1, <2>1, <2>2, <2>3, <2>4, <2>5, ContractTurn
<1>3. CASE VoiceReturn(r)
  <2> DEFINE next == Bump(Taught(ses[s], "RETURN", ses[s].task, ses[s].form))
  <2>1. s \in Sessions /\ ses[s] \in Row /\ IsOpen(s) /\ UNCHANGED blk
    BY <1>3, SteppedRequest DEF VoiceReturn, IsOpen, Open
  <2>2. ses[s].task \in Tasks /\ ses[s].form \in Forms /\ "RETURN" \in Teach
    BY <2>1 DEF Row, Teach
  <2>3. /\ next \in Row /\ next.status = ses[s].status /\ next.block = ses[s].block
        /\ next.version = ses[s].version + 1
    BY <2>1, <2>2, TurnedRow
  <2>4. Rewrites(s, next)
    BY <1>1, <1>3, <2>1, RewrittenRow DEF VoiceReturn
  <2> HIDE DEF next
  <2> QED
    BY <1>1, <2>1, <2>3, <2>4, ContractTurn
<1> QED
  BY <1>2, <1>3

\* A solved original task completes the session of the contract.
LEMMA ContractAnswerCompletes ==
    ASSUME TypeInv, NEW r \in Requests, AnswerCompletes(r)
    PROVE  Contract!CNext
<1> DEFINE s == req[r].ses
           row == Completed(s)
<1>1. TypeOK
  BY DEF TypeInv
<1>2. s \in Sessions /\ IsOpen(s)
  BY CompletedRow, CommitsOpen
<1>3. /\ row \in Row /\ row.status = "COMPLETED" /\ row.block = ses[s].block
      /\ row.version = ses[s].version /\ Commit(r, row)
  BY CompletedRow
<1> HIDE DEF row
<1>4. /\ Bump(row) \in Row /\ Bump(row).status = "COMPLETED" /\ Bump(row).block = ses[s].block
      /\ Bump(row).version = ses[s].version + 1
  BY <1>3, RowHelpers
<1>5. Rewrites(s, Bump(row))
  BY <1>1, <1>2, <1>3, RewrittenRow DEF Commit
<1>6. blk' = [blk EXCEPT ![ses[s].block] = "COMPLETED"]
  BY DEF AnswerCompletes
<1> QED
  BY <1>1, <1>2, <1>4, <1>5, <1>6, ContractComplete

\* A start begins a session of the contract, or returns the one that is open.
LEMMA ContractStarts ==
    ASSUME TypeInv, NEW r \in Requests, Start(r)
    PROVE  Contract!CNext \/ UNCHANGED Contract!cvars
<1>1. TypeOK
  BY DEF TypeInv
<1>2. PICK b \in Blocks :
        \/ UNCHANGED <<blk, ses>>
        \/ /\ NoOpenSession /\ blk[b] = "AVAILABLE"
           /\ \E s \in Sessions : ses[s].status = "NONE" /\ ses' = [ses EXCEPT ![s] = Started(b)]
           /\ blk' = [blk EXCEPT ![b] = "ACTIVE"]
  BY DEF Start
<1>3. CASE UNCHANGED <<blk, ses>>
  BY <1>3, ContractStutter
<1>4. ASSUME NEW s \in Sessions, NoOpenSession, blk[b] = "AVAILABLE", ses[s].status = "NONE",
             ses' = [ses EXCEPT ![s] = Started(b)], blk' = [blk EXCEPT ![b] = "ACTIVE"]
      PROVE  Contract!CNext
  <2>1. Rewrites(s, Started(b))
    BY <1>1, <1>4, RewrittenRow
  <2> QED
    BY <1>1, <1>4, <2>1, ContractStart
<1> QED
  BY <1>2, <1>3, <1>4

\* The student's abandonment is a session given up.
LEMMA ContractAbandon ==
    ASSUME TypeInv, OpenInv, NEW r \in Requests, Abandon(r)
    PROVE  Contract!CNext
<1> DEFINE s == req[r].ses
<1>1. TypeOK
  BY DEF TypeInv
<1>2. s \in Sessions /\ IsOpen(s)
  BY SteppedRequest DEF Abandon, IsOpen
<1>3. Rewrites(s, Abandoned(s)) /\ Release({s})
  BY <1>1, <1>2, RewrittenRow DEF Abandon
<1> QED
  BY <1>1, <1>2, <1>3, ContractGiveUp

\* A recovery finds one stale session at most, and pauses it or gives it up.
LEMMA ContractRecovery ==
    ASSUME TypeOK, OpenInv, Recovery(StaleSessions, LostSessions)
    PROVE  Contract!CNext \/ UNCHANGED Contract!cvars
<1>1. /\ ses' = [t \in Sessions |->
                IF t \in LostSessions THEN Abandoned(t)
                ELSE IF t \in StaleSessions THEN WithStatus(ses[t], "PAUSED") ELSE ses[t]]
      /\ Release(LostSessions)
  BY DEF Recovery
<1>2. \A t \in StaleSessions : t \in Sessions /\ Stale(t) /\ IsOpen(t)
  BY DEF StaleSessions, Stale, IsOpen, Open
<1>3. \A t \in LostSessions : t \in StaleSessions /\ idle[t] >= AbandonAfter
  BY DEF LostSessions
<1>4. CASE StaleSessions = {}
  <2>1. LostSessions = {}
    BY <1>3, <1>4
  <2>2. UNCHANGED ses
    BY <1>1, <1>4, <2>1 DEF TypeOK
  <2>3. UNCHANGED blk
    BY <1>1, <2>1 DEF TypeOK, Release
  <2> QED
    BY <2>2, <2>3, ContractStutter
<1>5. ASSUME NEW s \in StaleSessions PROVE Contract!CNext
  <2>1. s \in Sessions /\ IsOpen(s) /\ ses[s] \in Row
    BY <1>2 DEF TypeOK
  <2>2. \A t \in StaleSessions : t = s
    BY <1>2, <2>1 DEF OpenInv, OneOpenSession, IsOpen
  <2>3. CASE s \in LostSessions
    <3>1. LostSessions = {s}
      BY <1>3, <2>2, <2>3
    <3>2. Rewrites(s, Abandoned(s))
      BY <1>1, <2>1, <2>2, <3>1 DEF Rewrites
    <3>3. Release({s})
      BY <1>1, <3>1
    <3> QED
      BY <2>1, <3>2, <3>3, ContractGiveUp
  <2>4. CASE s \notin LostSessions
    <3> DEFINE next == WithStatus(ses[s], "PAUSED")
    <3>1. LostSessions = {}
      BY <1>3, <2>2, <2>4
    <3>2. Rewrites(s, next)
      BY <1>1, <2>1, <2>2, <3>1 DEF Rewrites
    <3>3. UNCHANGED blk
      BY <1>1, <3>1 DEF TypeOK, Release
    <3>4. ses[s].status = "ACTIVE"
      BY <1>2, <2>4 DEF Stale, LostSessions
    <3>5. "PAUSED" \in Open \cup Terminal
      BY DEF Open
    <3>6. /\ next \in Row /\ next.status = "PAUSED" /\ next.block = ses[s].block
          /\ next.version = ses[s].version /\ Teaches(ses[s], next)
      BY <2>1, <3>5, RowHelpers, KeptTeaching
    <3> HIDE DEF next
    <3> QED
      BY <2>1, <3>2, <3>3, <3>4, <3>6, ContractPause
  <2> QED
    BY <2>3, <2>4
<1> QED
  BY <1>4, <1>5

\* A logout pauses the active session, or takes a paused one from its operation: a turn.
LEMMA ContractLogout ==
    ASSUME TypeOK, OpenInv, NEW a \in Auths, Logout(a)
    PROVE  Contract!CNext \/ UNCHANGED Contract!cvars
<1> DEFINE paused == {s \in Sessions : ses[s].status = "ACTIVE"}
           stripped == {s \in Sessions : ses[s].status = "PAUSED" /\ lease[s].token # Null}
<1>1. /\ ses' = [s \in Sessions |->
               IF s \in paused THEN Bump(WithStatus(ses[s], "PAUSED"))
               ELSE IF s \in stripped THEN Bump(ses[s]) ELSE ses[s]]
      /\ UNCHANGED blk
  BY DEF Logout
<1>2. \A s, t \in paused \cup stripped : s = t /\ IsOpen(s)
  BY DEF OpenInv, OneOpenSession, IsOpen, Open
<1>3. \A s \in paused : s \in Sessions /\ ses[s].status = "ACTIVE"
  OBVIOUS
<1>4. \A s \in stripped : s \in Sessions /\ s \notin paused
  OBVIOUS
<1> HIDE DEF paused, stripped
<1>5. ASSUME NEW s \in paused PROVE Contract!CNext
  <2> DEFINE next == Bump(WithStatus(ses[s], "PAUSED"))
  <2>1. s \in Sessions /\ ses[s] \in Row /\ ses[s].status = "ACTIVE"
    BY <1>3 DEF TypeOK
  <2>2. Rewrites(s, next)
    BY <1>1, <1>2, <2>1 DEF Rewrites
  <2>3. "PAUSED" \in Open \cup Terminal
    BY DEF Open
  <2>4. /\ next \in Row /\ next.status = "PAUSED" /\ next.block = ses[s].block
        /\ next.version = ses[s].version + 1 /\ Teaches(ses[s], next)
    BY <2>1, <2>3, LoggedOutRow, KeptTeaching
  <2> HIDE DEF next
  <2> QED
    BY <1>1, <2>1, <2>2, <2>4, ContractPause
<1>6. ASSUME NEW s \in stripped PROVE Contract!CNext
  <2>1. s \in Sessions /\ ses[s] \in Row /\ IsOpen(s) /\ s \notin paused
    BY <1>2, <1>4 DEF TypeOK
  <2>2. Rewrites(s, Bump(ses[s]))
    BY <1>1, <1>2, <2>1 DEF Rewrites
  <2>3. /\ Bump(ses[s]) \in Row /\ Bump(ses[s]).status = ses[s].status
        /\ Bump(ses[s]).block = ses[s].block /\ Bump(ses[s]).version = ses[s].version + 1
    BY <2>1, RowHelpers
  <2> QED
    BY <1>1, <2>1, <2>2, <2>3, ContractTurn
<1>7. CASE paused \cup stripped = {}
  <2>1. UNCHANGED ses
    BY <1>1, <1>7 DEF TypeOK
  <2> QED
    BY <1>1, <2>1, ContractStutter
<1> QED
  BY <1>5, <1>6, <1>7

\* A parent's notice is a turn of the one active session.
LEMMA ContractNotice ==
    ASSUME TypeOK, OpenInv, ParentIntervention
    PROVE  Contract!CNext
<1>1. PICK s \in Sessions : ses[s].status = "ACTIVE"
  BY DEF ParentIntervention
<1>2. ses' = [t \in Sessions |-> IF ses[t].status = "ACTIVE" THEN Bump(ses[t]) ELSE ses[t]]
      /\ UNCHANGED blk
  BY DEF ParentIntervention
<1>3. ses[s] \in Row /\ IsOpen(s)
  BY <1>1 DEF TypeOK, IsOpen, Open
<1>4. \A t \in Sessions : ses[t].status = "ACTIVE" => t = s
  BY <1>1 DEF OpenInv, OneOpenSession, Open
<1>5. Rewrites(s, Bump(ses[s]))
  BY <1>1, <1>2, <1>4 DEF Rewrites
<1>6. /\ Bump(ses[s]) \in Row /\ Bump(ses[s]).status = ses[s].status
      /\ Bump(ses[s]).block = ses[s].block /\ Bump(ses[s]).version = ses[s].version + 1
  BY <1>3, RowHelpers
<1> QED
  BY <1>2, <1>3, <1>5, <1>6, ContractTurn

\* Every step of the classroom is a step of the contract or none.
THEOREM ContractStep == TypeInv /\ OpenInv /\ [Next]_vars => [Contract!CNext]_(Contract!cvars)
<1> SUFFICES ASSUME TypeInv, OpenInv, [Next]_vars
             PROVE  Contract!CNext \/ UNCHANGED Contract!cvars
  OBVIOUS
<1>1. TypeOK
  BY DEF TypeInv
<1>2. ASSUME NEW r \in Requests, Handle(r)
      PROVE  Contract!CNext \/ UNCHANGED Contract!cvars
  <2>1. CASE \/ Arrive(r) \/ Refuse(r) \/ GiveUp(r) \/ End(r) \/ EndFails(r)
             \/ Check(r) \/ Begin(r) \/ Read(r) \/ Voice(r)
    <3>1. UNCHANGED <<ses, blk>>
      BY <2>1 DEF Arrive, Refuse, GiveUp, End, EndFails, Check, Begin, Read, Voice
    <3> QED
      BY <3>1, ContractStutter
  <2>2. CASE RecoverOwn(r)
    BY <1>1, <2>2, ContractRecovery DEF RecoverOwn
  <2> QED
    BY <1>2, <2>1, <2>2, ContractTransition, ContractTeaching, ContractAnswerCompletes,
       ContractStarts, ContractAbandon DEF Handle
<1>3. CASE RecoverAll
  BY <1>1, <1>3, ContractRecovery DEF RecoverAll
<1>4. ASSUME NEW a \in Auths, Logout(a) \/ AuthExpires(a)
      PROVE  Contract!CNext \/ UNCHANGED Contract!cvars
  <2>1. CASE Logout(a)
    BY <1>1, <2>1, ContractLogout
  <2>2. CASE AuthExpires(a)
    BY <2>2, ContractStutter DEF AuthExpires
  <2> QED
    BY <1>4, <2>1, <2>2
<1>5. CASE ParentIntervention
  BY <1>1, <1>5, ContractNotice
<1>6. CASE Crash \/ Tick
  BY <1>6, ContractStutter DEF Crash, Tick
<1>7. CASE UNCHANGED vars
  BY <1>7, ContractStutter DEF vars
<1> QED
  BY <1>2, <1>3, <1>4, <1>5, <1>6, <1>7 DEF Next

\* Whatever recoveries, logouts, crashes and operations interleave, the sessions and plan
\* blocks of the classroom do nothing but what SessionContract allows: one session moves
\* at a time, through its lifecycle, with a version that counts its teaching mutations.
THEOREM ImplementsContractHolds == Spec => ImplementsContract
BY TypeInit, TypeStep, OpenInit, OpenStep, ContractInit, ContractStep, PTL
DEF Spec, ImplementsContract, Contract!CSpec
=============================================================================
