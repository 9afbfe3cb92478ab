--------------------------- MODULE SessionContract ---------------------------
(***************************************************************************)
(* What the classroom promises the clients, the planner and the parent's   *)
(* live view of one student's learning sessions: the lifecycle, the order  *)
(* of teaching versions and the states of the plan blocks, without         *)
(* requests, leases, decisions or time.                                    *)
(***************************************************************************)
EXTENDS Naturals

CONSTANTS Sessions, Blocks, Null

VARIABLES
    status,   \* learning_sessions.status, "NONE" before the session exists
    holds,    \* the plan block of a session, Null before it exists
    teach,    \* what the student is being taught: tutor state and active task
    version,  \* the teaching version
    blk       \* learning_plan_blocks.status

cvars == <<status, holds, teach, version, blk>>

IsOpen(s) == status[s] \in {"ACTIVE", "PAUSED"}

\* A step on session s leaves the teaching of the others alone.
TeachesOnly(s) == \A t \in Sessions \ {s} : teach'[t] = teach[t]

CInit ==
    /\ status = [s \in Sessions |-> "NONE"]
    /\ holds = [s \in Sessions |-> Null]
    /\ version = [s \in Sessions |-> 0]
    /\ blk = [b \in Blocks |-> "AVAILABLE"]

\* A session starts only on a free block and only as the one open session.
Start(s, b) ==
    /\ \A t \in Sessions : ~IsOpen(t)
    /\ status[s] = "NONE" /\ blk[b] = "AVAILABLE"
    /\ status' = [status EXCEPT ![s] = "ACTIVE"]
    /\ holds' = [holds EXCEPT ![s] = b]
    /\ version' = [version EXCEPT ![s] = 1]
    /\ blk' = [blk EXCEPT ![b] = "ACTIVE"]
    /\ TeachesOnly(s)

\* A pause keeps what is taught; a logout that pauses also moves the version.
Pause(s) ==
    /\ status[s] = "ACTIVE"
    /\ status' = [status EXCEPT ![s] = "PAUSED"]
    /\ version' \in {version, [version EXCEPT ![s] = @ + 1]}
    /\ UNCHANGED <<holds, teach, blk>>

Resume(s) ==
    /\ status[s] = "PAUSED"
    /\ status' = [status EXCEPT ![s] = "ACTIVE"]
    /\ UNCHANGED <<holds, teach, version, blk>>

\* A teaching mutation: one version further, in whatever status the session is.
Turn(s) ==
    /\ IsOpen(s)
    /\ version' = [version EXCEPT ![s] = @ + 1]
    /\ TeachesOnly(s)
    /\ UNCHANGED <<status, holds, blk>>

Complete(s) ==
    /\ IsOpen(s)
    /\ status' = [status EXCEPT ![s] = "COMPLETED"]
    /\ version' = [version EXCEPT ![s] = @ + 1]
    /\ blk' = [blk EXCEPT ![holds[s]] = "COMPLETED"]
    /\ TeachesOnly(s)
    /\ UNCHANGED holds

\* Given up, the block is free again, or done when a failed review was settled.
GiveUp(s) ==
    /\ IsOpen(s)
    /\ status' = [status EXCEPT ![s] = "ABANDONED"]
    /\ version' = [version EXCEPT ![s] = @ + 1]
    /\ \E to \in {"AVAILABLE", "COMPLETED"} : blk' = [blk EXCEPT ![holds[s]] = to]
    /\ UNCHANGED <<holds, teach>>

CNext == \E s \in Sessions :
    \/ \E b \in Blocks : Start(s, b)
    \/ Pause(s) \/ Resume(s) \/ Turn(s) \/ Complete(s) \/ GiveUp(s)

CSpec == CInit /\ [][CNext]_cvars
=============================================================================
