----------------------------- MODULE MCClassroom -----------------------------
(***************************************************************************)
(* Small classrooms for TLC.                                               *)
(***************************************************************************)
EXTENDS Classroom, TLC

CONSTANTS s1, s2, b1, b2, b3, i1, r1, r2, a1, a2

\* The review blocks, of two plans if there are two, are bound to the same queue item.
OneItem == [b \in ReviewBlocks |-> i1]

\* Sessions, requests and devices are interchangeable.
Alike == Permutations(Sessions) \cup Permutations(Requests) \cup Permutations(Auths)
=============================================================================
