---------------------------- MODULE MCOperations ----------------------------
(***************************************************************************)
(* The two halves of an operation of the classroom on small instances: how *)
(* it gets to its commit (TutorTurn, with the timeouts of the code in      *)
(* seconds) and what it commits (Lessons).  A behaviour shows one half, as *)
(* the modules share no variable; half says which.                         *)
(***************************************************************************)
EXTENDS TutorTurn, MCLessons

\* A jitter of none or a second, and a Retry-After that the policy refuses.
SomePauses == {0, 1, 21}

\* An answer at once, and after most of a minute.
SomeLatencies == {0, 40}

VARIABLE half

OperationsInit == half \in {"turn", "lessons"} /\ Init /\ LessonsInit

OperationsNext ==
    \/ half = "turn" /\ Next /\ UNCHANGED <<half, lessonVars>>
    \/ half = "lessons" /\ LessonsNext /\ UNCHANGED <<half, vars>>

OperationsSpec == OperationsInit /\ [][OperationsNext]_<<half, vars, lessonVars>>
=============================================================================
