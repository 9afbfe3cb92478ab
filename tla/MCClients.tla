------------------------------ MODULE MCClients ------------------------------
(***************************************************************************)
(* What the two browsers show and what the clock of a session counts, on   *)
(* small instances: StudyClock, ClassroomStore and ParentView.  A          *)
(* behaviour shows one of them, as the modules share no variable; part     *)
(* says which.                                                             *)
(***************************************************************************)
EXTENDS StudyClock, ClassroomStore, ParentView

CONSTANTS s1, s2, c1, c2

VARIABLE part

ClientsInit ==
    part \in {"clock", "store", "parent"} /\ StudyClockInit /\ StoreInit /\ ParentInit

ClientsNext ==
    \/ part = "clock" /\ StudyClockNext /\ UNCHANGED <<part, storeVars, parentVars>>
    \/ part = "store" /\ StoreNext /\ UNCHANGED <<part, clockVars, parentVars>>
    \/ part = "parent" /\ ParentNext /\ UNCHANGED <<part, clockVars, storeVars>>

\* Nothing that has to happen is enabled in a part that rests in its initial state.
ClientsSpec ==
    /\ ClientsInit /\ [][ClientsNext]_<<part, clockVars, storeVars, parentVars>>
    /\ StoreFairness /\ ParentFairness
=============================================================================
