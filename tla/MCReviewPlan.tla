---------------------------- MODULE MCReviewPlan ----------------------------
(***************************************************************************)
(* Small plans for TLC.                                                    *)
(***************************************************************************)
EXTENDS ReviewPlan, TLC

CONSTANTS k1, k2, c1, c2

\* k2 is a prerequisite of k1, in another subject.
OneDependency == {<<k1, k2>>}

\* Each has a subject of its own.
OwnSubject == [k \in Kps |-> k]

\* A parent enables every subject, or only that of k2, or only one without any content.
AllOrOne == {{}, {k2}}
AllOrNone == {{}, {"PHYSICS"}}

Alike == Permutations(Calls)
=============================================================================
