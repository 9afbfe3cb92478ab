-------------------------- MODULE MCContentPipeline --------------------------
(***************************************************************************)
(* Small content pipelines for TLC.                                        *)
(***************************************************************************)
EXTENDS ContentPipeline, TLC

CONSTANTS q1, q2, q3, r1, r2, alice, bob

\* q1 and q2 ask the same.
PromptOf == [q \in Questions |-> IF q \in {q1, q2} THEN "journey" ELSE "lever"]
AllSound == Questions \ {q3}

Alike == Permutations(Requests)
=============================================================================
