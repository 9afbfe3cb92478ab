----------------------------- MODULE ReleaseGate -----------------------------
(***************************************************************************)
(* What the content pipeline promises the classroom: the gate of           *)
(* contentpipeline/gate.go over all questions, without requests, rows or   *)
(* reviewers.  A question is released only after it has passed its         *)
(* validation, as the only one with its prompt, and a clean review by      *)
(* someone else; out of the classroom it stays out.                        *)
(***************************************************************************)
CONSTANTS Questions, Prompt

VARIABLES
    stage,   \* the status of a question, "ABSENT" before its draft is stored
    passed,  \* the questions whose validation passed
    cleared  \* the questions with a clean independent review

gvars == <<stage, passed, cleared>>

GInit ==
    /\ stage = [q \in Questions |-> "ABSENT"]
    /\ passed = {} /\ cleared = {}

\* q goes from one stage to the next.
Step(q, from, to) == stage[q] = from /\ stage' = [stage EXCEPT ![q] = to]

\* Drafts enter together, none that was there before.
Enter(batch) ==
    /\ \A q \in batch : stage[q] = "ABSENT"
    /\ stage' = [q \in Questions |-> IF q \in batch THEN "DRAFT" ELSE stage[q]]
    /\ UNCHANGED <<passed, cleared>>

Reject(q) == Step(q, "DRAFT", "REJECTED_AUTOMATIC") /\ UNCHANGED <<passed, cleared>>

Pass(q) ==
    /\ \A p \in passed : Prompt[p] # Prompt[q]
    /\ Step(q, "DRAFT", "AUTOMATIC_VALIDATED")
    /\ passed' = passed \cup {q}
    /\ UNCHANGED cleared

Clear(q) ==
    /\ q \in passed
    /\ Step(q, "AUTOMATIC_VALIDATED", "AI_REVIEWED")
    /\ cleared' = cleared \cup {q}
    /\ UNCHANGED passed

Publish(q) ==
    /\ q \in passed \cap cleared
    /\ Step(q, "AI_REVIEWED", "RELEASED")
    /\ UNCHANGED <<passed, cleared>>

Withdraw(q) == Step(q, "RELEASED", "QUARANTINED") /\ UNCHANGED <<passed, cleared>>

GNext ==
    \/ \E batch \in SUBSET Questions : Enter(batch)
    \/ \E q \in Questions : Reject(q) \/ Pass(q) \/ Clear(q) \/ Publish(q) \/ Withdraw(q)

GSpec == GInit /\ [][GNext]_gvars
=============================================================================
