----------------------------- MODULE TutorEngine -----------------------------
(***************************************************************************)
(* The Socratic rules engine (server/internal/tutor) as functions, and the *)
(* level of help that the classroom counts for a tutor state.              *)
(***************************************************************************)
EXTENDS Integers

CONSTANT MaxRounds   \* Engine.MaxSocraticFailedRounds

ASSUME RoundsAssumption == MaxRounds \in Nat \ {0}

\* What prepareAgent passes on of the model's analysis of an answer: sure is a
\* confidence of 0.9 or more, advice the recommended action.
Advices == {"BACKTRACK", "VOICE_EXPLAIN", "OTHER"}
Analysis == [right : BOOLEAN, sure : BOOLEAN, upset : BOOLEAN, advice : Advices]

\* The states the engine answers with.
Replies == {"VARIANT", "BREAK", "BACKTRACK", "EXPLAIN", "VOICE_EXPLAIN",
            "PROBE", "SCAFFOLD", "ANALOGY"}
TutorStates == Replies \cup {"ASK", "HINT", "RETURN", "COMPLETE"}

Reply(next, round) == [next |-> next, round |-> round]
Decision == [next : TutorStates, round : Nat]

\* Engine.Decide; prepareAgent never reports a requested hint.
Decide(fails, a) ==
    LET gap == a.advice = "BACKTRACK"
        voice == a.advice = "VOICE_EXPLAIN"
        round == fails + 1
    IN CASE a.right -> Reply("VARIANT", 0)
         [] ~a.right /\ a.upset -> Reply(IF voice THEN "VOICE_EXPLAIN" ELSE "BREAK", 0)
         [] ~a.right /\ ~a.upset /\ gap -> Reply("BACKTRACK", 0)
         [] ~a.right /\ ~a.upset /\ ~gap /\ fails >= MaxRounds ->
              Reply(IF voice THEN "VOICE_EXPLAIN" ELSE "EXPLAIN", MaxRounds)
         [] ~a.right /\ ~a.upset /\ ~gap /\ fails < MaxRounds ->
              Reply(CASE round = 1 -> "PROBE" [] round = 2 -> "SCAFFOLD" [] OTHER -> "ANALOGY",
                    round)

\* assistanceForState
Assistance(state) ==
    CASE state \in {"PROBE", "HINT"} -> 1
      [] state = "SCAFFOLD" -> 2
      [] state \in {"ANALOGY", "BACKTRACK"} -> 3
      [] state \in {"EXPLAIN", "VOICE_EXPLAIN"} -> 4
      [] OTHER -> 0

Larger(a, b) == IF a > b THEN a ELSE b
Smaller(a, b) == IF a < b THEN a ELSE b
=============================================================================
