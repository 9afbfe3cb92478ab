----------------------------- MODULE MCLessons -----------------------------
(***************************************************************************)
(* Lessons about two knowledge points.                                     *)
(***************************************************************************)
EXTENDS Lessons, TLC

CONSTANTS k1, k2

\* k1 builds on k2.
OneDependency == (k1 :> {k2}) @@ (k2 :> {})
=============================================================================
