----------------------------- MODULE MCExecution -----------------------------
(***************************************************************************)
(* Calls, revisions and plans as model values.                             *)
(***************************************************************************)
EXTENDS Execution, TLC

CONSTANTS c1, c2, r1, r2, q1, q2

Symmetry == Permutations({c1, c2}) \cup Permutations({r1, r2})

=============================================================================
