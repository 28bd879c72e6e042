--------------------------- MODULE MCReconciliation ---------------------------
(***************************************************************************)
(* One plan as reconciliation_plan builds it: two implementation tasks with *)
(* overlapping scopes, the verification of both, and the human approval of *)
(* the verification.                                                       *)
(***************************************************************************)
EXTENDS Reconciliation, TLC

CONSTANTS o1, e1, c1, c2, r0, r1

Plans == {"p"}
Components == {"a", "x"}

Tasks == {"dir", "file", "verify", "sign"}
PlanOfTask == [t \in Tasks |-> "p"]
KindOfTask == [t \in Tasks |-> CASE t = "verify" -> "verification"
                                 [] t = "sign" -> "approval"
                                 [] OTHER -> "writer"]
OverlappingScopes == [t \in Tasks |-> CASE t = "dir" -> {<<"a">>}
                                        [] t = "file" -> {<<"a", "x">>}
                                        [] OTHER -> {}]
BuiltDependencies == [t \in Tasks |-> CASE t = "verify" -> {"dir", "file"}
                                        [] t = "sign" -> {"verify"}
                                        [] OTHER -> {}]

\* The plan is there to bring the repository to satisfy its intents: the
\* original revision does not, the edited one does.
EditedConforms == [p \in Plans |-> {r1}]

\* The same plan with one of its two implementation tasks.
SmallTasks == Tasks \ {"dir"}
SmallPlanOf == [t \in SmallTasks |-> "p"]
SmallKind == [t \in SmallTasks |-> KindOfTask[t]]
SmallScope == [t \in SmallTasks |-> OverlappingScopes[t]]
SmallDependencies == [t \in SmallTasks |-> BuiltDependencies[t] \cap SmallTasks]

Symmetry == Permutations({c1, c2})

=============================================================================
