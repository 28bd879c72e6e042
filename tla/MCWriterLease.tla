---------------------------- MODULE MCWriterLease ----------------------------
(***************************************************************************)
(* Two writer tasks in one mutation domain, each of a plan of its own,     *)
(* with disjoint scopes: both may be claimed at once.                      *)
(***************************************************************************)
EXTENDS WriterLease, TLC

CONSTANTS o1, o2, e1, c1, c2

Tasks == {"dir", "other"}
Plans == {"p1", "p2"}
PlanOfTask == [t \in Tasks |-> IF t = "dir" THEN "p1" ELSE "p2"]
KindOfTask == [t \in Tasks |-> "writer"]
DisjointScopes == [t \in Tasks |-> IF t = "dir" THEN {<<"a">>} ELSE {<<"b">>}]
NoDependencies == [t \in Tasks |-> {}]
Components == {"a", "b", "x"}
Mutations == {{<<"a", "x">>}, {<<"a", "x">>, <<"b">>}}

AllFaults == {"crash", "abandon", "io"}
NoFaults == {}
CrashOnly == {"crash"}
AbandonOnly == {"abandon"}

Symmetry == Permutations({o1, o2}) \cup Permutations({c1, c2})

=============================================================================
