----------------------------- MODULE MCWorklist -----------------------------
(***************************************************************************)
(* Three items: two lanes with overlapping paths, and a read-only item     *)
(* that depends on the first.                                              *)
(***************************************************************************)
EXTENDS Worklist, TLC

CONSTANTS k1, k2, c1, c2, p1, p2, r1, r2

Components == {"a", "x"}
ItemIds == {"dir", "file", "check"}
OneProcessEach == [c \in {c1, c2} |-> IF c = c1 THEN p1 ELSE p2]

Keep == [status |-> {}, deps |-> {}, paths |-> {}]
Nothing == [i \in ItemIds |-> NONE]
Only(i, p) == [restart |-> FALSE, patches |-> [Nothing EXCEPT ![i] = p]]

Plan == [i \in ItemIds |-> CASE i = "dir" -> [Keep EXCEPT !.paths = {{<<"a">>}}]
                              [] i = "file" -> [Keep EXCEPT !.paths = {{<<"a", "x">>}}]
                              [] i = "check" -> [Keep EXCEPT !.deps = {{"dir"}}]]

\* Plan and plan anew, reopen and finish the first lane, move a lane onto the
\* other, and turn a dependency round.
Requests ==
  {[restart |-> r, patches |-> Plan] : r \in BOOLEAN}
  \cup {Only("dir", [Keep EXCEPT !.status = {s}]) : s \in {"pending", "done"}}
  \cup {Only("check", [Keep EXCEPT !.paths = {{<<"a">>}}]),
        Only("dir", [Keep EXCEPT !.deps = {{"check"}}])}

\* The calls are alike: each has a process to itself.
Symmetry == Permutations({k1, k2}) \cup Permutations({r1, r2}) \cup Permutations({c1, c2})

=============================================================================
