------------------------------- MODULE Scopes -------------------------------
(***************************************************************************)
(* Write scopes of a Git mutation domain.  A path is the sequence of its   *)
(* components, already normalised and (on case-insensitive platforms)      *)
(* case-folded; a write scope is a path; the empty set of scopes is the    *)
(* whole domain.  The code compares strings: "parent = child, or child is  *)
(* parent followed by a slash", which on normalised paths is exactly the   *)
(* component-prefix relation below.                                        *)
(***************************************************************************)
EXTENDS Naturals, Sequences

CONSTANT Component          \* the names a path is made of

Path == Seq(Component) \ {<<>>}

\* scope_contains: parent is child or one of its ancestors.
ScopeContains(parent, child) ==
  /\ Len(parent) <= Len(child)
  /\ \A i \in 1..Len(parent) : child[i] = parent[i]

\* write_scopes_conflict: an empty set of scopes conflicts with everything.
WriteScopesConflict(left, right) ==
  \/ left = {}
  \/ right = {}
  \/ \E l \in left, r \in right : ScopeContains(l, r) \/ ScopeContains(r, l)

\* scopes_allow_path: may a writer of these scopes touch the path?
ScopesAllowPath(scopes, path) ==
  scopes = {} \/ \E s \in scopes : ScopeContains(s, path)

=============================================================================
