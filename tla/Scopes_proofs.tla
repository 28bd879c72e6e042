---------------------------- MODULE Scopes_proofs ----------------------------
(***************************************************************************)
(* Scopes form a tree, so sets of scopes that do not conflict share no     *)
(* path.                                                                   *)
(***************************************************************************)
EXTENDS Scopes, TLAPS

\* Two scopes that both contain a path lie on one branch of the tree:
\* scope_contains (reconciliation/mod.rs) is the prefix order.
LEMMA ScopesOfOnePathAreComparable ==
  ASSUME NEW s \in Path, NEW r \in Path, NEW p \in Path,
         ScopeContains(s, p), ScopeContains(r, p)
  PROVE  ScopeContains(s, r) \/ ScopeContains(r, s)
<1>1. s \in Seq(Component) /\ r \in Seq(Component) /\ p \in Seq(Component)
  BY DEF Path
<1>2. Len(s) \in Nat /\ Len(r) \in Nat /\ Len(p) \in Nat
  BY <1>1
<1>3. CASE Len(s) <= Len(r)
  <2>1. \A i \in 1..Len(s) : r[i] = s[i]
    BY <1>2, <1>3 DEF ScopeContains
  <2> QED BY <1>3, <2>1 DEF ScopeContains
<1>4. CASE Len(r) <= Len(s)
  <2>1. \A i \in 1..Len(r) : s[i] = r[i]
    BY <1>2, <1>4 DEF ScopeContains
  <2> QED BY <1>4, <2>1 DEF ScopeContains
<1> QED BY <1>2, <1>3, <1>4

\* write_scopes_conflict is complete: if two writers may both touch a path,
\* their scopes conflict.
LEMMA SharedPathMakesConflict ==
  ASSUME NEW left \in SUBSET Path, NEW right \in SUBSET Path, NEW p \in Path,
         ScopesAllowPath(left, p), ScopesAllowPath(right, p)
  PROVE  WriteScopesConflict(left, right)
<1>1. CASE left = {} \/ right = {}
  BY <1>1 DEF WriteScopesConflict
<1>2. CASE left # {} /\ right # {}
  <2>1. PICK s \in left : ScopeContains(s, p)
    BY <1>2 DEF ScopesAllowPath
  <2>2. PICK r \in right : ScopeContains(r, p)
    BY <1>2 DEF ScopesAllowPath
  <2>3. ScopeContains(s, r) \/ ScopeContains(r, s)
    BY <2>1, <2>2, ScopesOfOnePathAreComparable
  <2> QED BY <2>3 DEF WriteScopesConflict
<1> QED BY <1>1, <1>2

\* Whether two sets of scopes conflict does not depend on their order.
LEMMA ConflictIsSymmetric ==
  ASSUME NEW left, NEW right
  PROVE  WriteScopesConflict(left, right) <=> WriteScopesConflict(right, left)
BY DEF WriteScopesConflict

=============================================================================
