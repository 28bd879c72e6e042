-------------------------- MODULE ScopeLocks_proofs --------------------------
EXTENDS ScopeLocks, Scopes_proofs

\* The locks of the abstract table are pairwise exclusive.
THEOREM LocksExclusive == Spec => []Exclusive
<1>1. Init => Exclusive
  BY DEF Init, Exclusive
<1>2. Exclusive /\ [Next]_held => Exclusive'
  <2> SUFFICES ASSUME Exclusive, [Next]_held
               PROVE  Exclusive'
    OBVIOUS
  <2>1. ASSUME NEW o \in Owner, NEW scopes \in ScopeSets, Acquire(o, scopes)
        PROVE  Exclusive'
    BY <2>1, ConflictIsSymmetric DEF Acquire, Exclusive
  <2>2. ASSUME NEW o \in Owner, Release(o)
        PROVE  Exclusive'
    BY <2>2 DEF Release, Exclusive
  <2>3. CASE Restart
    BY <2>3 DEF Restart, Exclusive
  <2>4. CASE UNCHANGED held
    BY <2>4 DEF Exclusive
  <2> QED BY <2>1, <2>2, <2>3, <2>4 DEF Next
<1> QED BY <1>1, <1>2, PTL DEF Spec

=============================================================================
