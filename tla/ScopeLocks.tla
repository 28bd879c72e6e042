------------------------------ MODULE ScopeLocks ------------------------------
(***************************************************************************)
(* What the writer leases of a mutation domain promise, without runs,      *)
(* calls or reservations: a table of locks on sets of scopes.  An owner    *)
(* has at most one lock, locks never overlap, and a restart drops them.    *)
(* WriterLease implements this specification.                              *)
(***************************************************************************)
EXTENDS Scopes

CONSTANTS
  Owner,
  ScopeSets    \* the sets of scopes that may be asked for

VARIABLE held    \* the locks: an owner and its set of scopes

Lock == [owner : Owner, scopes : ScopeSets]

Init == held = {}

Acquire(o, scopes) ==
  /\ \A h \in held : h.owner # o /\ ~ WriteScopesConflict(h.scopes, scopes)
  /\ held' = held \cup {[owner |-> o, scopes |-> scopes]}

Release(o) == held' = {h \in held : h.owner # o}

Restart == held' = {}

Next ==
  \/ \E o \in Owner, scopes \in ScopeSets : Acquire(o, scopes)
  \/ \E o \in Owner : Release(o)
  \/ Restart

Spec == Init /\ [][Next]_held

\* Two locks have different owners and scopes that do not overlap.
Exclusive ==
  \A g, h \in held : g # h => /\ g.owner # h.owner
                              /\ ~ WriteScopesConflict(g.scopes, h.scopes)

=============================================================================
