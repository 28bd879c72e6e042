\* Two calls in flight, edits, evidence, one restart.
CONSTANTS
  NONE = NONE
  o1 = o1
  e1 = e1
  c1 = c1
  c2 = c2
  r0 = r0
  r1 = r1
  Owner = {o1}
  Executor = {e1}
  Call = {c1, c2}
  Revision = {r0, r1}
  BaseRevision = r0
  MaxRestarts = 1
  Component <- Components
  Task <- Tasks
  Plan <- Plans
  PlanOf <- PlanOfTask
  Kind <- KindOfTask
  Scope <- OverlappingScopes
  DependsOn <- BuiltDependencies
  Conforming <- EditedConforms
SPECIFICATION Spec
SYMMETRY Symmetry
INVARIANTS TypeOK InPlanWritersDisjoint StartedWasApproved
PROPERTIES CompletedIsFinal
