\* Liveness: two calls, edits and evidence without end.
CONSTANTS
  NONE = NONE
  o1 = o1
  e1 = e1
  c1 = c1
  c2 = c2
  r0 = r0
  r1 = r1
  Owner = {o1}
  Executor = {e1}
  Call = {c1, c2}
  Revision = {r0, r1}
  BaseRevision = r0
  MaxRestarts = 0
  Component <- Components
  Task <- SmallTasks
  Plan <- Plans
  PlanOf <- SmallPlanOf
  Kind <- SmallKind
  Scope <- SmallScope
  DependsOn <- SmallDependencies
  Conforming <- EditedConforms
SPECIFICATION FairSpec
PROPERTIES ConvergesOnEvidence RevertsWithoutEvidence
