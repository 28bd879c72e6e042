\* Violated: the admitted mutation waits for its permit.
CONSTANTS
  NONE = NONE
  o1 = o1
  o2 = o2
  e1 = e1
  c1 = c1
  c2 = c2
  Owner = {o1, o2}
  Executor = {e1}
  Call = {c1, c2}
  Component <- Components
  Task <- Tasks
  Plan <- Plans
  PlanOf <- PlanOfTask
  Kind <- KindOfTask
  Scope <- DisjointScopes
  DependsOn <- NoDependencies
  MutationPaths <- Mutations
  Faults <- NoFaults
SPECIFICATION Spec
INVARIANT MutationStaysOwned
