\* Two tasks with disjoint scopes, every fault.
CONSTANTS
  NONE = NONE
  o1 = o1
  o2 = o2
  e1 = e1
  c1 = c1
  c2 = c2
  Owner = {o1, o2}
  Executor = {e1}
  Call = {c1, c2}
  Component <- Components
  Task <- Tasks
  Plan <- Plans
  PlanOf <- PlanOfTask
  Kind <- KindOfTask
  Scope <- DisjointScopes
  DependsOn <- NoDependencies
  MutationPaths <- Mutations
  Faults <- AllFaults
SPECIFICATION Spec
SYMMETRY Symmetry
INVARIANTS TypeOK LeaseDiscipline
PROPERTIES AdmissionExclusive AdmissionCovered RecoveredLeaseIsBound ImplementsScopeLocks
