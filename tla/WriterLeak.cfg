\* Violated: the claim's caller gives up while it waits.
CONSTANTS
  NONE = NONE
  o1 = o1
  o2 = o2
  e1 = e1
  c1 = c1
  c2 = c2
  Owner = {o1, o2}
  Executor = {e1}
  Call = {c1}
  Component <- Components
  Task <- Tasks
  Plan <- Plans
  PlanOf <- PlanOfTask
  Kind <- KindOfTask
  Scope <- DisjointScopes
  DependsOn <- NoDependencies
  MutationPaths <- Mutations
  Faults <- AbandonOnly
SPECIFICATION FairSpec
PROPERTY PendingClaimsResolve
