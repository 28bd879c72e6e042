\* Two processes, two claims, a clock that expires them.
CONSTANTS
  NONE = NONE
  k1 = k1
  k2 = k2
  c1 = c1
  c2 = c2
  p1 = p1
  p2 = p2
  r1 = r1
  r2 = r2
  Token = {k1, k2}
  Call = {c1, c2}
  Proc = {p1, p2}
  Repo = {r1, r2}
  Item <- ItemIds
  ProcOf <- OneProcessEach
  Updates <- Requests
  Component <- Components
  Lease = 2
  Retained = 2
  MaxRevision = 4
  MaxClock = 3
SPECIFICATION Spec
SYMMETRY Symmetry
INVARIANTS TypeOK LiveLanesSound NothingStuck
PROPERTIES LiveClaimProtected AcknowledgedTakesEffect
