\* Two calls, two repository revisions, one plan, two levels.  No call waits for
\* another, but the bounds stop every call in the end.
CONSTANTS
  NONE = NONE
  c1 = c1
  c2 = c2
  r1 = r1
  r2 = r2
  q1 = q1
  q2 = q2
  Call = {c1, c2}
  Repo = {r1, r2}
  Plan = {q1}
  TopLevel = 1
  MaxListRevision = 2
  MaxRevision = 3
SPECIFICATION Spec
CHECK_DEADLOCK FALSE
SYMMETRY Symmetry
INVARIANTS TypeOK SettledByProof ProposalIsCurrent
PROPERTIES GenerationEnds SteeringSurvives FloorHolds PlanBindingHolds
