SPECIFICATION Spec
CONSTANTS
  Deps = {d1, d2}
  Handoffs = {h1}
  Workers = {w1, w2}
  Subjects = {s1, s2}
  ResultIds = {r1, r2, r3}
  None = None
  Backend = "memory"
  ReplayMode = "verifier"
  Ops = {"issue", "verify", "delete", "start", "poll"}
  MaxTime = 2
  RequirementTTL = 2
  HandoffTTLs = {2}
  ClaimTTL = 1
  ResultTTL = 1
  Grace = 1
  MaxVersion = 2
CHECK_DEADLOCK FALSE
SYMMETRY Symmetry
INVARIANTS OneResultPerDependency OneResultPerSubject
