SPECIFICATION Spec
CONSTANTS
  Deps = {d1}
  Handoffs = {h1}
  Workers = {w1, w2}
  Subjects = {s1}
  ResultIds = {r1}
  None = None
  Backend = "memory"
  ReplayMode = "verifier"
  Ops = {"issue", "verify"}
  MaxTime = 1
  RequirementTTL = 2
  HandoffTTLs = {2}
  ClaimTTL = 1
  ResultTTL = 2
  Grace = 1
  MaxVersion = 2
CHECK_DEADLOCK FALSE
INVARIANT RequirementRetained
