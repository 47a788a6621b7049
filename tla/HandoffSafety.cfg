SPECIFICATION Spec
CONSTANTS
  Deps = {d1}
  Handoffs = {h1, h2}
  Workers = {w1, w2}
  Subjects = {s1}
  ResultIds = {r1, r2}
  None = None
  Backend = "postgres"
  ReplayMode = "provider"
  Ops = {"issue", "start", "poll", "cancel"}
  MaxTime = 3
  RequirementTTL = 2
  HandoffTTLs = {1, 2}
  ClaimTTL = 1
  ResultTTL = 2
  Grace = 1
  MaxVersion = 3
CHECK_DEADLOCK FALSE
SYMMETRY Symmetry
INVARIANTS TypeOK ActiveIndex ExclusiveClaim CompletionIsOwnResult IndInv
PROPERTY ImplementsContract
