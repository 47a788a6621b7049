SPECIFICATION FairSpec
CONSTANTS
  Deps = {d1}
  Handoffs = {h1, h2}
  Workers = {w1, w2}
  Subjects = {s1}
  ResultIds = {r1}
  None = None
  Backend = "redis"
  ReplayMode = "verifier"
  Ops = {"issue", "start", "poll", "cancel"}
  MaxTime = 3
  RequirementTTL = 2
  HandoffTTLs = {1}
  ClaimTTL = 1
  ResultTTL = 1
  Grace = 2
  MaxVersion = 2
CHECK_DEADLOCK FALSE
INVARIANTS IndInv
PROPERTY ExpiryReleasesIndex
