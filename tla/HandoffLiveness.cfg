SPECIFICATION PollingSpec
CONSTANTS
  Deps = {d1}
  Handoffs = {h1}
  Workers = {w1, w2}
  Subjects = {s1}
  ResultIds = {r1}
  None = None
  Backend = "postgres"
  ReplayMode = "verifier"
  Ops = {"issue", "start", "poll", "cancel"}
  MaxTime = 2
  RequirementTTL = 9
  HandoffTTLs = {1, 9}
  ClaimTTL = 1
  ResultTTL = 1
  Grace = 1
  MaxVersion = 3
CHECK_DEADLOCK FALSE
PROPERTIES RequestsFinish LeaseRecovered HandoffsEnd
