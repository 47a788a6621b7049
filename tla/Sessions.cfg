SPECIFICATION FairSpec
CONSTANTS
    Starters = {s1, s2}
    Polls = {p1, p2}
    Ceremonies = {c1}
    Deps = {d1}
    None = None
    Maximum = 1
    ClaimTTL = 1
    MaxTime = 3
    MaxVersion = 2
INVARIANTS SessionsBounded LossExplained AnswerHonest SessionReleased IndInv
PROPERTIES CapacityReturns
