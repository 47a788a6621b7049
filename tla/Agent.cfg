SPECIFICATION FairSpec
INVARIANTS
    PaidAfterHumanity
    ExecutedOnce
    HandoffReleased
    KeyedRetryAccepted
PROPERTIES
    CallEnds
CHECK_DEADLOCK FALSE
