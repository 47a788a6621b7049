SPECIFICATION Spec
INVARIANT FinalRetryAccepted
CHECK_DEADLOCK FALSE
