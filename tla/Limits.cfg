SPECIFICATION Spec
CONSTANTS
    Calls = {c1, c2, c3}
    Window = 3
    Max = 2
    Threshold = 2
    CoolDown = 3
    Timeout = 2
INVARIANTS
    RateBounded
    RetryAfterHonest
    OpenSendsNothing
    ProviderLoadBounded
PROPERTIES
    LimiterLapses
    CircuitRecovers
