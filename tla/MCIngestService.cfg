SPECIFICATION Spec
CONSTANTS
    Requests = {r1, r2, r3}
    Batches = {b1}
    None = None
    Skew = 1
    May = {"failure", "restart"}
    Token = 1
    Burst = 2
    MaxConcurrent = 2
    MaxClock = 2
    MaxSwaps = 1
INVARIANTS
    RateHolds
    ConcurrencyHolds
    NoPhantomClaim
PROPERTIES
    OnceUnlessOvertaken
SYMMETRY Symmetry
CHECK_DEADLOCK FALSE
