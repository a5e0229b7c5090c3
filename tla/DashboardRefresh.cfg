SPECIFICATION FairSpec
CONSTANTS
    Batches = {b1, b2, b3}
    Pages = {plain, tls}
    Runs = {r1, r2}
    NoData = NoData
    Nobody = Nobody
INVARIANTS
    NoLostRequest
PROPERTIES
    NoIdleRebuild
    RequestedIsShown
    FreshViewSpec
CHECK_DEADLOCK FALSE
