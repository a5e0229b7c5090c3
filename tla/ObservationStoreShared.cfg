SPECIFICATION Spec
CONSTANTS
    Serve = serve
    Collectors = {collect}
    Batches = {b1, b2}
    Legacy = {old}
    Broken = Broken
    Nothing = Nothing
    Retention = 1
    MaxTime = 4
    MaxAppends = 3
INVARIANTS
    AckedIsKept
CHECK_DEADLOCK FALSE
