SPECIFICATION Spec
CONSTANTS
    Serve = serve
    Collectors = {}
    Batches = {b1, b2}
    Legacy = {old}
    Broken = Broken
    Nothing = Nothing
    Retention = 1
    MaxTime = 4
    MaxAppends = 3
INVARIANTS
    AckedIsKept
    OnlyTornIsUnreadable
    ReadsItsSnapshot
PROPERTIES
    CompactionIsInvisible
CHECK_DEADLOCK FALSE
