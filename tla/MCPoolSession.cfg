SPECIFICATION SessionSpec
CONSTANTS
    Blocks = {b1, b2, b3}
    None = None
    Jobs <- MCJobs
    MaxSats = 15
    MaxStored = 1
    Worker = 0
    Tls = TRUE
    MaxBackoff = 3
    MaxSessions = 3
    MaxJobs = 4
INVARIANTS
    RecordsTellTheSession
    SatsAreConserved
PROPERTIES
    StartupIsNotMeasured
CHECK_DEADLOCK FALSE
