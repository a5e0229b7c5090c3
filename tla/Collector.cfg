SPECIFICATION FairSpec
CONSTANTS
    Endpoints = {e1, e2}
    Blocks = {b1, b2}
    None = None
    Window = 1
    Capacity = 1
    MaxClock = 3
    MaxEvents = 3
INVARIANTS
    TypeOK
    OneBatchPerBlock
    OffsetsAreFair
    NoJobIsLost
PROPERTIES
    WindowsClose
CHECK_DEADLOCK FALSE
