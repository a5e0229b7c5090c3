SPECIFICATION LiveFairSpec
CONSTANTS
    Batches = {b1, b2}
    MaxHandlers = 3
INVARIANTS
    OnlyStragglersAreMissing
PROPERTIES
    LiveHandlerKeepsData
    NextBatchBringsStragglers
CHECK_DEADLOCK FALSE
