\* An ack comes after its timeout.
CONSTANTS
    MaxLinesPerBatch = 1
    MaxBytesPerBatch = 10
    MaxBatches = 2
    Limit = 2
    Run = {}
    NoRun = NoRun
    NoMsg = NoMsg
    NoWaiter = NoWaiter
    Timeouts = TRUE
    MaxLine = 2
    MaxConns = 1
    MaxEmit = 1
SPECIFICATION Spec
INVARIANT AckedBeforeCursor
CHECK_DEADLOCK FALSE
