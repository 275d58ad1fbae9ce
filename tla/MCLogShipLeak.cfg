\* A second run starts while the first goes on.
CONSTANTS
    MaxLinesPerBatch = 1
    MaxBytesPerBatch = 10
    MaxBatches = 2
    Limit = 1
    Run = {f1, f2, f3}
    NoRun = NoRun
    NoMsg = NoMsg
    NoWaiter = NoWaiter
    Timeouts = FALSE
    MaxLine = 1
    MaxConns = 1
    MaxEmit = 1
SPECIFICATION Spec
INVARIANT OneFollow
CHECK_DEADLOCK FALSE
