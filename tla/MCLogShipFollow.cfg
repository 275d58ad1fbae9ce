\* Runs of the follow started and stopped.
CONSTANTS
    MaxLinesPerBatch = 1
    MaxBytesPerBatch = 10
    MaxBatches = 1
    Limit = 1
    Run = {f1, f2}
    NoRun = NoRun
    NoMsg = NoMsg
    NoWaiter = NoWaiter
    Timeouts = FALSE
    MaxLine = 1
    MaxConns = 2
    MaxEmit = 1
SYMMETRY Symmetry
VIEW FollowView
SPECIFICATION Spec
INVARIANTS ActiveRuns
CHECK_DEADLOCK FALSE
