\* Two requests, two calls, and syncs with acks in time and reads not cut.
SPECIFICATION MCSpec
CONSTANTS
    Request = {r1, r2}
    Creds = {boxA}
    Conn = {c1}
    Call = {r1, r2}
    None = None
    MaxLinesPerBatch = 1
    MaxBytesPerBatch = 10
    MaxBatches = 2
    Limit = 2
    Run = {}
    NoRun = None
    NoMsg = None
    NoWaiter = None
    Timeouts = FALSE
    MaxLine = 1
    MaxConns = 2
    MaxEmit = 1
INVARIANTS
    AckedBeforeCursor
PROPERTIES
    RequestsEnd  EventuallyShipped
CHECK_DEADLOCK FALSE
