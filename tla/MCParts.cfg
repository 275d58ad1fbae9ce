SPECIFICATION MCSpec
CONSTANTS
    Session = {s1, s2}
    Request = {r1, r2}
    Flow = {f1}
    Callback = {k1, k2}
    Password = {p1, p2}
    NoSession = NoSession
    NoFlow = NoFlow
    NoPassword = NoPassword
    SessionAbs = 3
    SessionIdle = 2
    PendingTTL = 1
    Interval = 1
    MaxTime = 5
    MaxOIDCTime = 3
    Code = {c1, c2}
    Token = {t1, t2}
    Enroller = {e1, e2, e3}
    AgentReq = {a1}
    NoCode = NoCode
    NoToken = NoToken
    TTL = 2
    MaxClock = 4
    Key = {x1, x2}
    Limit = 2
    Window = 3
    MaxStep = 8
    MaxLinesPerBatch = 3
    MaxBytesPerBatch = 4
    MaxBatches = 2
    Costs = {1, 2, 5}
    MaxLines = 8
    Event = {v1, v2}
    Link = {l1, l2}
    NoLink = NoLink
    None = None
    MaxRing = 2
    PruneEvery = 2
    Retention = 3
    MaxSnap = 5
    Switch = {w1}
    Poller = {o1, o2}
    NoPoller = NoPoller
    Conf = {g1, g2, g3}
    On = {g1, g2}
    Never = Never
    Deleted = Deleted
INVARIANTS
    EventKept  PollsHarmless BatchesSound SessionsSafe EnrolledOnce
PROPERTIES
    SessionsEnd CredentialsEnd 
SYMMETRY Symmetry
