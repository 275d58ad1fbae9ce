\* Two requests race pairings, Unpair, mutations and restarts while time passes
\* the TTL and, in the shorter histories, the age limit of persisted snapshots.
CONSTANTS
    Request = {r1, r2}
    Creds = {boxA, boxB}
    NoCreds = NoCreds
    NoSnap = NoSnap
    NoKey = NoKey
    TTL = 1
    MaxAge = 1
    BlankRules = {0}
    BlankObs = {}
    StoreFaults = FALSE
    MaxEpoch = 3
    MaxVersion = 1
    MaxClock = 2
SYMMETRY Symmetry
VIEW CoreView
SPECIFICATION Spec
CONSTRAINT Horizon
INVARIANTS TypeOK  CachesOfPairing FlightHasLeader
PROPERTIES UnpairWins MutationSeesItself
CHECK_DEADLOCK FALSE
