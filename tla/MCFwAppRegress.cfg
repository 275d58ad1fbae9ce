\* A fetch that was answered before a mutation commits after its refresh.
CONSTANTS
    Request = {r1, r2}
    Creds = {boxA, boxB}
    NoCreds = NoCreds
    NoSnap = NoSnap
    NoKey = NoKey
    TTL = 1
    MaxAge = 1
    BlankRules = {0}
    BlankObs = {}
    StoreFaults = FALSE
    MaxEpoch = 1
    MaxVersion = 1
    MaxClock = 0
SPECIFICATION FairSpec
PROPERTY RulesNeverRegress
CHECK_DEADLOCK FALSE
