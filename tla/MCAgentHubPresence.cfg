\* Two connections replace each other, say hello and update, or serve calls.
CONSTANTS
    Conn = {c1, c2}
    Call = {r1}
    Version = {v1, v2}
    Package = v2
    NoConn = NoConn
    NoCall = NoCall
    NoVersion = NoVersion
    GapMin = 1
    MaxClock = 2
SYMMETRY Symmetry
SPECIFICATION Spec
CONSTRAINT HelloOrCall
INVARIANTS TypeOK PresenceTrue NoWedgedSlot
CHECK_DEADLOCK FALSE
