SPECIFICATION MCSpec
CONSTANTS
    Volatile = {"device"}
    MaxMarks = 2
    TDevice <- MCDev
    TLabel <- MCLabel
    MaxFields = 1
    MaxViews = 2
    MaxSent = 1
    Gear = {"x"}
    Soft = {"unknown"}
    Firm = {"names"}
    SnoozeFor = 1
    MaxNow = 2
    MaxPresses = 2
    Entity = {"a", "b"}
    Real <- MCReal
    Lans <- MCLans
    WanIp <- MCWan
    HashValue = {8}
    MaxNames = 4
    TopoMac = {"s1", "a1"}
    ApMac = {"a1"}
    TopoPort = {1, 2}
    GoldJack = {1, 2}
    TopoClient <- MCClient
    NoClients = {"a1"}
    UplinkPort = 2
    BoxMac = {"bx"}
    SwMac <- MCSw
    SwSource <- MCSource
    MaxClaims = 2
    RUnit <- MCUnits
    Plate <- Plates
    MaxUnits = 3
    HoverPort = {3}
CONSTRAINT TableHorizon
INVARIANTS
    PlaceShown   AuditFollows  TreeSound 
PROPERTIES
    BackAsLeft PagesLeadBack
CHECK_DEADLOCK FALSE
