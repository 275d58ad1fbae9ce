SPECIFICATION MCSpec
CONSTANTS
    ChartRange = {"6h", "1d"}
    FirstRange = "6h"
    LTask = {t1, t2}
    MaxEvents = 2
    RuleId = {u1, u2}
    RDevice = {d1}
    RTask = {t1, t2}
    MaxMounts = 1
    MaxForms = 1
    MDevice = {d1}
    MTag = {g1, g2}
    MTask = {t1, t2}
    MaxMVisits = 2
    MaxMEdits = 2
    DDevice = {d1, d2}
    DTask = {t1, t2}
    MaxDVisits = 2
    MaxDWrites = 2
    Mod = {"u", "f"}
    Unifi = "u"
    STask = {t1, t2}
    MaxEdits = 2
    PTask = {t1, t2}
    MaxPVisits = 2
    MaxPEdits = 3
    SwId = {s1, s2}
    Blank = "blank"
    WTask = {t1, t2}
    MaxWVisits = 2
    MaxWEdits = 2
    LogSource = {"u", "d"}
    VTask = {t1, t2}
    Sock = {s1, s2}
    MaxFilters = 2
    Alarm = {a1}
    ATask = {t1, t2}
    MaxOpenings = 2
    MaxSwitches = 1
    Feature = {"f"}
    FTask = {t1, t2}
    MaxFVisits = 2
    MaxFChanges = 3
INVARIANTS
      ShownTrue
PROPERTIES
    HistoryFresh  
VIEW MCView
SYMMETRY Symmetry
CHECK_DEADLOCK FALSE
