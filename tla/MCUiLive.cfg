SPECIFICATION MCSpec
CONSTANTS
    ChartRange = {"6h", "1d"}
    FirstRange = "6h"
    LTask = {t1, t2}
    MaxEvents = 1
    MDevice = {d1}
    MTag = {g1, g2}
    MTask = {t1, t2}
    MaxMVisits = 2
    MaxMEdits = 2
    Mod = {"u", "f"}
    Unifi = "u"
    STask = {t1, t2}
    MaxEdits = 1
    PTask = {t1, t2}
    MaxPVisits = 1
    MaxPEdits = 2
    SwId = {s1, s2}
    Blank = "blank"
    WTask = {t1}
    MaxWVisits = 1
    MaxWEdits = 2
    LogSource = {"u"}
    VTask = {t1, t2}
    Sock = {s1, s2}
    MaxFilters = 1
PROPERTIES
    ShellSettles PagesSettle
CHECK_DEADLOCK FALSE
