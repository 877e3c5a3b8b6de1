SPECIFICATION Spec
CONSTANTS
    s1 = s1
    s2 = s2
    Servers = {s1, s2}
    None = None
    FiveHours = 2
    Week = 2
    Month = 2
    Phase = 1
    FiveHourLimit = 3
    Readings = {1, 3}
    MaxNow = 5
    MaxEvents = 2
INVARIANT WeekIsExact
PROPERTY FiguresCatchUp
CHECK_DEADLOCK FALSE
