CONSTANTS
    a = a
    b = b
    c = c
    ann = ann
    bob = bob
    Resources = {ann, bob}
    SearchDays = 8
    Tasks = {a, b, c}
    Calendars = {"day", "late"}
    DefaultCalendar = "day"
    NoDate = NoDate
    DayHours = 4
    ExceptionShift = {0, 1}
    Weekly <- MCWeekly
    Exceptions <- MCExceptions
    ResourceCalendar <- MCResourceCalendar
    MaxUnits <- MCMaxUnits
    Networks <- MCNetworks
SPECIFICATION LevelSpec
CHECK_DEADLOCK FALSE
INVARIANTS DatesAreTextbook LinksHonoured FloatIsTrue LevelingSound
