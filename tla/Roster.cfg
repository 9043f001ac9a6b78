SPECIFICATION Spec
CONSTANTS
    ann = ann
    rota = rota
    c1 = c1
    c2 = c2
    None = None
    Off = Off
    DayLength = 4
    OpensBefore = 1
    MaxOpen = 4
    ClosesAfter = 2
    Slack = 2
    People = {ann}
    Dates <- MCDates
    ScheduleIds = {rota}
    HolidayIds = {h1}
    Contents <- MCContents
    Bulks <- MCBulks
    FirstSchedules <- MCFirstSchedules
    FirstDefaults <- MCFirstDefaults
    FirstToday = 7
    Calls = {c1, c2}
SYMMETRY Interchangeable
INVARIANTS TypeOK DailyTells
PROPERTIES PastExplained EntriesTell
