SPECIFICATION FairSpec
CONSTANTS
    Calendars = {c}
    Urls = {"u", "v"}
    Areas = {"a", "b"}
    Worker = Worker
    Tabs = {t}
    i1 = i1
    i2 = i2
    i3 = i3
    i4 = i4
    Items = {i1, i2}
    Skipped = {}
    Tagless = {"v"}
    MaxEvents = 2
    MaxCalendars = 1
    MaxOps = 4
    MaxFaults = 1
    MaxRounds = 0
    Same <- SameUid
INVARIANTS
    TypeOK
    NoChangeIsHidden
    EventsAreInTheirArea
PROPERTIES
    ShowsTheFeed
CHECK_DEADLOCK FALSE
