\* One apartment, two nights, one channel: sweep, midnight inside a handler,
\* out-of-order snapshots, a night known by its channel rate only.
CONSTANTS
    None = None
    a1 = a1
    a2 = a2
    a3 = a3
    PersistentBreachThresholdDays = 1
    Remainder <- NoRemainder
    Huge = 1000
    Apartments = {a1}
    Dates = {0, 1}
    Channels = {"airbnb"}
    CostProfiles <- CalendarProfiles
    Rates = {10000, 13000}
    Cap = 1
    TicksPerDay = 1
    FreshnessThreshold = 2
    HandlerTicks = 1
    MaxTime = 2
    LastInput = 1
SPECIFICATION Spec
INVARIANTS JoinIsCurrent StreakMatchesLastDecision
PROPERTIES NewestWins StreakKeepsItsFirstDay
CHECK_DEADLOCK FALSE
