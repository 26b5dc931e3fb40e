\* Eviction at the cap and the 48h watchdog: three apartments, room for two,
\* one night, the clock running a whole threshold past the last input.
CONSTANTS
    None = None
    a1 = a1
    a2 = a2
    a3 = a3
    PersistentBreachThresholdDays = 1
    Remainder <- NoRemainder
    Huge = 1000
    Apartments = {a1, a2, a3}
    Dates = {1}
    Channels = {}
    CostProfiles <- OneProfile
    Rates = {10000}
    Cap = 2
    TicksPerDay = 1
    FreshnessThreshold = 2
    HandlerTicks = 0
    MaxTime = 4
    LastInput = 2
SPECIFICATION FairSpec
INVARIANTS
    TypeOK WithinCapacity StreaksBelongToKnownPairs
    DeadlinesMirrorData ReportedAtMostOnce
PROPERTIES EvictsOnlyTheOldest SilenceIsReported
CHECK_DEADLOCK FALSE
