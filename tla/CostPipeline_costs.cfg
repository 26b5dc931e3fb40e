\* Lines of three periods; bookings that overlap, one moved, and are pruned; a
\* redelivery of either side.
CONSTANTS
    None = None
    EventIds = {1, 2, 3}
    Definitions = {"cleaning", "linen", "ota", "owner"}
    BookingIds = {1, 2}
    StrategyVersions = {1}
    RetentionBufferDays = 1
    MaxRedeliveries = 1
    PaymentRows <- TurnoverRows
    DefinitionRows <- MCDefinitionRows
    RuleRows <- MCRuleRows
    OccurrenceRows = {}
    ContractRows <- OneContract
    BookingRows <- StayRows
    Warm <- EveryConfig
SPECIFICATION Spec
INVARIANTS TypeOK HoldsTheNewestPeriods CostIsCurrent
CHECK_DEADLOCK FALSE
