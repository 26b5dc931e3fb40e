\* The rent of the company for two periods.
CONSTANTS
    None = None
    EventIds = {1}
    Definitions = {"internet", "rent", "owner"}
    BookingIds = {}
    StrategyVersions = {1}
    RetentionBufferDays = 1
    MaxRedeliveries = 0
    PaymentRows <- OneLine
    DefinitionRows <- MCDefinitionRows
    RuleRows <- MCRuleRows
    OccurrenceRows <- TwoRents
    ContractRows <- OneContract
    BookingRows <- NoRows
    Warm <- EveryConfig
SPECIFICATION Spec
INVARIANTS OneOccurrencePerDefinition
CHECK_DEADLOCK FALSE
