\* A segment that comes late, strategy versions out of order, a contract that
\* moves to a definition A2 may not have yet, company costs whose definition,
\* rule and weight come in any order.
CONSTANTS
    None = None
    EventIds = {1}
    Definitions = {"internet", "rent", "licences", "owner", "newOwner"}
    BookingIds = {}
    StrategyVersions = {1, 2}
    RetentionBufferDays = 1
    MaxRedeliveries = 0
    PaymentRows <- OneLine
    DefinitionRows <- MCDefinitionRows
    RuleRows <- MCRuleRows
    OccurrenceRows <- OneOccurrenceEach
    ContractRows <- TwoContracts
    BookingRows <- NoRows
    Warm <- SomeConfig
SPECIFICATION FairSpec
INVARIANTS CostIsCurrent
PROPERTIES StrategyNeverRegresses CompanyCostsStay NothingIsHeldBack
CHECK_DEADLOCK FALSE
