\* A grid over costs, contracts, strategies, attributes, rates and lead times
\* in which each rule, each status and each booking-window tier occurs.
CONSTANTS
    None = None
    PersistentBreachThresholdDays = 2
    Remainder <- MCRemainder
    Huge = 1000
    CostAmounts = {4300, 9100}
    BookingAmounts = {0, 6500}
    Contracts <- MCContracts
    Margins = {0, 30}
    Discounts = {0, 10}
    Properties <- MCProperties
    MarketRates = {8900, 14300}
    ChannelRate <- MCChannelRates
    LeadTimes <- MCLeadTimes
    BreachDays = {0, 2}
SPECIFICATION Spec
INVARIANTS PricesEarnMargin MinimumStayIsTheThreshold LeversWork
PROPERTIES PriceFollowsItsInputs
CHECK_DEADLOCK FALSE
