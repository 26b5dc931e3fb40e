------------------------------ MODULE PriceQuote ------------------------------
(***************************************************************************)
(* What the pricing engine promises about one night of one apartment.  The *)
(* state is what the engine is called with; an action changes one input,   *)
(* as a cost line, a contract, a strategy, a market event or the calendar  *)
(* would, so that a property can compare a decision with the next one.     *)
(***************************************************************************)
EXTENDS PricingFormulas

CONSTANTS
    CostAmounts,    \* fixed and allocated costs per night, cents
    BookingAmounts, \* costs per booking, cents
    Contracts,      \* owner contracts: commissionPct, commissionBase, other
                    \* percentage costs, and the costs the bases net off
    Margins,        \* target margins, percent
    Discounts,      \* competitiveness discounts, percent
    Properties,     \* tier, rating, view and parking of an apartment
    MarketRates,    \* average nightly rates, cents
    ChannelRate,    \* rates per channel: functions from some channels
    LeadTimes,      \* days to arrival
    BreachDays      \* length of the floor-breach streak

ASSUME QuoteAssumption ==
    /\ CostAmounts \cup BookingAmounts \cup MarketRates \subseteq Nat
    /\ Margins \cup Discounts \subseteq 0 .. 99
    /\ LeadTimes \subseteq Int
    /\ BreachDays \subseteq Nat
    /\ None \notin Nat

\* Stage A: one percentage cost per concept, and the commission is not one of
\* them; rates of cost_definitions are checked to be between 0 and 1.
RevenueBases ==
    {"total_revenue", "revenue_minus_ota", "revenue_minus_ota_minus_cleaning",
     "revenue_minus_ota_minus_cleaning_minus_laundry",
     "revenue_minus_all_booking_costs"}
PercentageCost == [concept : STRING \ {"owner_commission"}, rate : 0 .. 100,
                   base : RevenueBases]

ASSUME ContractsAssumption ==
    \A contract \in Contracts :
        /\ contract.percentageCosts \subseteq PercentageCost
        /\ IsFiniteSet(contract.percentageCosts)
        /\ \A pc, other \in contract.percentageCosts :
              pc.concept = other.concept => pc = other
        /\ contract.commissionPct \in 0 .. 100
        /\ contract.commissionBase \in RevenueBases
        /\ {contract.ota, contract.cleaning, contract.laundry,
            contract.bookingScope} \subseteq Int

ASSUME InputsAssumption ==
    /\ Properties \subseteq [qualityTier : DOMAIN QualityTierAdjustments,
                             rating : 10 .. 50, hasView : BOOLEAN,
                             hasParking : BOOLEAN]
    /\ \A rates \in ChannelRate :
          /\ DOMAIN rates \subseteq DOMAIN ChannelCommissionPct
          /\ \A ch \in DOMAIN rates : rates[ch] \in Nat

VARIABLES cost, rate, channelRates, days, breachDays

vars == <<cost, rate, channelRates, days, breachDays>>

CostOf(costs, perBooking, contract, margin, discount, property) ==
    [costs |-> costs, perBooking |-> perBooking,
     percentageCosts |-> contract.percentageCosts,
     commissionPct |-> contract.commissionPct,
     commissionBase |-> contract.commissionBase,
     ota |-> contract.ota, cleaning |-> contract.cleaning,
     laundry |-> contract.laundry, bookingScope |-> contract.bookingScope,
     margin |-> margin, discount |-> discount,
     factor |-> PropertyAttributeFactor(property.qualityTier, property.rating,
                                        property.hasView, property.hasParking)]

Init ==
    /\ \E costs \in CostAmounts, perBooking \in BookingAmounts,
          contract \in Contracts, margin \in Margins, discount \in Discounts,
          property \in Properties :
            cost = CostOf(costs, perBooking, contract, margin, discount, property)
    /\ rate \in MarketRates
    /\ channelRates \in ChannelRate
    /\ days \in LeadTimes
    /\ breachDays \in BreachDays

CostsChange ==
    /\ \E costs \in CostAmounts, perBooking \in BookingAmounts :
          cost' = [cost EXCEPT !.costs = costs, !.perBooking = perBooking]
    /\ UNCHANGED <<rate, channelRates, days, breachDays>>

StrategyChanges ==
    /\ \E margin \in Margins, discount \in Discounts :
          cost' = [cost EXCEPT !.margin = margin, !.discount = discount]
    /\ UNCHANGED <<rate, channelRates, days, breachDays>>

PropertyChanges ==
    /\ \E property \in Properties :
          cost' = [cost EXCEPT !.factor =
                      PropertyAttributeFactor(property.qualityTier,
                          property.rating, property.hasView,
                          property.hasParking)]
    /\ UNCHANGED <<rate, channelRates, days, breachDays>>

MarketChanges ==
    /\ rate' \in MarketRates
    /\ channelRates' \in ChannelRate
    /\ UNCHANGED <<cost, days, breachDays>>

TimePasses ==
    /\ \E d \in LeadTimes : d < days
    /\ days' = Max({d \in LeadTimes : d < days})
    /\ breachDays' \in BreachDays
    /\ UNCHANGED <<cost, rate, channelRates>>

Next == CostsChange \/ StrategyChanges \/ PropertyChanges \/ MarketChanges
            \/ TimePasses

Spec == Init /\ [][Next]_vars

-----------------------------------------------------------------------------
(* What is computed from the inputs *)

Input == PricingInput(cost, rate, days)
Calculation == DecidePrice(Input, 1)
LosMatrix == DecidePriceLosMatrix(Input)
MinimumStay == RecommendMinimumStay(LosMatrix)
ChannelCandidates ==
    DecidePriceByChannel(channelRates, Input, cost, PercentageRates(cost))
Status == Viability(Input, cost, channelRates, breachDays)

\* ADR-0013: the floor is not guarded against p + target_margin >= 1.
HasFloor(p) == p + cost.margin < 100

\* What percentage cost pc takes of one night sold at a price, in hundredths
\* of a cent: its rate on what is left of the price once its base is netted.
Charge(pc, price) ==
    pc.rate * (price - NettedRevenueBaseAmount(pc.base, cost))

Commission(pct) == [concept |-> "owner_commission", rate |-> pct,
                    base |-> cost.commissionBase]

\* Hundredths of a cent that rounding may take away: a cent of the price, and
\* half a cent of each amount that is netted.
Rounding(netted) == 100 + 50 * netted

\* Each night of an n-night stay sold at a price pays its costs, its share of
\* the booking's and every charge line, and leaves the target margin.
EarnsMargin(price, n, charges, netted) ==
    100 * price - MapThenSumSet(LAMBDA pc : Charge(pc, price), charges)
        - 100 * cost.costs - 100 * (cost.perBooking \div n)
        - cost.margin * price
    >= -Rounding(netted)

-----------------------------------------------------------------------------
(* Properties *)

\* ADR-0013: the enforced floor earns the target margin.  Whatever bases the
\* percentage costs and the commission are charged on, and for every stay
\* length, the suggested price covers the costs line by line.
SuggestedPriceEarnsMargin ==
    HasFloor(PercentageRates(cost) + cost.commissionPct) =>
        \A n \in LosCandidates :
            EarnsMargin(LosMatrix[n].suggested, n,
                        cost.percentageCosts \cup {Commission(cost.commissionPct)},
                        Cardinality(cost.percentageCosts) + 1)

\* Spec 16: the price proposed for a channel covers the costs with that
\* channel's own commission in place of the owner's.  The commission alone is
\* netted, once.
ChannelPriceEarnsMargin ==
    \A ch \in DOMAIN channelRates :
        HasFloor(PercentageRates(cost) + ChannelCommissionPct[ch]) =>
            EarnsMargin(ChannelCandidates[ch].suggested, 1,
                        {[pc EXCEPT !.base = "total_revenue"] :
                            pc \in cost.percentageCosts}
                        \cup {Commission(ChannelCommissionPct[ch])}, 1)

\* Both: whatever the apartment is sold as, it is sold with its margin.
PricesEarnMargin == SuggestedPriceEarnsMargin /\ ChannelPriceEarnsMargin

\* engine.py l.222-230: a longer stay never has the worse rule, so the stay
\* recommended is the one threshold: shorter ones are priced out of the
\* property reference, it and every longer one are not.
MinimumStayIsTheThreshold ==
    HasFloor(PercentageRates(cost) + cost.commissionPct) =>
        \A n \in LosCandidates :
            LosMatrix[n].rule = "minimum_profitable_price"
                <=> MinimumStay = None \/ (MinimumStay # None /\ n < MinimumStay)

\* Spec 23: a lever is named only when pulling it works and a status without a
\* lever only when there is none to pull.
LeversWork ==
    LET onFloor == Calculation.minimumPrice > Calculation.marketReference
        stay == \E n \in LosCandidates :
                    LosMatrix[n].minimumPrice <= Calculation.propertyReference
        oneNight == Calculation.minimumPrice <= Calculation.propertyReference
        channel == \E ch \in DOMAIN channelRates :
                       ChannelCandidates[ch].minimumPrice
                           <= ChannelCandidates[ch].marketReference
    IN  /\ Status = "min_stay_lever_available" => onFloor /\ stay /\ ~oneNight
        /\ Status = "channel_lever_available" => onFloor /\ channel
        /\ Status = "floor_binding" => onFloor /\ ~channel /\ (oneNight \/ ~stay)
        /\ Status \in {"ok", "demand_upside"} => ~onFloor
        /\ Status # "persistent_floor_breach" =>
              breachDays < PersistentBreachThresholdDays

\* From one decision to the next, costs that rise never lower the price of a
\* stay of any length, and a market or a property that gets better never does.
PriceFollowsItsInputs ==
    [][/\ days' = days
       /\ cost'.costs >= cost.costs /\ cost'.perBooking >= cost.perBooking
       /\ cost'.margin >= cost.margin /\ cost'.discount <= cost.discount
       /\ cost'.factor >= cost.factor /\ rate' >= rate
       /\ (HasFloor(PercentageRates(cost) + cost.commissionPct))'
       /\ cost.costs >= Netting(cost)
       => \A n \in LosCandidates :
              DecidePrice(Input', n).suggested >= DecidePrice(Input, n).suggested]_vars
=============================================================================
