--------------------------- MODULE PricingFormulas ---------------------------
(***************************************************************************)
(* The pure pricing engine of libs/pricing-formulas: the layers            *)
(* Structural -> Booking Window -> Market -> Break-Even/Profitable Floor   *)
(* -> Guardrails, the length-of-stay and channel matrices built on them,   *)
(* the minimum-stay lever and the viability classification.                *)
(*                                                                         *)
(* Units: amounts are integer cents, rates and factors whole percents      *)
(* (100 = 1.0).  The code computes in floats and rounds what it publishes  *)
(* to the cent; here every product and quotient is taken down to the cent, *)
(* so the order of two amounts less than a cent apart is not represented.  *)
(* Two places are kept as the code has them, because they add up or blow   *)
(* up: each netted amount is rounded to the nearest cent, and what is left *)
(* of the price when the percentages and the margin take all of it is what *)
(* the floats leave, nothing or a sliver of either sign.                   *)
(***************************************************************************)
EXTENDS Integers, FiniteSets, FiniteSetsExt

CONSTANTS
    None,                           \* an absent optional value
    PersistentBreachThresholdDays,  \* viability.py: 30; small here for TLC
    Remainder,  \* the sign of the float 1 - (a + b) - m, for a + b + m = 100
    Huge        \* what such a remainder, if any, multiplies the costs by

ASSUME ThresholdAssumption == PersistentBreachThresholdDays \in Nat \ {0}
ASSUME RemainderAssumption ==
    /\ Remainder \in [(0 .. 100) \X (0 .. 100) -> -1 .. 1]
    /\ Huge \in Nat \ {0}

-----------------------------------------------------------------------------
(* Layers *)

Larger(x, y) == IF x >= y THEN x ELSE y
Smaller(x, y) == IF x <= y THEN x ELSE y

\* round(x, 2) of x hundredths of a cent; a tie goes up.
Nearest(x) == (x + 50) \div 100

\* x / y of the code for a divisor of either sign, to the cent.
Quotient(x, y) == IF y > 0 THEN x \div y ELSE (-x) \div (-y)

\* layers/structural.py: four additive adjustments around 1, clamped.
\* rating is in tenths of a point.
QualityTierAdjustments ==
    [basic |-> -15, standard |-> 0, premium |-> 15, luxury |-> 30]

PropertyAttributeFactor(qualityTier, rating, hasView, hasParking) ==
    LET adjustment == QualityTierAdjustments[qualityTier] + (rating - 40)
                        + (IF hasView THEN 5 ELSE 0)
                        + (IF hasParking THEN 4 ELSE 0)
    IN  Smaller(Larger(100 + adjustment, 50), 200)

PropertyReferencePrice(avgNightlyRate, factor) ==
    (avgNightlyRate * factor) \div 100

\* layers/booking_window.py: the tier of the days left until arrival; a past
\* date counts as day 0.
BookingWindowFactor(daysToArrival) ==
    LET days == Larger(daysToArrival, 0)
    IN  CASE days >= 45 -> 100
          [] days >= 15 /\ days < 45 -> 97
          [] days >= 3 /\ days < 15 -> 100
          [] days >= 1 /\ days < 3 -> 95
          [] days < 1 -> 92

MarketReferencePrice(propertyReference, discount) ==
    (propertyReference * (100 - discount)) \div 100

\* layers/commercial.py: what a percentage cost is not charged against.
NettedRevenueBaseAmount(base, c) ==
    CASE base = "total_revenue" -> 0
      [] base = "revenue_minus_ota" -> c.ota
      [] base = "revenue_minus_ota_minus_cleaning" -> c.ota + c.cleaning
      [] base = "revenue_minus_ota_minus_cleaning_minus_laundry" ->
            c.ota + c.cleaning + c.laundry
      [] base = "revenue_minus_all_booking_costs" -> c.bookingScope

\* Mutant: a floor above the property reference is given up for the market.
ApplyGuardrailsGivesUp(minimumPrice, marketReference, propertyReference) ==
    LET rule == IF minimumPrice <= marketReference THEN "market_competitive"
                ELSE IF minimumPrice <= propertyReference THEN "minimum_floor"
                ELSE "minimum_profitable_price"
        suggested == IF rule = "minimum_floor" THEN minimumPrice
                                               ELSE marketReference
    IN  [rule |-> rule, suggested |-> suggested,
         belowMarketBy |-> propertyReference - suggested]

\* layers/guardrails.py: the floor against the market.
ApplyGuardrails(minimumPrice, marketReference, propertyReference) ==
    LET rule == IF minimumPrice <= marketReference THEN "market_competitive"
                ELSE IF minimumPrice <= propertyReference THEN "minimum_floor"
                ELSE "minimum_profitable_price"
        suggested == IF rule = "market_competitive" THEN marketReference
                                                    ELSE minimumPrice
    IN  [rule |-> rule, suggested |-> suggested,
         belowMarketBy |-> propertyReference - suggested]

-----------------------------------------------------------------------------
(* engine.py.  An input q has the fields costs (fixed and allocated, per   *)
(* night), perBooking, p, margin, rate, discount, factor, netting, days    *)
(* and remainder: what the floats leave of 1 - p - margin when it is 0.    *)
(* The break-even revenue is informational (ADR-0013) and left out.        *)

RemainderOf(a, b, margin) ==
    IF a + b + margin = 100 THEN Remainder[<<a, b>>] ELSE 0

DecidePrice(q, stayLength) ==
    LET numerator == q.costs + (q.perBooking \div stayLength) - q.netting
        denominator == 100 - q.p - q.margin
        minimumPrice == IF denominator = 0 THEN numerator * q.remainder * Huge
                        ELSE Quotient(100 * numerator, denominator)
        propertyReference ==
            (PropertyReferencePrice(q.rate, q.factor)
                * BookingWindowFactor(q.days)) \div 100
        marketReference == MarketReferencePrice(propertyReference, q.discount)
        guarded == ApplyGuardrails(minimumPrice, marketReference,
                                   propertyReference)
    IN  [minimumPrice |-> minimumPrice,
         propertyReference |-> propertyReference,
         marketReference |-> marketReference,
         rule |-> guarded.rule,
         suggested |-> guarded.suggested,
         belowMarketBy |-> guarded.belowMarketBy]

LosCandidates == {1, 2, 3, 7, 14}

DecidePriceLosMatrix(q) == [n \in LosCandidates |-> DecidePrice(q, n)]

\* Mutant: only a stay below the market reference is recommended.
RecommendMinimumStayCompetitive(matrix) ==
    LET within == {n \in DOMAIN matrix : matrix[n].rule = "market_competitive"}
    IN  IF within = {} THEN None ELSE Min(within)
\* The shortest stay whose floor is within the property reference, or None.
RecommendMinimumStay(matrix) ==
    LET within == {n \in DOMAIN matrix :
                      matrix[n].rule # "minimum_profitable_price"}
    IN  IF within = {} THEN None ELSE Min(within)

\* What a whole reservation of the recommended length is priced at.
SuggestedPricePerReservation(matrix) ==
    LET n == RecommendMinimumStay(matrix)
    IN  IF n = None THEN None ELSE n * matrix[n].suggested

ChannelCommissionPct == [airbnb |-> 12, booking |-> 15, vrbo |-> 8]

\* One candidate per channel with an observed rate.  c is the cost record of
\* the apartment, pOther the percentage costs other than the commission.
DecidePriceByChannel(rates, q, c, pOther) ==
    LET net == NettedRevenueBaseAmount(c.commissionBase, c)
    IN  [ch \in DOMAIN rates |->
            DecidePrice([q EXCEPT !.rate = rates[ch],
                                  !.p = pOther + ChannelCommissionPct[ch],
                                  !.remainder =
                                      RemainderOf(pOther, ChannelCommissionPct[ch],
                                                  q.margin),
                                  !.netting =
                                      Nearest(ChannelCommissionPct[ch] * net)], 1)]

-----------------------------------------------------------------------------
(* viability.py *)

\* Mutant: spec 23's own pseudocode, where a stay of one night is a lever.
ClassifyViabilityAnyStay(rule, below, minStay, anyChannel, override, streak) ==
    IF override THEN "override_active"
    ELSE IF streak >= PersistentBreachThresholdDays
    THEN "persistent_floor_breach"
    ELSE IF rule = "market_competitive"
    THEN IF below <= 0 THEN "demand_upside" ELSE "ok"
    ELSE IF minStay # None THEN "min_stay_lever_available"
    ELSE IF anyChannel THEN "channel_lever_available"
    ELSE "floor_binding"

\* below: how far the suggestion is below the property reference; minStay: the
\* recommended stay; anyChannel: some channel is competitive; streak: its days.
ClassifyViability(rule, below, minStay, anyChannel, override, streak) ==
    IF override THEN "override_active"
    ELSE IF streak >= PersistentBreachThresholdDays
    THEN "persistent_floor_breach"
    ELSE IF rule = "market_competitive"
    THEN IF below <= 0 THEN "demand_upside" ELSE "ok"
    ELSE IF minStay # None /\ minStay > 1 THEN "min_stay_lever_available"
    ELSE IF anyChannel THEN "channel_lever_available"
    ELSE "floor_binding"

-----------------------------------------------------------------------------
(* _build_price_decision (stage_price_decision.py): from the cost record c of *)
(* an apartment, a nightly rate and a lead time to the engine and back.      *)

PercentageRates(c) == MapThenSumSet(LAMBDA pc : pc.rate, c.percentageCosts)

\* Mutant: a base is netted in full, not at the rate charged on it.
NettingInFull(c) ==
    MapThenSumSet(LAMBDA pc : NettedRevenueBaseAmount(pc.base, c),
                  c.percentageCosts)
    + NettedRevenueBaseAmount(c.commissionBase, c)

Netting(c) ==
    MapThenSumSet(
        LAMBDA pc : Nearest(pc.rate * NettedRevenueBaseAmount(pc.base, c)),
        c.percentageCosts)
    + Nearest(c.commissionPct * NettedRevenueBaseAmount(c.commissionBase, c))

\* The input decide_price() gets for a cost, a nightly rate and a lead time.
\* Its p is rounded, so that only one addend is left of it.
PricingInput(c, rate, days) ==
    LET p == PercentageRates(c) + c.commissionPct
    IN  [costs |-> c.costs, perBooking |-> c.perBooking, p |-> p,
         margin |-> c.margin, rate |-> rate, discount |-> c.discount,
         factor |-> c.factor, netting |-> Netting(c), days |-> days,
         remainder |-> RemainderOf(p, 0, c.margin)]

\* Stage B applies no override: Stage C does, later.
Viability(q, c, rates, breachDays) ==
    LET calc == DecidePrice(q, 1)
        byChannel == DecidePriceByChannel(rates, q, c, PercentageRates(c))
    IN  ClassifyViability(
            calc.rule, calc.belowMarketBy,
            RecommendMinimumStay(DecidePriceLosMatrix(q)),
            \E ch \in DOMAIN byChannel :
                byChannel[ch].rule = "market_competitive",
            FALSE, breachDays)
=============================================================================
