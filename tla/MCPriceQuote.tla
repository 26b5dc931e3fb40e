----------------------------- MODULE MCPriceQuote -----------------------------
(* A grid of inputs of PriceQuote for TLC. *)
EXTENDS PriceQuote, TLC

Contract(pct, base, percentageCosts) ==
    [commissionPct |-> pct, commissionBase |-> base,
     percentageCosts |-> percentageCosts,
     ota |-> 737, cleaning |-> 1913, laundry |-> 358, bookingScope |-> 4110]

OtaFee(base) == [concept |-> "ota_fee", rate |-> 7, base |-> base]

\* Three lines and a commission of 70 %, each netted amount of which is rounded
\* up by almost half a cent.
RoundedUp ==
    {[concept |-> "ota_fee", rate |-> 23, base |-> "revenue_minus_ota"],
     [concept |-> "management", rate |-> 13,
      base |-> "revenue_minus_ota_minus_cleaning"],
     [concept |-> "linen", rate |-> 19,
      base |-> "revenue_minus_ota_minus_cleaning_minus_laundry"]}

\* Every netting base as the commission's, with and without a percentage cost
\* on another base, a contract that leaves a margin of 30 % nothing but what the
\* floats do, and one that leaves it less.
MCContracts ==
    {Contract(0, "total_revenue", {}),
     Contract(18, "total_revenue", {OtaFee("total_revenue")}),
     Contract(18, "revenue_minus_ota", {OtaFee("revenue_minus_all_booking_costs")}),
     Contract(18, "revenue_minus_ota_minus_cleaning", {}),
     Contract(18, "revenue_minus_ota_minus_cleaning_minus_laundry",
              {OtaFee("revenue_minus_ota")}),
     Contract(18, "revenue_minus_all_booking_costs", {OtaFee("total_revenue")}),
     Contract(15, "revenue_minus_all_booking_costs", RoundedUp),
     Contract(95, "total_revenue", {})}

\* What IEEE doubles leave: 1 - 0.7 - 0.3 is 5.6e-17 and 1 - (0.55 + 0.15) - 0.3,
\* which a channel is priced with, -5.6e-17.  The grid meets no other pair that
\* leaves something.
MCRemainder ==
    [pair \in (0 .. 100) \X (0 .. 100) |->
        CASE pair = <<70, 0>> -> 1
          [] pair = <<55, 15>> -> -1
          [] OTHER -> 0]

MCProperties ==
    {[qualityTier |-> "basic", rating |-> 10, hasView |-> FALSE, hasParking |-> FALSE],
     [qualityTier |-> "luxury", rating |-> 48, hasView |-> TRUE, hasParking |-> TRUE]}

NoRates == [ch \in {} |-> 0]
MCChannelRates == {NoRates, [airbnb |-> 9900], [booking |-> 17300, vrbo |-> 8800]}

\* One lead time for each factor of the booking window, the last in the past.
MCLeadTimes == {60, 20, 2, -1}
=============================================================================
