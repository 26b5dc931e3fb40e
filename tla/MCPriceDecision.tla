--------------------------- MODULE MCPriceDecision ---------------------------
(* Small instances of PriceDecision for TLC. *)
EXTENDS PriceDecision

CONSTANTS a1, a2, a3

\* A profile with no commission, no margin: floor = costs + perBooking / stay.
Profile(costs, perBooking) ==
    [costs |-> costs, perBooking |-> perBooking, percentageCosts |-> {},
     commissionPct |-> 0, commissionBase |-> "total_revenue", ota |-> 0,
     cleaning |-> 0, laundry |-> 0, bookingScope |-> 0,
     margin |-> 0, discount |-> 10, factor |-> 100]

\* No profile's percentages and margin take the whole price.
NoRemainder == [pair \in (0 .. 100) \X (0 .. 100) |-> 0]

\* At a rate of 100.00: competitive until the day of arrival, when the same-day
\* markdown takes the market below it.
SlimProfile == Profile(8400, 0)

\* A percentage cost and a commission netted of OTA costs: floor 100.00 at one
\* night, above the blended reference and below a channel rate of 130.00.
CommissionProfile ==
    [Profile(7650, 0) EXCEPT !.percentageCosts = {[concept |-> "ota_fee",
                                  rate |-> 5, base |-> "revenue_minus_ota"]},
                             !.commissionPct = 10,
                             !.commissionBase = "revenue_minus_ota",
                             !.ota = 1000, !.margin = 10]

\* The profiles of the calendar run.
CalendarProfiles == {SlimProfile, CommissionProfile}
OneProfile == {SlimProfile}
=============================================================================
