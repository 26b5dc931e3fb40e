--------------------------- MODULE MCCostPipeline ---------------------------
(* Small instances of CostPipeline for TLC. *)
EXTENDS CostPipeline, TLC

Definition(concept, scope, behavior, recurrence) ==
    [concept |-> concept, scope |-> scope, behavior |-> behavior,
     calculationBase |-> "fixed_amount", recurrence |-> recurrence,
     revenueBase |-> None, rate |-> None]

Percentage(concept, base, rate) ==
    [Definition(concept, "booking", "variable", "per_booking") EXCEPT
        !.calculationBase = "pct_adjusted_revenue", !.revenueBase = base,
        !.rate = rate]

Rule(method) == [method |-> method, weight |-> None]

Payment(start, end, amount, definition) ==
    [start |-> start, end |-> end, amount |-> amount, definition |-> definition]

Booking(id, checkIn, checkOut, status) ==
    [id |-> id, checkIn |-> checkIn, checkOut |-> checkOut, guests |-> 2,
     status |-> status]

-----------------------------------------------------------------------------
(* Every definition and rule the instances use, by cost_definition_id. *)

AllDefinitions ==
    [internet |-> <<Definition("internet", "property", "fixed", "monthly")>>,
     cleaning |-> <<Definition("cleaning", "booking", "variable", "per_booking")>>,
     linen |-> <<Definition("laundry", "booking", "variable", "per_booking")>>,
     ota |-> <<Percentage("ota_fee", "total_revenue", 15)>>,
     rent |-> <<Definition("office_rent", "company", "fixed", "monthly")>>,
     licences |-> <<Definition("pms_subscription", "company", "variable", "quarterly")>>,
     owner |-> <<Percentage("owner_commission", "revenue_minus_ota", 20)>>,
     newOwner |-> <<Percentage("owner_commission", "total_revenue", 25)>>]

Weighted == [method |-> "weighted", weight |-> 50]

AllRules ==
    [d \in DOMAIN AllDefinitions |->
        CASE d = "cleaning" -> <<Rule("occupied_night")>>
          [] d \in {"linen", "ota"} -> <<Rule("booking")>>
          [] d = "rent" -> <<Rule("weighted"), Weighted>>
          [] d = "licences" -> <<Weighted>>
          [] OTHER -> <<Rule("calendar_day")>>]

MCDefinitionRows == [d \in Definitions |-> AllDefinitions[d]]
MCRuleRows == [d \in Definitions |-> AllRules[d]]

\* Three periods: a cost allocated by bookings, one by occupied nights, and a
\* percentage of revenue.
TurnoverRows ==
    <<<<Payment(1, 4, 1000, "linen")>>,
      <<Payment(5, 8, 800, "cleaning")>>,
      <<Payment(9, 12, 600, "ota")>>>>

\* A booking of the first period, and one across the first two that overlaps
\* it and is moved to the second.
StayRows ==
    [b \in {1, 2} |->
        IF b = 1 THEN <<Booking(1, 1, 3, "confirmed")>>
        ELSE <<Booking(2, 2, 6, "confirmed"), Booking(2, 6, 8, "confirmed")>>]

NoRows == [b \in {} |-> <<>>]

\* One line, updated once.
OneLine == <<[n \in 1 .. 2 |-> Payment(1, 3, 300 * n, "internet")]>>

OneOccurrenceEach ==
    {[id |-> 1, definition |-> "rent", amount |-> 2400],
     [id |-> 2, definition |-> "licences", amount |-> 1800]}
TwoRents == {[id |-> 1, definition |-> "rent", amount |-> 2400],
             [id |-> 2, definition |-> "rent", amount |-> 2400]}

OneContract == <<"owner">>
TwoContracts == <<"owner", "newOwner">>

\* All configuration everywhere; or without the segment, the strategy, the rent
\* at A4 and the new commission at A2.
EveryConfig == (Stages \X (Definitions \cup {"contract"}))
                   \cup {<<"A", "profile">>, <<"A", "strategy">>}
SomeConfig == EveryConfig \ {<<"A", "profile">>, <<"A", "strategy">>,
                             <<"A4", "rent">>, <<"A2", "newOwner">>}

=============================================================================
