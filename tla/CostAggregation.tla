--------------------------- MODULE CostAggregation ---------------------------
(***************************************************************************)
(* The arithmetic of the cost stages: cost_aggregation.py, occupancy.py    *)
(* and what the stages A-correction, A4 and A2 do to one aggregate.        *)
(*                                                                         *)
(* Units: amounts are integer cents, rates and weights whole percents,     *)
(* dates day numbers.  Monthly equivalents are summed in twelfths, so that *)
(* only the roundings of the code round (round() to the cent).             *)
(***************************************************************************)
EXTENDS Integers, FiniteSets, FiniteSetsExt

CONSTANT None    \* an absent optional value

\* round(x / y, 2) in cents; ties go up here, to even in Python.
Rounded(x, y) == (2 * x + y) \div (2 * y)

\* A sum spread over days; the guard of every division by available_days.
PerDay(x, days) == IF days > 0 THEN Rounded(x, days) ELSE 0

PercentageCalculationBases == {"pct_revenue", "pct_adjusted_revenue"}

ImmediateAllocationMethods ==
    {"direct", "calendar_day", "available_night", "weighted", "revenue"}

OtaRelatedConcepts == {"ota_fee", "channel_manager"}

\* The concepts a breakdown reports.
ConceptOrder ==
    {"electricity", "water", "gas", "internet", "pms_subscription", "ota_fee",
     "channel_manager", "office_rent", "cleaning", "laundry", "maintenance",
     "insurance", "community_fee", "other"}

\* _RECURRENCE_MONTHLY_DIVISOR, by which an amount is taken to one month.
MonthlyDivisor(recurrence) ==
    CASE recurrence = "quarterly" -> 3
      [] recurrence = "annual" -> 12
      [] OTHER -> 1

\* The monthly equivalent of an amount, in twelfths of a cent.
MonthlyTwelfths(amount, recurrence) ==
    amount * (12 \div MonthlyDivisor(recurrence))

-----------------------------------------------------------------------------
(* cost_aggregation.py.  A line has the fields event, start, end, amount   *)
(* and those of its definition and rule: concept, scope, behavior,         *)
(* calculationBase, recurrence, revenueBase, rate and method.              *)

\* Mutant: the period before the newest is not kept.
RetainedPeriodEndsOne(periodEnds) ==
    {e \in periodEnds : Cardinality({f \in periodEnds : f > e}) < 1}

RetainedPeriodEnds(periodEnds) ==
    {e \in periodEnds : Cardinality({f \in periodEnds : f > e}) < 2}

\* "next(line for line in ...)": map state is iterated in the order of its
\* serialized keys, which says nothing about arrival.
FirstOf(lines) == CHOOSE l \in lines : \A k \in lines : l.event <= k.event

TotalAmount(lines) == MapThenSumSet(LAMBDA l : l.amount, lines)

TotalMonthly(lines) ==
    MapThenSumSet(LAMBDA l : MonthlyTwelfths(l.amount, l.recurrence), lines)

OfConcept(c, lines) == {l \in lines : l.concept = c}

\* Of the lines of one period: a percentage of revenue has no amount, a
\* one-off cost is averaged per booking, and of the others those allocated by
\* nights or bookings wait for the booking stage.
PercentageLines(lines) ==
    {l \in lines : l.calculationBase \in PercentageCalculationBases}

OneTimeLines(lines) ==
    {l \in lines \ PercentageLines(lines) : l.recurrence = "one_off"}

RecurringLines(lines) == lines \ (PercentageLines(lines) \cup OneTimeLines(lines))

ImmediateRecurring(lines) ==
    {l \in RecurringLines(lines) : l.method \in ImmediateAllocationMethods}

DeferredRecurring(lines) == RecurringLines(lines) \ ImmediateRecurring(lines)

PercentageCosts(lines) ==
    {[concept |-> c,
      rate |-> LET r == FirstOf(OfConcept(c, lines)).rate
               IN  IF r = None THEN 0 ELSE r,
      base |-> FirstOf(OfConcept(c, lines)).revenueBase] :
        c \in {l.concept : l \in lines}}

PendingAllocationCorrections(lines) ==
    {[concept |-> c,
      behavior |-> FirstOf(OfConcept(c, lines)).behavior,
      method |-> FirstOf(OfConcept(c, lines)).method,
      monthly |-> Rounded(TotalMonthly(OfConcept(c, lines)), 12)] :
        c \in {l.concept : l \in lines}}

CostBreakdown(lines, days) ==
    [c \in {l.concept : l \in lines} \cap ConceptOrder |->
        PerDay(TotalAmount(OfConcept(c, lines)), days)]

\* The lines of one period, split into the buckets of the floor.
PeriodCost(matching, end) ==
    LET start == FirstOf(matching).start
        days == end - start + 1
        oneTime == OneTimeLines(matching)
        With(behaviors) ==
            {l \in ImmediateRecurring(matching) : l.behavior \in behaviors}
        Netted(concepts) ==
            PerDay(TotalAmount({l \in matching : l.concept \in concepts}), days)
    IN  [periodStart |-> start,
         periodEnd |-> end,
         availableDays |-> days,
         total |-> TotalAmount(matching),
         count |-> Cardinality(matching),
         fixed |-> PerDay(TotalMonthly(With({"fixed"})), 12 * days),
         variable |-> PerDay(TotalMonthly(With({"variable", "semi_variable"})),
                             12 * days),
         perBooking |-> PerDay(TotalAmount(oneTime), Cardinality(oneTime)),
         percentageCosts |-> PercentageCosts(PercentageLines(matching)),
         pending |-> PendingAllocationCorrections(DeferredRecurring(matching)),
         ota |-> Netted(OtaRelatedConcepts),
         cleaning |-> Netted({"cleaning"}),
         laundry |-> Netted({"laundry"}),
         bookingScope |->
             PerDay(TotalAmount({l \in matching : l.scope = "booking"}), days),
         breakdown |-> CostBreakdown(matching, days)]

\* Of all lines, those of the newest period.
AggregateCost(lines) ==
    LET end == Max({l.end : l \in lines})
    IN  PeriodCost({l \in lines : l.end = end}, end)

-----------------------------------------------------------------------------
(* occupancy.py.  A booking has the fields id, checkIn, checkOut, guests   *)
(* and status.                                                             *)

Confirmed(bookings) == {b \in bookings : b.status = "confirmed"}

\* Mutant: each booking's nights are added up, so an overlap counts twice.
OccupiedNightsSummed(bookings, start, end) ==
    MapThenSumSet(LAMBDA b : Cardinality({n \in start .. end :
                                 b.checkIn <= n /\ n < b.checkOut}),
                  Confirmed(bookings))

OccupiedNights(bookings, start, end) ==
    Cardinality({n \in start .. end : \E b \in Confirmed(bookings) :
                                          b.checkIn <= n /\ n < b.checkOut})

\* The confirmed bookings whose stay meets the period at all.
Overlapping(bookings, start, end) ==
    {b \in Confirmed(bookings) : b.checkIn <= end /\ b.checkOut > start}

BookingCount(bookings, start, end) ==
    Cardinality(Overlapping(bookings, start, end))

\* In hundredths of a guest.
AvgGuests(bookings, start, end) ==
    LET overlapping == Overlapping(bookings, start, end)
    IN  PerDay(100 * MapThenSumSet(LAMBDA b : b.guests, overlapping),
               Cardinality(overlapping))

-----------------------------------------------------------------------------
(* What the stages do to an aggregate: a record with cost, the result of   *)
(* AggregateCost, the occupancy figures, the commission, and charged, a    *)
(* history of the company costs added to cost.                             *)

\* stage_booking_enrichment.py, _recompute
Recompute(aggregate, bookings) ==
    LET start == aggregate.cost.periodStart
        end == aggregate.cost.periodEnd
    IN  [aggregate EXCEPT !.occupiedNights = OccupiedNights(bookings, start, end),
                          !.bookingCount = BookingCount(bookings, start, end),
                          !.avgGuests = AvgGuests(bookings, start, end)]

\* What a deferred cost is divided by; the whole period where nothing counts.
Denominator(method, nights, bookingCount, days) ==
    LET counted == CASE method = "occupied_night" -> nights
                     [] method = "booking" -> bookingCount
                     [] OTHER -> 0
    IN  IF counted > 0 THEN counted ELSE days

\* Deferred costs as one amount per night of the period.
DeferredPerNight(corrections, nights, bookingCount, days) ==
    MapThenSumSet(LAMBDA c : PerDay(c.monthly, Denominator(c.method, nights,
                                                           bookingCount, days)),
                  corrections)

\* stage_allocation_correction.py: deferred costs take their share of a night.
CorrectAllocations(aggregate) ==
    LET Addition(corrections) ==
            DeferredPerNight(corrections, aggregate.occupiedNights,
                             aggregate.bookingCount, aggregate.cost.availableDays)
        fixed == {c \in aggregate.cost.pending : c.behavior = "fixed"}
    IN  [aggregate EXCEPT
            !.cost.fixed = @ + Addition(fixed),
            !.cost.variable = @ + Addition(aggregate.cost.pending \ fixed),
            !.cost.pending = {}]

\* stage_company_cost_enrichment.py: this apartment's share of an occurrence
\* with a known definition and rule; a weight of None is SQL NULL, 0 says that
\* the map does not name the apartment.
CompanyShare(occurrence, definition, rule, days) ==
    [id |-> occurrence.id, definition |-> occurrence.definition,
     behavior |-> definition.behavior,
     perNight |-> PerDay(rule.weight * MonthlyTwelfths(occurrence.amount,
                                                       definition.recurrence),
                         1200 * days)]

SharesPerNight(shares) == MapThenSumSet(LAMBDA s : s.perNight, shares)

ChargeCompanyCosts(aggregate, shares) ==
    LET fixed == {s \in shares : s.behavior = "fixed"}
    IN  [aggregate EXCEPT !.cost.fixed = @ + SharesPerNight(fixed),
                          !.cost.variable = @ + SharesPerNight(shares \ fixed),
                          !.charged = shares]

\* stage_owner_contract_enrichment.py: the commission of the contract.
ApplyCommission(aggregate, definition) ==
    [aggregate EXCEPT
        !.commissionBase = IF definition.revenueBase = None THEN "total_revenue"
                           ELSE definition.revenueBase,
        !.commissionPct = IF definition.rate = None THEN 0 ELSE definition.rate]
=============================================================================
