----------------------------- MODULE CostPipeline -----------------------------
(***************************************************************************)
(* The cost side of the Flink job for one apartment, from a row of         *)
(* payment_lines to the cost aggregate that Stage B reads:                 *)
(*                                                                         *)
(*   A0 definition -> A aggregation -> A-bookings and A-correction ->      *)
(*   A4 company costs -> A2 owner contract -> Stage B                      *)
(*                                                                         *)
(* Every stage runs its handlers for one key one at a time, is joined to   *)
(* the next by a FIFO channel, and has broadcast state of its own, filled  *)
(* from Kafka at its own pace: two stages may hold different versions of   *)
(* one cost definition.  A row missing from broadcast state makes a stage  *)
(* skip what it was handling; nothing is buffered and no change of         *)
(* configuration emits anything by itself.                                 *)
(***************************************************************************)
EXTENDS CostAggregation, Sequences

CONSTANTS
    EventIds,            \* event_id of the apartment's payment lines
    PaymentRows,         \* successive row versions of each payment line
    Definitions,         \* cost_definition_id
    DefinitionRows,      \* successive versions of each definition
    RuleRows,            \* successive versions of its allocation rule
    OccurrenceRows,      \* company_cost_occurrences, a set of records
    ContractRows,        \* successive definitions of the owner contract
    BookingIds,          \* booking_id of the apartment's bookings
    BookingRows,         \* successive row versions of each booking
    StrategyVersions,    \* versions of pricing_strategies
    RetentionBufferDays, \* _RETENTION_BUFFER_DAYS (90)
    Warm,                \* <<stage, row>>: configuration there at the start
    MaxRedeliveries      \* bound: rows that Kafka Connect sends again

Stages == {"A0", "A4", "A2"}    \* those that keep cost definitions

PaymentRow == [start : Nat, end : Nat, amount : Nat, definition : Definitions]

DefinitionRow == [concept : STRING, scope : STRING, behavior : STRING,
                  calculationBase : STRING, recurrence : STRING,
                  revenueBase : STRING \cup {None}, rate : Nat \cup {None}]

RuleRow == [method : STRING, weight : Nat \cup {None}]

BookingRow == [id : BookingIds, checkIn : Nat, checkOut : Nat, guests : Nat,
               status : STRING]

ASSUME CostPipelineAssumption ==
    /\ EventIds \subseteq Nat
    /\ IsFiniteSet(EventIds)
    /\ StrategyVersions \subseteq Nat \ {0}
    /\ RetentionBufferDays \in Nat
    /\ MaxRedeliveries \in Nat
    /\ DefinitionRows \in [Definitions -> Seq(DefinitionRow)]
    /\ RuleRows \in [Definitions -> Seq(RuleRow)]
    /\ PaymentRows \in [EventIds -> Seq(PaymentRow)]
    /\ BookingRows \in [BookingIds -> Seq(BookingRow)]
    /\ ContractRows \in Seq(Definitions)
    /\ \A o \in OccurrenceRows : o.definition \in Definitions
    /\ \A d \in Definitions :
          /\ (\E s \in Stages : <<s, d>> \in Warm) => DefinitionRows[d] # <<>>
          /\ (\E s \in {"A0", "A4"} : <<s, d>> \in Warm) => RuleRows[d] # <<>>
    /\ <<"A2", "contract">> \in Warm => ContractRows # <<>>
    /\ <<"A", "strategy">> \in Warm => 1 \in StrategyVersions

\* A payment line is a bill of one calendar month and stays one: its updates change
\* its status.  Of two lines, the one that ends later does not begin so much earlier
\* that bookings of its period have been forgotten.
ASSUME PeriodsAssumption ==
    \A e, f \in EventIds : \A v \in DOMAIN PaymentRows[e], w \in DOMAIN PaymentRows[f] :
        LET row == PaymentRows[e][v]
            other == PaymentRows[f][w]
        IN  /\ row.start <= row.end
            /\ e = f => row.start = other.start /\ row.end = other.end
            /\ row.end <= other.end => row.start - RetentionBufferDays <= other.start

\* A payment line as Stage A0 enriches it; version is kept for the properties, no
\* stage reads it.
Line == [event : EventIds, version : Nat, start : Nat, end : Nat, amount : Nat,
         concept : STRING, scope : STRING, behavior : STRING,
         calculationBase : STRING, recurrence : STRING,
         revenueBase : STRING \cup {None}, rate : Nat \cup {None},
         method : STRING]

\* None marks what is absent, so it is none of the rows that may be there.
ASSUME NoneAssumption ==
    None \notin Line /\ None \notin BookingRow /\ None \notin DefinitionRow
        /\ None \notin RuleRow

VARIABLES
    published,    \* row versions sent so far, by payment line
    bookingsSent, \* row versions sent so far, by booking
    redeliveries, \* rows sent again so far
    definitions,  \* versions of each definition delivered to each stage
    rules,        \* versions of each allocation rule, to A0 and to A4
    occurrences,  \* occurrences delivered to A4
    contract,     \* versions of the owner contract delivered to A2
    profile,      \* Stage A knows the apartment's segment
    strategy,     \* strategy version in Stage A's broadcast state, 0 if none
    resolved,     \* channel A0 -> A
    lines,        \* "payment-lines-by-event-id" of Stage A, or None
    aggregates,   \* channel A -> A-bookings
    bookings,     \* "bookings-by-booking-id" of A-bookings, or None
    cached,       \* "latest-cost-aggregate" of A-bookings, or None
    corrected,    \* channel A-correction -> A4
    charged,      \* channel A4 -> A2
    priced,       \* last aggregate that A2 sent to Stage B, or None
    accepted,     \* history: the last line of each event that reached Stage A
    known,        \* history: the last row of each booking, pruned or not
    lost          \* history: A2 dropped the last aggregate that reached it

inputs == <<published, bookingsSent, redeliveries>>
config == <<definitions, rules, occurrences, contract, profile, strategy>>
history == <<accepted, known, lost>>
vars == <<inputs, config, resolved, lines, aggregates, bookings, cached,
          corrected, charged, priced, history>>

Rows(f) == {f[k] : k \in DOMAIN f} \ {None}

\* The row a stage holds once that many versions were delivered to it.
Held(versions, delivered) == IF delivered = 0 THEN None ELSE versions[delivered]

Drained ==
    resolved = <<>> /\ aggregates = <<>> /\ corrected = <<>> /\ charged = <<>>

-----------------------------------------------------------------------------
\* A job that starts, or one that was running when the rest of the
\* configuration was written: what is in Warm has been delivered once.
Init ==
    LET At(s, x) == IF <<s, x>> \in Warm THEN 1 ELSE 0
    IN  /\ published = [e \in EventIds |-> 0]
        /\ bookingsSent = [b \in BookingIds |-> 0]
        /\ redeliveries = 0
        /\ definitions = [s \in Stages |-> [d \in Definitions |-> At(s, d)]]
        /\ rules = [s \in {"A0", "A4"} |-> [d \in Definitions |-> At(s, d)]]
        /\ occurrences = {}
        /\ contract = At("A2", "contract")
        /\ profile = (At("A", "profile") = 1)
        /\ strategy = At("A", "strategy")
        /\ resolved = <<>>
        /\ lines = [e \in EventIds |-> None]
        /\ aggregates = <<>>
        /\ bookings = [b \in BookingIds |-> None]
        /\ cached = None
        /\ corrected = <<>>
        /\ charged = <<>>
        /\ priced = None
        /\ accepted = [e \in EventIds |-> None]
        /\ known = [b \in BookingIds |-> None]
        /\ lost = FALSE

\* Kafka Connect sends the next version of a row, or one it has sent before.
Sends(sent, versions, k, v) ==
    /\ v \in DOMAIN versions[k]
    /\ v <= sent[k] + 1
    /\ v <= sent[k] => redeliveries < MaxRedeliveries
    /\ redeliveries' = redeliveries + (IF v <= sent[k] THEN 1 ELSE 0)

-----------------------------------------------------------------------------
(* Broadcast sides *)

\* process_broadcast_element of A0, A4 and A2: stored unconditionally.
DeliverDefinition(s, d) ==
    /\ definitions[s][d] < Len(DefinitionRows[d])
    /\ definitions' = [definitions EXCEPT ![s][d] = @ + 1]
    /\ UNCHANGED <<inputs, rules, occurrences, contract, profile, strategy,
                   resolved, lines, aggregates, bookings, cached, corrected,
                   charged, priced, history>>

DeliverRule(s, d) ==
    /\ rules[s][d] < Len(RuleRows[d])
    /\ rules' = [rules EXCEPT ![s][d] = @ + 1]
    /\ UNCHANGED <<inputs, definitions, occurrences, contract, profile,
                   strategy, resolved, lines, aggregates, bookings, cached,
                   corrected, charged, priced, history>>

DeliverOccurrence(o) ==
    /\ o \notin occurrences
    /\ occurrences' = occurrences \cup {o}
    /\ UNCHANGED <<inputs, definitions, rules, contract, profile, strategy,
                   resolved, lines, aggregates, bookings, cached, corrected,
                   charged, priced, history>>

DeliverContract ==
    /\ contract < Len(ContractRows)
    /\ contract' = contract + 1
    /\ UNCHANGED <<inputs, definitions, rules, occurrences, profile, strategy,
                   resolved, lines, aggregates, bookings, cached, corrected,
                   charged, priced, history>>

DeliverProfile ==
    /\ ~profile
    /\ profile' = TRUE
    /\ UNCHANGED <<inputs, definitions, rules, occurrences, contract, strategy,
                   resolved, lines, aggregates, bookings, cached, corrected,
                   charged, priced, history>>

\* Mutant: the version that arrived last wins.
DeliverStrategyInArrivalOrder(v) ==
    /\ v # strategy
    /\ strategy' = v
    /\ UNCHANGED <<inputs, definitions, rules, occurrences, contract, profile,
                   resolved, lines, aggregates, bookings, cached, corrected,
                   charged, priced, history>>

\* Versions of one apartment may come from several partitions, in any order;
\* an older one is ignored.
DeliverStrategy(v) ==
    /\ v > strategy
    /\ strategy' = v
    /\ UNCHANGED <<inputs, definitions, rules, occurrences, contract, profile,
                   resolved, lines, aggregates, bookings, cached, corrected,
                   charged, priced, history>>

-----------------------------------------------------------------------------
(* Stage A0: stage_cost_definition_resolution.py *)

Resolvable(d) == definitions["A0"][d] > 0 /\ rules["A0"][d] > 0

\* The line with its definition and rule as A0 knows them now.
EnrichedPaymentLine(e, v) ==
    LET row == PaymentRows[e][v]
        definition == Held(DefinitionRows[row.definition],
                           definitions["A0"][row.definition])
        rule == Held(RuleRows[row.definition], rules["A0"][row.definition])
    IN  [event |-> e, version |-> v, start |-> row.start, end |-> row.end,
         amount |-> row.amount, concept |-> definition.concept,
         scope |-> definition.scope, behavior |-> definition.behavior,
         calculationBase |-> definition.calculationBase,
         recurrence |-> definition.recurrence,
         revenueBase |-> definition.revenueBase, rate |-> definition.rate,
         method |-> rule.method]

ResolveLine(e, v) ==
    /\ Sends(published, PaymentRows, e, v)
    /\ published' = [published EXCEPT ![e] = IF v > @ THEN v ELSE @]
    /\ resolved' = IF Resolvable(PaymentRows[e][v].definition)
                   THEN Append(resolved, EnrichedPaymentLine(e, v))
                   ELSE resolved
    /\ UNCHANGED <<bookingsSent, config, lines, aggregates, bookings, cached,
                   corrected, charged, priced, history>>

-----------------------------------------------------------------------------
(* Stage A: stage_cost_enrichment.py *)

\* What Stage A makes of the lines it holds.  The commission has the defaults
\* of CostAggregate until A2.
CostAggregate(held, version) ==
    [cost |-> AggregateCost(held), strategy |-> version,
     occupiedNights |-> 0, bookingCount |-> 0, avgGuests |-> 0,
     commissionBase |-> "total_revenue", commissionPct |-> 15,
     charged |-> {}]

\* The map state once a line was put in it and old periods were removed.
WithLine(held, line) ==
    LET put == [held EXCEPT ![line.event] = line]
        retained == RetainedPeriodEnds({l.end : l \in Rows(put)})
    IN  [e \in EventIds |-> IF put[e] = None THEN None
                            ELSE IF put[e].end \in retained THEN put[e]
                            ELSE None]

\* Mutant: the update of a line that is held is stored without an emission.
AggregateLineInsertsOnly ==
    /\ resolved # <<>>
    /\ lines' = WithLine(lines, Head(resolved))
    /\ accepted' = [accepted EXCEPT ![Head(resolved).event] = Head(resolved)]
    /\ resolved' = Tail(resolved)
    /\ aggregates' = IF /\ profile
                        /\ strategy # 0
                        /\ lines[Head(resolved).event] = None
                     THEN Append(aggregates, CostAggregate(Rows(lines'), strategy))
                     ELSE aggregates
    /\ UNCHANGED <<inputs, config, bookings, cached, corrected, charged,
                   priced, known, lost>>

AggregateLine ==
    /\ resolved # <<>>
    /\ lines' = WithLine(lines, Head(resolved))
    /\ accepted' = [accepted EXCEPT ![Head(resolved).event] = Head(resolved)]
    /\ resolved' = Tail(resolved)
    /\ aggregates' = IF profile /\ strategy # 0
                     THEN Append(aggregates, CostAggregate(Rows(lines'), strategy))
                     ELSE aggregates
    /\ UNCHANGED <<inputs, config, bookings, cached, corrected, charged,
                   priced, known, lost>>
-----------------------------------------------------------------------------
(* Stages A-bookings (stage_booking_enrichment.py) and, chained to it,     *)
(* A-correction (stage_allocation_correction.py)                           *)

\* What leaves A-correction when A-bookings emits an aggregate.
Emission(aggregate, held) == CorrectAllocations(Recompute(aggregate, Rows(held)))

\* process_element1: cache the aggregate, enrich and emit it.
CostArrivesAtBookings ==
    /\ aggregates # <<>>
    /\ cached' = Head(aggregates)
    /\ aggregates' = Tail(aggregates)
    /\ corrected' = Append(corrected, Emission(Head(aggregates), bookings))
    /\ UNCHANGED <<inputs, config, resolved, lines, bookings, charged, priced,
                   history>>

\* Mutant: bookings are pruned by arrival and not by departure.
PruneByCheckIn(held, aggregate) ==
    LET cutoff == aggregate.cost.periodStart - RetentionBufferDays
    IN  [b \in BookingIds |-> IF held[b] = None THEN None
                              ELSE IF held[b].checkIn < cutoff THEN None
                              ELSE held[b]]

\* Bookings that ended long before the aggregate's period are forgotten.
Prune(held, aggregate) ==
    LET cutoff == aggregate.cost.periodStart - RetentionBufferDays
    IN  [b \in BookingIds |-> IF held[b] = None THEN None
                              ELSE IF held[b].checkOut < cutoff THEN None
                              ELSE held[b]]

\* process_element2: upsert, prune, and emit the cached aggregate again.
BookingArrives(b, v) ==
    LET put == [bookings EXCEPT ![b] = BookingRows[b][v]]
    IN  /\ Sends(bookingsSent, BookingRows, b, v)
        /\ bookingsSent' = [bookingsSent EXCEPT ![b] = IF v > @ THEN v ELSE @]
        /\ known' = [known EXCEPT ![b] = BookingRows[b][v]]
        /\ bookings' = IF cached = None THEN put ELSE Prune(put, cached)
        /\ corrected' = IF cached = None THEN corrected
                        ELSE Append(corrected, Emission(cached, bookings'))
        /\ UNCHANGED <<published, config, resolved, lines, aggregates, cached,
                       charged, priced, accepted, lost>>

-----------------------------------------------------------------------------
(* Stage A4: stage_company_cost_enrichment.py *)

\* The occurrences this stage can charge: a delivered definition of company
\* scope and a delivered rule that gives the apartment a weight.
Chargeable(o) ==
    LET definition == Held(DefinitionRows[o.definition],
                           definitions["A4"][o.definition])
        rule == Held(RuleRows[o.definition], rules["A4"][o.definition])
    IN  IF definition = None \/ rule = None THEN FALSE
        ELSE IF definition.scope # "company" \/ rule.weight = None THEN FALSE
        ELSE rule.weight > 0

\* Mutant: return for continue at the first occurrence that is not known.
SharesAllOrNone(days) ==
    {CompanyShare(o,
                  DefinitionRows[o.definition][definitions["A4"][o.definition]],
                  RuleRows[o.definition][rules["A4"][o.definition]],
                  days) : o \in IF \A x \in occurrences : Chargeable(x)
                                THEN occurrences ELSE {}}

\* Every chargeable occurrence, of whatever period.
Shares(days) ==
    {CompanyShare(o,
                  DefinitionRows[o.definition][definitions["A4"][o.definition]],
                  RuleRows[o.definition][rules["A4"][o.definition]],
                  days) : o \in {x \in occurrences : Chargeable(x)}}

ChargeCompany ==
    /\ corrected # <<>>
    /\ LET aggregate == Head(corrected)
       IN  charged' = Append(charged,
               ChargeCompanyCosts(aggregate, Shares(aggregate.cost.availableDays)))
    /\ corrected' = Tail(corrected)
    /\ UNCHANGED <<inputs, config, resolved, lines, aggregates, bookings,
                   cached, priced, history>>

-----------------------------------------------------------------------------
(* Stage A2: stage_owner_contract_enrichment.py *)

\* The contract and the commission definition it names are both known.
ContractResolvable ==
    IF contract = 0 THEN FALSE
    ELSE definitions["A2"][ContractRows[contract]] > 0

\* Mutant: an aggregate waits for its contract in place of being dropped.
ResolveContractWaits ==
    /\ charged # <<>>
    /\ ContractResolvable
    /\ charged' = Tail(charged)
    /\ lost' = FALSE
    /\ priced' = Head(charged)
    /\ UNCHANGED <<inputs, config, resolved, lines, aggregates, bookings,
                   cached, corrected, accepted, known>>

ResolveContract ==
    /\ charged # <<>>
    /\ charged' = Tail(charged)
    /\ lost' = ~ContractResolvable
    /\ priced' = IF ContractResolvable
                 THEN LET d == ContractRows[contract]
                      IN  ApplyCommission(Head(charged),
                                          DefinitionRows[d][definitions["A2"][d]])
                 ELSE priced
    /\ UNCHANGED <<inputs, config, resolved, lines, aggregates, bookings,
                   cached, corrected, accepted, known>>

-----------------------------------------------------------------------------
Deliver ==
    \/ \E s \in Stages, d \in Definitions : DeliverDefinition(s, d)
    \/ \E s \in {"A0", "A4"}, d \in Definitions : DeliverRule(s, d)
    \/ \E o \in OccurrenceRows : DeliverOccurrence(o)
    \/ DeliverContract
    \/ DeliverProfile
    \/ \E v \in StrategyVersions : DeliverStrategy(v)

Process ==
    \/ AggregateLine
    \/ CostArrivesAtBookings
    \/ ChargeCompany
    \/ ResolveContract

Next ==
    \/ Deliver
    \/ \E e \in EventIds : \E v \in DOMAIN PaymentRows[e] : ResolveLine(e, v)
    \/ \E b \in BookingIds : \E v \in DOMAIN BookingRows[b] : BookingArrives(b, v)
    \/ Process

Spec == Init /\ [][Next]_vars

\* Flink keeps taking what is in a channel; nothing is assumed of the sources.
FairSpec == Spec /\ WF_vars(Process)

-----------------------------------------------------------------------------
(* Properties *)

Aggregate(a) ==
    /\ a.strategy \in StrategyVersions
    /\ a.cost.periodStart <= a.cost.periodEnd
    /\ a.cost.availableDays \in Nat \ {0}
    /\ a.occupiedNights \in 0 .. a.cost.availableDays

\* The state of the stages and what is in the channels between them is what
\* the descriptors of the code store and its data classes hold.
TypeOK ==
    /\ \A e \in EventIds : published[e] \in 0 .. Len(PaymentRows[e])
    /\ \A b \in BookingIds : bookingsSent[b] \in 0 .. Len(BookingRows[b])
    /\ redeliveries \in 0 .. MaxRedeliveries
    /\ \A s \in Stages, d \in Definitions :
           definitions[s][d] \in 0 .. Len(DefinitionRows[d])
    /\ \A s \in {"A0", "A4"}, d \in Definitions :
           rules[s][d] \in 0 .. Len(RuleRows[d])
    /\ occurrences \subseteq OccurrenceRows
    /\ contract \in 0 .. Len(ContractRows)
    /\ profile \in BOOLEAN
    /\ strategy \in StrategyVersions \cup {0}
    /\ resolved \in Seq(Line)
    /\ lines \in [EventIds -> Line \cup {None}]
    /\ accepted \in [EventIds -> Line \cup {None}]
    /\ \A i \in DOMAIN aggregates : Aggregate(aggregates[i])
    /\ \A i \in DOMAIN corrected : Aggregate(corrected[i])
    /\ \A i \in DOMAIN charged : Aggregate(charged[i])
    /\ cached # None => Aggregate(cached)
    /\ priced # None => Aggregate(priced)
    /\ \A b \in BookingIds : bookings[b] \in {None, known[b]}
    /\ lost \in BOOLEAN

\* The map of Stage A holds, for the two newest periods it has seen, the last
\* row of every payment line that reached it, and nothing of older periods:
\* updates, redeliveries and late lines of a period already removed included.
HoldsTheNewestPeriods ==
    \A e \in EventIds :
        LET newerEnds == {l.end : l \in {k \in Rows(accepted) :
                                             k.end > accepted[e].end}}
        IN  lines[e] = IF accepted[e] = None THEN None
                       ELSE IF Cardinality(newerEnds) < 2 THEN accepted[e]
                       ELSE None

\* Once nothing is in a channel, what Stage B last got is the cost of ALL
\* payment lines that reached Stage A and ALL bookings of the apartment, each
\* with its last row, and the company costs it was charged: no removal of an old period or of an old booking, no
\* interleaving of the two inputs and no re-emission of the cached aggregate
\* shows.  Unless A2 dropped the last aggregate for want of a contract.
CostIsCurrent ==
    (Drained /\ priced # None /\ ~lost) =>
        LET reference == Emission(CostAggregate(Rows(accepted), 0), known)
        IN  /\ priced.cost = ChargeCompanyCosts(reference, priced.charged).cost
            /\ priced.occupiedNights = reference.occupiedNights
            /\ priced.bookingCount = reference.bookingCount
            /\ priced.avgGuests = reference.avgGuests

\* A strategy version, once priced from, is never followed by an older one,
\* although versions arrive in any order and A-bookings emits cached
\* aggregates again (spec 25, AC-03).
StrategyNeverRegresses ==
    [][priced # None => priced'.strategy >= priced.strategy]_vars

\* A company cost an apartment is charged for stays in what it is priced from,
\* while definitions, rules and weights of other occurrences are still coming.
CompanyCostsStay ==
    [][priced # None =>
           {s.id : s \in priced.charged} \subseteq {s.id : s \in priced'.charged}]_vars

\* Missing configuration never holds anything back: what is in a channel gets
\* through it or is dropped, even if the configuration never arrives.
NothingIsHeldBack == ~Drained ~> Drained

-----------------------------------------------------------------------------
(* What the documents say and the code does not do *)

\* models.py:228: an occurrence is "a company-scoped cost's real amount for
\* one period"; an apartment is charged for one period at a time.
OneOccurrencePerDefinition ==
    priced # None => \A s, t \in priced.charged :
                         s.definition = t.definition => s.id = t.id
=============================================================================
