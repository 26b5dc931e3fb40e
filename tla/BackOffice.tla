------------------------------- MODULE BackOffice -------------------------------
(***************************************************************************)
(* mock-pm-app, the property-management back office: it brings the schema  *)
(* of whatever volume it finds up to date, seeds the tables that are empty *)
(* and then keeps adding bills and bookings.  Everything downstream is fed *)
(* from the rows it commits.                                               *)
(*                                                                         *)
(* A step of the start is one transaction, except the seed of the          *)
(* contracts, which commits in the middle of its loop.  The process can be *)
(* killed between any two steps and is started again.  Beside it, people   *)
(* publish new versions of pricing strategies (new_strategy_version, over  *)
(* connections of their own) and edit the weights of an allocation.        *)
(*                                                                         *)
(* Left out: amounts, texts, tax, and the columns nothing here decides on. *)
(***************************************************************************)
EXTENDS Integers, Sequences, FiniteSets, SequencesExt

CONSTANTS
  Pool,            \* build_apartment_pool: a sequence of apartments
  Specs,           \* COST_DEFINITION_SPECS: a sequence of [shape, method]
  Profiles,        \* CONCEPT_PROFILES: the concepts billed to an apartment
  MinProfiles,     \* the fewest concepts of a seeded month
  CommissionTerms, \* commission_base and commission_pct of a contract
  DefaultRate,     \* what a percentage without a rate is given
  Margins,         \* values of target_margin and competitiveness_discount
  DefaultMargin,   \* DEFAULT_TARGET_MARGIN, DEFAULT_COMPETITIVENESS_DISCOUNT
  OldMargin,       \* the same of a volume that has them in its segments
  SeedMonths,      \* seed_months
  OldBills,        \* bills of a volume older than cost_definitions
  Operators,       \* people who publish strategies
  None,
  MaxEvents,       \* bound: bills, bookings, updates, strategies, edits, months
  MaxKills         \* bound: kills of the process

Apartments == ToSet(Pool)

\* The values that the columns of cost_definitions and cost_allocation_rules take.
Concepts == {"electricity", "water", "gas", "internet", "pms_subscription", "ota_fee", "channel_manager",
             "office_rent", "cleaning", "laundry", "maintenance", "insurance", "community_fee", "other",
             "owner_commission"}
Scopes == {"booking", "property", "company"}
Behaviors == {"fixed", "variable", "semi_variable"}
Recurrences == {"per_booking", "daily", "monthly", "quarterly", "annual", "one_off"}
Methods == {"direct", "calendar_day", "available_night", "occupied_night", "booking", "revenue", "weighted"}
Rates == {None, DefaultRate} \union CommissionTerms \union {Specs[i].shape.rate : i \in DOMAIN Specs}
ShapeRecords == [concept : Concepts, scope : Scopes, behavior : Behaviors, recurrence : Recurrences,
                 percentage : BOOLEAN, rate : Rates]

\* A bill of an older phase.
BillRecords == [apartment : Apartments, concept : Concepts, costType : Behaviors \union {"one_time"}, month : Int]

Tables == {"payment_lines", "apartment_market_segments", "pricing_strategies", "owners",
           "owner_contracts", "manual_overrides", "bookings", "cost_definitions",
           "cost_allocation_rules", "company_cost_occurrences"}

ASSUME PoolAssumption ==
  /\ Pool \in Seq(Apartments) /\ Len(Pool) > 0
  /\ \A i, j \in 1..Len(Pool) : Pool[i] = Pool[j] => i = j
ASSUME MarginsAssumption == {DefaultMargin, OldMargin} \subseteq Margins
ASSUME BoundsAssumption == SeedMonths \in Nat /\ MaxEvents \in Nat /\ MaxKills \in Nat
\* One definition per concept; percentages have a rate.
ASSUME SpecsAssumption ==
  /\ Specs \in Seq([shape : ShapeRecords, method : Methods])
  /\ \A i, j \in DOMAIN Specs : Specs[i].shape.concept = Specs[j].shape.concept => i = j
  /\ \A i \in DOMAIN Specs : Specs[i].shape.percentage => Specs[i].shape.rate # None
  /\ Profiles \union {"office_rent"} \subseteq {Specs[i].shape.concept : i \in DOMAIN Specs}
  /\ IsFiniteSet(Profiles)
\* An apartment had one bill of a concept and type in a month.
ASSUME OldBillsAssumption ==
  /\ OldBills \in Seq(BillRecords)
  /\ \A k, l \in DOMAIN OldBills : OldBills[k] = OldBills[l] => k = l
\* None is no value of a column and no row.
ASSUME NoneAssumption ==
  /\ None \notin CommissionTerms \union {DefaultRate, "equal", "edited"} \union BillRecords
  /\ None \notin [terms : CommissionTerms \union {None}, definition : Nat \union {None}]

VARIABLES
  tables,       \* the tables that exist
  legacy,       \* those that still have the columns of an earlier phase
  segments,     \* apartments with a row in apartment_market_segments
  strategies,   \* rows of pricing_strategies
  owners,       \* whether owners has rows
  contracts,    \* row of each apartment in owner_contracts, None without one
  definitions,  \* shapes of cost_definitions; the index is the id
  rules,        \* cost_allocation_rules by definition
  lines,        \* rows of payment_lines; the index is the id
  bookings,     \* rows of bookings
  occurrences,  \* rows of company_cost_occurrences
  step,         \* the process: 0 is down, else its place in Startup
  ids,          \* its concept_to_cost_definition_id
  draft,        \* contracts inserted and not committed yet
  next,         \* the contract its seed loop is at
  publishing,   \* per operator, the strategy read and changed, not inserted yet
  month, events, kills

database == <<tables, legacy, segments, strategies, owners, contracts, definitions, rules,
              lines, bookings, occurrences>>
process == <<step, ids, draft, next>>
vars == <<database, process, publishing, month, events, kills>>

\* Mutant: The start comes to the strategies before the segments they refer to.
StartupStrategiesFirst == <<"apartment_market_segments", "pricing_strategies", "migrate segments", "owners",
  "owner_contracts", "manual_overrides", "bookings", "cost_definitions", "cost_allocation_rules",
  "migrate contracts", "resolve definitions", "ensure weights", "migrate lines",
  "company_cost_occurrences", "seed lines", "seed strategies", "seed segments", "seed owners",
  "seed contracts", "seed bookings", "seed occurrences">>

\* main(), one entry per transaction: a table name stands for its ensure_..._schema.
Startup == <<"apartment_market_segments", "pricing_strategies", "migrate segments", "owners",
  "owner_contracts", "manual_overrides", "bookings", "cost_definitions", "cost_allocation_rules",
  "migrate contracts", "resolve definitions", "ensure weights", "migrate lines",
  "company_cost_occurrences", "seed lines", "seed segments", "seed strategies", "seed owners",
  "seed contracts", "seed bookings", "seed occurrences">>
Running == Len(Startup) + 1
At(name) == step \in 1..Len(Startup) /\ Startup[step] = name

\* Tables a new one refers to.
References(t) ==
  CASE t \in {"pricing_strategies", "manual_overrides", "bookings"} -> {"apartment_market_segments"}
    [] t = "owner_contracts" -> {"apartment_market_segments", "owners"}
    [] t \in {"cost_allocation_rules", "company_cost_occurrences"} -> {"cost_definitions"}
    [] OTHER -> {}

Shape(concept, scope, behavior, recurrence, percentage, rate) ==
  [concept |-> concept, scope |-> scope, behavior |-> behavior, recurrence |-> recurrence,
   percentage |-> percentage, rate |-> rate]
CommissionShape(terms) ==
  Shape("owner_commission", "booking", "variable", "per_booking", TRUE, terms)

\* An old bill had a concept and a cost_type; one_time was about recurrence.
LegacyShape(bill) ==
  Shape(bill.concept,
        IF bill.concept \in {"ota_fee", "channel_manager"} THEN "booking" ELSE "property",
        IF bill.costType = "one_time" THEN "variable" ELSE bill.costType,
        IF bill.costType = "one_time" THEN "one_off" ELSE "monthly", FALSE, None)
Fits(shape, bill) ==
  /\ shape.concept = bill.concept
  /\ shape.behavior = LegacyShape(bill).behavior
  /\ shape.recurrence = LegacyShape(bill).recurrence

Shapes == {Specs[i].shape : i \in DOMAIN Specs}
Matching(shape) == {d \in DOMAIN definitions : definitions[d] = shape}

\* The rules after every definition in new is given one: direct, without weights,
\* unless method says otherwise.
Ruled(new, method) ==
  [d \in DOMAIN rules \union new |->
     IF d \in DOMAIN rules THEN rules[d] ELSE [method |-> method[d], weights |-> None]]

Strategy(a, version, margin, discount) ==
  [apartment |-> a, version |-> version, margin |-> margin, discount |-> discount]
VersionsOf(a) == {s \in strategies : s.apartment = a}
Latest(a) == {s \in VersionsOf(a) : \A t \in VersionsOf(a) : t.version <= s.version}

Line(a, d, m, paid) == [apartment |-> a, definition |-> d, month |-> m, paid |-> paid, bill |-> None]
OldLine(bill) == [apartment |-> bill.apartment, definition |-> None, month |-> bill.month, paid |-> TRUE, bill |-> bill]
Booking(a, checkIn, status) == [apartment |-> a, checkIn |-> checkIn, status |-> status]

----------------------------------------------------------------------------
(* Volumes the process finds: a new one, or that of an earlier phase.        *)

NoContracts == [a \in Apartments |-> None]
OldTables == <<"payment_lines", "apartment_market_segments", "owner_contracts">>

\* Phases 1, 4 to 10 and 11 to 18: each added the columns of one more table.
OldVolume(n) ==
  /\ legacy = ToSet(SubSeq(OldTables, 1, n))
  /\ tables = {"payment_lines"} \union legacy \union (IF n = 3 THEN {"owners"} ELSE {})
  /\ lines = [i \in 1..(IF n > 0 THEN Len(OldBills) ELSE 0) |-> OldLine(OldBills[i])]
  /\ definitions = << >> /\ rules = << >>

\* Phase 19: definitions without rates, bills that refer to them.
VolumeWithoutRates ==
  /\ legacy = {"apartment_market_segments", "owner_contracts"}
  /\ tables = {"payment_lines", "apartment_market_segments", "owners", "owner_contracts", "bookings",
               "cost_definitions", "cost_allocation_rules", "company_cost_occurrences"}
  /\ definitions = [d \in DOMAIN Specs |-> [Specs[d].shape EXCEPT !.rate = None]]
  /\ rules = [d \in DOMAIN Specs |-> [method |-> Specs[d].method, weights |-> None]]
  /\ \E d \in DOMAIN Specs : Specs[d].shape.concept \in Profiles /\ lines = <<Line(Pool[1], d, 1, FALSE)>>

Init ==
  /\ (\E n \in 0..3 : OldVolume(n)) \/ VolumeWithoutRates
  /\ segments = IF "apartment_market_segments" \in legacy THEN Apartments ELSE {}
  /\ owners = ("owner_contracts" \in legacy)
  /\ IF "owner_contracts" \in legacy
     THEN contracts \in [Apartments -> [terms : CommissionTerms, definition : {None}]]
     ELSE contracts = NoContracts
  /\ strategies = {} /\ bookings = << >> /\ occurrences = {}
  /\ step = 0 /\ ids = << >> /\ draft = NoContracts /\ next = 0
  /\ publishing = [o \in Operators |-> None]
  /\ month = 1 /\ events = 0 /\ kills = 0

----------------------------------------------------------------------------
(* The process and the errors that end it.                                   *)

Uses(name) ==
  CASE name \in Tables -> References(name)
    [] name = "migrate segments" -> {"apartment_market_segments", "pricing_strategies"}
    [] name = "migrate contracts" -> {"owner_contracts", "cost_definitions", "cost_allocation_rules"}
    [] name = "resolve definitions" -> {"cost_definitions", "cost_allocation_rules"}
    [] name = "ensure weights" -> {"cost_allocation_rules"}
    [] name = "migrate lines" -> {"payment_lines", "cost_definitions", "cost_allocation_rules"}
    [] name = "seed lines" -> {"payment_lines"}
    [] name = "seed segments" -> {"apartment_market_segments"}
    [] name = "seed strategies" -> {"pricing_strategies"}
    [] name = "seed owners" -> {"owners"}
    [] name = "seed contracts" -> {"owner_contracts", "cost_definitions", "cost_allocation_rules"}
    [] name = "seed bookings" -> {"bookings"}
    [] name = "seed occurrences" -> {"company_cost_occurrences"}

\* The statement at hand names a table that is not there, or a row that is not.
Refused ==
  \/ step \in DOMAIN Startup /\ ~ Uses(Startup[step]) \subseteq tables
  \/ At("seed strategies") /\ strategies = {} /\ ~ Apartments \subseteq segments
  \/ At("seed contracts") /\ contracts = NoContracts /\ ~ (owners /\ Apartments \subseteq segments)
  \/ At("seed bookings") /\ bookings = << >> /\ ~ Apartments \subseteq segments
  \/ step = Running /\ ~ ("bookings" \in tables /\ Apartments \subseteq segments)

\* What the process held in memory and in an open transaction is gone.
Down == step' = 0 /\ ids' = << >> /\ draft' = NoContracts /\ next' = 0

Start == step = 0 /\ step' = 1 /\ UNCHANGED <<database, ids, draft, next, publishing, month, events, kills>>

\* The process is killed, or ended by an error of the database.
MayEnd == step # 0 /\ (Refused \/ kills < MaxKills)
End ==
  /\ MayEnd
  /\ Down
  /\ kills' = IF Refused THEN kills ELSE kills + 1
  /\ UNCHANGED <<database, publishing, month, events>>

\* A transaction of the start is committed and the next one begins.
Done(name) ==
  /\ At(name) /\ ~ Refused
  /\ step' = step + 1
  /\ UNCHANGED <<publishing, month, events, kills>>

----------------------------------------------------------------------------
(* migrations.py                                                             *)

\* Mutant: The rate is added and left NULL.
EnsureWithoutRates(t) ==
  /\ Done(t)
  /\ tables' = tables \union {t}
  /\ UNCHANGED <<legacy, segments, strategies, owners, contracts, definitions, rules, lines, bookings,
                 occurrences, ids, draft, next>>

\* CREATE IF NOT EXISTS.  cost_definitions also gives a rate to the percentages
\* of an older phase.
Ensure(t) ==
  /\ Done(t)
  /\ tables' = tables \union {t}
  /\ definitions' = IF t # "cost_definitions" THEN definitions ELSE
       [d \in DOMAIN definitions |->
          IF definitions[d].percentage /\ definitions[d].rate = None
          THEN [definitions[d] EXCEPT !.rate = DefaultRate] ELSE definitions[d]]
  /\ UNCHANGED <<legacy, segments, strategies, owners, contracts, rules, lines, bookings,
                 occurrences, ids, draft, next>>

MigrateSegments ==
  /\ Done("migrate segments")
  /\ strategies' = IF "apartment_market_segments" \in legacy
       THEN strategies \union
              {Strategy(a, 1, OldMargin, OldMargin) :
                 a \in {b \in segments : \A s \in VersionsOf(b) : s.version # 1}}
       ELSE strategies
  /\ legacy' = legacy \ {"apartment_market_segments"}
  /\ UNCHANGED <<tables, segments, owners, contracts, definitions, rules, lines, bookings,
                 occurrences, ids, draft, next>>

MigrateContracts ==
  /\ Done("migrate contracts")
  /\ IF "owner_contracts" \in legacy
     THEN LET old == {a \in Apartments : contracts[a] # None}
              new == {CommissionShape(contracts[a].terms) : a \in old}
              all == definitions \o SetToSeq({s \in new : Matching(s) = {}})
          IN /\ definitions' = all
             /\ rules' = Ruled({d \in DOMAIN all : all[d].concept = "owner_commission"},
                               [d \in DOMAIN all |-> "direct"])
             /\ contracts' = [a \in Apartments |->
                  IF a \notin old THEN None
                  ELSE [terms |-> None,
                        definition |-> CHOOSE d \in DOMAIN all : all[d] = CommissionShape(contracts[a].terms)]]
     ELSE UNCHANGED <<definitions, rules, contracts>>
  /\ legacy' = legacy \ {"owner_contracts"}
  /\ UNCHANGED <<tables, segments, strategies, owners, lines, bookings, occurrences, ids, draft, next>>

\* Mutant: The update joins on cost_type itself, so a one_time bill finds no definition.
MigrateLinesByCostType ==
  /\ Done("migrate lines")
  /\ IF "payment_lines" \in legacy
     THEN LET bills == {lines[l].bill : l \in DOMAIN lines}
              unknown == {b \in bills : \A d \in DOMAIN definitions : ~ Fits(definitions[d], b)}
              all == definitions \o SetToSeq({LegacyShape(b) : b \in unknown})
              behaves(d, b) == all[d].concept = b.concept /\ all[d].behavior = b.costType
          IN /\ definitions' = all
             /\ rules' = Ruled(DOMAIN all, [d \in DOMAIN all |-> "direct"])
             /\ lines' = [l \in DOMAIN lines |->
                  [lines[l] EXCEPT !.bill = None,
                     !.definition = IF \E d \in DOMAIN all : behaves(d, lines[l].bill)
                                    THEN CHOOSE d \in DOMAIN all : behaves(d, lines[l].bill)
                                    ELSE None]]
     ELSE UNCHANGED <<definitions, rules, lines>>
  /\ legacy' = legacy \ {"payment_lines"}
  /\ UNCHANGED <<tables, segments, strategies, owners, contracts, bookings, occurrences, ids, draft, next>>

\* The bills that have no definition yet get one with their concept, behavior
\* and recurrence; definitions that fit no bill yet are made.
MigrateLines ==
  /\ Done("migrate lines")
  /\ IF "payment_lines" \in legacy
     THEN LET bills == {lines[l].bill : l \in DOMAIN lines}
              unknown == {b \in bills : \A d \in DOMAIN definitions : ~ Fits(definitions[d], b)}
              all == definitions \o SetToSeq({LegacyShape(b) : b \in unknown})
          IN /\ definitions' = all
             /\ rules' = Ruled(DOMAIN all, [d \in DOMAIN all |->
                               IF all[d].recurrence = "one_off" THEN "direct" ELSE "calendar_day"])
             /\ \E chosen \in [DOMAIN lines -> DOMAIN all] :
                  /\ \A l \in DOMAIN lines : Fits(all[chosen[l]], lines[l].bill)
                  /\ lines' = [l \in DOMAIN lines |->
                                 [lines[l] EXCEPT !.definition = chosen[l], !.bill = None]]
     ELSE UNCHANGED <<definitions, rules, lines>>
  /\ legacy' = legacy \ {"payment_lines"}
  /\ UNCHANGED <<tables, segments, strategies, owners, contracts, bookings, occurrences, ids, draft, next>>

----------------------------------------------------------------------------
(* seed.py                                                                   *)

\* Upsert by shape, at every start: the ids of the specs, made where missing (in
\* whatever order: nothing depends on it).
ResolveCostDefinitionIds ==
  /\ Done("resolve definitions")
  /\ LET new == SetToSeq({i \in DOMAIN Specs : Matching(Specs[i].shape) = {}})
         size == Len(definitions)
         all == definitions \o [i \in DOMAIN new |-> Specs[new[i]].shape]
     IN /\ definitions' = all
        /\ rules' = Ruled(DOMAIN all, [d \in size + 1 .. Len(all) |-> Specs[new[d - size]].method])
  /\ ids' = [concept \in {s.concept : s \in Shapes} |->
               CHOOSE d \in DOMAIN definitions' : definitions'[d] \in {s \in Shapes : s.concept = concept}]
  /\ UNCHANGED <<tables, legacy, segments, strategies, owners, contracts, lines, bookings,
                 occurrences, draft, next>>

\* Mutant: The rent is split again at every start.
EnsureWeightsAlways ==
  /\ Done("ensure weights")
  /\ rules' = [rules EXCEPT ![ids["office_rent"]].weights = "equal"]
  /\ UNCHANGED <<tables, legacy, segments, strategies, owners, contracts, definitions, lines,
                 bookings, occurrences, ids, draft, next>>

\* The rent of the office is split over the apartments of this start, unless it
\* already has weights.
EnsureWeightedAllocationConfig ==
  /\ Done("ensure weights")
  /\ rules' = IF ids["office_rent"] \in DOMAIN rules /\ rules[ids["office_rent"]].weights = None
              THEN [rules EXCEPT ![ids["office_rent"]].weights = "equal"]
              ELSE rules
  /\ UNCHANGED <<tables, legacy, segments, strategies, owners, contracts, definitions, lines,
                 bookings, occurrences, ids, draft, next>>

Seed ==
  /\ Done("seed lines")
  /\ IF lines # << >> THEN UNCHANGED lines
     ELSE \E concepts \in [Apartments \X (month - SeedMonths .. month - 1) -> SUBSET Profiles] :
            /\ \A p \in DOMAIN concepts : Cardinality(concepts[p]) >= MinProfiles
            /\ lines' = SetToSeq({Line(r[1], ids[r[3]], r[2], TRUE) :
                 r \in {q \in Apartments \X (month - SeedMonths .. month - 1) \X Profiles :
                          q[3] \in concepts[<<q[1], q[2]>>]}})
  /\ UNCHANGED <<tables, legacy, segments, strategies, owners, contracts, definitions, rules,
                 bookings, occurrences, ids, draft, next>>

SeedApartmentMarketSegments ==
  /\ Done("seed segments")
  /\ segments' = IF segments = {} THEN Apartments ELSE segments
  /\ UNCHANGED <<tables, legacy, strategies, owners, contracts, definitions, rules, lines,
                 bookings, occurrences, ids, draft, next>>

SeedPricingStrategies ==
  /\ Done("seed strategies")
  /\ strategies' = IF strategies # {} THEN strategies
                   ELSE {Strategy(a, 1, DefaultMargin, DefaultMargin) : a \in Apartments}
  /\ UNCHANGED <<tables, legacy, segments, owners, contracts, definitions, rules, lines,
                 bookings, occurrences, ids, draft, next>>

SeedOwners ==
  /\ Done("seed owners")
  /\ owners' = TRUE
  /\ UNCHANGED <<tables, legacy, segments, strategies, contracts, definitions, rules, lines,
                 bookings, occurrences, ids, draft, next>>

SkipContracts ==
  /\ Done("seed contracts") /\ next = 0 /\ contracts # NoContracts
  /\ UNCHANGED <<database, ids, draft, next>>

BeginContracts ==
  /\ At("seed contracts") /\ ~ Refused /\ next = 0 /\ contracts = NoContracts
  /\ next' = 1
  /\ UNCHANGED <<database, step, ids, draft, publishing, month, events, kills>>

Committed == [a \in Apartments |-> IF draft[a] # None THEN draft[a] ELSE contracts[a]]

\* One round of seed_owner_contracts: resolve_owner_commission_cost_definition_id
\* commits when it makes a definition, and with it the rounds before this one.
SeedContract ==
  /\ At("seed contracts") /\ next \in 1..Len(Pool)
  /\ \E terms \in CommissionTerms :
       LET shape == CommissionShape(terms)
           known == Matching(shape)
           row(d) == [terms |-> None, definition |-> d]
       IN IF known # {}
          THEN /\ \E d \in known : draft' = [draft EXCEPT ![Pool[next]] = row(d)]
               /\ UNCHANGED <<definitions, rules, contracts>>
          ELSE /\ definitions' = Append(definitions, shape)
               /\ rules' = Ruled({Len(definitions) + 1}, [d \in {Len(definitions) + 1} |-> "direct"])
               /\ contracts' = Committed
               /\ draft' = [NoContracts EXCEPT ![Pool[next]] = row(Len(definitions) + 1)]
  /\ next' = next + 1
  /\ UNCHANGED <<tables, legacy, segments, strategies, owners, lines, bookings, occurrences,
                 step, ids, publishing, month, events, kills>>

CommitContracts ==
  /\ Done("seed contracts") /\ next > Len(Pool)
  /\ contracts' = Committed
  /\ draft' = NoContracts /\ next' = 0
  /\ UNCHANGED <<tables, legacy, segments, strategies, owners, definitions, rules, lines,
                 bookings, occurrences, ids>>

\* A history per apartment; one past stay each stands for it.
SeedBookings ==
  /\ Done("seed bookings")
  /\ bookings' = IF bookings # << >> THEN bookings
                 ELSE [i \in DOMAIN Pool |-> Booking(Pool[i], month - 1, "confirmed")]
  /\ UNCHANGED <<tables, legacy, segments, strategies, owners, contracts, definitions, rules,
                 lines, occurrences, ids, draft, next>>

SeedCompanyCostOccurrences ==
  /\ Done("seed occurrences")
  /\ occurrences' = IF occurrences # {} THEN occurrences
       ELSE {[definition |-> ids["office_rent"], month |-> m] : m \in {month - 1, month - 2}}
  /\ UNCHANGED <<tables, legacy, segments, strategies, owners, contracts, definitions, rules,
                 lines, bookings, ids, draft, next>>

----------------------------------------------------------------------------
(* generator.py                                                              *)

Event == events < MaxEvents /\ events' = events + 1

Generates ==
  /\ step = Running /\ Event
  /\ UNCHANGED <<tables, legacy, segments, strategies, owners, contracts, definitions, rules,
                 occurrences, process, publishing, month, kills>>

\* Mutant: Only bills that are still pending count as entered.
HasPendingLineForPeriod(a, d, m) ==
  \E l \in DOMAIN lines :
    ~ lines[l].paid /\ lines[l].apartment = a /\ lines[l].definition = d /\ lines[l].month = m

AlreadyHasLineForPeriod(a, d, m) ==
  \E l \in DOMAIN lines : lines[l].apartment = a /\ lines[l].definition = d /\ lines[l].month = m

InsertOne ==
  /\ Generates
  /\ \E a \in Apartments, concept \in Profiles :
       /\ ~ AlreadyHasLineForPeriod(a, ids[concept], month)
       /\ lines' = Append(lines, Line(a, ids[concept], month, FALSE))
  /\ UNCHANGED bookings

InsertOneBooking ==
  /\ Generates /\ ~ Refused
  /\ \E a \in Apartments, checkIn \in {month, month + 1} :
       bookings' = Append(bookings, Booking(a, checkIn, "confirmed"))
  /\ UNCHANGED lines

FlipOnePendingToPaid ==
  /\ Generates
  /\ \E l \in DOMAIN lines : ~ lines[l].paid /\ lines' = [lines EXCEPT ![l].paid = TRUE]
  /\ UNCHANGED bookings

FlipOneConfirmedToCancelled ==
  /\ Generates
  /\ \E b \in DOMAIN bookings :
       /\ bookings[b].status = "confirmed" /\ bookings[b].checkIn > month
       /\ bookings' = [bookings EXCEPT ![b].status = "cancelled"]
  /\ UNCHANGED lines

----------------------------------------------------------------------------
(* People, and the calendar.                                                 *)

\* new_strategy_version: the latest version is read and one of its fields is
\* changed ...
ReadStrategy(o) ==
  /\ publishing[o] = None /\ Event
  /\ \E a \in Apartments :
       \E last \in Latest(a) :
         \/ \E margin \in Margins \ {last.margin} :
              publishing' = [publishing EXCEPT ![o] = Strategy(a, last.version + 1, margin, last.discount)]
         \/ \E discount \in Margins \ {last.discount} :
              publishing' = [publishing EXCEPT ![o] = Strategy(a, last.version + 1, last.margin, discount)]
  /\ UNCHANGED <<database, process, month, kills>>

\* Mutant: The next free version is taken at the insert, with the fields read before.
InsertStrategyAsNext(o) ==
  /\ publishing[o] # None
  /\ strategies' = strategies \union
       {[publishing[o] EXCEPT !.version = last.version + 1] : last \in Latest(publishing[o].apartment)}
  /\ publishing' = [publishing EXCEPT ![o] = None]
  /\ UNCHANGED <<tables, legacy, segments, owners, contracts, definitions, rules, lines, bookings,
                 occurrences, process, month, events, kills>>

\* ... and inserted, unless that version is taken by now: the insert fails.
InsertStrategy(o) ==
  /\ publishing[o] # None
  /\ strategies' = IF \E s \in VersionsOf(publishing[o].apartment) : s.version = publishing[o].version
                   THEN strategies
                   ELSE strategies \union {publishing[o]}
  /\ publishing' = [publishing EXCEPT ![o] = None]
  /\ UNCHANGED <<tables, legacy, segments, owners, contracts, definitions, rules, lines, bookings,
                 occurrences, process, month, events, kills>>

EditWeights ==
  /\ Event
  /\ \E d \in DOMAIN rules : rules[d].method = "weighted" /\ rules' = [rules EXCEPT ![d].weights = "edited"]
  /\ UNCHANGED <<tables, legacy, segments, strategies, owners, contracts, definitions, lines,
                 bookings, occurrences, process, publishing, month, kills>>

NextMonth ==
  /\ Event
  /\ month' = month + 1
  /\ UNCHANGED <<database, process, publishing, kills>>

----------------------------------------------------------------------------
StartupStep ==
  \/ \E t \in Tables : Ensure(t)
  \/ MigrateSegments \/ MigrateContracts \/ MigrateLines
  \/ ResolveCostDefinitionIds \/ EnsureWeightedAllocationConfig
  \/ Seed \/ SeedApartmentMarketSegments \/ SeedPricingStrategies \/ SeedOwners
  \/ SkipContracts \/ BeginContracts \/ SeedContract \/ CommitContracts
  \/ SeedBookings \/ SeedCompanyCostOccurrences

RunForever == InsertOne \/ InsertOneBooking \/ FlipOnePendingToPaid \/ FlipOneConfirmedToCancelled

Next ==
  \/ Start \/ StartupStep \/ End
  \/ RunForever
  \/ \E o \in Operators : ReadStrategy(o) \/ InsertStrategy(o)
  \/ EditWeights \/ NextMonth

Spec == Init /\ [][Next]_vars

\* The container is started again whenever it ends, and its start goes on.
FairSpec == Spec /\ WF_vars(Start) /\ WF_vars(StartupStep)

----------------------------------------------------------------------------
(* Properties                                                                *)

Definitions == DOMAIN definitions
Contracts == {None} \union [terms : CommissionTerms \union {None}, definition : Definitions \union {None}]

\* The types of the variables; a row never refers to a row that is not there.
TypeOK ==
  /\ tables \subseteq Tables /\ legacy \subseteq tables
  /\ segments \subseteq Apartments /\ owners \in BOOLEAN
  /\ strategies \subseteq [apartment : segments, version : Nat \ {0}, margin : Margins, discount : Margins]
  /\ contracts \in [Apartments -> Contracts] /\ draft \in [Apartments -> Contracts]
  /\ DOMAIN rules \subseteq Definitions
  /\ \A d \in DOMAIN rules : rules[d].weights \in {None, "equal", "edited"}
  /\ \A l \in DOMAIN lines : lines[l].definition \in Definitions \/ "payment_lines" \in legacy
  /\ \A b \in DOMAIN bookings : bookings[b].apartment \in segments
  /\ \A c \in occurrences : c.definition \in Definitions
  /\ step \in 0..Running /\ next \in 0 .. Len(Pool) + 1
  /\ month \in Nat /\ events \in 0..MaxEvents /\ kills \in 0..MaxKills

\* Restarts, migrations and seeds share one ledger: no definition is made a
\* second time, none is without the rule that Stage A0 needs, and no bill is
\* entered twice for an apartment, definition and month (generator.py, seed.py).
LedgerIsSound ==
  /\ \A d, e \in Definitions : definitions[d] = definitions[e] => d = e
  /\ DOMAIN rules = Definitions
  /\ \A k, l \in DOMAIN lines :
       /\ lines[k].definition # None
       /\ <<lines[k].apartment, lines[k].definition, lines[k].month>>
            = <<lines[l].apartment, lines[l].definition, lines[l].month>>
       => k = l

\* Once the start is over, whatever it was interrupted by before, every
\* apartment can be priced: it has its segment and first strategy, percentages
\* have rates, the rent has weights, and contracts are there for the apartments
\* up to one of the pool (see OneContractPerApartment for the others).
RunningMeansSeeded ==
  step = Running =>
    /\ legacy = {} /\ tables = Tables
    /\ segments = Apartments
    /\ \A a \in Apartments : \E s \in VersionsOf(a) : s.version = 1
    /\ \A d \in Definitions : definitions[d].percentage => definitions[d].rate # None
    /\ rules[ids["office_rent"]].weights # None
    /\ \E k \in 1..Len(Pool) : \A i \in 1..Len(Pool) : contracts[Pool[i]] # None <=> i <= k

\* The versions of a strategy are a history: every one but the first changes one
\* field of the one before it, so a change published meanwhile by someone else is
\* never undone (new_strategy_version).
StrategiesAreAHistory ==
  \A s \in strategies :
    /\ \A t \in VersionsOf(s.apartment) : s.version = t.version => s = t
    /\ s.version > 1 =>
      \E p \in VersionsOf(s.apartment) :
        p.version = s.version - 1 /\ (p.margin = s.margin \/ p.discount = s.discount)

\* No start rewrites what it finds: a bill keeps its definition, and one of an
\* older phase the concept, behavior and recurrence it had; contracts and
\* strategies keep their terms, weights edited by hand stay (seed.py,
\* ensure_weighted_allocation_config; migrations.py).
NothingIsRewritten ==
  [][/\ \A l \in DOMAIN lines :
          LET now == lines'[l]
          IN IF lines[l].bill = None THEN now.definition = lines[l].definition
             ELSE now.bill = None => Fits(definitions'[now.definition], lines[l].bill)
     /\ \A a \in Apartments :
          contracts[a] # None =>
            \/ contracts'[a] = contracts[a]
            \/ definitions'[contracts'[a].definition] = CommissionShape(contracts[a].terms)
     /\ strategies \subseteq strategies'
     /\ "apartment_market_segments" \in legacy \ legacy' =>
          \A a \in segments : Strategy(a, 1, OldMargin, OldMargin) \in strategies'
     /\ \A d \in DOMAIN rules : rules[d].weights = "edited" => rules'[d] = rules[d]]_vars

\* From any volume and after any kills the process comes up for good: no
\* statement of the start or of the generator refers to what an earlier one
\* should have made (the order of main()).
AppComesUp == <>[](step = Running)

\* What seed_owner_contracts and build_owner_contracts say.
OneContractPerApartment == step = Running => \A a \in Apartments : contracts[a] # None
=============================================================================
