# A TLA+ model of the price engine

This directory models and verifies the pricing pipeline of this repository:
TLA+ modules translated from the Python sources, TLC configurations that check
them on small instances, and TLAPS proofs for every value of the constants.
Paths below are relative to the repository's root.

## 1. The system

Costs, contracts, strategies, bookings and overrides are written to Postgres by
`mock-pm-app`, captured by Debezium and delivered on Kafka topics. Market rates
are produced by `market-ingestor` into Kinesis and carried to Kafka by
`kinesis-kafka-bridge`. One Flink job joins both into price decisions:

    payment lines -> A0 -> A -> A-bookings -> A-correction -> A4 -> A2 --+
                                                                          +-> B -> C -> DynamoDB
    market rates ---------------------------------------------------------+

DynamoDB is the hot path (the dashboard reads it); its stream is carried by
`lakehouse-consumer` into an Iceberg audit log, which `lakehouse-maintenance`
compacts and dbt aggregates. A second Flink job, `market-pulse-job`, counts
bookings over event-time windows.

| component | state it keeps | operations | what is hard |
|---|---|---|---|
| A0 `stage_cost_definition_resolution.py` | broadcast definitions and allocations | resolve a line, or skip it | a line that precedes its definition is dropped, not buffered; the definition is baked in |
| A `stage_cost_enrichment.py`, `cost_aggregation.py` | lines per apartment by event id, broadcast profiles and strategies | put a line, retain two periods, aggregate, emit | replays overwrite; a config change alone emits nothing; strategy versions out of order |
| A-bookings, A-correction | latest aggregate, bookings | re-emit the cached aggregate with new occupancy | a booking older than the stored one replaces it; the re-emission keeps the aggregate's time stamp |
| A4, A2 | broadcast occurrences, contracts, definitions | add company cost, add commission, or drop | contract missing: the aggregate is lost until the next one |
| **B** `stage_price_decision.py` | per segment: apartments, nights, deadlines, streaks, timers | two handlers and a timer | reordered and replayed inputs, eviction at the cap, sweep at midnight, timers never cancelled |
| pricing engine `libs/pricing-formulas` | none | floor, market reference, guardrails, stay and channel matrices, viability | netting bases, divisions near zero, three computations that must agree |
| C `stage_manual_override_enrichment.py` | overrides per apartment | apply the override that is active | an override waits for the next decision, in both directions; deletions never arrive |
| DynamoDB sink | one item per apartment and date | unconditional put, three tries, then fail the job | replay after a restart; an apartment that changes segment is priced by two keys |
| lakehouse consumer | shard positions, drained shards, checkpoints | read a batch, merge, checkpoint | crash between merge and checkpoint, and between delete and append |
| lakehouse maintenance | none | scan the table, overwrite it | whatever is appended in between |
| market pulse | deduplication state with a time to live, windows | count once, fire, drop what is late | a duplicate after the time to live; late and reordered events |
| bridge and ingestor | shard iterators, counters | forward a batch; put a batch, retry the failed subset | restart at LATEST; partial failure reorders or drops |
| mock-pm-app | Postgres rows | seed, generate, new strategy version | read-then-insert of a version; check-then-insert of a booking |

What makes each correct, in the words of the specs under `specs/phases` and of
the code's own comments, is what the properties state; `PROJECT.json` lists the
hazards at the line where they bite, with the properties that would catch them.

## 2. Modules

| module | models | role |
|---|---|---|
| `PricingFormulas` | `libs/pricing-formulas`, the pure half of `_build_price_decision` | operators, in integer cents and whole percents |
| `PriceQuote` | the inputs of one (apartment, night) pair and how they change | properties of the engine |
| `PriceQuoteProofs` | | theorems about `PriceQuote`, with a small theory of sums over finite sets |
| `PriceDecision` | Stage B for one segment | state machine |
| `PriceDecisionProofs` | | theorems about `PriceDecision` |
| `MCPriceDecision`, `MCPriceQuote` | | values of the constants for TLC |
| `AuditLog` | what `price_decision_raw` promises | abstract specification |
| `LakehouseConsumer` | `lakehouse-consumer`, `lakehouse-maintenance`, the stream and the Iceberg table | state machine, implements `AuditLog` |
| `LakehouseProofs` | | theorems about `LakehouseConsumer` |
| `MCLakehouseConsumer` | | values of the constants for TLC |
| `CostAggregation` | `cost_aggregation.py`, `occupancy.py`, the arithmetic of A-correction, A4 and A2 | operators, in integer cents |
| `CostPipeline` | stages A0, A, A-bookings, A-correction, A4 and A2 for one apartment | state machine |
| `CostPipelineProofs` | | that the strategy version never goes back |
| `CostCurrentProofs` | | types, retention, currency of the priced cost, company costs |
| `MCCostPipeline` | | values of the constants for TLC |
| `MarketPulse` | `market-pulse-job`: both deduplications, the lookups, three window branches, checkpoints | state machine |
| `MCMarketPulse` | | values of the constants for TLC |
| `MarketPulseProofs` | | type correctness, `ClosedMeansStored`, `RowsOnlyGrow` |
| `BackOffice` | `mock-pm-app`: start, migrations, seeds, generator, new strategy versions | state machine |
| `BackOfficeProofs` | | that the versions of a strategy are a history, the ledger is sound, a process that runs has everything seeded, and nothing is rewritten |
| `MCBackOffice` | | values of the constants for TLC |
| `MarketFeed` | `market-ingestor`, the Kinesis stream, `kinesis-kafka-bridge` | state machine, extended by `HotPath` |
| `HotPath` | the end of the job, Stage C and the sink, fed by `MarketFeed`; DynamoDB | composition |
| `HotPathProofs` | | the types of feed and job; an item goes back only while rows are left to read |
| `MCHotPath` | | values of the constants for TLC |

### Pricing engine

The layers keep the code's names. Amounts are cents and rates whole percents;
the code computes with floats and rounds what it publishes, the model takes
each product and quotient down to the cent. Two amounts less than a cent apart
are therefore not told apart. In two places the model is closer to the floats:

- What is netted is rounded to the nearest cent line by line (`Nearest`), and so
  every percentage cost may cost the apartment half a cent. `PriceQuote!Rounding`
  is the slack a margin may lose to it all: a cent of the price, and half a cent
  per amount that is netted.
- When percentages and margin are the whole price, `1 - p - target_margin` is 0 or
  what the floats leave of it, some 5.6e-17 of either sign (`RemainderOf`); the
  floor is then 0, or the costs times something `Huge`. Which pairs leave what is
  the constant `Remainder`, and the theorems hold for any.

Labels, decision components, the break-even revenue, the effective margin and the
floor policy are not modelled: no decision depends on them.

`PriceQuote` has no counterpart in the code: its variables are the arguments
the engine is called with, and an action changes one of them as a cost line, a
strategy, a market event or the calendar does. That makes a comparison of two
decisions an action property.

### Stage B

One instance of `PriceDecision` is one key (market segment). Flink runs the
handlers of a key one at a time, so a handler is one action and what interleaves
is their order, the clock and the timers.

| code | model |
|---|---|
| `apartments-in-segment`, `nights-in-segment`, the two deadline maps, `floor-breach-since` | `apartments`, `nights`, `apartmentDeadlines`, `nightDeadlines`, `floorBreachSince`; an absent key is `None` |
| `register_processing_time_timer` | `timers`, a set: Flink keeps one timer per key and time stamp |
| `yield decision` | `latest[a][d]`, the last decision emitted for the pair |
| `yield DATA_STALE_TAG` | `staleApartments`, `staleNights`, cleared when the entry is touched |
| `process_element1`, `process_element2`, `on_timer` | `ProcessElement1` / `AcceptCost`, `ProcessElement2` / `AcceptMarket`, `OnTimer` |
| `datetime.now()` | `now`; `process_element2` reads it for its guard and again for the rest, up to `HandlerTicks` later |

`input` names the kind of the last input; only properties read it. Inputs carry
any time stamp up to `now`, so late, reordered and replayed ones are all there.
Several clock reads of a handler after its guard are one read in the model.
The victim of an eviction is any of the equally old entries.

### Lakehouse

| code | model |
|---|---|
| shards of `describe_stream`, their parents | `listed`, `parent`; `opened` and `closed` are the service's own |
| `stream_checkpoints` | `checkpoint`, the position of the last record processed |
| `price_decision_raw` | `rows`, the number of rows per `decision_id`; the content of a row follows from its id |
| `run_forever`, `order_shards_for_processing` | `BeginPass`, `ReadyShards`, `IsNext`; `todo` and `drained` are in memory |
| `process_shard_once`, `merge_rows`, `put_checkpoint` | `ReadNothing`, `ReadBatch`, then `MergeNothing` or `DeleteRows` and `AppendRows`, then `PutCheckpoint` |
| an exception, a kill, `restart: unless-stopped` | `Exit`, `CrashConsumer`, `Start` |
| `compact_once` | `ScanTable`, then `OverwriteTable` or `AbandonScan` |

Each call to a service is a step, so a kill, a compaction or a change of the
stream can come between any two. pyiceberg 0.8 refuses a commit when another
one followed the snapshot the writer has loaded and never reloads it: `stale`
says that of the consumer, `scanStale` of the compaction. The consumer loads
the table only when it starts, so the first merge after a compaction is always
refused and costs a restart; `EveryDecisionIsLogged` shows that this loses
nothing.

`AuditLog` is the promise: the row of a decision may come and go until the
decision is settled, which is when its record is behind the checkpoint, and is
there exactly once and for good from then on. `settled` and `captured` are
mapped to what the checkpoints and the records say.

### Cost stages

`CostPipeline` follows one apartment: every stage before B is keyed by
apartment, or stateless.

| code | model |
|---|---|
| Debezium and Kafka per row | `published`, `bookingsSent`: versions of a row in order; `redeliveries`: a version sent again |
| broadcast state of A0, A4 and A2, each stage's own | `definitions[stage][d]`, `rules[stage][d]`, `contract`: how many versions were delivered; `occurrences` |
| broadcast state of A | `profile`, `strategy` |
| `payment-lines-by-event-id` | `lines`; an absent key is `None` |
| `bookings-by-booking-id`, `latest-cost-aggregate` | `bookings`, `cached` |
| `yield` between two stages | FIFO channels `resolved`, `aggregates`, `corrected`, `charged`; `priced` is the last aggregate Stage B got |
| `process_element` of A0, A, A4, A2 | `ResolveLine`, `AggregateLine`, `ChargeCompany`, `ResolveContract` |
| `process_element1`, `process_element2` of A-bookings | `CostArrivesAtBookings`, `BookingArrives` |
| `process_broadcast_element` | the six `Deliver` actions |

A-correction is a stateless map chained to A-bookings (`Emission`). A0 reads
Kafka itself, so delivery and resolution of a line are one action. `accepted`,
`known`, `lost` and the field `charged` of an aggregate are histories that only
properties read: the last line of each event that reached Stage A, the last row
of each booking, whether A2 dropped the last aggregate, and the company costs
that were added to it.

A run starts from a new job, or (`Warm`) from one that has run long enough for
some of the configuration to have arrived everywhere, which each stage reaches
by broadcast deliveries alone. Time stamps of aggregates are left out: Stage A
takes them from its clock, and Stage B's guard lets equal and newer ones pass,
so between A and B nothing is discarded. A restart from a checkpoint restores
all stages at one consistent cut, which is a state the model has already been
in; a submission without a savepoint, which would lose Stage A's lines while
the consumer group goes on where it was, is not modelled.

`CostIsCurrent` is the specification of the whole chain: once it is drained,
what Stage B last got equals a direct computation from all lines and bookings
that came in and the company costs it was charged. It compares incremental state (eviction,
pruning, cached re-emission) with a definition that has none.

### Market pulse

| code | model |
|---|---|
| Kafka topics and offsets | `topic`, `job.offset` |
| the two `ValueState`s with a time to live | `job.seen[branch][booking]`: when it was written; `FirstSeen` says whether it is empty or expired |
| lookups of `unordered_wait` | `job.pending`, ended in any order by `EndLookup` |
| window state and event-time timers | `job.held`, the elements of all panes, and `job.due`, the panes that wait for their timer |
| the three tables | `rows`: for each pane, the elements its stored row counts |
| `LATE_..._TAG` side outputs | `late` |
| a checkpoint, and a restart from it | `saved`; `Checkpoint`, `Fail` |
| watermarks, partitions that are idle | `maxTime`, `watermark`, `NextWatermarks` |

A pane is the state of one key and one window. What a row says (counts,
averages, profits) follows from the elements it counts, so rows are sets of
elements and a `put_item` replaces one pane's by another. Windows are of event
time, and event time is the time stamp of the Kafka record: the job sets no
timestamp assigner (`job.py` l.92-98).

A checkpoint has no watermark in it. A job that fails therefore takes a record
that was late for a fresh one, opens its pane again and overwrites the stored
row with less; `RowsOnlyGrow` says what is safe from that. A put that fails
to the end fails the job after any part of the puts of one watermark.

`RowsOnlyGrow` exempts a record only while the job does not know it: until its
watermark is where it had been, the record has been read again and its lookup
has ended again. After a failure it covers the records that the deduplication
takes in any state (`AlwaysTaken`): one counted because six minutes had passed
is dropped by a job that reads it again within six minutes of the one before it.

`ClosedMeansStored` is the safety half of "every booking is counted": what has
been read and closed, and has no lookup under way, has been stored or was logged
as late. `counted` remembers what a row ever counted, because a row can lose it
again in the way above. That a window closes at all takes another booking or another
blended price, and no fairness of the job provides that, so there is no
liveness property here.

### Back office

| code | model |
|---|---|
| `main()` | `Startup`, the sequence of its transactions; `step` is the process's place in it, 0 while it is down |
| `ensure_..._schema` | `Ensure(t)`; `tables` and the foreign keys between them (`References`) |
| the `DO` blocks of the three migrations | `MigrateSegments`, `MigrateContracts`, `MigrateLines`; `legacy` names the tables that still have the old columns |
| `resolve_cost_definition_ids`, `ensure_weighted_allocation_config` | the actions of the same names; `ids` is the dictionary kept in memory |
| the seeds, each behind its `already_seeded_...` | `Seed...`; the contracts take several steps, since `resolve_owner_commission_cost_definition_id` commits inside their loop |
| `insert_one`, `insert_one_booking`, the two flips | `InsertOne`, `InsertOneBooking`, `FlipOnePendingToPaid`, `FlipOneConfirmedToCancelled` |
| `new_strategy_version` | `ReadStrategy`, then `InsertStrategy`, over a connection of its own |
| an exception, a kill, `restart: unless-stopped` | `End`, `Start` |

A step is a transaction, and a process that is killed loses the open one. `Init`
is any of five volumes: a new one, and those that phases 1 to 3, 4 to 10, 11 to
18 and 19 left behind. A statement about a table or a row that is not there is
an error (`Refused`) and ends the process, so the order of `main()` is checked
and not assumed.

Taken as given: the pool of apartments does not change between starts (its seed
is fixed), no two bills of an old volume agree in apartment, concept, type and month, `fetchone` of a
query without order returns any row. Time is in months, and one past stay
stands for the history of an apartment. One property is missing because it does
not hold: "one bill per (apartment, concept, month)" (section 6).

### Market feed and hot path

| code | model |
|---|---|
| `tick_count`, `run_tick` | `tick`, `RunTick`; days that pass move all nights alike and are left out |
| `publish_batch` | `pending`, `attempt`; `PutRecords` is one call of `put_records`, of which Kinesis refuses any part |
| shards from LATEST on | `stream[s]`, what was put and is not read; `StartBridge` skips it |
| `poll_shard`, `republish` | `PollShard`, `Republish`; `inHand`; a send may fail unnoticed |
| the topic of market prices | `log`, from the job's last checkpoint on |
| Stage B | `PriceNight`: a record, blended or of a channel, prices its night for the apartments of its segment once the blended rate is known (`Known`); what it decides is `PriceDecision`'s subject |
| rows of `manual_overrides` | `overrides`, what each row written is about |
| their topic, from the last checkpoint on | `changes`, indices of rows; a connector that restarts sends some again (`Redeliver`) |
| broadcast state of Stage C | `seen`, how much of `changes` is read; an entry is the row of its key that came last (`Newest`), else what the checkpoint kept (`kept`) |
| `process_element` of Stage C, `put_item` | `ProcessElement`, `PutItem`: chained, one step; the tries of one put are one |
| the item of an apartment and date | `item`: the override it shows, or the algorithm's price |
| a checkpoint, a restart from it | `known`, `kept` and the cuts of `log` and `changes`; `Checkpoint`, `FailJob` |

`HotPath` extends `MarketFeed`, so refused records, restarts of ingestor and
bridge, lost sends, redeliveries and failures of the job come in any order around
each other. `Init` is a
moment at which a checkpoint was taken. Decisions that cost changes cause
are left out: they put a night once more, and no property relies on their
absence. Neither are stale records: those of a segment reach the job in their order,
and a replay finds the state of its checkpoint; `PriceDecision` has them.

An override promises two things. In the end what is due is served, expired
overrides included (`DueIsServed`). On the way an item may well go back, since a row
says nothing of its version: a redelivered older row takes the entry back, a
checkpoint may keep it like that, and a failed job forgets rows. What remains true
is `CaughtUpNeverGoesBack`: while there are no rows left to read, no put replaces an
override by an older one, nor by the algorithm's price unless it or a later one is
expired. It relates what was published long ago to a state that was rebuilt from a
checkpoint, a replay and a topic with repetitions.

Not modelled: shards that appear while the bridge runs (their number is set by
the infrastructure), and an apartment that changes its segment and is then priced
under two keys of Stage B.

## 3. Runs

| run | instance | what it shows |
|---|---|---|
| `PriceDecision_capacity` | 3 apartments, room for 2, one night, clock to twice the threshold, fair | the cap holds; eviction drops an oldest entry, its deadline and its streaks, and nothing else is ever dropped; silence is reported, once |
| `PriceDecision_calendar` | 1 apartment, 2 nights, blended and one channel rate, 2 profiles, midnight inside a handler | the join never misses a pair; streaks agree with decisions, survive and restart as spec 23 says; replayed and late inputs lose |
| `PriceQuote_grid` | every netting base, a contract whose netted amounts all round up, two that leave a margin of 30 % nothing or less, two strategies, each booking-window tier, no, one and two channels | the price of every stay and channel earns the margin line by line; the minimum stay is a threshold; levers work; prices follow inputs |
| `LakehouseConsumer_recovery` | 2 decisions, a deletion, 3 shards that roll, split and expire, 1 kill, 1 compaction, batches of 2, fair | nothing skipped, nothing twice, parents before children; refinement of `AuditLog`; every decision is logged |
| `CostPipeline_costs` | 3 lines of 3 periods, 2 overlapping bookings, one of which is moved, a pruning buffer of one day, one redelivery | retention, currency |
| `CostPipeline_config` | 1 line with 2 versions, 2 strategies, 2 contracts, 2 company costs, fair | no older strategy, company costs counted once and kept, nothing held back |
| `CostPipeline_rents` | rents of two periods | one divergence (section 6) |
| `MarketPulse_windows` | 3 bookings of one apartment, a blended and a channel price, 3 records, windows of one tick with a lateness of one, time stamps up to 2 behind, 1 failure | bookings were in their row or are in the log; rows lose nothing that the job knows |
| `MarketPulse_twice` | 2 bookings, no failure | one divergence (section 6) |
| `BackOffice_starts` | 2 apartments, 4 kinds of definition, 5 volumes, 1 kill, 2 people, 2 events, fair | every start comes up, rewrites nothing, makes nothing twice; strategies are a history |
| `BackOffice_torn` | 2 apartments, 1 kill | one divergence (section 6) |
| `HotPath_serving` | 2 nights, 1 shard, 1 retry, 2 faults of any kind, 2 overrides, fair | every night is priced again and again; in the end the item shows what is due; it goes back to an older override only while rows are left to read |

Why the bounds are enough. A handler of Stage B touches one apartment or one
night and reads each other entry separately, so a property of a pair needs one
apartment and one night, plus one of each to be the "other" (evicted, swept,
equally old). Time is counted in days and a threshold of two, which gives a
state before, at and after a deadline and a day boundary. Two rates and two
profiles make each pair competitive, on its floor, or above the reference.

Deadlock is not checked where the bound on the clock stops the model, which
the system has no counterpart of.

Fairness. `PriceDecision!FairSpec` assumes that the clock runs and that Flink
fires a timer that is due; nothing makes an input arrive.
`LakehouseConsumer!FairSpec` assumes that the consumer takes its next step when
it can, restarts included (docker restarts it); kills and compactions are
bounded, since a compaction an hour apart from the next leaves time for a merge
that a model without time does not give. One of each reaches every point of a
merge, and a refused commit exits as a kill does; three shards are a parent and
its two children, or a chain. The safety half is proved for any numbers.
`CostPipeline!FairSpec` assumes only that Flink goes on with what is in a channel
(weak fairness of `Process`); no source is assumed to deliver anything. Three
periods are one more than Stage A keeps; a buffer of one day makes pruning bite
on a booking that a moved one still overlaps. Redeliveries are bounded by one:
a second one repeats what the first could do from a state it can also reach.
The pulse needs three records: one that is counted, one that closes its window,
one that is late or a duplicate. The market topic has one partition in the
instance, so the rule for idle partitions decides nothing there; the
deduplications forget after window plus lateness, which the clock passes.
`BackOffice!FairSpec` assumes that docker starts the process again and that a
start that can go on does; kills are bounded, since a start that is always
killed never ends. One kill reaches every point of a start, two events are a
strategy read by both people, or a bill beside a month's end.
`HotPath!FairSpec` assumes that ingestor, bridge and job take their next step, docker
and Flink restarting them, and that checkpoints succeed; refusals, lost sends,
restarts, redeliveries and failures are bounded together by `MaxFaults`, so `EveryNightIsRefreshed` is a
statement about what happens after the last of them: no fault, wherever it
falls, starves a night for good. With two nights and two faults a cycle can be
begun again in each of its places. A queue of one batch and a log of one record are
enough for a record to be lost while others pass, and for a decision to be put
again from before an override; two rows and one redelivery for an older row to
come last, and to be the last one that a checkpoint keeps.

## 4. Proofs

`PriceDecisionProofs` proves, for any finite set of apartments, any nights,
channels, profiles, rates, capacity and thresholds:

- `TypeCorrect`. A step is one of four cases (`StepCases`: a cost accepted, a
  price accepted, a timer, or nothing handled); `CostDecisions` and
  `MarketDecisions` say what each writes.
- `JoinCorrect`, `StreaksCorrect`, `StreakReportCorrect`. Neither fact about a
  pair is inductive alone: an unpriced night has no streak only because streaks
  belong to known pairs, and the streak agrees with the last decision only
  because the join is current. Their conjunction `PairInv` is, pair by pair
  (`PairOK`).
- `DeadlinesCorrect`, `ReportsCorrect`. The inductive invariant `WatchdogInv`
  states that what reports an entry is the timer at its deadline; a new
  deadline is later than the clock and so differs from every reported one.
- `CapacityCorrect`, from the cardinality facts of the library; `Evictions` is
  only called with a full segment and a new apartment (`EvictionFacts`).
  `EvictionNeverFails`: it then always has an oldest entry to drop, so no cost is
  stuck (`OldestExists`, from the well-foundedness of the naturals).
- `NewestWinsCorrect`, an action property, from the guards of both handlers.
- `EvictionsCorrect` and `StreaksKeepTheirFirstDay`, action properties that need
  `TypeOK` and `WithinCapacity` of the state before the step: each handler is split
  into what it evicts, what it sweeps and what it writes (`StreaksStep`).

The proofs assume only the named `ASSUME`s: capacity, threshold and ticks are
positive, the apartments are finite, and `None` is none of the stored values.

`PriceQuoteProofs` proves the four properties of the engine for every amount, margin,
contract and lead time, where the run has a grid of them.

- `InputsInv` is the inductive invariant: no action takes an input out of its
  range. It is all the state there is; the rest is arithmetic.
- What a contract takes is a sum over a set of any size, computed by a fold whose
  order the model leaves open. `SumsExist`, `SumsUnique` and `SumsAdd` show that it
  is one number and that any element may be taken out first. Their inductions go
  over the subsets of a finite set (`SubsetsByRemoval`, from the well-foundedness of
  the naturals), without an operator as a parameter.
- `MarginIsEarned`. `FloorEarns`: the floor is the least price, to the cent, that
  leaves the margin when all percentages are charged on the whole price and the
  netting is given back. `ChargesBound` compares that with the charges line by line:
  each is charged at most its percentage of the price less what its base leaves out,
  and `SumsBound` adds the lines up. Each netted amount is rounded to the nearest
  cent, which may be against the apartment by half a cent (`NearestBounds`); no
  fixed slack would do, and with one of two cents TLC refutes the property on the
  contract of three lines. A channel's price is the same argument with the channel's
  commission in place of the owner's (`ChannelsEarn`).
- `StayIsTheThreshold`: `FloorFalls`, a longer stay has the smaller share of the
  booking's costs. `LeversAreReal`: `StatusMeans` says what a status means of the
  arguments it is classified from, `RecommendedStay` and `CompetitiveRules` what those
  arguments are. `PricesFollowInputs`: no step changes the contract (`StepInputs`), so
  its sums stay (`ContractSums`); floor and references follow by monotony.
- `UnreachableMarginIsNoFloor` is the other side of `HasFloor`: with percentages and
  a margin of more than the whole price the floor is not above 0 and every stay is
  offered at the market reference. ADR-0013 knows it and the code does not guard it.
  At exactly the whole price nothing is claimed: a float sliver decides between the
  market price and an enormous floor.

The assumptions are what the code and the database guarantee: a percentage cost per
concept (`cost_aggregation.py` l.266) with a rate between 0 and 1 (`migrations.py`
l.471), none of them the owner's commission, for which no payment line is ever made
(`generator.py` l.61 takes the concepts of `data.py`); the five revenue bases (`commercial.py` l.14); ratings between 1 and 5
(`migrations.py` l.31), margins and discounts below 1.

`LakehouseProofs` proves, for any decisions, shards, batch limit and bounds:

- `InvariantHolds`, for `IInv`. `NeverTwice` and `SettledIsLogged` are not
  inductive: they need what `merge_rows` knows of the batch between its commits
  (`MergeProgress`), that a scan nobody committed after is the table
  (`ScanIsTable`), and that the batch in memory is not settled, because a
  record is at one position of one shard (`RecordsAreDistinct`,
  `BatchIsNotSettled`). `ParentsFirst` survives a restart although `drained`
  does not, because a drained shard is fully behind its checkpoint
  (`DrainedAreRead`).
- `LoggedOnceInOrder`: the invariants of the run, and that no row is there twice.
- `LakehouseImplementsAuditLog`, step by step: an append is `WriteRows`, a
  delete `RetractRows`, a checkpoint `Settle`; all other steps stutter, the
  overwrite of a compaction included.
- `TypesHold` and `ParentsAreReadFirst`, from the same invariant.

They assume only that the bounds are numbers.


`CostPipelineProofs` proves `StrategyCorrect`, for any lines, bookings,
configuration and number of redeliveries. `StrategyNeverRegresses` speaks of two
successive aggregates at Stage B and says nothing of what is on the way there,
so the induction is over `StrategyInv`: the priced aggregate, the channels
`charged` and `corrected`, the cached aggregate, the channel `aggregates` and
Stage A's broadcast state carry versions that never decrease from Stage B back to
Stage A. The hard step is A-bookings entering the cached aggregate once more,
ahead of everything in `aggregates`; it fits because the cached one is the last
that left that channel. Two lemmas say what `Append` and `Tail` do to an ordered
channel, and four that no stage rewrites the version.

`CostCurrentProofs` proves the rest, for any lines, bookings and configuration:

- `PeriodsHeld`. The map after a step depends only on the map before it and the new
  line, while `HoldsTheNewestPeriods` speaks of all lines that ever came; the lemma
  that joins them is `NewestTwoWithOneMore`: of a finite set of ends, the newest two
  and one more decide the newest two of all. It rests on `NewestTwoDecide` and on
  the existence of a greatest end (`GreatestExists`).
- `PricedCostIsCurrent`. The inductive invariant `CurrentInv` says three things of
  states that are not drained: the last aggregate before A-bookings, or the cached
  one, is the cost of the lines held (`LatestCost`); the last aggregate behind
  A-bookings is the emission of the cached one with the bookings held, up to what A4
  and A2 add (`LatestEmission`); a booking that is not held ended long before a
  period that came in (`ForgottenLongAgo`). In a drained state the lines held contain
  the newest period (`NewestPeriodIsHeld`) and the bookings forgotten do not meet it
  (`ForgottenDoNotCount`). The sums of a cost are never opened: equal lines and
  bookings give equal figures.
- `CompanyCostsAreKept`, with the hypothesis `CompanyCostsKeepWeight`: later versions
  of a definition keep company scope and of a rule a weight. Without it the claim is
  false, since the next aggregate is charged without what lost its weight. The
  invariant `ChargedGrows` orders what was charged from Stage B back to A4.
- `TypesHold`, which needs the period of every aggregate to be that of a line held.

`PeriodsAssumption` is what makes pruning sound: a payment line keeps its period (its
updates change its status only), does not end before it starts (a check of the table),
and of two lines the one that ends later does not start `RETENTION_BUFFER_DAYS` before
the other. `mock-pm-app` bills calendar months. An annual bill beside monthly ones
would break the last part, and bookings that its period needs could have been pruned.

Besides the named `ASSUME`s, `StrategyCorrect` and `PricedCostIsCurrent` have the hypothesis
`NoneIsNoAggregate`: the absent value is not itself an aggregate. It is no `ASSUME`
because TLC gives `None` a model value, which has no domain to evaluate.

`MarketPulseProofs` proves `TypeOK`, `ClosedMeansStored` and `RowsOnlyGrow` for any
bookings, partitions, window, lateness, out-of-orderness, clock and number of failures:

- The inductive invariant `PulseInv` says of the running job and of its checkpoint
  alike (`JobOK`) that a booking seen is a booking read, that every record which is
  always taken and lies before the offsets is held, awaits its lookup or is gone with
  a pane that some watermark has cleared (`Known`), and that bookings among them are
  stored, logged, or held in a pane that waits for its timer (`Stays`). Because the
  checkpoint satisfies it too, a failure keeps it; `highest` instead of `watermark`
  makes it survive the loss of the watermark.
- `Progress` says what any step of the job does to the elements; each of the four
  kinds of steps is shown to make it (`ReadBookingFacts`, `EndLookupFacts`,
  `ReadSnapshotFacts`, `AdvanceWatermarkFacts`) and the invariant follows from it
  once (`JobMoves`, `RestMoves`).
- That a source whose partitions are read has a least time stamp (`LeastOf`) needs the
  well-foundedness of the naturals, which the library proves.

Two earlier forms of these properties passed TLC and failed here: rows were said to
keep every record as soon as offsets and watermark were regained, which a lookup
under way again refutes (three bookings), and closed records to be in a row still,
which a restart that opens an already-emitted window again refutes (four records,
section 6). The statements are the corrected ones.

`BackOfficeProofs` proves `HistoryOfStrategies`, for any apartments, values and
number of people. The property speaks of rows; what keeps it is that every row
somebody holds and has not inserted yet follows a version that is there
(`PublishingFollows`), and that the key refuses a version that is taken. Their
conjunction `HistoryInv` is inductive; the migration and the seed add first
versions only (`FirstVersionsKeepHistory`).

`TypesHold`, `LedgerStaysSound`, `StartSeedsEverything` and `StartsRewriteNothing`
follow from `OfficeInv`, the conjunction of `HistoryInv` with one part per group of
variables that change together. `WhatChanges` lists the actions that touch each
part (`StepChanges`), so a part is argued about with those actions only. `Past`, the
transactions this start has committed, ties the parts to the order of `main()`; the
facts it needs of that order are in `Behind` and `PastMoves`. What is not in the
properties and had to be found:

- No definition is made twice because the migrations and the seed match by shape,
  and shapes include the rate. That is sound only as long as either every
  percentage has a rate or none has and `cost_definitions` is not yet past
  (`DefinitionsInv`): the backfill then cannot make two definitions equal.
- The ledger counts bills by definition, the old columns by concept and type. While
  `payment_lines` is legacy its lines are the old bills as they were found, each
  without a definition (`LinesInv`), so the migration gives different bills of a
  month different definitions.
- Contracts that are committed are a prefix of the pool, and the open transaction
  holds the next ones and no others (`ContractsInv`). The seed of the contracts
  therefore never meets a row of its own, wherever a kill left it.
- Segments and first versions are there for every apartment or for none
  (`StrategiesInv`), which the `already_seeded_...` checks rely on.

The assumptions name what the proofs take from the data: every concept has one spec
and every percentage a rate (`COST_DEFINITIONS`, data.py), the bills of an old volume
are different, and `None` (SQL's NULL) is no value of a column.

`HotPathProofs` proves `TypesHold` and `NeverGoesBack`, for any segments, nights,
overrides, redeliveries and failures. `TypeOK` is inductive as it stands; what it needs is that
the definitions by recursion return sequences of records: `RecursionExists` builds
such a function position by position, `CountingUp` says what all of its values are,
and `SubseqType` (the loop of `publish_batch` that keeps the refused records) and
`FlattenType` apply both. Constants: segments and channels are sequences, and the
apartments of a segment are finite.

For `NeverGoesBack` the invariant `HotInv` says that the topic, read to its end over
what the checkpoint kept, leaves of every night the row that was written last, and
that what is kept or shown of a night is an override of that night. The first part
is neither obvious nor in the code: a redelivery repeats the rows from one of them to
the last, so it ends with the newest of each night it is about
(`RedeliveryAgrees`), and a checkpoint cuts the topic exactly where its state was
read to (`CheckpointAgrees`, from `CutChangesNothing`). The largest of a set of
positions exists by the well-foundedness of the naturals (`LargestExists`).

Left to TLC: liveness (`SilenceIsReported`, `EveryDecisionIsLogged`,
`NothingIsHeldBack`, `AppComesUp`, `EveryNightIsRefreshed`, `DueIsServed`), which is
out of the prover's reach. Every invariant and every action property of the passing
runs is proved; the runs check them on small instances as well.

## 5. Not modelled

Parsing and the published schema (a decision that its constraints reject fails
the job), labels and explanations, the dashboard, dbt, infrastructure, the layout of
the audit rows and the synthetic market rates; see the components of
`PROJECT.json`. Floats are integers to the cent, but for the two places named in section 2. A job submitted without a savepoint,
resharding of the market stream and an apartment that changes its segment are in
the plan. Constants and texts of the back office are left out; its transactions are
not.

## 6. Divergences found

Those without a run were seen while modelling, in the code or in a counterexample.

- Spec 04 section 6 says past nights are evicted on every market event; an event
  that is discarded (past date or stale replay) returns before the sweep.
- `booking_window.py` l.23-25 does not expect a decision for a past date; a cost
  update prices every night in state, those past and not swept included.
- `recommend_minimum_stay` promises a stay at or below the market reference; a
  stay on its floor is above it.
- Spec 05 describes every write of the audit table as one overwrite or merge; it
  is two commits, and a batch read again hides rows already seen until they are
  appended again.
- The booking-scope netting is said to be the widest; the OTA netting contains
  a cost of property scope (`channel_manager`) and can exceed it.
- Spec 04 promises that a replayed older event is discarded; Stage A takes it
  and stamps it with the current time.
- An occurrence of a company cost is for one period; all periods are charged at
  once (`CostPipeline_rents`).
- Seen in the code and plain enough to need no run: a comment in
  `cost_aggregation.py` gives a concept one cost definition, while lines of
  legacy and new definitions of one concept can meet in a period; spec 19
  divides a cost allocated by booking by `max(1, booking_count)`, the code by
  the days of the period when there is no booking.
- `job.py` l.174-175 says of records that are late beyond the allowed lateness that
  they are "never touching an already-emitted window". After a restart there is no
  watermark yet: such a record opens its window again, alone, and the stored row is
  overwritten with it. Four bookings and one failure show it (an on-time record, one
  that closes the window, the late one, one more that closes it again); the proof of
  `ClosedMeansStored` found it when the property still spoke of the rows of now.
- The created branch reads every event of the topic and forgets a booking after
  six minutes; a later change of the booking is counted as a new one
  (`MarketPulse_twice`).
- The seed of the contracts is not one transaction; a kill in the middle leaves
  apartments without a contract for good (`BackOffice_torn`).
- `generator.py` l.26 keeps "one bill per (apartment, concept, month)" by the
  definition of this start; a migrated bill of the month with another definition
  of the same concept does not count. Seen in a counterexample while modelling;
  no run.
- The docstrings of `kinesis.py` and `bridge.py` speak of at-least-once delivery;
  records refused to the end are dropped and a restarted bridge begins at LATEST.
  `EveryNightIsRefreshed` is what remains of it; no run of its own.
- `bridge.py` l.33-34 counts a record as republished when `send` has returned, and
  looks at no result; a record that Kafka refuses is lost without a restart. Part of
  what `EveryNightIsRefreshed` survives.
- `ManualOverrideEnrichmentFunction` puts rows as they come. A redelivered older row
  is published in place of a newer one until the newer one is read again;
  `CaughtUpNeverGoesBack` says that this is the only way, beside a replay.

## 7. Plan

Done: `PricingFormulas`, `PriceQuote` and `PriceDecision` with their proofs, `AuditLog`, `LakehouseConsumer` and its proofs, `CostAggregation` and `CostPipeline` with their proofs, `MarketPulse` and its proofs, `BackOffice` and its proofs, `MarketFeed`, `HotPath` and its proofs.
Next, in this order:

1. A submission of the job without a savepoint, in `CostPipeline` and `HotPath`.
2. An apartment that changes its segment: two keys of `PriceDecision` behind one
   item of `HotPath`.
3. Shards that split while the bridge runs.
4. Proofs: the safety of what items 1 to 3 add. What is modelled now has its
   invariants and action properties proved; its liveness stays with TLC.

