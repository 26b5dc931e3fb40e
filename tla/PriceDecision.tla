---------------------------- MODULE PriceDecision ----------------------------
(***************************************************************************)
(* Stage B of the Flink job (stage_price_decision.py): the keyed state of  *)
(* ONE market segment, which cross-joins the apartments it knows (cost     *)
(* side) with the nights it knows (market side) and emits a price decision *)
(* for every pair a change touches.  Flink runs the handlers of one key    *)
(* one at a time, so a handler is one action; what interleaves is their    *)
(* order, late and replayed inputs, the clock, and the 48h watchdog timers.*)
(***************************************************************************)
EXTENDS PricingFormulas

CONSTANTS
    Apartments,         \* apartment ids that may send costs to the segment
    Dates,              \* target dates, as day numbers
    Channels,           \* platforms with a channel-specific rate
    CostProfiles,       \* cost, margin and commission data of an aggregate
    Rates,              \* average nightly rates the market reports
    Cap,                \* HOJA1_MAX_ENTRIES_PER_SEGMENT (500)
    TicksPerDay,        \* clock ticks in a day
    FreshnessThreshold, \* FRESHNESS_THRESHOLD_MS (48h), in ticks
    HandlerTicks,       \* ticks that may pass between two reads of the clock
                        \* inside one handler (0, or 1 to cross midnight)
    MaxTime,            \* bound: the clock stops here
    LastInput           \* bound: no cost or market event after this tick

ASSUME PriceDecisionAssumption ==
    /\ Dates \subseteq Nat
    /\ Cap \in Nat \ {0}
    /\ TicksPerDay \in Nat \ {0}
    /\ FreshnessThreshold \in Nat \ {0}
    /\ HandlerTicks \in Nat
    /\ MaxTime \in Nat
    /\ LastInput \in Nat
    /\ IsFiniteSet(Apartments)

CostAggregate == [profile : CostProfiles, updatedAt : Nat]
MarketSnapshot == [rate : Rates, collectedAt : Nat]
NightSnapshot == [blended : MarketSnapshot \cup {None},
                  channels : [Channels -> MarketSnapshot \cup {None}]]

RuleApplied == {"market_competitive", "minimum_floor",
                "minimum_profitable_price"}

ViabilityStatus == {"persistent_floor_breach", "demand_upside", "ok",
                    "min_stay_lever_available", "channel_lever_available",
                    "floor_binding", "override_active"}

Decision == [cost : CostAggregate, night : NightSnapshot, decidedAt : Nat,
             rule : RuleApplied,
             floorBreachSince : Nat \cup {None}, floorBreachDays : Int,
             viability : ViabilityStatus]

\* None marks what is absent, so it is none of the values that may be there.
ASSUME NoneAssumption ==
    /\ None \notin Nat
    /\ None \notin Channels
    /\ None \notin CostAggregate
    /\ None \notin MarketSnapshot
    /\ None \notin NightSnapshot
    /\ None \notin Decision

VARIABLES
    now,                 \* wall clock, in ticks
    apartments,          \* "apartments-in-segment": latest cost, or None
    nights,              \* "nights-in-segment": latest snapshots, or None
    apartmentDeadlines,  \* "apartment-deadlines", or None
    nightDeadlines,      \* "night-deadlines", or None
    floorBreachSince,    \* "floor-breach-since", by apartment and date
    timers,              \* processing-time timers registered and not fired
    latest,              \* last decision emitted for each (apartment, date)
    staleApartments,     \* apartments reported data_stale since last touched
    staleNights,         \* nights reported data_stale since last touched
    input                \* kind of the input handled by the last step

vars == <<now, apartments, nights, apartmentDeadlines, nightDeadlines,
          floorBreachSince, timers, latest, staleApartments, staleNights,
          input>>

DayOf(tick) == tick \div TicksPerDay
Today == DayOf(now)

KnownApartments == {a \in Apartments : apartments[a] # None}
KnownNights == {d \in Dates : nights[d] # None}

\* A night is priced only once its blended rate has arrived.
Priced(night) == IF night = None THEN FALSE ELSE night.blended # None

-----------------------------------------------------------------------------
(* staleness.py, eviction.py, watchdog.py *)

\* Mutant: the guard forgets to compare, so a replayed input wins.
IsSafeToOverwriteAlways(candidate, existing) == TRUE

IsSafeToOverwrite(candidate, existing) ==
    IF existing = None THEN TRUE ELSE candidate >= existing

\* Mutant: off by one, the segment keeps one entry too many.
IsOverCapacityLate(size) == size > Cap + 1

IsOverCapacity(size) == size > Cap

\* Mutant: max() for min(), the freshest entry is dropped.
OldestKeysNewest(entries) ==
    {k \in DOMAIN entries :
        /\ entries[k] # None
        /\ \A j \in DOMAIN entries :
               entries[j] # None => entries[k].updatedAt >= entries[j].updatedAt}

\* min() by updated_at; which of several equally old keys it returns depends
\* on the iteration order of the map state, so each may be the one.
OldestKeys(entries) ==
    {k \in DOMAIN entries :
        /\ entries[k] # None
        /\ \A j \in DOMAIN entries :
               entries[j] # None => entries[k].updatedAt <= entries[j].updatedAt}

ExpiredNightKeys(today) == {d \in KnownNights : d < today}

NextDeadline(tick) == tick + FreshnessThreshold

\* Mutant: returns the deadlines that expired in place of their keys.
ExpiredKeysValues(deadlines, firedAt) ==
    {deadlines[k] : k \in {j \in DOMAIN deadlines : deadlines[j] = firedAt}}

\* Mutant: reports every entry past its deadline each time a timer fires.
ExpiredKeysAnyPast(deadlines, firedAt) ==
    {k \in DOMAIN deadlines : deadlines[k] # None /\ deadlines[k] <= firedAt}

\* Mutant: reports what expired before the timer and not with it.
ExpiredKeysStrict(deadlines, firedAt) ==
    {k \in DOMAIN deadlines : deadlines[k] # None /\ deadlines[k] < firedAt}

ExpiredKeys(deadlines, firedAt) ==
    {k \in DOMAIN deadlines : deadlines[k] = firedAt}

\* Mutant: a dropped entry leaves its deadline behind.
WatchedForever(deadlines, k, dropped, tick) ==
    [deadlines EXCEPT ![k] = NextDeadline(tick)]

\* The deadlines once k was touched at a tick and some keys were dropped.
Watched(deadlines, k, dropped, tick) ==
    [j \in DOMAIN deadlines |->
        IF j = k THEN NextDeadline(tick)
        ELSE IF j \in dropped THEN None ELSE deadlines[j]]

\* Mutant: an eviction drops no streak.
KeptSinceEvicted(a, d, evicted, expired) ==
    IF d \in expired THEN None ELSE floorBreachSince[a][d]

\* The streak of a pair once some apartments and nights were dropped.
KeptSince(a, d, evicted, expired) ==
    IF a \in evicted \/ d \in expired THEN None ELSE floorBreachSince[a][d]

-----------------------------------------------------------------------------
(* _build_price_decision *)

ChannelRates(night) ==
    [ch \in {c \in Channels : night.channels[c] # None} |->
        night.channels[ch].rate]

\* Mutant: a competitive day does not reset the streak.
NewFloorBreachSinceSticky(rule, since, day) ==
    IF since # None THEN since
    ELSE IF rule = "market_competitive" THEN None ELSE day

\* Mutant: every decision on the floor restarts the streak.
NewFloorBreachSinceRestarts(rule, since, day) ==
    IF rule = "market_competitive" THEN None ELSE day

\* The streak goes on from its first day, starts today, or is cleared.
NewFloorBreachSince(rule, since, day) ==
    IF rule = "market_competitive" THEN None
    ELSE IF since # None THEN since ELSE day

\* The amounts a decision reports are functions of the three fields cost, night
\* and decidedAt, so only what the state and the properties read is kept.
BuildPriceDecision(cost, night, date, since, at) ==
    LET c == cost.profile
        q == PricingInput(c, night.blended.rate, date - DayOf(at))
        calc == DecidePrice(q, 1)
        newSince == NewFloorBreachSince(calc.rule, since, DayOf(at))
        breachDays == IF newSince = None THEN 0 ELSE DayOf(at) - newSince
    IN  [cost |-> cost, night |-> night, decidedAt |-> at,
         rule |-> calc.rule,
         floorBreachSince |-> newSince, floorBreachDays |-> breachDays,
         viability |-> Viability(q, c, ChannelRates(night), breachDays)]

-----------------------------------------------------------------------------
(* Handlers *)

Init ==
    /\ now = 0
    /\ apartments = [a \in Apartments |-> None]
    /\ nights = [d \in Dates |-> None]
    /\ apartmentDeadlines = [a \in Apartments |-> None]
    /\ nightDeadlines = [d \in Dates |-> None]
    /\ floorBreachSince = [a \in Apartments |-> [d \in Dates |-> None]]
    /\ timers = {}
    /\ latest = [a \in Apartments |-> [d \in Dates |-> None]]
    /\ staleApartments = {}
    /\ staleNights = {}
    /\ input = "none"

\* The keys dropped to make room for apartment a: none, or one of the oldest.
Evictions(a) ==
    IF IsOverCapacity(Cardinality(KnownApartments)
                        + (IF apartments[a] = None THEN 1 ELSE 0))
    THEN {{oldest} : oldest \in OldestKeys(apartments)}
    ELSE {{}}

\* process_element1 past its guard: a's cost replaces the stored one and is
\* priced against every known night, past ones included.
AcceptCost(a, cost, evicted) ==
    LET decision(d) == BuildPriceDecision(cost, nights[d], d,
                                          KeptSince(a, d, evicted, {}), now)
    IN  /\ apartments' = [b \in Apartments |->
              IF b = a THEN cost
              ELSE IF b \in evicted THEN None ELSE apartments[b]]
        /\ apartmentDeadlines' = Watched(apartmentDeadlines, a, evicted, now)
        /\ timers' = timers \cup {NextDeadline(now)}
        /\ latest' = [b \in Apartments |-> [d \in Dates |->
              IF b = a /\ Priced(nights[d]) THEN decision(d)
              ELSE latest[b][d]]]
        /\ floorBreachSince' = [b \in Apartments |-> [d \in Dates |->
              IF b = a /\ Priced(nights[d]) THEN latest'[b][d].floorBreachSince
              ELSE KeptSince(b, d, evicted, {})]]
        /\ staleApartments' = staleApartments \ ({a} \cup evicted)
        /\ UNCHANGED <<now, nights, nightDeadlines, staleNights>>

\* process_element1
ProcessElement1(a, cost) ==
    /\ now <= LastInput
    /\ input' = "cost"
    /\ LET existing == apartments[a]
           existingUpdatedAt == IF existing = None THEN None
                                ELSE existing.updatedAt
       IN  IF IsSafeToOverwrite(cost.updatedAt, existingUpdatedAt)
           THEN \E evicted \in Evictions(a) : AcceptCost(a, cost, evicted)
           ELSE UNCHANGED <<now, apartments, nights, apartmentDeadlines,
                            nightDeadlines, floorBreachSince, timers, latest,
                            staleApartments, staleNights>>

\* The blended snapshot (platform None) or the snapshot of one channel.
SubSnapshot(night, platform) ==
    IF night = None THEN None
    ELSE IF platform = None THEN night.blended ELSE night.channels[platform]

\* The stored night with that one sub-snapshot replaced.
MergedNight(night, platform, snapshot) ==
    LET channels == IF night = None THEN [ch \in Channels |-> None]
                    ELSE night.channels
    IN  IF platform = None
        THEN [blended |-> snapshot, channels |-> channels]
        ELSE [blended |-> IF night = None THEN None ELSE night.blended,
              channels |-> [channels EXCEPT ![platform] = snapshot]]

\* Mutant: a pair that was priced once is not priced again.
RepricedOnce(a, date, night) ==
    Priced(night) /\ apartments[a] # None /\ latest[a][date] = None

\* A market event prices a known apartment if the night has its blended rate.
Repriced(a, date, night) == Priced(night) /\ apartments[a] # None

\* process_element2 past its guards, the rest of which reads the clock at t:
\* sweep the expired nights, store the snapshot, price the known apartments.
AcceptMarket(date, platform, snapshot, t) ==
    LET expired == ExpiredNightKeys(DayOf(t))
        night == MergedNight(nights[date], platform, snapshot)
        decision(a) == BuildPriceDecision(apartments[a], night, date,
                                          KeptSince(a, date, {}, expired), t)
    IN  /\ now' = t
        /\ nights' = [d \in Dates |->
              IF d = date THEN night
              ELSE IF d \in expired THEN None ELSE nights[d]]
        /\ nightDeadlines' = Watched(nightDeadlines, date, expired, t)
        /\ timers' = timers \cup {NextDeadline(t)}
        /\ latest' = [a \in Apartments |-> [d \in Dates |->
              IF d = date /\ Repriced(a, date, night) THEN decision(a)
              ELSE latest[a][d]]]
        /\ floorBreachSince' = [a \in Apartments |-> [d \in Dates |->
              IF d = date /\ Repriced(a, date, night)
              THEN latest'[a][d].floorBreachSince
              ELSE KeptSince(a, d, {}, expired)]]
        /\ staleNights' = staleNights \ ({date} \cup expired)
        /\ UNCHANGED <<apartments, apartmentDeadlines, staleApartments>>

\* process_element2
ProcessElement2(date, platform, snapshot) ==
    /\ now <= LastInput
    /\ input' = "market"
    /\ LET previous == SubSnapshot(nights[date], platform)
           previousCollectedAt == IF previous = None THEN None
                                  ELSE previous.collectedAt
       IN  IF /\ date >= Today
              /\ IsSafeToOverwrite(snapshot.collectedAt, previousCollectedAt)
           THEN \E t \in now .. Smaller(now + HandlerTicks, MaxTime) :
                    AcceptMarket(date, platform, snapshot, t)
           ELSE UNCHANGED <<now, apartments, nights, apartmentDeadlines,
                            nightDeadlines, floorBreachSince, timers, latest,
                            staleApartments, staleNights>>

\* on_timer: Flink fires due timers in order, possibly late, each once.
OnTimer(timestamp) ==
    /\ timestamp \in timers
    /\ timestamp <= now
    /\ \A other \in timers : timestamp <= other
    /\ timers' = timers \ {timestamp}
    /\ staleApartments' =
          staleApartments \cup ExpiredKeys(apartmentDeadlines, timestamp)
    /\ staleNights' = staleNights \cup ExpiredKeys(nightDeadlines, timestamp)
    /\ input' = "timer"
    /\ UNCHANGED <<now, apartments, nights, apartmentDeadlines,
                   nightDeadlines, floorBreachSince, latest>>

Tick ==
    /\ now < MaxTime
    /\ now' = now + 1
    /\ input' = "clock"
    /\ UNCHANGED <<apartments, nights, apartmentDeadlines, nightDeadlines,
                   floorBreachSince, timers, latest, staleApartments,
                   staleNights>>

\* A cost aggregate was computed, and a market price collected, at some moment
\* up to now: Kafka and Kinesis may deliver them late, out of order or again.
CostArrives ==
    \E a \in Apartments, profile \in CostProfiles, at \in 0 .. now :
        ProcessElement1(a, [profile |-> profile, updatedAt |-> at])

MarketArrives ==
    \E date \in Dates, platform \in Channels \cup {None}, rate \in Rates,
       at \in 0 .. now :
        ProcessElement2(date, platform, [rate |-> rate, collectedAt |-> at])

TimerFires == \E timestamp \in timers : OnTimer(timestamp)

Next == CostArrives \/ MarketArrives \/ TimerFires \/ Tick

Spec == Init /\ [][Next]_vars

\* The clock runs, and Flink fires every timer that is due.  Nothing makes an
\* input arrive.
FairSpec == Spec /\ WF_vars(Tick) /\ WF_vars(TimerFires)

-----------------------------------------------------------------------------
(* Properties *)

\* Every variable has the shape its state descriptor gives it.
TypeOK ==
    /\ now \in Nat
    /\ apartments \in [Apartments -> CostAggregate \cup {None}]
    /\ nights \in [Dates -> NightSnapshot \cup {None}]
    /\ apartmentDeadlines \in [Apartments -> Nat \cup {None}]
    /\ nightDeadlines \in [Dates -> Nat \cup {None}]
    /\ floorBreachSince \in [Apartments -> [Dates -> Nat \cup {None}]]
    /\ timers \subseteq Nat
    /\ latest \in [Apartments -> [Dates -> Decision \cup {None}]]
    /\ staleApartments \subseteq Apartments
    /\ staleNights \subseteq Dates
    /\ input \in {"none", "cost", "market", "timer", "clock"}

\* Spec 04 section 6, Risk 3: a deadline never outlives the data it watches,
\* and no data goes unwatched, through evictions and sweeps.
DeadlinesMirrorData ==
    /\ \A a \in Apartments :
          apartments[a] = None <=> apartmentDeadlines[a] = None
    /\ \A d \in Dates : nights[d] = None <=> nightDeadlines[d] = None

\* The segment never holds more apartments than its hard cap.
WithinCapacity == Cardinality(KnownApartments) <= Cap

\* A floor-breach streak is kept only for an apartment and a night both still
\* in state, the night priced: eviction (l.112) and sweep (l.183) leave none.
StreaksBelongToKnownPairs ==
    \A a \in Apartments, d \in Dates :
        floorBreachSince[a][d] # None =>
            apartments[a] # None /\ Priced(nights[d])

\* The join is complete and current: for every known apartment and priced
\* night the last decision emitted was computed from exactly the cost and the
\* snapshots (blended and channel) now in state.  No update misses a pair.
JoinIsCurrent ==
    \A a \in Apartments, d \in Dates :
        apartments[a] # None /\ Priced(nights[d]) =>
            /\ latest[a][d] # None
            /\ latest[a][d].cost = apartments[a]
            /\ latest[a][d].night = nights[d]

\* For a known pair the stored streak is the one the last decision reported,
\* and there is one exactly when that decision fell on its floor.
StreakMatchesLastDecision ==
    \A a \in Apartments, d \in Dates :
        apartments[a] # None /\ Priced(nights[d]) =>
            /\ floorBreachSince[a][d] = latest[a][d].floorBreachSince
            /\ floorBreachSince[a][d] = None
                  <=> latest[a][d].rule = "market_competitive"

\* Spec 04 AC-09: an entry not touched for the threshold is reported once. An
\* entry not reported has a timer waiting that will report it; a reported one
\* is past its deadline, and no timer left would report it again.
ReportedAtMostOnce ==
    /\ \A a \in KnownApartments :
          IF a \in staleApartments
          THEN /\ apartmentDeadlines[a] <= now
               /\ \A tick \in timers : a \notin ExpiredKeys(apartmentDeadlines, tick)
          ELSE \E tick \in timers : a \in ExpiredKeys(apartmentDeadlines, tick)
    /\ \A d \in KnownNights :
          IF d \in staleNights
          THEN /\ nightDeadlines[d] <= now
               /\ \A tick \in timers : d \notin ExpiredKeys(nightDeadlines, tick)
          ELSE \E tick \in timers : d \in ExpiredKeys(nightDeadlines, tick)

\* A late or replayed input never takes an entry back to older data: while an
\* apartment, or one sub-snapshot of a night, stays known it only gets newer,
\* and a known sub-snapshot is not erased by an update of another one.
NewestWins ==
    [][/\ \A a \in Apartments :
            apartments[a] # None /\ apartments'[a] # None =>
                apartments'[a].updatedAt >= apartments[a].updatedAt
       /\ \A d \in Dates, platform \in Channels \cup {None} :
            LET before == SubSnapshot(nights[d], platform)
                after == SubSnapshot(nights'[d], platform)
            IN  before # None /\ nights'[d] # None =>
                    /\ after # None
                    /\ after.collectedAt >= before.collectedAt]_vars

\* Spec 23 section 4: a streak keeps the day it began on.  It may be cleared,
\* and a new one begins on the day of the decision that begins it; one streak
\* follows another directly only when the night itself expired between two
\* clock reads of the handler, and the sweep dropped the old one.
StreakKeepsItsFirstDay ==
    [][\A a \in Apartments, d \in Dates :
          LET before == floorBreachSince[a][d]
              after == floorBreachSince'[a][d]
          IN  after # None /\ after # before =>
                  /\ after = DayOf(now')
                  /\ before # None => ~(d >= DayOf(now'))]_vars

\* A market event evicts no apartment and a cost event forgets no night; room
\* for a new apartment is made by dropping one that no other is older than.
EvictsOnlyTheOldest ==
    [][/\ (\E d \in Dates : nights[d] # None /\ nights'[d] = None) =>
              input' = "market"
       /\ \A a \in Apartments : apartments[a] # None /\ apartments'[a] = None =>
            /\ Cardinality(KnownApartments) = Cap
            /\ \A b \in KnownApartments :
                  apartments[a].updatedAt <= apartments[b].updatedAt
            /\ \A b \in KnownApartments \ {a} : apartments'[b] # None]_vars

\* Spec 04 section 7: an entry that stays untouched is eventually reported.
SilenceIsReported ==
    /\ \A a \in Apartments : \A tick \in 0 .. MaxTime :
          apartmentDeadlines[a] = tick ~>
              (apartmentDeadlines[a] # tick \/ a \in staleApartments)
    /\ \A d \in Dates : \A tick \in 0 .. MaxTime :
          nightDeadlines[d] = tick ~>
              (nightDeadlines[d] # tick \/ d \in staleNights)
=============================================================================
