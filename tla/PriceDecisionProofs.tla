------------------------ MODULE PriceDecisionProofs ------------------------
(***************************************************************************)
(* Proofs about PriceDecision for every value of its constants.            *)
(***************************************************************************)
EXTENDS PriceDecision, FiniteSetTheorems, WellFoundedInduction, TLAPS

\* apply_guardrails() returns one of the three rules, whatever the amounts.
LEMMA RuleType ==
    ASSUME NEW q, NEW n
    PROVE  DecidePrice(q, n).rule \in RuleApplied
BY DEF DecidePrice, ApplyGuardrails, RuleApplied

\* classify_viability() returns one of its statuses for a Stage B decision.
LEMMA ViabilityType ==
    ASSUME NEW rule, NEW below, NEW stay, NEW any, NEW days
    PROVE  ClassifyViability(rule, below, stay, any, FALSE, days)
               \in ViabilityStatus
BY DEF ClassifyViability, ViabilityStatus

\* A tick of the clock has a day number.
LEMMA DayType ==
    ASSUME NEW tick \in Nat
    PROVE  DayOf(tick) \in Nat
BY PriceDecisionAssumption DEF DayOf

\* The streak a decision leaves is a day or nothing, and it is nothing exactly
\* when the market clears the floor.
LEMMA BreachSinceType ==
    ASSUME NEW rule, NEW since \in Nat \cup {None}, NEW day \in Nat
    PROVE  /\ NewFloorBreachSince(rule, since, day) \in Nat \cup {None}
           /\ NewFloorBreachSince(rule, since, day) = None
                <=> rule = "market_competitive"
BY NoneAssumption DEF NewFloorBreachSince

\* What _build_price_decision() returns: the inputs it was called with, and a
\* streak that agrees with the rule it applied.
LEMMA DecisionFacts ==
    ASSUME NEW cost \in CostAggregate, NEW night \in NightSnapshot,
           NEW date, NEW since \in Nat \cup {None}, NEW at \in Nat
    PROVE  LET decision == BuildPriceDecision(cost, night, date, since, at)
           IN  /\ decision \in Decision
               /\ decision.cost = cost
               /\ decision.night = night
               /\ decision.decidedAt = at
               /\ decision.floorBreachSince = None
                    <=> decision.rule = "market_competitive"
               /\ decision.floorBreachSince \in Nat \cup {None}
<1> DEFINE c == cost.profile
           q == PricingInput(c, night.blended.rate, date - DayOf(at))
           rule == DecidePrice(q, 1).rule
           newSince == NewFloorBreachSince(rule, since, DayOf(at))
           days == IF newSince = None THEN 0 ELSE DayOf(at) - newSince
           decision == BuildPriceDecision(cost, night, date, since, at)
<1>1. DayOf(at) \in Nat
  BY DayType
<1>2. rule \in RuleApplied
  BY RuleType
<1>3. newSince \in Nat \cup {None} /\ (newSince = None <=> rule = "market_competitive")
  BY <1>1, BreachSinceType
<1>4. days \in Int
  BY <1>1, <1>3
<1>5. \E v \in ViabilityStatus :
          decision = [cost |-> cost, night |-> night, decidedAt |-> at,
                      rule |-> rule, floorBreachSince |-> newSince,
                      floorBreachDays |-> days, viability |-> v]
  <2> DEFINE v == Viability(q, c, ChannelRates(night), days)
  <2>1. v \in ViabilityStatus
    BY ViabilityType DEF Viability
  <2>2. decision = [cost |-> cost, night |-> night, decidedAt |-> at,
                    rule |-> rule, floorBreachSince |-> newSince,
                    floorBreachDays |-> days, viability |-> v]
    BY DEF BuildPriceDecision
  <2>3. QED
    BY <2>1, <2>2
<1>6. QED
  <2> HIDE DEF decision, rule, newSince, days
  <2>1. PICK v \in ViabilityStatus :
          decision = [cost |-> cost, night |-> night, decidedAt |-> at,
                      rule |-> rule, floorBreachSince |-> newSince,
                      floorBreachDays |-> days, viability |-> v]
    BY <1>5
  <2>2. decision \in Decision
    BY <1>2, <1>3, <1>4, <2>1 DEF Decision
  <2>3. /\ decision.cost = cost
        /\ decision.night = night
        /\ decision.decidedAt = at
        /\ decision.floorBreachSince = None <=> decision.rule = "market_competitive"
        /\ decision.floorBreachSince \in Nat \cup {None}
    BY <1>3, <2>1
  <2>4. QED
    BY <2>2, <2>3 DEF decision

-----------------------------------------------------------------------------
(* What a step can be *)

\* The state the handlers keep; the clock and the ghost input are not in it.
segmentState == <<apartments, nights, apartmentDeadlines, nightDeadlines,
                  floorBreachSince, timers, latest, staleApartments,
                  staleNights>>

CostAccepted ==
    \E a \in Apartments, cost \in CostAggregate, evicted \in SUBSET Apartments :
        /\ evicted \in Evictions(a)
        /\ AcceptCost(a, cost, evicted)

MarketAccepted ==
    \E date \in Dates, platform \in Channels \cup {None},
       snapshot \in MarketSnapshot, t \in Nat :
        /\ t >= now
        /\ AcceptMarket(date, platform, snapshot, t)

NothingHandled ==
    /\ now' \in Nat
    /\ now' >= now
    /\ UNCHANGED segmentState

\* Every step accepts a cost, accepts a market price, fires a timer, or leaves
\* the state of the segment as it is (the clock, and the discarded inputs).
LEMMA StepCases ==
    ASSUME TypeOK, [Next]_vars
    PROVE  \/ CostAccepted
           \/ MarketAccepted
           \/ \E timestamp \in timers : OnTimer(timestamp)
           \/ NothingHandled
<1>1. now \in Nat /\ 0 .. now \subseteq Nat
  BY DEF TypeOK
<1>2. CASE CostArrives
  <2>1. PICK a \in Apartments, profile \in CostProfiles, at \in 0 .. now :
            ProcessElement1(a, [profile |-> profile, updatedAt |-> at])
    BY <1>2 DEF CostArrives
  <2> DEFINE cost == [profile |-> profile, updatedAt |-> at]
  <2>2. cost \in CostAggregate
    BY <1>1 DEF CostAggregate
  <2> HIDE DEF cost
  <2>3. CASE \E evicted \in Evictions(a) : AcceptCost(a, cost, evicted)
    <3>1. PICK evicted \in Evictions(a) : AcceptCost(a, cost, evicted)
      BY <2>3
    <3>2. DOMAIN apartments = Apartments
      BY DEF TypeOK
    <3>3. evicted \in SUBSET Apartments
      BY <3>1, <3>2 DEF Evictions, OldestKeys
    <3>4. QED
      BY <2>2, <3>1, <3>3 DEF CostAccepted
  <2>4. CASE UNCHANGED <<now, apartments, nights, apartmentDeadlines,
                         nightDeadlines, floorBreachSince, timers, latest,
                         staleApartments, staleNights>>
    BY <1>1, <2>4 DEF NothingHandled, segmentState
  <2>5. QED
    BY <2>1, <2>3, <2>4 DEF ProcessElement1, cost
<1>3. CASE MarketArrives
  <2>1. PICK date \in Dates, platform \in Channels \cup {None}, rate \in Rates,
             at \in 0 .. now :
            ProcessElement2(date, platform, [rate |-> rate, collectedAt |-> at])
    BY <1>3 DEF MarketArrives
  <2> DEFINE snapshot == [rate |-> rate, collectedAt |-> at]
  <2>2. snapshot \in MarketSnapshot
    BY <1>1 DEF MarketSnapshot
  <2> HIDE DEF snapshot
  <2>3. CASE \E t \in now .. Smaller(now + HandlerTicks, MaxTime) :
                 AcceptMarket(date, platform, snapshot, t)
    <3>1. PICK t \in now .. Smaller(now + HandlerTicks, MaxTime) :
              AcceptMarket(date, platform, snapshot, t)
      BY <2>3
    <3>2. t \in Nat /\ t >= now
      BY <1>1, <3>1, PriceDecisionAssumption DEF Smaller
    <3>3. QED
      BY <2>2, <3>1, <3>2 DEF MarketAccepted
  <2>4. CASE UNCHANGED <<now, apartments, nights, apartmentDeadlines,
                         nightDeadlines, floorBreachSince, timers, latest,
                         staleApartments, staleNights>>
    BY <1>1, <2>4 DEF NothingHandled, segmentState
  <2>5. QED
    BY <2>1, <2>3, <2>4 DEF ProcessElement2, snapshot
<1>4. CASE TimerFires
  BY <1>4 DEF TimerFires
<1>5. CASE Tick
  BY <1>1, <1>5 DEF Tick, NothingHandled, segmentState
<1>6. CASE UNCHANGED vars
  BY <1>1, <1>6 DEF vars, NothingHandled, segmentState
<1>7. QED
  BY <1>2, <1>3, <1>4, <1>5, <1>6 DEF Next

\* The ghost that names the last input handled.
LEMMA InputType ==
    ASSUME TypeOK, [Next]_vars
    PROVE  input' \in {"none", "cost", "market", "timer", "clock"}
BY DEF TypeOK, Next, CostArrives, ProcessElement1, MarketArrives,
       ProcessElement2, TimerFires, OnTimer, Tick, vars

\* Merging one sub-snapshot into a stored night gives a night.
LEMMA MergedNightType ==
    ASSUME NEW night \in NightSnapshot \cup {None},
           NEW platform \in Channels \cup {None},
           NEW snapshot \in MarketSnapshot
    PROVE  MergedNight(night, platform, snapshot) \in NightSnapshot
BY DEF MergedNight, NightSnapshot

-----------------------------------------------------------------------------
(* Type correctness *)

\* What a cost event writes for the apartment a and the nights already priced.
LEMMA CostDecisions ==
    ASSUME TypeOK, NEW a \in Apartments, NEW cost \in CostAggregate,
           NEW evicted, AcceptCost(a, cost, evicted),
           NEW d \in Dates, Priced(nights[d])
    PROVE  /\ latest'[a][d] \in Decision
           /\ latest'[a][d].cost = cost
           /\ latest'[a][d].night = nights[d]
           /\ latest'[a][d].floorBreachSince = None
                <=> latest'[a][d].rule = "market_competitive"
           /\ latest'[a][d].floorBreachSince \in Nat \cup {None}
           /\ floorBreachSince'[a][d] = latest'[a][d].floorBreachSince
<1> DEFINE since == KeptSince(a, d, evicted, {})
<1>1. latest'[a][d] = BuildPriceDecision(cost, nights[d], d, since, now)
  BY DEF AcceptCost
<1>2. since \in Nat \cup {None} /\ now \in Nat
  BY DEF TypeOK, KeptSince
<1>3. nights[d] \in NightSnapshot
  BY DEF TypeOK, Priced
<1>4. floorBreachSince'[a][d] = latest'[a][d].floorBreachSince
  BY DEF AcceptCost
<1> HIDE DEF since
<1>5. QED
  BY <1>1, <1>2, <1>3, <1>4, DecisionFacts

\* What a market event writes for its date and the apartments already known.
LEMMA MarketDecisions ==
    ASSUME TypeOK, NEW date \in Dates, NEW platform \in Channels \cup {None},
           NEW snapshot \in MarketSnapshot, NEW t \in Nat,
           AcceptMarket(date, platform, snapshot, t),
           NEW a \in Apartments, apartments[a] # None,
           Priced(nights'[date])
    PROVE  /\ latest'[a][date] \in Decision
           /\ latest'[a][date].cost = apartments[a]
           /\ latest'[a][date].night = nights'[date]
           /\ latest'[a][date].floorBreachSince = None
                <=> latest'[a][date].rule = "market_competitive"
           /\ latest'[a][date].floorBreachSince \in Nat \cup {None}
           /\ floorBreachSince'[a][date] = latest'[a][date].floorBreachSince
<1> DEFINE night == MergedNight(nights[date], platform, snapshot)
           since == KeptSince(a, date, {}, ExpiredNightKeys(DayOf(t)))
<1>1. nights'[date] = night
  BY DEF AcceptMarket
<1>2. night \in NightSnapshot
  BY MergedNightType DEF TypeOK
<1>3. latest'[a][date] = BuildPriceDecision(apartments[a], night, date, since, t)
  BY <1>1 DEF AcceptMarket, Repriced
<1>4. since \in Nat \cup {None}
  BY DEF TypeOK, KeptSince
<1>5. apartments[a] \in CostAggregate
  BY DEF TypeOK
<1>6. floorBreachSince'[a][date] = latest'[a][date].floorBreachSince
  BY <1>1 DEF AcceptMarket, Repriced, KeptSince
<1> DEFINE decision == BuildPriceDecision(apartments[a], night, date, since, t)
<1> HIDE DEF since, night
<1>7. /\ decision \in Decision
      /\ decision.cost = apartments[a]
      /\ decision.night = night
      /\ decision.floorBreachSince = None
           <=> decision.rule = "market_competitive"
      /\ decision.floorBreachSince \in Nat \cup {None}
  BY <1>2, <1>4, <1>5, DecisionFacts
<1>8. QED
  BY <1>1, <1>3, <1>6, <1>7

LEMMA DeadlineType ==
    ASSUME NEW tick \in Nat
    PROVE  NextDeadline(tick) \in Nat /\ NextDeadline(tick) > tick
BY PriceDecisionAssumption DEF NextDeadline

LEMMA TypeInit == Init => TypeOK
BY DEF Init, TypeOK

LEMMA TypeStep ==
    ASSUME TypeOK, [Next]_vars
    PROVE  TypeOK'
<1>1. CASE CostAccepted
  <2>1. PICK a \in Apartments, cost \in CostAggregate,
             evicted \in SUBSET Apartments : AcceptCost(a, cost, evicted)
    BY <1>1 DEF CostAccepted
  <2>2. NextDeadline(now) \in Nat
    BY DeadlineType DEF TypeOK
  <2>3. /\ now' \in Nat
        /\ apartments' \in [Apartments -> CostAggregate \cup {None}]
        /\ nights' \in [Dates -> NightSnapshot \cup {None}]
        /\ apartmentDeadlines' \in [Apartments -> Nat \cup {None}]
        /\ nightDeadlines' \in [Dates -> Nat \cup {None}]
        /\ timers' \subseteq Nat
        /\ staleApartments' \subseteq Apartments
        /\ staleNights' \subseteq Dates
    BY <2>1, <2>2 DEF AcceptCost, Watched, TypeOK
  <2>4. latest' \in [Apartments -> [Dates -> Decision \cup {None}]]
    <3>1. \A b \in Apartments, d \in Dates :
              latest'[b][d] \in Decision \cup {None}
      <4>1. SUFFICES ASSUME NEW b \in Apartments, NEW d \in Dates
                     PROVE  latest'[b][d] \in Decision \cup {None}
        OBVIOUS
      <4>2. CASE b = a /\ Priced(nights[d])
        BY <2>1, <4>2, CostDecisions
      <4>3. CASE ~(b = a /\ Priced(nights[d]))
        <5>1. latest'[b][d] = latest[b][d]
          BY <2>1, <4>3 DEF AcceptCost
        <5>2. QED
          BY <5>1 DEF TypeOK
      <4>4. QED
        BY <4>2, <4>3
    <3>2. /\ latest' = [b \in Apartments |-> latest'[b]]
          /\ \A b \in Apartments : latest'[b] = [d \in Dates |-> latest'[b][d]]
      BY <2>1 DEF AcceptCost
    <3>3. QED
      BY <3>1, <3>2
  <2>5. floorBreachSince' \in [Apartments -> [Dates -> Nat \cup {None}]]
    <3>1. \A b \in Apartments, d \in Dates :
              floorBreachSince'[b][d] \in Nat \cup {None}
      <4>1. SUFFICES ASSUME NEW b \in Apartments, NEW d \in Dates
                     PROVE  floorBreachSince'[b][d] \in Nat \cup {None}
        OBVIOUS
      <4>2. CASE b = a /\ Priced(nights[d])
        BY <2>1, <4>2, CostDecisions
      <4>3. CASE ~(b = a /\ Priced(nights[d]))
        <5>1. floorBreachSince'[b][d] \in {floorBreachSince[b][d], None}
          BY <2>1, <4>3 DEF AcceptCost, KeptSince
        <5>2. QED
          BY <5>1 DEF TypeOK
      <4>4. QED
        BY <4>2, <4>3
    <3>2. /\ floorBreachSince' = [b \in Apartments |-> floorBreachSince'[b]]
          /\ \A b \in Apartments :
                floorBreachSince'[b] = [d \in Dates |-> floorBreachSince'[b][d]]
      BY <2>1 DEF AcceptCost
    <3>3. QED
      BY <3>1, <3>2
  <2>6. QED
    BY <2>3, <2>4, <2>5, InputType DEF TypeOK
<1>2. CASE MarketAccepted
  <2>1. PICK date \in Dates, platform \in Channels \cup {None},
             snapshot \in MarketSnapshot, t \in Nat :
                 t >= now /\ AcceptMarket(date, platform, snapshot, t)
    BY <1>2 DEF MarketAccepted
  <2>2. NextDeadline(t) \in Nat
    BY DeadlineType
  <2>3. MergedNight(nights[date], platform, snapshot) \in NightSnapshot
    BY MergedNightType DEF TypeOK
  <2>4. /\ now' \in Nat
        /\ apartments' \in [Apartments -> CostAggregate \cup {None}]
        /\ nights' \in [Dates -> NightSnapshot \cup {None}]
        /\ apartmentDeadlines' \in [Apartments -> Nat \cup {None}]
        /\ nightDeadlines' \in [Dates -> Nat \cup {None}]
        /\ timers' \subseteq Nat
        /\ staleApartments' \subseteq Apartments
        /\ staleNights' \subseteq Dates
    BY <2>1, <2>2, <2>3 DEF AcceptMarket, Watched, TypeOK
  <2> DEFINE repriced(a, d) == d = date /\ Priced(nights'[date])
                                  /\ apartments[a] # None
  <2>5. nights'[date] = MergedNight(nights[date], platform, snapshot)
    BY <2>1 DEF AcceptMarket
  <2>6. latest' \in [Apartments -> [Dates -> Decision \cup {None}]]
    <3>1. \A a \in Apartments, d \in Dates :
              latest'[a][d] \in Decision \cup {None}
      <4>1. SUFFICES ASSUME NEW a \in Apartments, NEW d \in Dates
                     PROVE  latest'[a][d] \in Decision \cup {None}
        OBVIOUS
      <4>2. CASE repriced(a, d)
        BY <2>1, <4>2, MarketDecisions
      <4>3. CASE ~repriced(a, d)
        <5>1. latest'[a][d] = latest[a][d]
          BY <2>1, <2>5, <4>3 DEF AcceptMarket, Repriced
        <5>2. QED
          BY <5>1 DEF TypeOK
      <4>4. QED
        BY <4>2, <4>3
    <3>2. /\ latest' = [a \in Apartments |-> latest'[a]]
          /\ \A a \in Apartments : latest'[a] = [d \in Dates |-> latest'[a][d]]
      BY <2>1 DEF AcceptMarket
    <3>3. QED
      BY <3>1, <3>2
  <2>7. floorBreachSince' \in [Apartments -> [Dates -> Nat \cup {None}]]
    <3>1. \A a \in Apartments, d \in Dates :
              floorBreachSince'[a][d] \in Nat \cup {None}
      <4>1. SUFFICES ASSUME NEW a \in Apartments, NEW d \in Dates
                     PROVE  floorBreachSince'[a][d] \in Nat \cup {None}
        OBVIOUS
      <4>2. CASE repriced(a, d)
        BY <2>1, <4>2, MarketDecisions
      <4>3. CASE ~repriced(a, d)
        <5>1. floorBreachSince'[a][d] \in {floorBreachSince[a][d], None}
          BY <2>1, <2>5, <4>3 DEF AcceptMarket, Repriced, KeptSince
        <5>2. QED
          BY <5>1 DEF TypeOK
      <4>4. QED
        BY <4>2, <4>3
    <3>2. /\ floorBreachSince' = [a \in Apartments |-> floorBreachSince'[a]]
          /\ \A a \in Apartments :
                floorBreachSince'[a] = [d \in Dates |-> floorBreachSince'[a][d]]
      BY <2>1 DEF AcceptMarket
    <3>3. QED
      BY <3>1, <3>2
  <2>8. QED
    BY <2>4, <2>6, <2>7, InputType DEF TypeOK
<1>3. CASE \E timestamp \in timers : OnTimer(timestamp)
  BY <1>3, InputType DEF OnTimer, ExpiredKeys, TypeOK
<1>4. CASE NothingHandled
  BY <1>4, InputType DEF NothingHandled, segmentState, TypeOK
<1>5. QED
  BY <1>1, <1>2, <1>3, <1>4, StepCases

\* The state of a segment has the shape its descriptors give it, for any
\* number of apartments, nights and channels and any pricing data.
THEOREM TypeCorrect == Spec => []TypeOK
<1>1. Init => TypeOK
  BY TypeInit
<1>2. TypeOK /\ [Next]_vars => TypeOK'
  BY TypeStep
<1>3. QED
  BY <1>1, <1>2, PTL DEF Spec

-----------------------------------------------------------------------------
(* The cross-join and its streaks *)

\* The three facts about a pair are inductive together.
PairInv == StreaksBelongToKnownPairs /\ JoinIsCurrent /\ StreakMatchesLastDecision

\* The same three facts, for one pair.
PairOK(a, d) ==
    /\ floorBreachSince[a][d] # None => apartments[a] # None /\ Priced(nights[d])
    /\ apartments[a] # None /\ Priced(nights[d]) =>
          /\ latest[a][d] # None
          /\ latest[a][d].cost = apartments[a]
          /\ latest[a][d].night = nights[d]
          /\ floorBreachSince[a][d] = latest[a][d].floorBreachSince
          /\ floorBreachSince[a][d] = None
                <=> latest[a][d].rule = "market_competitive"

LEMMA PairwiseInv ==
    PairInv <=> \A a \in Apartments, d \in Dates : PairOK(a, d)
BY DEF PairInv, PairOK, StreaksBelongToKnownPairs, JoinIsCurrent,
       StreakMatchesLastDecision

\* A stored cost, snapshot, night or decision is not the absent value.
LEMMA NothingStoredIsNone ==
    /\ \A cost \in CostAggregate : cost # None
    /\ \A snapshot \in MarketSnapshot : snapshot # None
    /\ \A night \in NightSnapshot : night # None
    /\ \A decision \in Decision : decision # None
BY NoneAssumption

\* A priced night stays priced when one of its sub-snapshots is replaced.
LEMMA MergedNightPriced ==
    ASSUME NEW night \in NightSnapshot, NEW platform \in Channels \cup {None},
           NEW snapshot \in MarketSnapshot, Priced(night)
    PROVE  Priced(MergedNight(night, platform, snapshot))
<1> DEFINE merged == MergedNight(night, platform, snapshot)
<1>1. merged \in NightSnapshot
  BY MergedNightType
<1>2. merged # None
  BY <1>1, NothingStoredIsNone
<1>3. merged.blended # None
  BY NothingStoredIsNone DEF MergedNight, Priced
<1>4. QED
  BY <1>2, <1>3 DEF Priced

\* An accepted cost leaves every pair right: it reprices the apartment's priced
\* nights, drops the streaks of the evicted and touches no other pair.
LEMMA CostKeepsPairs ==
    ASSUME TypeOK, PairInv, CostAccepted, NEW b \in Apartments, NEW d \in Dates
    PROVE  PairOK(b, d)'
<1>1. PICK a \in Apartments, cost \in CostAggregate,
           evicted \in SUBSET Apartments : AcceptCost(a, cost, evicted)
  BY DEF CostAccepted
<1>2. PairOK(b, d)
  BY PairwiseInv
<1>3. nights' = nights
  BY <1>1 DEF AcceptCost
<1>4. CASE b = a /\ Priced(nights[d])
  <2>1. /\ apartments'[b] = cost
        /\ apartments'[b] # None
        /\ Priced(nights'[d])
    BY <1>1, <1>3, <1>4, NothingStoredIsNone DEF AcceptCost
  <2>2. /\ latest'[b][d] \in Decision
        /\ latest'[b][d].cost = cost
        /\ latest'[b][d].night = nights'[d]
        /\ latest'[b][d].floorBreachSince = None
             <=> latest'[b][d].rule = "market_competitive"
        /\ floorBreachSince'[b][d] = latest'[b][d].floorBreachSince
    BY <1>1, <1>3, <1>4, CostDecisions
  <2>3. QED
    BY <2>1, <2>2, NothingStoredIsNone DEF PairOK, Priced
<1>5. CASE b = a /\ ~Priced(nights[d])
  <2>1. floorBreachSince'[b][d] \in {floorBreachSince[b][d], None}
    BY <1>1, <1>5 DEF AcceptCost, KeptSince
  <2>2. floorBreachSince[b][d] = None
    BY <1>2, <1>5 DEF PairOK
  <2>3. QED
    BY <1>3, <1>5, <2>1, <2>2 DEF PairOK, Priced
<1>6. CASE b # a /\ b \in evicted
  <2>1. apartments'[b] = None /\ floorBreachSince'[b][d] = None
    BY <1>1, <1>6 DEF AcceptCost, KeptSince
  <2>2. QED
    BY <2>1 DEF PairOK
<1>7. CASE b # a /\ b \notin evicted
  <2>1. /\ apartments'[b] = apartments[b]
        /\ floorBreachSince'[b][d] = floorBreachSince[b][d]
        /\ latest'[b][d] = latest[b][d]
    BY <1>1, <1>7 DEF AcceptCost, KeptSince
  <2>2. QED
    BY <1>2, <1>3, <2>1 DEF PairOK, Priced
<1>8. QED
  BY <1>4, <1>5, <1>6, <1>7

\* An accepted market price leaves every pair right: it reprices its date for
\* the apartments known and drops the nights that are past with their streaks.
LEMMA MarketKeepsPairs ==
    ASSUME TypeOK, PairInv, MarketAccepted, NEW a \in Apartments, NEW d \in Dates
    PROVE  PairOK(a, d)'
<1>1. PICK date \in Dates, platform \in Channels \cup {None},
           snapshot \in MarketSnapshot, t \in Nat :
               AcceptMarket(date, platform, snapshot, t)
  BY DEF MarketAccepted
<1> DEFINE night == MergedNight(nights[date], platform, snapshot)
           expired == ExpiredNightKeys(DayOf(t))
<1>2. PairOK(a, d)
  BY PairwiseInv
<1>3. apartments' = apartments
  BY <1>1 DEF AcceptMarket
<1>4. nights'[date] = night
  BY <1>1 DEF AcceptMarket
<1>5. CASE d = date /\ Priced(night) /\ apartments[a] # None
  <2>1. Priced(nights'[d]) /\ apartments'[a] # None
    BY <1>3, <1>4, <1>5
  <2>2. /\ latest'[a][d] \in Decision
        /\ latest'[a][d].cost = apartments'[a]
        /\ latest'[a][d].night = nights'[d]
        /\ latest'[a][d].floorBreachSince = None
             <=> latest'[a][d].rule = "market_competitive"
        /\ floorBreachSince'[a][d] = latest'[a][d].floorBreachSince
    BY <1>1, <1>3, <1>5, <2>1, MarketDecisions
  <2>3. latest'[a][d] # None
    BY <2>1, <2>2, NothingStoredIsNone DEF Decision, Priced
  <2>4. QED
    BY <2>1, <2>2, <2>3 DEF PairOK, Priced
<1>6. CASE ~(d = date /\ Priced(night) /\ apartments[a] # None)
  <2>1. /\ latest'[a][d] = latest[a][d]
        /\ floorBreachSince'[a][d] =
              IF d \in expired THEN None ELSE floorBreachSince[a][d]
    BY <1>1, <1>6 DEF AcceptMarket, Repriced, KeptSince
  <2> HIDE DEF night, expired
  <2>2. CASE apartments[a] = None
    BY <1>2, <1>3, <2>1, <2>2 DEF PairOK
  <2>3. CASE apartments[a] # None /\ d = date
    <3>1. ~Priced(nights'[d])
      BY <1>4, <1>6, <2>3
    <3>2. ~Priced(nights[d])
      <4>1. SUFFICES ASSUME Priced(nights[d]) PROVE FALSE
        OBVIOUS
      <4>2. nights[date] \in NightSnapshot
        BY <2>3, <4>1 DEF TypeOK, Priced
      <4>3. Priced(night)
        BY <2>3, <4>1, <4>2, MergedNightPriced DEF night
      <4>4. QED
        BY <1>6, <2>3, <4>3
    <3>3. floorBreachSince'[a][d] = None
      BY <1>2, <2>1, <3>2 DEF PairOK
    <3>4. QED
      BY <3>1, <3>3 DEF PairOK, Priced
  <2>4. CASE d # date
    <3>1. nights'[d] = IF d \in expired THEN None ELSE nights[d]
      BY <1>1, <2>4 DEF AcceptMarket, expired
    <3>2. QED
      BY <1>2, <1>3, <2>1, <3>1 DEF PairOK, Priced
  <2>5. QED
    BY <2>2, <2>3, <2>4
<1>7. QED
  BY <1>5, <1>6

LEMMA PairStep ==
    ASSUME TypeOK, PairInv, [Next]_vars
    PROVE  PairInv'
<1>1. SUFFICES ASSUME NEW a \in Apartments, NEW d \in Dates
               PROVE  PairOK(a, d)'
  BY DEF PairInv, PairOK, StreaksBelongToKnownPairs, JoinIsCurrent,
         StreakMatchesLastDecision
<1>2. PairOK(a, d)
  BY PairwiseInv
<1>3. CASE CostAccepted
  BY <1>3, CostKeepsPairs
<1>4. CASE MarketAccepted
  BY <1>4, MarketKeepsPairs
<1>5. CASE \E timestamp \in timers : OnTimer(timestamp)
  BY <1>2, <1>5 DEF OnTimer, PairOK, Priced
<1>6. CASE NothingHandled
  BY <1>2, <1>6 DEF NothingHandled, segmentState, PairOK, Priced
<1>7. QED
  BY <1>3, <1>4, <1>5, <1>6, StepCases

LEMMA PairInit == Init => PairInv
BY DEF Init, PairInv, StreaksBelongToKnownPairs, JoinIsCurrent,
       StreakMatchesLastDecision, Priced

LEMMA PairCorrect == Spec => []PairInv
<1>1. Init => PairInv
  BY PairInit
<1>2. TypeOK /\ PairInv /\ [Next]_vars => PairInv'
  BY PairStep
<1>3. QED
  BY <1>1, <1>2, TypeCorrect, PTL DEF Spec

\* No streak outlives its apartment's eviction or its night's sweep.
THEOREM StreaksCorrect == Spec => []StreaksBelongToKnownPairs
<1>1. PairInv => StreaksBelongToKnownPairs
  BY DEF PairInv
<1>2. QED
  BY <1>1, PairCorrect, PTL

\* The cross-join never misses a pair: whatever the order in which costs and
\* prices arrive, the last decision of a known pair is computed from both as
\* they are now in state.
THEOREM JoinCorrect == Spec => []JoinIsCurrent
<1>1. PairInv => JoinIsCurrent
  BY DEF PairInv
<1>2. QED
  BY <1>1, PairCorrect, PTL

\* The streak in state is the one last reported.
THEOREM StreakReportCorrect == Spec => []StreakMatchesLastDecision
<1>1. PairInv => StreakMatchesLastDecision
  BY DEF PairInv
<1>2. QED
  BY <1>1, PairCorrect, PTL

-----------------------------------------------------------------------------
(* The watchdog *)

\* What reports an entry is the timer registered at its deadline: it waits in
\* timers for an entry not reported, and is gone for a reported one.
TimerBacked ==
    /\ \A a \in KnownApartments :
          IF a \in staleApartments
          THEN apartmentDeadlines[a] <= now /\ apartmentDeadlines[a] \notin timers
          ELSE apartmentDeadlines[a] \in timers
    /\ \A d \in KnownNights :
          IF d \in staleNights
          THEN nightDeadlines[d] <= now /\ nightDeadlines[d] \notin timers
          ELSE nightDeadlines[d] \in timers

\* The inductive invariant of the watchdog.
WatchdogInv == DeadlinesMirrorData /\ TimerBacked

LEMMA WatchdogInit == Init => WatchdogInv
BY DEF Init, WatchdogInv, DeadlinesMirrorData, TimerBacked,
       KnownApartments, KnownNights

\* An accepted cost gives its apartment a deadline later than any reported
\* one, so its new timer reports nothing that was reported before.
LEMMA CostKeepsWatchdog ==
    ASSUME TypeOK, WatchdogInv, CostAccepted
    PROVE  WatchdogInv'
<1>1. PICK a \in Apartments, cost \in CostAggregate,
           evicted \in SUBSET Apartments : AcceptCost(a, cost, evicted)
  BY DEF CostAccepted
<1>2. /\ NextDeadline(now) \in Nat
      /\ NextDeadline(now) > now
      /\ now' = now
  BY <1>1, DeadlineType DEF TypeOK, AcceptCost
<1>3. DeadlinesMirrorData'
  BY <1>1, <1>2, NothingStoredIsNone, NoneAssumption
     DEF WatchdogInv, DeadlinesMirrorData, AcceptCost, Watched, TypeOK
<1>4. ASSUME NEW b \in KnownApartments'
      PROVE  IF b \in staleApartments'
             THEN apartmentDeadlines'[b] <= now' /\ apartmentDeadlines'[b] \notin timers'
             ELSE apartmentDeadlines'[b] \in timers'
  <2>1. CASE b = a
    BY <1>1, <2>1 DEF AcceptCost, Watched, TypeOK
  <2>2. CASE b # a
    <3>1. /\ b \in KnownApartments
          /\ b \notin evicted
          /\ apartmentDeadlines'[b] = apartmentDeadlines[b]
          /\ b \in staleApartments' <=> b \in staleApartments
      BY <1>1, <2>2 DEF AcceptCost, Watched, KnownApartments, TypeOK
    <3>2. apartmentDeadlines[b] \in Nat /\ now \in Nat
      BY <3>1 DEF WatchdogInv, DeadlinesMirrorData, KnownApartments, TypeOK
    <3>3. timers' = timers \cup {NextDeadline(now)}
      BY <1>1 DEF AcceptCost
    <3>4. QED
      BY <1>2, <3>1, <3>2, <3>3 DEF WatchdogInv, TimerBacked
  <2>3. QED
    BY <2>1, <2>2
<1>5. ASSUME NEW d \in KnownNights'
      PROVE  IF d \in staleNights'
             THEN nightDeadlines'[d] <= now' /\ nightDeadlines'[d] \notin timers'
             ELSE nightDeadlines'[d] \in timers'
  <2>1. /\ d \in KnownNights
        /\ nightDeadlines' = nightDeadlines
        /\ staleNights' = staleNights
        /\ timers' = timers \cup {NextDeadline(now)}
    BY <1>1 DEF AcceptCost, KnownNights
  <2>2. nightDeadlines[d] \in Nat /\ now \in Nat
    BY <2>1 DEF WatchdogInv, DeadlinesMirrorData, KnownNights, TypeOK
  <2>3. QED
    BY <1>2, <2>1, <2>2 DEF WatchdogInv, TimerBacked
<1>6. QED
  BY <1>3, <1>4, <1>5 DEF WatchdogInv, TimerBacked

\* The same for an accepted market price and its night.
LEMMA MarketKeepsWatchdog ==
    ASSUME TypeOK, WatchdogInv, MarketAccepted
    PROVE  WatchdogInv'
<1>1. PICK date \in Dates, platform \in Channels \cup {None},
           snapshot \in MarketSnapshot, t \in Nat :
               t >= now /\ AcceptMarket(date, platform, snapshot, t)
  BY DEF MarketAccepted
<1> DEFINE expired == ExpiredNightKeys(DayOf(t))
<1>2. /\ NextDeadline(t) \in Nat
      /\ NextDeadline(t) > t
      /\ now' = t /\ t >= now /\ now \in Nat
      /\ timers' = timers \cup {NextDeadline(t)}
  BY <1>1, DeadlineType DEF TypeOK, AcceptMarket
<1>3. nights'[date] # None
  <2>1. MergedNight(nights[date], platform, snapshot) \in NightSnapshot
    BY MergedNightType DEF TypeOK
  <2>2. QED
    BY <1>1, <2>1, NothingStoredIsNone DEF AcceptMarket
<1>4. ASSUME NEW d \in Dates
      PROVE  /\ d = date => nightDeadlines'[d] = NextDeadline(t)
             /\ d # date => nightDeadlines'[d] =
                    IF d \in expired THEN None ELSE nightDeadlines[d]
             /\ d # date => nights'[d] = IF d \in expired THEN None ELSE nights[d]
  BY <1>1 DEF AcceptMarket, Watched, TypeOK
<1>5. apartments' = apartments /\ apartmentDeadlines' = apartmentDeadlines
      /\ staleApartments' = staleApartments
      /\ staleNights' = staleNights \ ({date} \cup expired)
  BY <1>1 DEF AcceptMarket
<1> HIDE DEF expired
<1>6. DeadlinesMirrorData'
  BY <1>2, <1>3, <1>4, <1>5, NoneAssumption DEF WatchdogInv, DeadlinesMirrorData
<1>7. ASSUME NEW a \in KnownApartments'
      PROVE  IF a \in staleApartments'
             THEN apartmentDeadlines'[a] <= now' /\ apartmentDeadlines'[a] \notin timers'
             ELSE apartmentDeadlines'[a] \in timers'
  <2>1. a \in KnownApartments
    BY <1>5 DEF KnownApartments
  <2>2. apartmentDeadlines[a] \in Nat
    BY <2>1 DEF WatchdogInv, DeadlinesMirrorData, KnownApartments, TypeOK
  <2>3. QED
    BY <1>2, <1>5, <2>1, <2>2 DEF WatchdogInv, TimerBacked
<1>8. ASSUME NEW d \in KnownNights'
      PROVE  IF d \in staleNights'
             THEN nightDeadlines'[d] <= now' /\ nightDeadlines'[d] \notin timers'
             ELSE nightDeadlines'[d] \in timers'
  <2>1. CASE d = date
    BY <1>2, <1>4, <1>5, <2>1 DEF KnownNights
  <2>2. CASE d # date
    <3>1. /\ d \in KnownNights
          /\ d \notin expired
          /\ nightDeadlines'[d] = nightDeadlines[d]
      BY <1>4, <2>2 DEF KnownNights
    <3>2. nightDeadlines[d] \in Nat
      BY <3>1 DEF WatchdogInv, DeadlinesMirrorData, KnownNights, TypeOK
    <3>3. QED
      BY <1>2, <1>5, <2>2, <3>1, <3>2 DEF WatchdogInv, TimerBacked
  <2>3. QED
    BY <2>1, <2>2
<1>9. QED
  BY <1>6, <1>7, <1>8 DEF WatchdogInv, TimerBacked

\* A timer that fires reports the entries waiting for it, and no other does.
LEMMA TimerKeepsWatchdog ==
    ASSUME TypeOK, WatchdogInv, NEW timestamp \in timers, OnTimer(timestamp)
    PROVE  WatchdogInv'
<1>1. /\ timers' = timers \ {timestamp}
      /\ timestamp <= now
      /\ staleApartments' =
            staleApartments \cup ExpiredKeys(apartmentDeadlines, timestamp)
      /\ staleNights' = staleNights \cup ExpiredKeys(nightDeadlines, timestamp)
      /\ UNCHANGED <<now, apartments, nights, apartmentDeadlines, nightDeadlines>>
  BY DEF OnTimer
<1>2. DeadlinesMirrorData'
  BY <1>1 DEF WatchdogInv, DeadlinesMirrorData
<1>3. /\ DOMAIN apartmentDeadlines = Apartments
      /\ DOMAIN nightDeadlines = Dates
  BY DEF TypeOK
<1>4. TimerBacked'
  BY <1>1, <1>3 DEF WatchdogInv, TimerBacked, ExpiredKeys,
                    KnownApartments, KnownNights
<1>5. QED
  BY <1>2, <1>4 DEF WatchdogInv

LEMMA WatchdogStep ==
    ASSUME TypeOK, WatchdogInv, [Next]_vars
    PROVE  WatchdogInv'
<1>1. CASE CostAccepted
  BY <1>1, CostKeepsWatchdog
<1>2. CASE MarketAccepted
  BY <1>2, MarketKeepsWatchdog
<1>3. CASE \E timestamp \in timers : OnTimer(timestamp)
  BY <1>3, TimerKeepsWatchdog
<1>4. CASE NothingHandled
  <2>1. /\ UNCHANGED <<apartments, nights, apartmentDeadlines, nightDeadlines,
                       timers, staleApartments, staleNights>>
        /\ now' \in Nat /\ now' >= now /\ now \in Nat
    BY <1>4 DEF NothingHandled, segmentState, TypeOK
  <2>2. DeadlinesMirrorData'
    BY <2>1 DEF WatchdogInv, DeadlinesMirrorData
  <2>3. /\ \A a \in KnownApartments : apartmentDeadlines[a] \in Nat
        /\ \A d \in KnownNights : nightDeadlines[d] \in Nat
    BY DEF WatchdogInv, DeadlinesMirrorData, KnownApartments, KnownNights, TypeOK
  <2>4. TimerBacked'
    BY <2>1, <2>3 DEF WatchdogInv, TimerBacked, KnownApartments, KnownNights
  <2>5. QED
    BY <2>2, <2>4 DEF WatchdogInv
<1>5. QED
  BY <1>1, <1>2, <1>3, <1>4, StepCases

LEMMA WatchdogCorrect == Spec => []WatchdogInv
<1>1. Init => WatchdogInv
  BY WatchdogInit
<1>2. TypeOK /\ WatchdogInv /\ [Next]_vars => WatchdogInv'
  BY WatchdogStep
<1>3. QED
  BY <1>1, <1>2, TypeCorrect, PTL DEF Spec

\* No deadline outlives its data and no data goes unwatched.
THEOREM DeadlinesCorrect == Spec => []DeadlinesMirrorData
<1>1. WatchdogInv => DeadlinesMirrorData
  BY DEF WatchdogInv
<1>2. QED
  BY <1>1, WatchdogCorrect, PTL

\* An entry left untouched is reported by one timer, and by no other.
THEOREM ReportsCorrect == Spec => []ReportedAtMostOnce
<1>1. TypeOK /\ WatchdogInv => ReportedAtMostOnce
  BY DEF WatchdogInv, TimerBacked, ReportedAtMostOnce, ExpiredKeys, TypeOK,
         KnownApartments, KnownNights
<1>2. QED
  BY <1>1, TypeCorrect, WatchdogCorrect, PTL

-----------------------------------------------------------------------------
(* Capacity *)

LEMMA KnownIsFinite ==
    /\ IsFiniteSet(KnownApartments)
    /\ Cardinality(KnownApartments) \in Nat
<1>1. KnownApartments \in SUBSET Apartments
  BY DEF KnownApartments
<1>2. QED
  BY <1>1, FS_Subset, FS_CardinalityType, PriceDecisionAssumption

\* A cost event that evicts does so for an apartment that is new to a full
\* segment, and drops one of its oldest entries.
LEMMA EvictionFacts ==
    ASSUME TypeOK, WithinCapacity, NEW a \in Apartments,
           NEW evicted \in Evictions(a), evicted # {}
    PROVE  /\ a \notin KnownApartments
           /\ Cardinality(KnownApartments) = Cap
           /\ \E oldest \in OldestKeys(apartments) : evicted = {oldest}
<1>1. PICK n \in {0, 1} :
          /\ n = (IF apartments[a] = None THEN 1 ELSE 0)
          /\ Cardinality(KnownApartments) + n > Cap
          /\ \E oldest \in OldestKeys(apartments) : evicted = {oldest}
  BY DEF Evictions, IsOverCapacity
<1>2. Cardinality(KnownApartments) <= Cap /\ Cap \in Nat
  BY PriceDecisionAssumption DEF WithinCapacity
<1>3. n = 1 /\ Cardinality(KnownApartments) = Cap
  BY <1>1, <1>2, KnownIsFinite
<1>4. QED
  BY <1>1, <1>3 DEF KnownApartments

\* A cost event that evicts nothing has room for its apartment.
LEMMA NoEvictionFacts ==
    ASSUME NEW a \in Apartments, {} \in Evictions(a)
    PROVE  Cardinality(KnownApartments)
             + (IF apartments[a] = None THEN 1 ELSE 0) <= Cap
BY KnownIsFinite, PriceDecisionAssumption DEF Evictions, IsOverCapacity

LEMMA CapacityStep ==
    ASSUME TypeOK, WithinCapacity, [Next]_vars
    PROVE  WithinCapacity'
<1>1. CASE CostAccepted
  <2>1. PICK a \in Apartments, cost \in CostAggregate,
             evicted \in SUBSET Apartments :
                 evicted \in Evictions(a) /\ AcceptCost(a, cost, evicted)
    BY <1>1 DEF CostAccepted
  <2>2. KnownApartments' = (KnownApartments \ evicted) \cup {a}
    BY <2>1, NothingStoredIsNone DEF AcceptCost, KnownApartments
  <2>3. CASE evicted = {}
    <3>1. KnownApartments' = KnownApartments \cup {a}
      BY <2>2, <2>3
    <3>2. Cardinality(KnownApartments') =
              IF a \in KnownApartments THEN Cardinality(KnownApartments)
              ELSE Cardinality(KnownApartments) + 1
      BY <3>1, KnownIsFinite, FS_AddElement
    <3>3. Cardinality(KnownApartments)
             + (IF apartments[a] = None THEN 1 ELSE 0) <= Cap
      BY <2>1, <2>3, NoEvictionFacts
    <3>4. a \in KnownApartments <=> apartments[a] # None
      BY DEF KnownApartments
    <3>5. QED
      BY <3>2, <3>3, <3>4, KnownIsFinite DEF WithinCapacity
  <2>4. CASE evicted # {}
    <3>1. PICK oldest \in OldestKeys(apartments) : evicted = {oldest}
      BY <2>1, <2>4, EvictionFacts
    <3>2. oldest \in KnownApartments
      BY <3>1 DEF OldestKeys, KnownApartments, TypeOK
    <3> DEFINE rest == KnownApartments \ {oldest}
    <3>3. IsFiniteSet(rest) /\ Cardinality(rest) = Cardinality(KnownApartments) - 1
      BY <3>2, KnownIsFinite, FS_RemoveElement
    <3>4. KnownApartments' = rest \cup {a}
      BY <2>2, <3>1
    <3> HIDE DEF rest
    <3>5. Cardinality(KnownApartments') \in {Cardinality(rest), Cardinality(rest) + 1}
      BY <3>3, <3>4, FS_AddElement
    <3>6. QED
      BY <3>3, <3>5, KnownIsFinite, PriceDecisionAssumption DEF WithinCapacity
  <2>5. QED
    BY <2>3, <2>4
<1>2. CASE MarketAccepted
  BY <1>2 DEF MarketAccepted, AcceptMarket, WithinCapacity, KnownApartments
<1>3. CASE \E timestamp \in timers : OnTimer(timestamp)
  BY <1>3 DEF OnTimer, WithinCapacity, KnownApartments
<1>4. CASE NothingHandled
  BY <1>4 DEF NothingHandled, segmentState, WithinCapacity, KnownApartments
<1>5. QED
  BY <1>1, <1>2, <1>3, <1>4, StepCases

\* However many apartments send costs, the segment keeps at most Cap of them.
THEOREM CapacityCorrect == Spec => []WithinCapacity
<1>1. Init => WithinCapacity
  <2>1. Init => KnownApartments = {}
    BY DEF Init, KnownApartments
  <2>2. QED
    BY <2>1, FS_EmptySet, PriceDecisionAssumption DEF WithinCapacity
<1>2. TypeOK /\ WithinCapacity /\ [Next]_vars => WithinCapacity'
  BY CapacityStep
<1>3. QED
  BY <1>1, <1>2, TypeCorrect, PTL DEF Spec

\* A cost event is never stuck for want of an entry to drop.
EvictionsPossible == \A a \in Apartments : Evictions(a) # {}

LEMMA OldestExists ==
    ASSUME TypeOK, KnownApartments # {}
    PROVE  OldestKeys(apartments) # {}
<1> DEFINE stamps == {apartments[a].updatedAt : a \in KnownApartments}
<1>1. ASSUME NEW a \in KnownApartments
      PROVE  apartments[a].updatedAt \in Nat
  BY DEF KnownApartments, TypeOK, CostAggregate
<1>2. stamps \subseteq Nat /\ stamps # {}
  BY <1>1
<1>3. PICK least \in stamps : \A t \in stamps : ~ (<<t, least>> \in OpToRel(<, Nat))
  <2> HIDE DEF stamps
  <2> QED
    BY <1>2, WFMin, NatLessThanWellFounded
<1>4. \A t \in stamps : ~ (t < least)
  BY <1>2, <1>3 DEF OpToRel
<1>5. PICK a \in KnownApartments : least = apartments[a].updatedAt
  BY <1>3
<1>6. \A b \in KnownApartments : apartments[a].updatedAt <= apartments[b].updatedAt
  BY <1>1, <1>4, <1>5
<1>7. DOMAIN apartments = Apartments
  BY DEF TypeOK
<1>8. a \in OldestKeys(apartments)
  BY <1>6, <1>7 DEF OldestKeys, KnownApartments
<1> QED
  BY <1>8

\* A segment over its capacity has an oldest entry: min() of eviction.py l.32 is
\* never taken of an empty map, whatever the order of costs and evictions.
THEOREM EvictionNeverFails == Spec => []EvictionsPossible
<1>1. TypeOK => EvictionsPossible
  <2> SUFFICES ASSUME TypeOK, NEW a \in Apartments
               PROVE  Evictions(a) # {}
    BY DEF EvictionsPossible
  <2> DEFINE extra == IF apartments[a] = None THEN 1 ELSE 0
  <2>1. CASE ~ IsOverCapacity(Cardinality(KnownApartments) + extra)
    BY <2>1 DEF Evictions
  <2>2. CASE IsOverCapacity(Cardinality(KnownApartments) + extra)
    <3>1. Cardinality(KnownApartments) # 0
      BY <2>2, KnownIsFinite, PriceDecisionAssumption DEF IsOverCapacity
    <3>2. KnownApartments # {}
      BY <3>1, FS_EmptySet
    <3>3. OldestKeys(apartments) # {}
      BY <3>2, OldestExists
    <3> QED
      BY <2>2, <3>3 DEF Evictions
  <2> QED
    BY <2>1, <2>2
<1> QED
  BY <1>1, TypeCorrect, PTL

-----------------------------------------------------------------------------
(* Out-of-order inputs *)

\* What NewestWins says of one step.
NewestWinsStep ==
    /\ \A a \in Apartments :
          apartments[a] # None /\ apartments'[a] # None =>
              apartments'[a].updatedAt >= apartments[a].updatedAt
    /\ \A d \in Dates, platform \in Channels \cup {None} :
          LET before == SubSnapshot(nights[d], platform)
              after == SubSnapshot(nights'[d], platform)
          IN  before # None /\ nights'[d] # None =>
                  /\ after # None
                  /\ after.collectedAt >= before.collectedAt

\* What is stored has a time stamp, and it is as new as itself.
LEMMA StampType ==
    ASSUME TypeOK
    PROVE  /\ \A a \in Apartments :
                 apartments[a] # None => apartments[a].updatedAt \in Nat
           /\ \A d \in Dates, platform \in Channels \cup {None} :
                 LET snapshot == SubSnapshot(nights[d], platform)
                 IN  snapshot # None => snapshot.collectedAt \in Nat
<1>1. \A a \in Apartments : apartments[a] # None => apartments[a].updatedAt \in Nat
  BY DEF TypeOK, CostAggregate
<1>2. ASSUME NEW d \in Dates, NEW platform \in Channels \cup {None},
             SubSnapshot(nights[d], platform) # None
      PROVE  SubSnapshot(nights[d], platform).collectedAt \in Nat
  <2>1. nights[d] \in NightSnapshot
    BY <1>2 DEF TypeOK, SubSnapshot
  <2>2. SubSnapshot(nights[d], platform) \in MarketSnapshot
    BY <1>2, <2>1 DEF SubSnapshot, NightSnapshot
  <2>3. QED
    BY <2>2 DEF MarketSnapshot
<1>3. QED
  BY <1>1, <1>2

\* A cost that is accepted is no older than the one it replaces.
LEMMA CostNewest ==
    ASSUME TypeOK, CostArrives
    PROVE  NewestWinsStep
<1>1. PICK a \in Apartments, profile \in CostProfiles, at \in 0 .. now :
          ProcessElement1(a, [profile |-> profile, updatedAt |-> at])
  BY DEF CostArrives
<1>2. nights' = nights
  BY <1>1 DEF ProcessElement1, AcceptCost
<1>3. ASSUME NEW b \in Apartments, apartments[b] # None, apartments'[b] # None
      PROVE  apartments'[b].updatedAt >= apartments[b].updatedAt
  <2>1. apartments[b].updatedAt \in Nat
    BY <1>3, StampType
  <2> DEFINE cost == [profile |-> profile, updatedAt |-> at]
  <2>2. CASE apartments' = apartments
    BY <2>1, <2>2
  <2>3. CASE /\ IsSafeToOverwrite(cost.updatedAt,
                    IF apartments[a] = None THEN None ELSE apartments[a].updatedAt)
             /\ \E evicted \in Evictions(a) : AcceptCost(a, cost, evicted)
    <3>1. CASE b = a
      <4>1. apartments'[b] = cost
        BY <2>3, <3>1 DEF AcceptCost
      <4>2. cost.updatedAt >= apartments[b].updatedAt
        BY <1>3, <2>1, <2>3, <3>1, NoneAssumption DEF IsSafeToOverwrite
      <4>3. QED
        BY <4>1, <4>2
    <3>2. CASE b # a
      <4>1. apartments'[b] = apartments[b]
        BY <1>3, <2>3, <3>2 DEF AcceptCost
      <4>2. QED
        BY <2>1, <4>1
    <3>3. QED
      BY <3>1, <3>2
  <2>4. QED
    BY <1>1, <2>2, <2>3 DEF ProcessElement1
<1>4. QED
  BY <1>2, <1>3, StampType DEF NewestWinsStep, SubSnapshot

\* A snapshot that is accepted is no older than the one it replaces, and
\* merging it leaves the others of its night as they were.
LEMMA MarketNewest ==
    ASSUME TypeOK, MarketArrives
    PROVE  NewestWinsStep
<1>1. PICK date \in Dates, platform \in Channels \cup {None}, rate \in Rates,
           at \in 0 .. now :
          ProcessElement2(date, platform, [rate |-> rate, collectedAt |-> at])
  BY DEF MarketArrives
<1>2. apartments' = apartments
  BY <1>1 DEF ProcessElement2, AcceptMarket
<1>3. ASSUME NEW d \in Dates, NEW p \in Channels \cup {None},
             SubSnapshot(nights[d], p) # None, nights'[d] # None
      PROVE  /\ SubSnapshot(nights'[d], p) # None
             /\ SubSnapshot(nights'[d], p).collectedAt
                    >= SubSnapshot(nights[d], p).collectedAt
  <2>1. SubSnapshot(nights[d], p).collectedAt \in Nat
    BY <1>3, StampType
  <2> DEFINE snapshot == [rate |-> rate, collectedAt |-> at]
             previous == SubSnapshot(nights[date], platform)
  <2>2. CASE nights' = nights
    BY <1>3, <2>1, <2>2
  <2>3. CASE /\ IsSafeToOverwrite(snapshot.collectedAt,
                    IF previous = None THEN None ELSE previous.collectedAt)
             /\ \E t \in now .. Smaller(now + HandlerTicks, MaxTime) :
                    AcceptMarket(date, platform, snapshot, t)
    <3>1. CASE d # date
      <4>1. nights'[d] = nights[d]
        BY <1>3, <2>3, <3>1 DEF AcceptMarket
      <4>2. QED
        BY <1>3, <2>1, <4>1
    <3>2. CASE d = date
      <4>1. nights'[d] = MergedNight(nights[d], platform, snapshot)
        BY <2>3, <3>2 DEF AcceptMarket
      <4>2. nights[d] \in NightSnapshot /\ nights[d] # None
        BY <1>3 DEF TypeOK, SubSnapshot
      <4>3. snapshot \in MarketSnapshot
        BY DEF MarketSnapshot, TypeOK
      <4> HIDE DEF snapshot
      <4>4. SubSnapshot(nights'[d], p) =
                IF p = platform THEN snapshot ELSE SubSnapshot(nights[d], p)
        BY <1>3, <4>1, <4>2, NoneAssumption
           DEF SubSnapshot, MergedNight, NightSnapshot
      <4>5. CASE p = platform
        <5>1. previous # None /\ previous.collectedAt \in Nat
          BY <1>3, <2>1, <3>2, <4>5
        <5>2. previous.collectedAt # None
          BY <5>1, NoneAssumption
        <5>3. snapshot.collectedAt >= previous.collectedAt
          BY <2>3, <5>1, <5>2 DEF IsSafeToOverwrite, snapshot
        <5>4. QED
          BY <3>2, <4>3, <4>4, <4>5, <5>3, NothingStoredIsNone
      <4>6. CASE p # platform
        BY <1>3, <2>1, <4>4, <4>6
      <4>7. QED
        BY <4>5, <4>6
    <3>3. QED
      BY <3>1, <3>2
  <2>4. QED
    BY <1>1, <2>2, <2>3 DEF ProcessElement2
<1>4. QED
  BY <1>2, <1>3, StampType DEF NewestWinsStep

LEMMA NewestStep ==
    ASSUME TypeOK, [Next]_vars
    PROVE  NewestWinsStep
<1>1. CASE CostArrives
  BY <1>1, CostNewest
<1>2. CASE MarketArrives
  BY <1>2, MarketNewest
<1>3. CASE apartments' = apartments /\ nights' = nights
  BY <1>3, StampType DEF NewestWinsStep
<1>4. QED
  BY <1>1, <1>2, <1>3 DEF Next, TimerFires, OnTimer, Tick, vars

\* A late or replayed input never takes the segment back to older data.
THEOREM NewestWinsCorrect == Spec => NewestWins
<1>1. TypeOK /\ [Next]_vars => [NewestWinsStep]_vars
  BY NewestStep
<1>2. Spec => [][NewestWinsStep]_vars
  BY <1>1, TypeCorrect, PTL DEF Spec
<1>3. QED
  BY <1>2 DEF NewestWins, NewestWinsStep

-----------------------------------------------------------------------------
(* Evictions *)

\* What EvictsOnlyTheOldest says of one step.
EvictsStep ==
    /\ (\E d \in Dates : nights[d] # None /\ nights'[d] = None) =>
           input' = "market"
    /\ \A a \in Apartments : apartments[a] # None /\ apartments'[a] = None =>
         /\ Cardinality(KnownApartments) = Cap
         /\ \A b \in KnownApartments :
               apartments[a].updatedAt <= apartments[b].updatedAt
         /\ \A b \in KnownApartments \ {a} : apartments'[b] # None

\* An apartment that a cost event forgets is one of the oldest of a full segment.
LEMMA CostEvicts ==
    ASSUME TypeOK, WithinCapacity, CostAccepted,
           NEW a \in Apartments, apartments[a] # None, apartments'[a] = None
    PROVE  /\ Cardinality(KnownApartments) = Cap
           /\ \A b \in KnownApartments :
                 apartments[a].updatedAt <= apartments[b].updatedAt
           /\ \A b \in KnownApartments \ {a} : apartments'[b] # None
<1>1. PICK n \in Apartments, cost \in CostAggregate,
           evicted \in SUBSET Apartments :
               evicted \in Evictions(n) /\ AcceptCost(n, cost, evicted)
  BY DEF CostAccepted
<1>2. \A b \in Apartments : apartments'[b] =
          IF b = n THEN cost ELSE IF b \in evicted THEN None ELSE apartments[b]
  BY <1>1 DEF AcceptCost
<1>3. cost # None
  BY NothingStoredIsNone
<1>4. a \in evicted
  BY <1>2, <1>3
<1>5. /\ Cardinality(KnownApartments) = Cap
      /\ \E oldest \in OldestKeys(apartments) : evicted = {oldest}
  BY <1>1, <1>4, EvictionFacts
<1>6. a \in OldestKeys(apartments) /\ evicted = {a}
  BY <1>4, <1>5
<1>7. \A b \in KnownApartments :
          apartments[a].updatedAt <= apartments[b].updatedAt
  BY <1>6 DEF OldestKeys, KnownApartments, TypeOK
<1>8. \A b \in KnownApartments \ {a} : apartments'[b] # None
  BY <1>2, <1>3, <1>6 DEF KnownApartments
<1>9. QED
  BY <1>5, <1>7, <1>8

\* Only the sweep of a market event forgets a night.
LEMMA OnlyMarketForgetsNights ==
    ASSUME [Next]_vars
    PROVE  input' = "market" \/ nights' = nights
BY DEF Next, CostArrives, ProcessElement1, AcceptCost, MarketArrives,
       ProcessElement2, TimerFires, OnTimer, Tick, vars

LEMMA EvictionStep ==
    ASSUME TypeOK, WithinCapacity, [Next]_vars
    PROVE  EvictsStep
<1>1. (\E d \in Dates : nights[d] # None /\ nights'[d] = None) =>
          input' = "market"
  BY OnlyMarketForgetsNights
<1>2. CASE CostAccepted
  BY <1>1, <1>2, CostEvicts DEF EvictsStep
<1>3. CASE apartments' = apartments
  BY <1>1, <1>3 DEF EvictsStep
<1>4. QED
  BY <1>2, <1>3, StepCases DEF MarketAccepted, AcceptMarket, OnTimer,
     NothingHandled, segmentState

\* Room for a new apartment is made by dropping one that no other is older
\* than, and nothing else is forgotten with it.
THEOREM EvictionsCorrect == Spec => EvictsOnlyTheOldest
<1>1. TypeOK /\ WithinCapacity /\ [Next]_vars => [EvictsStep]_vars
  BY EvictionStep
<1>2. Spec => [][EvictsStep]_vars
  BY <1>1, TypeCorrect, CapacityCorrect, PTL DEF Spec
<1>3. QED
  BY <1>2 DEF EvictsOnlyTheOldest, EvictsStep

-----------------------------------------------------------------------------
(* The first day of a streak *)

\* What StreakKeepsItsFirstDay says of one pair in one step.
StreakStep(a, d) ==
    LET before == floorBreachSince[a][d]
        after == floorBreachSince'[a][d]
    IN  after # None /\ after # before =>
            /\ after = DayOf(now')
            /\ before # None => ~(d >= DayOf(now'))

\* A decision goes on with the streak it was given, and begins one only when it
\* was given none.
LEMMA DecisionContinuesStreak ==
    ASSUME NEW cost, NEW night, NEW date, NEW since, NEW at,
           BuildPriceDecision(cost, night, date, since, at).floorBreachSince
               \notin {None, since}
    PROVE  /\ since = None
           /\ BuildPriceDecision(cost, night, date, since, at).floorBreachSince
                  = DayOf(at)
BY DEF BuildPriceDecision, NewFloorBreachSince

LEMMA CostKeepsStreaks ==
    ASSUME TypeOK, WithinCapacity, CostAccepted,
           NEW b \in Apartments, NEW d \in Dates
    PROVE  StreakStep(b, d)
<1>1. PICK a \in Apartments, cost \in CostAggregate,
           evicted \in SUBSET Apartments :
               evicted \in Evictions(a) /\ AcceptCost(a, cost, evicted)
  BY DEF CostAccepted
<1> DEFINE since == KeptSince(b, d, evicted, {})
           decision == BuildPriceDecision(cost, nights[d], d, since, now)
<1>2. now' = now /\ since \in {None, floorBreachSince[b][d]}
  BY <1>1 DEF AcceptCost, KeptSince
<1>3. CASE b = a /\ Priced(nights[d])
  <2>1. floorBreachSince'[b][d] = decision.floorBreachSince
    BY <1>1, <1>3 DEF AcceptCost
  <2>2. a \notin evicted
    <3>1. evicted # {} => a \notin KnownApartments
      BY <1>1, EvictionFacts
    <3>2. \A k \in evicted : k \in KnownApartments
      BY <1>1 DEF Evictions, OldestKeys, KnownApartments, TypeOK
    <3>3. QED
      BY <3>1, <3>2
  <2>3. since = floorBreachSince[b][d]
    BY <1>3, <2>2 DEF KeptSince
  <2> HIDE DEF since
  <2>4. QED
    BY <1>2, <2>1, <2>3, DecisionContinuesStreak DEF StreakStep
<1>4. CASE ~(b = a /\ Priced(nights[d]))
  <2>1. floorBreachSince'[b][d] = since
    BY <1>1, <1>4 DEF AcceptCost
  <2>2. QED
    BY <1>2, <2>1 DEF StreakStep
<1>5. QED
  BY <1>3, <1>4

LEMMA MarketKeepsStreaks ==
    ASSUME TypeOK, MarketAccepted, NEW a \in Apartments, NEW d \in Dates
    PROVE  StreakStep(a, d)
<1>1. PICK date \in Dates, platform \in Channels \cup {None},
           snapshot \in MarketSnapshot, t \in Nat :
               AcceptMarket(date, platform, snapshot, t)
  BY DEF MarketAccepted
<1> DEFINE expired == ExpiredNightKeys(DayOf(t))
           night == MergedNight(nights[date], platform, snapshot)
           since == KeptSince(a, d, {}, expired)
           decision == BuildPriceDecision(apartments[a], night, date, since, t)
<1>2. /\ now' = t
      /\ since \in {None, floorBreachSince[a][d]}
      /\ since = None /\ floorBreachSince[a][d] # None => d < DayOf(t)
  BY <1>1 DEF AcceptMarket, KeptSince, ExpiredNightKeys
<1>3. since = None /\ floorBreachSince[a][d] # None => ~(d >= DayOf(t))
  BY <1>2, DayType, PriceDecisionAssumption
<1>4. CASE d = date /\ Repriced(a, date, night)
  <2>1. floorBreachSince'[a][d] = decision.floorBreachSince
    BY <1>1, <1>4 DEF AcceptMarket
  <2> HIDE DEF since, night
  <2>2. QED
    BY <1>2, <1>3, <2>1, DecisionContinuesStreak DEF StreakStep
<1>5. CASE ~(d = date /\ Repriced(a, date, night))
  <2>1. floorBreachSince'[a][d] = since
    BY <1>1, <1>5 DEF AcceptMarket
  <2>2. QED
    BY <1>2, <2>1 DEF StreakStep
<1>6. QED
  BY <1>4, <1>5

LEMMA StreaksStep ==
    ASSUME TypeOK, WithinCapacity, [Next]_vars
    PROVE  \A a \in Apartments, d \in Dates : StreakStep(a, d)
<1>1. CASE CostAccepted
  BY <1>1, CostKeepsStreaks
<1>2. CASE MarketAccepted
  BY <1>2, MarketKeepsStreaks
<1>3. CASE floorBreachSince' = floorBreachSince
  BY <1>3 DEF StreakStep
<1>4. QED
  BY <1>1, <1>2, <1>3, StepCases DEF OnTimer, NothingHandled, segmentState

\* No decision moves the day a streak began on; one streak follows another
\* directly only when the night had expired and the sweep dropped the old one.
THEOREM StreaksKeepTheirFirstDay == Spec => StreakKeepsItsFirstDay
<1>1. TypeOK /\ WithinCapacity /\ [Next]_vars =>
          [\A a \in Apartments, d \in Dates : StreakStep(a, d)]_vars
  BY StreaksStep
<1>2. Spec => [][\A a \in Apartments, d \in Dates : StreakStep(a, d)]_vars
  BY <1>1, TypeCorrect, CapacityCorrect, PTL DEF Spec
<1>3. QED
  BY <1>2 DEF StreakKeepsItsFirstDay, StreakStep
=============================================================================
