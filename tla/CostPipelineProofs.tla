-------------------------- MODULE CostPipelineProofs --------------------------
(***************************************************************************)
(* Theorems about CostPipeline, for any lines, bookings, configuration and *)
(* number of redeliveries: the strategy version an apartment is priced     *)
(* from never goes back.                                                   *)
(*                                                                         *)
(* The aggregates between Stage A and Stage B stand in one line: priced,   *)
(* then the channels charged and corrected, then the cached aggregate,     *)
(* then the channel aggregates.  Versions do not decrease along it, and    *)
(* none is above the version in Stage A's broadcast state.  A-bookings     *)
(* enters a copy of the cached aggregate in front of it, which fits        *)
(* because the cached one is the last that left aggregates.                *)
(***************************************************************************)
EXTENDS CostPipeline, TLAPS

\* An aggregate or any record that carries a strategy version.
Versioned(a) == "strategy" \in DOMAIN a /\ a.strategy \in Nat

\* The absent value is a model value to TLC, which cannot evaluate its DOMAIN;
\* the theorems take it as a hypothesis that it is no aggregate.
NoneIsNoAggregate == ~Versioned(None)

IsChannel(s) ==
    /\ \E S : s \in Seq(S)
    /\ \A i \in DOMAIN s : Versioned(s[i])
    /\ \A i, j \in DOMAIN s : i <= j => s[i].strategy <= s[j].strategy

\* No element of s is above v, or below it.
AtMost(s, v) == \A i \in DOMAIN s : s[i].strategy <= v
AtLeast(s, v) == \A i \in DOMAIN s : v <= s[i].strategy

ChannelsInOrder ==
    /\ strategy \in Nat
    /\ IsChannel(aggregates)
    /\ IsChannel(corrected)
    /\ IsChannel(charged)
    /\ AtMost(aggregates, strategy)

\* Nothing is behind the cached aggregate unless there is one.
CachedInOrder ==
    /\ cached = None => corrected = <<>> /\ charged = <<>> /\ priced = None
    /\ cached # None => /\ Versioned(cached)
                        /\ cached.strategy <= strategy
                        /\ AtLeast(aggregates, cached.strategy)
                        /\ AtMost(corrected, cached.strategy)
                        /\ AtMost(charged, cached.strategy)

ChargedInOrder ==
    \A i \in DOMAIN charged : AtLeast(corrected, charged[i].strategy)

PricedInOrder ==
    priced # None => /\ Versioned(priced)
                     /\ priced.strategy <= cached.strategy
                     /\ AtLeast(charged, priced.strategy)
                     /\ AtLeast(corrected, priced.strategy)

StrategyInv ==
    ChannelsInOrder /\ CachedInOrder /\ ChargedInOrder /\ PricedInOrder

-----------------------------------------------------------------------------
(* Channels *)

LEMMA TailChannel ==
    ASSUME NEW s, IsChannel(s), s # <<>>
    PROVE  /\ Versioned(Head(s))
           /\ IsChannel(Tail(s))
           /\ AtLeast(Tail(s), Head(s).strategy)
           /\ \A v : AtMost(s, v) => Head(s).strategy <= v /\ AtMost(Tail(s), v)
           /\ \A v : AtLeast(s, v) => v <= Head(s).strategy /\ AtLeast(Tail(s), v)
<1>1. PICK S : s \in Seq(S)
  BY DEF IsChannel
<1>2. /\ Len(s) \in Nat \ {0}
      /\ DOMAIN s = 1 .. Len(s)
      /\ Head(s) = s[1]
  BY <1>1
<1>3. /\ Tail(s) \in Seq(S)
      /\ DOMAIN Tail(s) = 1 .. Len(s) - 1
      /\ \A i \in 1 .. Len(s) - 1 : Tail(s)[i] = s[i + 1] /\ i + 1 \in DOMAIN s
  BY <1>1, <1>2
<1>4. 1 \in DOMAIN s /\ Versioned(s[1])
  BY <1>2 DEF IsChannel
<1>5. \A i, j \in DOMAIN Tail(s) :
          i <= j => Tail(s)[i].strategy <= Tail(s)[j].strategy
  BY <1>2, <1>3 DEF IsChannel
<1>6. \A i \in DOMAIN Tail(s) : Versioned(Tail(s)[i])
  BY <1>3 DEF IsChannel
<1>7. IsChannel(Tail(s))
  BY <1>3, <1>5, <1>6 DEF IsChannel
<1>8. AtLeast(Tail(s), Head(s).strategy)
  BY <1>2, <1>3, <1>4 DEF IsChannel, AtLeast
<1>9. ASSUME NEW v, AtMost(s, v)
      PROVE  Head(s).strategy <= v /\ AtMost(Tail(s), v)
  BY <1>2, <1>3, <1>4, <1>9 DEF AtMost
<1>10. ASSUME NEW v, AtLeast(s, v)
       PROVE  v <= Head(s).strategy /\ AtLeast(Tail(s), v)
  BY <1>2, <1>3, <1>4, <1>10 DEF AtLeast
<1> QED
  BY <1>2, <1>4, <1>7, <1>8, <1>9, <1>10

LEMMA AppendChannel ==
    ASSUME NEW s, IsChannel(s), NEW a, Versioned(a), AtMost(s, a.strategy)
    PROVE  /\ IsChannel(Append(s, a))
           /\ \A v : AtMost(s, v) /\ a.strategy <= v => AtMost(Append(s, a), v)
           /\ \A v : AtLeast(s, v) /\ v <= a.strategy => AtLeast(Append(s, a), v)
           /\ Append(s, a) # <<>>
           /\ \A i \in DOMAIN Append(s, a) :
                  Append(s, a)[i] = a \/ \E j \in DOMAIN s : Append(s, a)[i] = s[j]
<1>1. PICK S : s \in Seq(S)
  BY DEF IsChannel
<1> DEFINE T == S \cup {a}
           t == Append(s, a)
<1>2. s \in Seq(T) /\ Len(s) \in Nat /\ DOMAIN s = 1 .. Len(s)
  BY <1>1
<1>3. /\ t \in Seq(T)
      /\ DOMAIN t = 1 .. Len(s) + 1
      /\ \A i \in 1 .. Len(s) : t[i] = s[i] /\ i \in DOMAIN s
      /\ t[Len(s) + 1] = a
  BY <1>2
<1>4. \A i \in DOMAIN t : Versioned(t[i])
  BY <1>2, <1>3 DEF IsChannel
<1>5. ASSUME NEW i \in DOMAIN t, NEW j \in DOMAIN t, i <= j
      PROVE  t[i].strategy <= t[j].strategy
  <2>1. CASE j = Len(s) + 1 /\ i = j
    BY <2>1, <1>3, <1>2 DEF Versioned
  <2>2. CASE j = Len(s) + 1 /\ i # j
    BY <2>2, <1>2, <1>3 DEF AtMost
  <2>3. CASE j # Len(s) + 1
    <3>1. i \in DOMAIN s /\ j \in DOMAIN s /\ t[i] = s[i] /\ t[j] = s[j]
      BY <2>3, <1>2, <1>3, <1>5
    <3> QED  BY <3>1, <1>5 DEF IsChannel
  <2> QED  BY <2>1, <2>2, <2>3
<1>6. IsChannel(t)
  BY <1>3, <1>4, <1>5 DEF IsChannel
<1>7. ASSUME NEW v, AtMost(s, v), a.strategy <= v  PROVE AtMost(t, v)
  BY <1>2, <1>3, <1>7 DEF AtMost
<1>8. ASSUME NEW v, AtLeast(s, v), v <= a.strategy  PROVE AtLeast(t, v)
  BY <1>2, <1>3, <1>8 DEF AtLeast
<1>9. \A i \in DOMAIN t : t[i] = a \/ \E j \in DOMAIN s : t[i] = s[j]
  BY <1>2, <1>3
<1>10. t # <<>>
  BY <1>2, <1>3
<1> QED
  BY <1>6, <1>7, <1>8, <1>9, <1>10

-----------------------------------------------------------------------------
(* What the stages do to an aggregate leaves its strategy version alone. *)

LEMMA EmissionKeepsStrategy ==
    ASSUME NEW a, Versioned(a), NEW held
    PROVE  Versioned(Emission(a, held)) /\ Emission(a, held).strategy = a.strategy
<1> DEFINE r == Recompute(a, Rows(held))
<1>1. "strategy" \in DOMAIN r /\ r.strategy = a.strategy
  BY DEF Versioned, Recompute
<1>2. /\ "strategy" \in DOMAIN CorrectAllocations(r)
      /\ CorrectAllocations(r).strategy = r.strategy
  BY <1>1 DEF CorrectAllocations
<1> QED
  BY <1>1, <1>2 DEF Versioned, Emission

LEMMA CompanyCostsKeepStrategy ==
    ASSUME NEW a, Versioned(a), NEW shares
    PROVE  /\ Versioned(ChargeCompanyCosts(a, shares))
           /\ ChargeCompanyCosts(a, shares).strategy = a.strategy
BY DEF Versioned, ChargeCompanyCosts

LEMMA CommissionKeepsStrategy ==
    ASSUME NEW a, Versioned(a), NEW definition
    PROVE  /\ Versioned(ApplyCommission(a, definition))
           /\ ApplyCommission(a, definition).strategy = a.strategy
BY DEF Versioned, ApplyCommission

LEMMA StageAStampsStrategy ==
    ASSUME NEW held, NEW v \in Nat
    PROVE  /\ Versioned(CostAggregate(held, v))
           /\ CostAggregate(held, v).strategy = v
BY DEF Versioned, CostAggregate

-----------------------------------------------------------------------------
(* Steps *)

\* What the invariant is about.
stations == <<strategy, aggregates, cached, corrected, charged, priced>>

LEMMA InitialOrder == CostPipelineAssumption /\ Init => StrategyInv
<1> SUFFICES ASSUME Init PROVE StrategyInv
  OBVIOUS
<1>1. IsChannel(<< >>)
  <2>1. << >> \in Seq({})
    OBVIOUS
  <2>2. DOMAIN << >> = {}
    OBVIOUS
  <2> QED  BY <2>1, <2>2 DEF IsChannel
<1>2. strategy \in {0, 1}
  BY DEF Init
<1> QED
  BY <1>1, <1>2 DEF Init, StrategyInv, ChannelsInOrder, CachedInOrder,
                    ChargedInOrder, PricedInOrder, AtMost, AtLeast

LEMMA QuietSteps ==
    ASSUME StrategyInv, UNCHANGED stations
    PROVE  StrategyInv'
BY DEF stations, StrategyInv, ChannelsInOrder, CachedInOrder, ChargedInOrder,
       PricedInOrder, AtMost, AtLeast, IsChannel, Versioned

LEMMA DeliverStrategyOrder ==
    ASSUME CostPipelineAssumption, StrategyInv,
           NEW v \in StrategyVersions, DeliverStrategy(v)
    PROVE  StrategyInv'
<1>1. v \in Nat /\ v > strategy /\ strategy' = v
  BY DEF CostPipelineAssumption, DeliverStrategy
<1>2. UNCHANGED <<aggregates, cached, corrected, charged, priced>>
  BY DEF DeliverStrategy
<1>3. ChannelsInOrder'
  BY <1>1, <1>2 DEF StrategyInv, ChannelsInOrder, AtMost, IsChannel, Versioned
<1>4. CachedInOrder'
  BY <1>1, <1>2 DEF StrategyInv, ChannelsInOrder, CachedInOrder, AtMost, AtLeast,
                    Versioned
<1> QED
  BY <1>2, <1>3, <1>4 DEF StrategyInv, ChargedInOrder, PricedInOrder, AtMost,
                          AtLeast, Versioned

LEMMA AggregateLineOrder ==
    ASSUME StrategyInv, AggregateLine
    PROVE  StrategyInv'
<1> DEFINE a == CostAggregate(Rows(lines'), strategy)
<1>1. strategy \in Nat
  BY DEF StrategyInv, ChannelsInOrder
<1>2. Versioned(a) /\ a.strategy = strategy
  BY <1>1, StageAStampsStrategy
<1>3. UNCHANGED <<strategy, cached, corrected, charged, priced>>
  BY DEF AggregateLine, config
<1>4. CASE aggregates' = aggregates
  BY <1>3, <1>4, QuietSteps DEF stations
<1>5. CASE aggregates' = Append(aggregates, a)
  <2> HIDE DEF a
  <2>1. /\ IsChannel(aggregates')
        /\ AtMost(aggregates', strategy)
        /\ \A v : AtLeast(aggregates, v) /\ v <= a.strategy => AtLeast(aggregates', v)
    BY <1>1, <1>2, <1>5, AppendChannel DEF StrategyInv, ChannelsInOrder
  <2>2. ChannelsInOrder'
    BY <1>3, <2>1 DEF StrategyInv, ChannelsInOrder, IsChannel, AtMost, Versioned
  <2>3. CachedInOrder'
    BY <1>2, <1>3, <2>1 DEF StrategyInv, CachedInOrder, AtMost, AtLeast, Versioned
  <2> QED
    BY <1>3, <2>2, <2>3 DEF StrategyInv, ChargedInOrder, PricedInOrder, AtMost,
                            AtLeast, Versioned
<1> QED
  BY <1>4, <1>5 DEF AggregateLine

LEMMA EmissionOrder ==
    ASSUME StrategyInv, NEW a, Versioned(a),
           cached # None => cached.strategy <= a.strategy,
           a.strategy <= strategy, AtLeast(aggregates', a.strategy),
           IsChannel(aggregates'), AtMost(aggregates', strategy),
           a # None, cached' = a,
           NEW held, corrected' = Append(corrected, Emission(a, held)),
           UNCHANGED <<strategy, charged, priced>>
    PROVE  StrategyInv'
<1> DEFINE e == Emission(a, held)
<1>1. Versioned(e) /\ e.strategy = a.strategy /\ a.strategy \in Nat
  BY EmissionKeepsStrategy DEF Versioned
<1> HIDE DEF e
<1>2. AtMost(corrected, a.strategy) /\ AtMost(charged, a.strategy)
  <2>1. CASE cached = None
    BY <2>1 DEF StrategyInv, CachedInOrder, AtMost
  <2>2. CASE cached # None
    BY <2>2, <1>1 DEF StrategyInv, CachedInOrder, ChannelsInOrder, IsChannel,
                      AtMost, Versioned
  <2> QED  BY <2>1, <2>2
<1>3. IsChannel(corrected)
  BY DEF StrategyInv, ChannelsInOrder
<1>4. corrected' = Append(corrected, e)
  BY DEF e
<1>5. /\ IsChannel(corrected')
      /\ AtMost(corrected', a.strategy)
      /\ \A v : AtLeast(corrected, v) /\ v <= a.strategy => AtLeast(corrected', v)
  BY <1>1, <1>2, <1>3, <1>4, AppendChannel
<1>6. ChannelsInOrder'
  BY <1>5 DEF StrategyInv, ChannelsInOrder, IsChannel, AtMost, Versioned
<1>7. CachedInOrder'
  BY <1>2, <1>5 DEF CachedInOrder, AtMost, AtLeast, Versioned
<1>8. ChargedInOrder'
  BY <1>2, <1>5 DEF StrategyInv, ChargedInOrder, AtMost, AtLeast
<1>9. PricedInOrder'
  BY <1>1, <1>5 DEF StrategyInv, CachedInOrder, PricedInOrder, AtLeast, Versioned
<1> QED
  BY <1>6, <1>7, <1>8, <1>9 DEF StrategyInv

LEMMA CostArrivesOrder ==
    ASSUME NoneIsNoAggregate, StrategyInv, CostArrivesAtBookings
    PROVE  StrategyInv'
<1> DEFINE a == Head(aggregates)
<1>1. IsChannel(aggregates) /\ aggregates # <<>>
  BY DEF StrategyInv, ChannelsInOrder, CostArrivesAtBookings
<1>2. /\ Versioned(a)
      /\ IsChannel(Tail(aggregates))
      /\ AtLeast(Tail(aggregates), a.strategy)
      /\ a.strategy <= strategy /\ AtMost(Tail(aggregates), strategy)
      /\ cached # None => cached.strategy <= a.strategy
  BY <1>1, TailChannel DEF StrategyInv, ChannelsInOrder, CachedInOrder
<1>3. /\ cached' = a /\ aggregates' = Tail(aggregates)
      /\ corrected' = Append(corrected, Emission(a, bookings))
      /\ UNCHANGED <<strategy, charged, priced>>
  BY DEF CostArrivesAtBookings, config
<1>4. a # None
  BY <1>2 DEF NoneIsNoAggregate
<1> HIDE DEF a
<1> QED
  BY <1>2, <1>3, <1>4, EmissionOrder

LEMMA BookingArrivesOrder ==
    ASSUME StrategyInv, NEW b, NEW v, BookingArrives(b, v)
    PROVE  StrategyInv'
<1>1. UNCHANGED <<strategy, aggregates, cached, charged, priced>>
  BY DEF BookingArrives, config
<1>2. CASE cached = None
  BY <1>1, <1>2, QuietSteps DEF BookingArrives, stations
<1>3. CASE cached # None
  <2>1. corrected' = Append(corrected, Emission(cached, bookings'))
    BY <1>3 DEF BookingArrives
  <2>2. /\ Versioned(cached) /\ cached.strategy <= strategy
        /\ AtLeast(aggregates, cached.strategy)
    BY <1>3 DEF StrategyInv, CachedInOrder
  <2>3. IsChannel(aggregates) /\ AtMost(aggregates, strategy)
    BY DEF StrategyInv, ChannelsInOrder
  <2>4. /\ aggregates' = aggregates /\ cached' = cached
        /\ cached.strategy <= cached.strategy
    BY <1>1, <2>2 DEF Versioned
  <2>5. /\ AtLeast(aggregates', cached.strategy)
        /\ IsChannel(aggregates') /\ AtMost(aggregates', strategy)
    BY <2>2, <2>3, <2>4
  <2> QED
    BY <1>1, <1>3, <2>1, <2>2, <2>4, <2>5, EmissionOrder
<1> QED
  BY <1>2, <1>3

LEMMA ChargeCompanyOrder ==
    ASSUME StrategyInv, ChargeCompany
    PROVE  StrategyInv'
<1> DEFINE a == Head(corrected)
           c == ChargeCompanyCosts(a, Shares(a.cost.availableDays))
<1>1. IsChannel(corrected) /\ corrected # <<>> /\ IsChannel(charged)
  BY DEF StrategyInv, ChannelsInOrder, ChargeCompany
<1>2. /\ Versioned(a)
      /\ IsChannel(Tail(corrected))
      /\ AtLeast(Tail(corrected), a.strategy)
      /\ \A v : AtMost(corrected, v) => a.strategy <= v /\ AtMost(Tail(corrected), v)
      /\ \A v : AtLeast(corrected, v) => v <= a.strategy /\ AtLeast(Tail(corrected), v)
  BY <1>1, TailChannel
<1>3. Versioned(c) /\ c.strategy = a.strategy
  BY <1>2, CompanyCostsKeepStrategy
<1>4. /\ corrected' = Tail(corrected) /\ charged' = Append(charged, c)
      /\ UNCHANGED <<strategy, aggregates, cached, priced>>
  BY DEF ChargeCompany, config
<1>5. cached # None
  BY <1>1 DEF StrategyInv, CachedInOrder
<1> HIDE DEF a, c
<1>6. AtMost(charged, c.strategy)
  BY <1>2, <1>3 DEF StrategyInv, ChargedInOrder, AtMost
<1>7. /\ IsChannel(charged')
      /\ \A v : AtMost(charged, v) /\ c.strategy <= v => AtMost(charged', v)
      /\ \A v : AtLeast(charged, v) /\ v <= c.strategy => AtLeast(charged', v)
      /\ \A i \in DOMAIN charged' :
             charged'[i] = c \/ \E j \in DOMAIN charged : charged'[i] = charged[j]
  BY <1>1, <1>3, <1>4, <1>6, AppendChannel
<1>8. ChannelsInOrder'
  BY <1>2, <1>4, <1>7 DEF StrategyInv, ChannelsInOrder, IsChannel, AtMost, Versioned
<1>9. CachedInOrder'
  <2>1. AtMost(corrected, cached.strategy) /\ AtMost(charged, cached.strategy)
    BY <1>5 DEF StrategyInv, CachedInOrder
  <2>2. AtMost(corrected', cached.strategy) /\ AtMost(charged', cached.strategy)
    BY <1>2, <1>3, <1>4, <1>7, <2>1
  <2> QED
    BY <1>4, <1>5, <2>2 DEF StrategyInv, CachedInOrder, AtMost, AtLeast, Versioned
<1>10. ChargedInOrder'
  BY <1>2, <1>3, <1>4, <1>7 DEF StrategyInv, ChargedInOrder
<1>11. PricedInOrder'
  <2>1. CASE priced = None
    BY <1>4, <2>1 DEF PricedInOrder
  <2>2. CASE priced # None
    <3>1. /\ Versioned(priced) /\ priced.strategy <= cached.strategy
          /\ AtLeast(charged, priced.strategy) /\ AtLeast(corrected, priced.strategy)
      BY <2>2 DEF StrategyInv, PricedInOrder
    <3>2. AtLeast(charged', priced.strategy) /\ AtLeast(corrected', priced.strategy)
      BY <1>2, <1>3, <1>4, <1>7, <3>1
    <3> QED
      BY <1>4, <3>1, <3>2 DEF PricedInOrder, AtLeast, Versioned
  <2> QED  BY <2>1, <2>2
<1> QED
  BY <1>8, <1>9, <1>10, <1>11 DEF StrategyInv

LEMMA ResolveContractOrder ==
    ASSUME StrategyInv, ResolveContract
    PROVE  /\ StrategyInv'
           /\ priced # None => priced'.strategy >= priced.strategy
<1> DEFINE a == Head(charged)
           d == ContractRows[contract]
           p == ApplyCommission(a, DefinitionRows[d][definitions["A2"][d]])
<1>1. IsChannel(charged) /\ charged # <<>>
  BY DEF StrategyInv, ChannelsInOrder, ResolveContract
<1>2. /\ Versioned(a)
      /\ IsChannel(Tail(charged))
      /\ AtLeast(Tail(charged), a.strategy)
      /\ \A v : AtMost(charged, v) => a.strategy <= v /\ AtMost(Tail(charged), v)
      /\ \A v : AtLeast(charged, v) => v <= a.strategy /\ AtLeast(Tail(charged), v)
      /\ 1 \in DOMAIN charged /\ a = charged[1]
  <2>1. PICK S : charged \in Seq(S)
    BY <1>1 DEF IsChannel
  <2>2. 1 \in DOMAIN charged /\ a = charged[1]
    BY <1>1, <2>1
  <2> HIDE DEF a
  <2> QED  BY <1>1, <2>2, TailChannel DEF a
<1>3. Versioned(p) /\ p.strategy = a.strategy
  BY <1>2, CommissionKeepsStrategy
<1>4. /\ charged' = Tail(charged) /\ priced' \in {priced, p}
      /\ UNCHANGED <<strategy, aggregates, cached, corrected>>
  BY DEF ResolveContract, config
<1>5. cached # None
  BY <1>1 DEF StrategyInv, CachedInOrder
<1> HIDE DEF a, p
<1>6. ChannelsInOrder'
  BY <1>2, <1>4 DEF StrategyInv, ChannelsInOrder, IsChannel, AtMost, Versioned
<1>7. a.strategy <= cached.strategy /\ AtMost(charged', cached.strategy)
  BY <1>2, <1>4, <1>5 DEF StrategyInv, CachedInOrder
<1>8. CachedInOrder'
  BY <1>4, <1>5, <1>7 DEF StrategyInv, CachedInOrder, AtMost, AtLeast, Versioned
<1>9. \A i \in DOMAIN Tail(charged) :
          \E j \in DOMAIN charged : Tail(charged)[i] = charged[j]
  <2>1. PICK S : charged \in Seq(S)
    BY <1>1 DEF IsChannel
  <2> QED  BY <1>1, <2>1
<1>10. ChargedInOrder'
  BY <1>4, <1>9 DEF StrategyInv, ChargedInOrder, AtLeast
<1>11. CASE priced' = priced
  <2>1. PricedInOrder'
    BY <1>2, <1>4, <1>11 DEF StrategyInv, PricedInOrder, AtLeast, Versioned
  <2>2. priced # None => priced'.strategy >= priced.strategy
    BY <1>11 DEF StrategyInv, PricedInOrder, Versioned
  <2> QED
    BY <1>6, <1>8, <1>10, <2>1, <2>2 DEF StrategyInv
<1>12. CASE priced' = p
  <2>1. AtLeast(corrected, a.strategy)
    BY <1>2 DEF StrategyInv, ChargedInOrder
  <2>2. PricedInOrder'
    BY <1>2, <1>3, <1>4, <1>7, <1>12, <2>1 DEF PricedInOrder, AtLeast, Versioned
  <2>3. priced # None => priced.strategy <= a.strategy
    BY <1>2 DEF StrategyInv, PricedInOrder
  <2> QED
    BY <1>2, <1>3, <1>6, <1>8, <1>10, <1>12, <2>2, <2>3
    DEF StrategyInv, PricedInOrder, Versioned
<1> QED
  BY <1>4, <1>11, <1>12

\* The steps that neither move an aggregate nor touch the strategy.
LEMMA OtherSteps ==
    ASSUME NEW S1, NEW D1, NEW O1, NEW E1, NEW V1,
           \/ DeliverDefinition(S1, D1)
           \/ DeliverRule(S1, D1)
           \/ DeliverOccurrence(O1)
           \/ DeliverContract
           \/ DeliverProfile
           \/ ResolveLine(E1, V1)
           \/ UNCHANGED vars
    PROVE  UNCHANGED stations
BY DEF DeliverDefinition, DeliverRule, DeliverOccurrence, DeliverContract,
       DeliverProfile, ResolveLine, vars, config, stations

LEMMA StepOrder ==
    ASSUME CostPipelineAssumption, NoneIsNoAggregate, StrategyInv, [Next]_vars
    PROVE  /\ StrategyInv'
           /\ priced # None => priced'.strategy >= priced.strategy
<1>1. ASSUME UNCHANGED priced, StrategyInv'
      PROVE  /\ StrategyInv'
             /\ priced # None => priced'.strategy >= priced.strategy
  BY <1>1 DEF StrategyInv, PricedInOrder, Versioned
<1>2. ASSUME UNCHANGED stations
      PROVE  /\ StrategyInv'
             /\ priced # None => priced'.strategy >= priced.strategy
  BY <1>1, <1>2, QuietSteps DEF stations
<1>3. CASE Deliver
  <2>1. ASSUME NEW v \in StrategyVersions, DeliverStrategy(v)
        PROVE  StrategyInv' /\ UNCHANGED priced
    BY <2>1, DeliverStrategyOrder DEF DeliverStrategy
  <2>2. CASE \E v \in StrategyVersions : DeliverStrategy(v)
    BY <1>1, <2>1, <2>2
  <2> QED
    BY <1>2, <1>3, <2>2, OtherSteps DEF Deliver
<1>4. ASSUME NEW e, NEW v, ResolveLine(e, v)
      PROVE  UNCHANGED stations
  BY <1>4, OtherSteps
<1>5. ASSUME NEW b, NEW v, BookingArrives(b, v)
      PROVE  StrategyInv' /\ UNCHANGED priced
  BY <1>5, BookingArrivesOrder DEF BookingArrives
<1>6. CASE AggregateLine
  BY <1>1, <1>6, AggregateLineOrder DEF AggregateLine
<1>7. CASE CostArrivesAtBookings
  BY <1>1, <1>7, CostArrivesOrder DEF CostArrivesAtBookings
<1>8. CASE ChargeCompany
  BY <1>1, <1>8, ChargeCompanyOrder DEF ChargeCompany
<1>9. CASE ResolveContract
  BY <1>9, ResolveContractOrder
<1>10. CASE UNCHANGED vars
  BY <1>2, <1>10, OtherSteps
<1> QED
  BY <1>1, <1>2, <1>3, <1>4, <1>5, <1>6, <1>7, <1>8, <1>9, <1>10
  DEF Next, Process

-----------------------------------------------------------------------------
\* Between Stage A and Stage B strategy versions never decrease along the
\* pipeline, whatever is delivered and whenever a booking makes A-bookings emit
\* its cached aggregate again (stage_cost_enrichment.py:144, _recompute).
THEOREM PipelineInOrder ==
    ASSUME NoneIsNoAggregate
    PROVE  Spec => []StrategyInv
<1>1. Init => StrategyInv
  BY InitialOrder, CostPipelineAssumption
<1>2. StrategyInv /\ [Next]_vars => StrategyInv'
  BY StepOrder, CostPipelineAssumption
<1> QED
  BY <1>1, <1>2, PTL DEF Spec

\* A strategy version an apartment was priced from is never followed by an
\* older one (spec 25, AC-03), for any configuration and any redeliveries.
THEOREM StrategyCorrect ==
    ASSUME NoneIsNoAggregate
    PROVE  Spec => StrategyNeverRegresses
<1>1. StrategyInv /\ [Next]_vars =>
          [priced # None => priced'.strategy >= priced.strategy]_vars
  BY StepOrder, CostPipelineAssumption
<1> QED
  BY <1>1, PipelineInOrder, PTL DEF Spec, StrategyNeverRegresses
=============================================================================
