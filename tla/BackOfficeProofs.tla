--------------------------- MODULE BackOfficeProofs ---------------------------
(***************************************************************************)
(* Proofs about BackOffice, for any pool, specs, old volume, number of     *)
(* kills and number of people publishing.                                  *)
(*                                                                         *)
(* First the strategies: their versions stay a history of single changes.  *)
(* Then the start: the ledger is sound, the process runs only with         *)
(* everything seeded, and no start rewrites what it finds.  These follow   *)
(* from one inductive invariant, OfficeInv, in parts that change together: *)
(* WhatChanges says which actions touch which part, each part has its      *)
(* lemmas, and each action that moves a part is one of them.               *)
(***************************************************************************)
EXTENDS BackOffice, FiniteSetTheorems, TLAPS

----------------------------------------------------------------------------
(* The inductive invariant.  What an operator holds was made from a version  *)
(* that is still there, since rows are never removed; it is what makes an    *)
(* insert that takes a free version continue the history.                    *)

\* Two rows differ in one field at most.
OneChange(p, s) == p.margin = s.margin \/ p.discount = s.discount

\* Among rows there is the version before s, of which s is one change.
Follows(rows, s) ==
  \E p \in rows : p.apartment = s.apartment /\ p.version = s.version - 1 /\ OneChange(p, s)

\* Versions are positive integers, no two of an apartment the same, without gaps.
History(rows) ==
  /\ \A s \in rows : s.version \in Nat \ {0}
  /\ \A s, t \in rows : s.apartment = t.apartment /\ s.version = t.version => s = t
  /\ \A s \in rows : s.version > 1 => Follows(rows, s)

\* What is about to be inserted follows a version that is there.
PublishingFollows ==
  /\ publishing = [o \in Operators |-> publishing[o]]
  /\ \A o \in Operators :
       publishing[o] # None =>
         publishing[o].version \in Nat \ {0, 1} /\ Follows(strategies, publishing[o])

HistoryInv == History(strategies) /\ PublishingFollows

----------------------------------------------------------------------------
(* Rows.                                                                     *)

\* The fields of a row.
LEMMA StrategyFields ==
  ASSUME NEW a, NEW v, NEW margin, NEW discount
  PROVE  LET s == Strategy(a, v, margin, discount)
         IN s.apartment = a /\ s.version = v /\ s.margin = margin /\ s.discount = discount
BY DEF Strategy

\* Rows of version 1 may be added for apartments that have none, whatever their
\* fields (migrate_apartment_market_segments_to_pricing_strategies,
\* seed_pricing_strategies).
LEMMA FirstVersionsKeepHistory ==
  ASSUME HistoryInv,
         NEW new, NEW margin, NEW discount,
         \A a \in new : \A s \in VersionsOf(a) : s.version # 1,
         strategies' = strategies \union {Strategy(a, 1, margin, discount) : a \in new},
         publishing' = publishing
  PROVE  HistoryInv'
<1> DEFINE First == {Strategy(a, 1, margin, discount) : a \in new}
<1>1. \A s \in First : s.version = 1 /\ s.apartment \in new /\ s = Strategy(s.apartment, 1, margin, discount)
  BY StrategyFields
<1>2. PublishingFollows'
  BY DEF HistoryInv, PublishingFollows, Follows
<1>3. \A s \in strategies' : s.version \in Nat \ {0}
  BY <1>1 DEF HistoryInv, History
<1>4. ASSUME NEW s \in strategies', NEW t \in strategies', s.apartment = t.apartment, s.version = t.version
      PROVE  s = t
  <2>1. CASE s \in First /\ t \in First
    BY <2>1, <1>4, <1>1
  <2>2. CASE s \in First /\ t \in strategies
    BY <2>2, <1>4, <1>1 DEF VersionsOf
  <2>3. CASE s \in strategies /\ t \in First
    BY <2>3, <1>4, <1>1 DEF VersionsOf
  <2>4. CASE s \in strategies /\ t \in strategies
    BY <2>4, <1>4 DEF HistoryInv, History
  <2> QED
    BY <2>1, <2>2, <2>3, <2>4
<1>5. ASSUME NEW s \in strategies', s.version > 1
      PROVE  Follows(strategies', s)
  BY <1>1, <1>5 DEF HistoryInv, History, Follows
<1> QED
  BY <1>2, <1>3, <1>4, <1>5 DEF HistoryInv, History

\* Steps that touch neither the rows nor what is held.
LEMMA OthersKeepHistory ==
  ASSUME HistoryInv, UNCHANGED <<strategies, publishing>>
  PROVE  HistoryInv'
BY DEF HistoryInv, PublishingFollows

\* A read prepares a row that follows the latest version by one change.
LEMMA ReadKeepsHistory ==
  ASSUME HistoryInv, NEW o \in Operators, ReadStrategy(o)
  PROVE  HistoryInv'
<1>1. strategies' = strategies
  BY DEF ReadStrategy, database
<1>2. PICK a \in Apartments : \E last \in Latest(a) :
        \/ \E margin \in Margins \ {last.margin} :
             publishing' = [publishing EXCEPT ![o] = Strategy(a, last.version + 1, margin, last.discount)]
        \/ \E discount \in Margins \ {last.discount} :
             publishing' = [publishing EXCEPT ![o] = Strategy(a, last.version + 1, last.margin, discount)]
  BY DEF ReadStrategy
<1>3. PICK last \in VersionsOf(a) : \E margin, discount :
        /\ margin = last.margin \/ discount = last.discount
        /\ publishing' = [publishing EXCEPT ![o] = Strategy(a, last.version + 1, margin, discount)]
  BY <1>2 DEF Latest
<1>4. PICK margin, discount :
        /\ margin = last.margin \/ discount = last.discount
        /\ publishing' = [publishing EXCEPT ![o] = Strategy(a, last.version + 1, margin, discount)]
  BY <1>3
<1> DEFINE row == Strategy(a, last.version + 1, margin, discount)
<1>5. /\ publishing' = [q \in Operators |-> publishing'[q]]
      /\ publishing'[o] = row
      /\ \A q \in Operators \ {o} : publishing'[q] = publishing[q]
  BY <1>4 DEF HistoryInv, PublishingFollows
<1>6. last \in strategies /\ last.version \in Nat \ {0} /\ last.apartment = a
  BY DEF HistoryInv, History, VersionsOf
<1>7. row.apartment = a /\ row.version = last.version + 1 /\ OneChange(last, row)
  BY <1>4, StrategyFields DEF OneChange
<1>8. row.version \in Nat \ {0, 1} /\ Follows(strategies, row)
  BY <1>6, <1>7 DEF Follows
<1> QED
  BY <1>1, <1>5, <1>8 DEF HistoryInv, PublishingFollows

\* An insert adds what the operator holds if its version is free, so it follows
\* the row it was made from.
LEMMA InsertKeepsHistory ==
  ASSUME HistoryInv, NEW o \in Operators, InsertStrategy(o)
  PROVE  HistoryInv'
<1> DEFINE row == publishing[o]
<1>1. row.version \in Nat \ {0, 1} /\ Follows(strategies, row)
  BY DEF InsertStrategy, HistoryInv, PublishingFollows
<1>2. /\ publishing' = [q \in Operators |-> publishing'[q]]
      /\ publishing'[o] = None
      /\ \A q \in Operators \ {o} : publishing'[q] = publishing[q]
  BY DEF HistoryInv, PublishingFollows, InsertStrategy
<1>3. \/ strategies' = strategies
      \/ /\ \A s \in strategies : s.apartment = row.apartment => s.version # row.version
         /\ strategies' = strategies \union {row}
  BY DEF InsertStrategy, VersionsOf
<1>4. \A s : Follows(strategies, s) => Follows(strategies', s)
  BY <1>3 DEF Follows
<1>5. PublishingFollows'
  BY <1>2, <1>4 DEF HistoryInv, PublishingFollows
<1>6. History(strategies')
  <2>1. CASE strategies' = strategies
    BY <2>1 DEF HistoryInv
  <2>2. CASE strategies' # strategies
    <3>1. \A s \in strategies' : s.version \in Nat \ {0}
      BY <2>2, <1>1, <1>3 DEF HistoryInv, History
    <3>2. \A s, t \in strategies' : s.apartment = t.apartment /\ s.version = t.version => s = t
      BY <2>2, <1>3 DEF HistoryInv, History
    <3>3. \A s \in strategies' : s.version > 1 => Follows(strategies', s)
      BY <2>2, <1>1, <1>3, <1>4 DEF HistoryInv, History
    <3> QED
      BY <3>1, <3>2, <3>3 DEF History
  <2> QED
    BY <2>1, <2>2
<1> QED
  BY <1>5, <1>6 DEF HistoryInv

----------------------------------------------------------------------------
(* The specification.                                                        *)

LEMMA InitHistory ==
  ASSUME Init
  PROVE  HistoryInv
BY DEF Init, HistoryInv, History, PublishingFollows

\* Every action, and a stutter.
LEMMA StepKeepsHistory ==
  ASSUME HistoryInv, [Next]_vars
  PROVE  HistoryInv'
<1>1. CASE UNCHANGED vars
  BY <1>1, OthersKeepHistory DEF vars, database
<1>2. CASE Start
  BY <1>2, OthersKeepHistory DEF Start, database
<1>3. CASE End
  BY <1>3, OthersKeepHistory DEF End, database
<1>4. CASE StartupStep
  <2>1. CASE MigrateSegments
    <3> DEFINE new == {a \in segments : \A s \in VersionsOf(a) : s.version # 1}
    <3>1. publishing' = publishing
      BY <2>1 DEF MigrateSegments, Done
    <3>2. CASE "apartment_market_segments" \in legacy
      <4>1. strategies' = strategies \union {Strategy(a, 1, OldMargin, OldMargin) : a \in new}
        BY <2>1, <3>2 DEF MigrateSegments
      <4>2. \A a \in new : \A s \in VersionsOf(a) : s.version # 1
        OBVIOUS
      <4> HIDE DEF new
      <4> QED
        BY <3>1, <4>1, <4>2, FirstVersionsKeepHistory
    <3>3. CASE "apartment_market_segments" \notin legacy
      BY <2>1, <3>1, <3>3, OthersKeepHistory DEF MigrateSegments
    <3> QED
      BY <3>2, <3>3
  <2>2. CASE SeedPricingStrategies
    <3>1. publishing' = publishing
      BY <2>2 DEF SeedPricingStrategies, Done
    <3>2. CASE strategies # {}
      BY <2>2, <3>1, <3>2, OthersKeepHistory DEF SeedPricingStrategies
    <3>3. CASE strategies = {}
      <4>1. strategies' = strategies \union {Strategy(a, 1, DefaultMargin, DefaultMargin) : a \in Apartments}
        BY <2>2, <3>3 DEF SeedPricingStrategies
      <4>2. \A a \in Apartments : \A s \in VersionsOf(a) : s.version # 1
        BY <3>3 DEF VersionsOf
      <4> QED
        BY <3>1, <4>1, <4>2, FirstVersionsKeepHistory
    <3> QED
      BY <3>2, <3>3
  <2>3. CASE \E t \in Tables : Ensure(t)
    BY <2>3, OthersKeepHistory DEF Ensure, Done
  <2>4. CASE MigrateContracts
    BY <2>4, OthersKeepHistory DEF MigrateContracts, Done
  <2>5. CASE MigrateLines
    BY <2>5, OthersKeepHistory DEF MigrateLines, Done
  <2>6. CASE ResolveCostDefinitionIds
    BY <2>6, OthersKeepHistory DEF ResolveCostDefinitionIds, Done
  <2>7. CASE EnsureWeightedAllocationConfig
    BY <2>7, OthersKeepHistory DEF EnsureWeightedAllocationConfig, Done
  <2>8. CASE Seed
    BY <2>8, OthersKeepHistory DEF Seed, Done
  <2>9. CASE SeedApartmentMarketSegments
    BY <2>9, OthersKeepHistory DEF SeedApartmentMarketSegments, Done
  <2>10. CASE SeedOwners
    BY <2>10, OthersKeepHistory DEF SeedOwners, Done
  <2>11. CASE SkipContracts
    BY <2>11, OthersKeepHistory DEF SkipContracts, Done, database
  <2>12. CASE BeginContracts
    BY <2>12, OthersKeepHistory DEF BeginContracts, database
  <2>13. CASE SeedContract
    BY <2>13, OthersKeepHistory DEF SeedContract
  <2>14. CASE CommitContracts
    BY <2>14, OthersKeepHistory DEF CommitContracts, Done
  <2>15. CASE SeedBookings
    BY <2>15, OthersKeepHistory DEF SeedBookings, Done
  <2>16. CASE SeedCompanyCostOccurrences
    BY <2>16, OthersKeepHistory DEF SeedCompanyCostOccurrences, Done
  <2> QED
    BY <1>4, <2>1, <2>2, <2>3, <2>4, <2>5, <2>6, <2>7, <2>8, <2>9, <2>10, <2>11, <2>12,
       <2>13, <2>14, <2>15, <2>16 DEF StartupStep
<1>5. CASE RunForever
  BY <1>5, OthersKeepHistory DEF RunForever, InsertOne, InsertOneBooking, FlipOnePendingToPaid,
     FlipOneConfirmedToCancelled, Generates
<1>6. CASE \E o \in Operators : ReadStrategy(o) \/ InsertStrategy(o)
  BY <1>6, ReadKeepsHistory, InsertKeepsHistory
<1>7. CASE EditWeights
  BY <1>7, OthersKeepHistory DEF EditWeights
<1>8. CASE NextMonth
  BY <1>8, OthersKeepHistory DEF NextMonth, database
<1> QED
  BY <1>1, <1>2, <1>3, <1>4, <1>5, <1>6, <1>7, <1>8 DEF Next

\* However many people read and insert versions at once, and whatever the start
\* seeds and migrates beside them, every version of a strategy but the first
\* changes one field of the one before it: no published change is undone
\* (new_strategy_version).
THEOREM HistoryOfStrategies == Spec => []StrategiesAreAHistory
<1>1. Init => HistoryInv
  BY InitHistory
<1>2. HistoryInv /\ [Next]_vars => HistoryInv'
  BY StepKeepsHistory
<1>3. HistoryInv => StrategiesAreAHistory
  BY DEF HistoryInv, History, StrategiesAreAHistory, VersionsOf, Follows, OneChange
<1> QED
  BY <1>1, <1>2, <1>3, PTL DEF Spec

----------------------------------------------------------------------------
(* The inductive invariant of the start and of the generator, in parts: one  *)
(* per group of variables that change together.                              *)

\* The transactions this start has committed.
Past == {Startup[i] : i \in 1 .. step - 1}

\* Tables and old columns are what the steps behind leave.
StartInv ==
  /\ step \in 0..Running
  /\ tables \subseteq Tables /\ legacy \subseteq tables \intersect ToSet(OldTables)
  /\ "payment_lines" \in tables
  /\ Past \intersect Tables \subseteq tables
  /\ "migrate segments" \in Past => "apartment_market_segments" \notin legacy
  /\ "migrate contracts" \in Past => "owner_contracts" \notin legacy
  /\ "migrate lines" \in Past => "payment_lines" \notin legacy
  /\ owners \in BOOLEAN /\ month \in Nat /\ events \in 0..MaxEvents /\ kills \in 0..MaxKills

\* Definitions are made once and have their rule; the percentages have a rate, or
\* all are those of an older phase.
RuleRecords == [method : Methods, weights : {None, "equal", "edited"}]
Rated(shape) == shape.percentage => shape.rate # None
Unrated(shape) == shape.percentage => shape.rate = None
DefinitionsInv ==
  /\ definitions \in Seq(ShapeRecords)
  /\ \A d, e \in Definitions : definitions[d] = definitions[e] => d = e
  /\ \/ \A d \in Definitions : Rated(definitions[d])
     \/ "cost_definitions" \notin Past /\ \A d \in Definitions : Unrated(definitions[d])
  /\ rules \in [Definitions -> RuleRecords]

\* The ids this start resolved.
SpecConcepts == {Specs[i].shape.concept : i \in DOMAIN Specs}
IdsInv ==
  /\ "resolve definitions" \in Past => ids \in [SpecConcepts -> Definitions]
  /\ "ensure weights" \in Past => "resolve definitions" \in Past /\ rules[ids["office_rent"]].weights # None

\* No bill twice; those of an older phase are as they were found until they are
\* migrated.
LineRecords == [apartment : Apartments, definition : Nat \union {None}, month : Int, paid : BOOLEAN,
                bill : BillRecords \union {None}]
SameBill(k, l) == k.apartment = l.apartment /\ k.definition = l.definition /\ k.month = l.month
LinesInv ==
  /\ lines \in Seq(LineRecords)
  /\ \A k, l \in DOMAIN lines : lines[k].definition # None /\ SameBill(lines[k], lines[l]) => k = l
  /\ IF "payment_lines" \in legacy
     THEN Len(lines) = Len(OldBills) /\ \A l \in DOMAIN lines : lines[l] = OldLine(OldBills[l])
     ELSE \A l \in DOMAIN lines : lines[l].definition \in Definitions

\* Segments and first versions are there for every apartment or for none.
StrategyRecords == [apartment : Apartments, version : Nat \ {0}, margin : Margins, discount : Margins]
Seeded(rows) == \A a \in Apartments : \E s \in rows : s.apartment = a /\ s.version = 1
StrategiesInv ==
  /\ segments \in {{}, Apartments}
  /\ strategies \subseteq StrategyRecords /\ publishing \in [Operators -> {None} \union StrategyRecords]
  /\ strategies # {} => segments = Apartments /\ Seeded(strategies)
  /\ "apartment_market_segments" \in legacy => segments = Apartments /\ strategies = {}
  /\ "seed segments" \in Past => segments = Apartments
  /\ "seed strategies" \in Past => strategies # {}

\* The contracts committed are those of the first apartments of the pool; the
\* seed loop holds the next ones.
Prefix(rows) == \E k \in 0..Len(Pool) : \A i \in 1..Len(Pool) : rows[Pool[i]] # None <=> i <= k
Reached(rows, more, n) == \A i \in 1..Len(Pool) : rows[Pool[i]] # None \/ more[Pool[i]] # None <=> i < n
OldTerms == \A a \in Apartments : contracts[a] # None => contracts[a].terms # None
Apart(rows, more) == \A a \in Apartments : more[a] # None => rows[a] = None
ContractsInv ==
  /\ contracts \in [Apartments -> Contracts] /\ draft \in [Apartments -> Contracts]
  /\ next \in 0 .. Len(Pool) + 1
  /\ "owner_contracts" \in legacy => OldTerms
  /\ next = 0 => draft = NoContracts
  /\ next > 0 => At("seed contracts") /\ Reached(contracts, draft, next)
  /\ Apart(contracts, draft) /\ Prefix(contracts)
  /\ "seed contracts" \in Past => contracts # NoContracts

\* Bookings and occurrences refer to rows that are there.
BookingRecords == [apartment : Apartments, checkIn : Int, status : {"confirmed", "cancelled"}]
RowsInv ==
  /\ bookings \in Seq(BookingRecords)
  /\ bookings # << >> => segments = Apartments
  /\ occurrences \subseteq [definition : Definitions, month : Int]

OfficeInv ==
  /\ HistoryInv
  /\ StartInv /\ DefinitionsInv /\ IdsInv /\ LinesInv /\ StrategiesInv /\ ContractsInv /\ RowsInv

----------------------------------------------------------------------------
(* Sequences made from sets, and finite sets.                                *)

\* SetToSeq lists every element of a finite set once.
LEMMA SetToSeqLists ==
  ASSUME NEW S, IsFiniteSet(S)
  PROVE  /\ SetToSeq(S) \in Seq(S)
         /\ \A i, j \in 1..Len(SetToSeq(S)) : SetToSeq(S)[i] = SetToSeq(S)[j] => i = j
         /\ \A x \in S : \E i \in 1..Len(SetToSeq(S)) : SetToSeq(S)[i] = x
<1> DEFINE n == Cardinality(S)
<1>1. n \in Nat /\ ExistsBijection(1..n, S)
  BY FS_CardinalityType
<1>2. PICK g : g \in Bijection(1..n, S)
  BY <1>1 DEF ExistsBijection
<1>3. g \in [1..n -> S] /\ IsInjective(g)
  BY <1>2 DEF Bijection, Injection
<1>4. SetToSeq(S) \in [1..n -> S] /\ IsInjective(SetToSeq(S))
  BY <1>3 DEF SetToSeq
<1>5. SetToSeq(S) \in Injection(1..n, S)
  BY <1>4 DEF Injection
<1>6. IsFiniteSet(1..n) /\ Cardinality(1..n) = n
  BY <1>1, FS_Interval
<1>7. SetToSeq(S) \in Surjection(1..n, S)
  BY <1>5, <1>6, FS_Injection
<1>8. SetToSeq(S) \in Seq(S) /\ Len(SetToSeq(S)) = n
  BY <1>1, <1>4
<1> QED
  BY <1>4, <1>7, <1>8 DEF Surjection, IsInjective

\* The values of a function on a finite set are finitely many.
LEMMA FiniteValues ==
  ASSUME NEW S, IsFiniteSet(S), NEW f, f = [x \in S |-> f[x]]
  PROVE  IsFiniteSet({f[x] : x \in S})
<1>1. f \in Surjection(S, {f[x] : x \in S})
  BY DEF Surjection
<1> QED
  BY <1>1, FS_Surjection

LEMMA FiniteTriples ==
  ASSUME NEW A, NEW B, NEW C, IsFiniteSet(A), IsFiniteSet(B), IsFiniteSet(C)
  PROVE  IsFiniteSet(A \X B \X C)
<1> DEFINE P == (A \X B) \X C
           f == [x \in P |-> <<x[1][1], x[1][2], x[2]>>]
<1>1. IsFiniteSet(A \X B)
  BY FS_Product
<1>2. IsFiniteSet(P)
  BY <1>1, FS_Product
<1>3. f \in Surjection(P, A \X B \X C)
  <2>1. f \in [P -> A \X B \X C]
    OBVIOUS
  <2>2. ASSUME NEW t \in A \X B \X C
        PROVE  \E x \in P : f[x] = t
    <3>1. PICK a \in A, b \in B, c \in C : t = <<a, b, c>>
      OBVIOUS
    <3>2. <<<<a, b>>, c>> \in P /\ f[<<<<a, b>>, c>>] = t
      BY <3>1
    <3> QED
      BY <3>2
  <2> QED
    BY <2>1, <2>2 DEF Surjection
<1> HIDE DEF f, P
<1> QED
  BY <1>2, <1>3, FS_Surjection

LEMMA FiniteApartments ==
  /\ IsFiniteSet(Apartments) /\ Apartments # {}
  /\ \A a \in Apartments : \E i \in 1..Len(Pool) : Pool[i] = a
  /\ \A i \in 1..Len(Pool) : Pool[i] \in Apartments
<1>1. Pool = [i \in 1..Len(Pool) |-> Pool[i]] /\ Len(Pool) \in Nat /\ Len(Pool) > 0
  BY PoolAssumption
<1>2. Apartments = {Pool[i] : i \in 1..Len(Pool)}
  BY <1>1 DEF Apartments, ToSet
<1>3. IsFiniteSet(1..Len(Pool))
  <2>1. 1 \in Int /\ Len(Pool) \in Int
    BY <1>1
  <2> QED
    BY <2>1, FS_Interval
<1>4. IsFiniteSet({Pool[i] : i \in 1..Len(Pool)})
  BY <1>1, <1>3, FiniteValues
<1> QED
  BY <1>1, <1>2, <1>4

\* A sequence with no element twice, continued with new elements each once, has
\* no element twice.
LEMMA Continued ==
  ASSUME NEW R, NEW s \in Seq(R), NEW t \in Seq(R),
         \A i, j \in DOMAIN s : s[i] = s[j] => i = j,
         \A i, j \in DOMAIN t : t[i] = t[j] => i = j,
         \A i \in DOMAIN s, j \in DOMAIN t : s[i] # t[j]
  PROVE  /\ s \o t \in Seq(R) /\ Len(s \o t) = Len(s) + Len(t)
         /\ DOMAIN (s \o t) = 1 .. Len(s) + Len(t) /\ DOMAIN s \subseteq DOMAIN (s \o t)
         /\ \A i \in DOMAIN s : (s \o t)[i] = s[i]
         /\ \A i \in DOMAIN t : (s \o t)[Len(s) + i] = t[i]
         /\ \A i \in DOMAIN (s \o t) \ DOMAIN s : i - Len(s) \in DOMAIN t /\ (s \o t)[i] = t[i - Len(s)]
         /\ \A i, j \in DOMAIN (s \o t) : (s \o t)[i] = (s \o t)[j] => i = j
<1>1. s \o t \in Seq(R) /\ Len(s \o t) = Len(s) + Len(t)
  OBVIOUS
<1>2. DOMAIN (s \o t) = 1 .. Len(s) + Len(t) /\ DOMAIN s = 1..Len(s) /\ DOMAIN t = 1..Len(t)
      /\ Len(s) \in Nat /\ Len(t) \in Nat
  BY <1>1
<1>3. \A i \in DOMAIN s : (s \o t)[i] = s[i]
  BY <1>2
<1>4. \A i \in DOMAIN (s \o t) \ DOMAIN s : i - Len(s) \in DOMAIN t /\ (s \o t)[i] = t[i - Len(s)]
  BY <1>2
<1>5. ASSUME NEW i \in DOMAIN (s \o t), NEW j \in DOMAIN (s \o t), (s \o t)[i] = (s \o t)[j]
      PROVE  i = j
  BY <1>2, <1>3, <1>4, <1>5
<1>6. \A i \in DOMAIN t : (s \o t)[Len(s) + i] = t[i]
  BY <1>2
<1> QED
  BY <1>1, <1>2, <1>3, <1>4, <1>5, <1>6

----------------------------------------------------------------------------
(* The order of main().                                                      *)

LEMMA StartupLength == Len(Startup) = 21 /\ Running = 22 /\ DOMAIN Startup = 1..21
BY DEF Startup, Running

LEMMA StartupPlaces ==
  /\ Startup[1] = "apartment_market_segments" /\ Startup[2] = "pricing_strategies"
  /\ Startup[3] = "migrate segments" /\ Startup[4] = "owners" /\ Startup[5] = "owner_contracts"
  /\ Startup[6] = "manual_overrides" /\ Startup[7] = "bookings" /\ Startup[8] = "cost_definitions"
  /\ Startup[9] = "cost_allocation_rules" /\ Startup[10] = "migrate contracts"
  /\ Startup[11] = "resolve definitions" /\ Startup[12] = "ensure weights"
  /\ Startup[13] = "migrate lines" /\ Startup[14] = "company_cost_occurrences"
  /\ Startup[15] = "seed lines" /\ Startup[16] = "seed segments" /\ Startup[17] = "seed strategies"
  /\ Startup[18] = "seed owners" /\ Startup[19] = "seed contracts" /\ Startup[20] = "seed bookings"
  /\ Startup[21] = "seed occurrences"
BY DEF Startup

\* What is behind a transaction of the start, and behind its end.
LEMMA Behind ==
  /\ At("migrate contracts") => "cost_definitions" \in Past
  /\ At("resolve definitions") => {"cost_definitions", "migrate contracts"} \subseteq Past
  /\ At("ensure weights") => "resolve definitions" \in Past
  /\ At("migrate lines") => {"cost_definitions", "resolve definitions"} \subseteq Past
  /\ At("seed lines") => {"resolve definitions", "migrate lines"} \subseteq Past
  /\ At("seed strategies") => {"migrate segments", "seed segments"} \subseteq Past
  /\ At("seed contracts") => {"cost_definitions", "migrate contracts"} \subseteq Past
  /\ At("seed occurrences") => "resolve definitions" \in Past
  /\ At("resolve definitions") => "ensure weights" \notin Past
  /\ step = Running =>
       /\ Tables \ {"payment_lines"} \subseteq Past
       /\ {"migrate segments", "migrate contracts", "migrate lines"} \subseteq Past
       /\ {"resolve definitions", "ensure weights"} \subseteq Past
       /\ {"seed segments", "seed strategies", "seed contracts"} \subseteq Past
<1>1. \A i \in 1..21 : \A j \in 1..22 : i < j /\ step = j => Startup[i] \in Past
  BY DEF Past
<1>2. \A i \in 1..21 : i = 1 \/ i = 2 \/ i = 3 \/ i = 4 \/ i = 5 \/ i = 6 \/ i = 7 \/ i = 8 \/ i = 9 \/ i = 10 \/ i = 11
                        \/ i = 12 \/ i = 13 \/ i = 14 \/ i = 15 \/ i = 16 \/ i = 17 \/ i = 18 \/ i = 19 \/ i = 20 \/ i = 21
  OBVIOUS
<1>3. At("migrate contracts") => {"cost_definitions"} \subseteq Past
  <2>1. At("migrate contracts") => step = 10
    BY <1>2, StartupLength, StartupPlaces DEF At
  <2>2. step = 10 => Startup[8] \in Past
    BY <1>1
  <2> QED
    BY <2>1, <2>2, StartupPlaces
<1>4. At("resolve definitions") => {"cost_definitions", "migrate contracts"} \subseteq Past
  <2>1. At("resolve definitions") => step = 11
    BY <1>2, StartupLength, StartupPlaces DEF At
  <2>2. step = 11 => Startup[8] \in Past /\ Startup[10] \in Past
    BY <1>1
  <2> QED
    BY <2>1, <2>2, StartupPlaces
<1>5. At("ensure weights") => {"resolve definitions"} \subseteq Past
  <2>1. At("ensure weights") => step = 12
    BY <1>2, StartupLength, StartupPlaces DEF At
  <2>2. step = 12 => Startup[11] \in Past
    BY <1>1
  <2> QED
    BY <2>1, <2>2, StartupPlaces
<1>6. At("migrate lines") => {"cost_definitions", "resolve definitions"} \subseteq Past
  <2>1. At("migrate lines") => step = 13
    BY <1>2, StartupLength, StartupPlaces DEF At
  <2>2. step = 13 => Startup[8] \in Past /\ Startup[11] \in Past
    BY <1>1
  <2> QED
    BY <2>1, <2>2, StartupPlaces
<1>7. At("seed lines") => {"resolve definitions", "migrate lines"} \subseteq Past
  <2>1. At("seed lines") => step = 15
    BY <1>2, StartupLength, StartupPlaces DEF At
  <2>2. step = 15 => Startup[11] \in Past /\ Startup[13] \in Past
    BY <1>1
  <2> QED
    BY <2>1, <2>2, StartupPlaces
<1>8. At("seed strategies") => {"migrate segments", "seed segments"} \subseteq Past
  <2>1. At("seed strategies") => step = 17
    BY <1>2, StartupLength, StartupPlaces DEF At
  <2>2. step = 17 => Startup[3] \in Past /\ Startup[16] \in Past
    BY <1>1
  <2> QED
    BY <2>1, <2>2, StartupPlaces
<1>9. At("seed contracts") => {"cost_definitions", "migrate contracts"} \subseteq Past
  <2>1. At("seed contracts") => step = 19
    BY <1>2, StartupLength, StartupPlaces DEF At
  <2>2. step = 19 => Startup[8] \in Past /\ Startup[10] \in Past
    BY <1>1
  <2> QED
    BY <2>1, <2>2, StartupPlaces
<1>10. At("seed occurrences") => {"resolve definitions"} \subseteq Past
  <2>1. At("seed occurrences") => step = 21
    BY <1>2, StartupLength, StartupPlaces DEF At
  <2>2. step = 21 => Startup[11] \in Past
    BY <1>1
  <2> QED
    BY <2>1, <2>2, StartupPlaces
<1>11. At("resolve definitions") => "ensure weights" \notin Past
  <2>1. At("resolve definitions") => step = 11
    BY <1>2, StartupLength, StartupPlaces DEF At
  <2>2. ASSUME step = 11, NEW i \in 1..10, Startup[i] = "ensure weights"
        PROVE  FALSE
    <3>1. i = 1 \/ i = 2 \/ i = 3 \/ i = 4 \/ i = 5 \/ i = 6 \/ i = 7 \/ i = 8 \/ i = 9 \/ i = 10
      OBVIOUS
    <3> QED
      BY <2>2, <3>1, StartupPlaces
  <2>3. step = 11 => Past = {Startup[i] : i \in 1..10}
    BY DEF Past
  <2> QED
    BY <2>1, <2>2, <2>3
<1>12. step = Running =>
         /\ Tables \ {"payment_lines"} \subseteq Past
         /\ {"migrate segments", "migrate contracts", "migrate lines"} \subseteq Past
         /\ {"resolve definitions", "ensure weights"} \subseteq Past
         /\ {"seed segments", "seed strategies", "seed contracts"} \subseteq Past
  <2> SUFFICES ASSUME step = Running
               PROVE  /\ Tables \ {"payment_lines"} \subseteq Past
                      /\ {"migrate segments", "migrate contracts", "migrate lines"} \subseteq Past
                      /\ {"resolve definitions", "ensure weights"} \subseteq Past
                      /\ {"seed segments", "seed strategies", "seed contracts"} \subseteq Past
    OBVIOUS
  <2>1. \A i \in 1..21 : Startup[i] \in Past
    BY <1>1, StartupLength
  <2>2. Tables \ {"payment_lines"} \subseteq Past
    <3>1. Startup[1] \in Past /\ Startup[2] \in Past /\ Startup[4] \in Past /\ Startup[5] \in Past /\ Startup[6] \in Past
          /\ Startup[7] \in Past /\ Startup[8] \in Past /\ Startup[9] \in Past /\ Startup[14] \in Past
      BY <2>1
    <3>2. /\ "apartment_market_segments" \in Past /\ "pricing_strategies" \in Past /\ "owners" \in Past
          /\ "owner_contracts" \in Past /\ "manual_overrides" \in Past /\ "bookings" \in Past
          /\ "cost_definitions" \in Past /\ "cost_allocation_rules" \in Past /\ "company_cost_occurrences" \in Past
      BY <3>1, StartupPlaces
    <3> QED
      BY <3>2 DEF Tables
  <2>3. Startup[3] \in Past /\ Startup[10] \in Past /\ Startup[11] \in Past /\ Startup[12] \in Past
        /\ Startup[13] \in Past /\ Startup[16] \in Past /\ Startup[17] \in Past /\ Startup[19] \in Past
    BY <2>1
  <2>4. {"migrate segments", "migrate contracts", "migrate lines"} \subseteq Past
        /\ {"resolve definitions", "ensure weights"} \subseteq Past
        /\ {"seed segments", "seed strategies", "seed contracts"} \subseteq Past
    <3>1. /\ "migrate segments" \in Past /\ "migrate contracts" \in Past /\ "migrate lines" \in Past
          /\ "resolve definitions" \in Past /\ "ensure weights" \in Past
          /\ "seed segments" \in Past /\ "seed strategies" \in Past /\ "seed contracts" \in Past
      BY <2>3, StartupPlaces
    <3> QED
      BY ONLY <3>1
  <2> QED
    BY <2>2, <2>4
<1> QED
  BY <1>3, <1>4, <1>5, <1>6, <1>7, <1>8, <1>9, <1>10, <1>11, <1>12

\* A step of the start moves on by one, an end starts over.
LEMMA PastMoves ==
  ASSUME step \in 0..Running
  PROVE  /\ \A name : Done(name) => step \in 1..Len(Startup) /\ step' \in 0..Running /\ Past' = Past \union {name}
         /\ step' \in {0, 1} => Past' = {} /\ step' \in 0..Running
         /\ step' = step => Past' = Past /\ step' \in 0..Running
<1> DEFINE Upto(n) == {Startup[i] : i \in 1 .. n - 1}
<1>0. Past = Upto(step) /\ Past' = Upto(step')
  BY DEF Past
<1>1. step' = step => Past' = Past
  BY <1>0
<1>2. step' \in {0, 1} => Past' = {}
  <2>1. \A n \in {0, 1} : Upto(n) = {}
    <3> SUFFICES ASSUME NEW n \in {0, 1}
                 PROVE  Upto(n) = {}
      OBVIOUS
    <3>1. 1 .. n - 1 = {}
      OBVIOUS
    <3> QED
      BY <3>1
  <2> QED
    BY <1>0, <2>1
<1>3. ASSUME NEW name, Done(name)
      PROVE  step \in 1..Len(Startup) /\ step' \in 0..Running /\ Past' = Past \union {name}
  <2>1. step \in 1..21 /\ Startup[step] = name /\ step' = step + 1
    BY <1>3, StartupLength DEF Done, At
  <2>2. 1 .. step' - 1 = (1 .. step - 1) \union {step}
    BY <2>1
  <2>3. Upto(step') = Upto(step) \union {name}
    BY <2>1, <2>2
  <2>4. step' \in 0..22 /\ step \in 1..21
    BY <2>1
  <2> QED
    BY <1>0, <2>3, <2>4, StartupLength
<1>4. step' \in {0, 1} \/ step' = step => step' \in 0..Running
  BY StartupLength
<1> HIDE DEF Upto
<1> QED
  BY <1>1, <1>2, <1>3, <1>4

----------------------------------------------------------------------------
(* What a step changes: each part of the invariant stands under a few actions *)
(* only, and is untouched by the others.                                     *)

DefinitionsMove ==
  \/ \E t \in Tables : Ensure(t)
  \/ MigrateContracts \/ MigrateLines \/ ResolveCostDefinitionIds \/ EnsureWeightedAllocationConfig
  \/ SeedContract \/ EditWeights
DefinitionsStand ==
  UNCHANGED <<definitions, rules>> /\ ("cost_definitions" \in Past' => "cost_definitions" \in Past)

IdsMove == ResolveCostDefinitionIds \/ EnsureWeightedAllocationConfig
IdsStand ==
  \/ Past' = {}
  \/ /\ ids' = ids /\ Past \subseteq Past'
     /\ "resolve definitions" \in Past' => "resolve definitions" \in Past
     /\ "ensure weights" \in Past' => "ensure weights" \in Past

LinesMove == MigrateLines \/ Seed \/ InsertOne \/ FlipOnePendingToPaid
LinesStand == lines' = lines /\ ("payment_lines" \in legacy' <=> "payment_lines" \in legacy)

StrategiesMove ==
  \/ MigrateSegments \/ SeedApartmentMarketSegments \/ SeedPricingStrategies
  \/ \E o \in Operators : ReadStrategy(o) \/ InsertStrategy(o)
StrategiesStand ==
  /\ UNCHANGED <<segments, strategies, publishing>>
  /\ "apartment_market_segments" \in legacy' <=> "apartment_market_segments" \in legacy
  /\ "seed segments" \in Past' => "seed segments" \in Past
  /\ "seed strategies" \in Past' => "seed strategies" \in Past

ContractsMove ==
  MigrateContracts \/ SkipContracts \/ BeginContracts \/ SeedContract \/ CommitContracts \/ End
ContractsStand ==
  /\ UNCHANGED <<contracts, draft, next>>
  /\ step' = step \/ ~ At("seed contracts")
  /\ "owner_contracts" \in legacy' => "owner_contracts" \in legacy
  /\ "seed contracts" \in Past' => "seed contracts" \in Past

RowsMove ==
  SeedBookings \/ SeedCompanyCostOccurrences \/ InsertOneBooking \/ FlipOneConfirmedToCancelled
RowsStand == UNCHANGED <<bookings, occurrences>>

WhatChanges ==
  /\ DefinitionsMove \/ DefinitionsStand
  /\ IdsMove \/ IdsStand
  /\ LinesMove \/ LinesStand
  /\ StrategiesMove \/ StrategiesStand
  /\ ContractsMove \/ ContractsStand
  /\ RowsMove \/ RowsStand

\* A step of the start that is not one of the seed of the contracts.
LEMMA DoneStands ==
  ASSUME step \in 0..Running, NEW name, Done(name)
  PROVE  /\ Past' = Past \union {name} /\ publishing' = publishing
         /\ name # "seed contracts" => ~ At("seed contracts")
BY PastMoves DEF Done, At

LEMMA StepChanges ==
  ASSUME StartInv, [Next]_vars
  PROVE  WhatChanges
<1> USE DEF WhatChanges, DefinitionsStand, IdsStand, LinesStand, StrategiesStand, ContractsStand, RowsStand
<1>0. step \in 0..Running
  BY DEF StartInv
<1>1. CASE UNCHANGED vars
  <2>1. Past' = Past
    BY <1>0, <1>1, PastMoves DEF vars, process
  <2> QED
    BY <1>1, <2>1 DEF vars, database, process
<1>2. CASE Start
  <2>1. Past' = {} /\ ~ At("seed contracts")
    BY <1>0, <1>2, PastMoves DEF Start, At
  <2> QED
    BY <1>2, <2>1 DEF Start, database
<1>3. CASE End
  <2>1. Past' = {}
    BY <1>0, <1>3, PastMoves DEF End, Down
  <2> QED
    BY <1>3, <2>1 DEF End, database, ContractsMove
<1>4. CASE StartupStep
  <2>1. CASE \E t \in Tables : Ensure(t)
    <3>1. PICK t \in Tables : Ensure(t)
      BY <2>1
    <3>2. Past' = Past \union {t} /\ publishing' = publishing /\ ~ At("seed contracts")
      BY <1>0, <3>1, DoneStands DEF Ensure, Tables
    <3> QED
      BY <2>1, <3>1, <3>2 DEF Ensure, Tables, DefinitionsMove
  <2>2. CASE MigrateSegments
    <3>0. Done("migrate segments")
      BY <2>2 DEF MigrateSegments
    <3>1. Past' = Past \union {"migrate segments"} /\ publishing' = publishing
      BY <1>0, <3>0, DoneStands
    <3>2. ~ At("seed contracts")
      BY <3>0 DEF Done, At
    <3> QED
      BY <2>2, <3>1, <3>2 DEF MigrateSegments, StrategiesMove
  <2>3. CASE MigrateContracts
    <3>0. Done("migrate contracts")
      BY <2>3 DEF MigrateContracts
    <3>1. Past' = Past \union {"migrate contracts"} /\ publishing' = publishing
      BY <1>0, <3>0, DoneStands
    <3>2. ~ At("seed contracts")
      BY <3>0 DEF Done, At
    <3> QED
      BY <2>3, <3>1, <3>2 DEF MigrateContracts, DefinitionsMove, ContractsMove
  <2>4. CASE MigrateLines
    <3>0. Done("migrate lines")
      BY <2>4 DEF MigrateLines
    <3>1. Past' = Past \union {"migrate lines"} /\ publishing' = publishing
      BY <1>0, <3>0, DoneStands
    <3>2. ~ At("seed contracts")
      BY <3>0 DEF Done, At
    <3> QED
      BY <2>4, <3>1, <3>2 DEF MigrateLines, DefinitionsMove, LinesMove
  <2>5. CASE ResolveCostDefinitionIds
    <3>0. Done("resolve definitions")
      BY <2>5 DEF ResolveCostDefinitionIds
    <3>1. Past' = Past \union {"resolve definitions"} /\ publishing' = publishing
      BY <1>0, <3>0, DoneStands
    <3>2. ~ At("seed contracts")
      BY <3>0 DEF Done, At
    <3> QED
      BY <2>5, <3>1, <3>2 DEF ResolveCostDefinitionIds, DefinitionsMove, IdsMove
  <2>6. CASE EnsureWeightedAllocationConfig
    <3>0. Done("ensure weights")
      BY <2>6 DEF EnsureWeightedAllocationConfig
    <3>1. Past' = Past \union {"ensure weights"} /\ publishing' = publishing
      BY <1>0, <3>0, DoneStands
    <3>2. ~ At("seed contracts")
      BY <3>0 DEF Done, At
    <3> QED
      BY <2>6, <3>1, <3>2 DEF EnsureWeightedAllocationConfig, DefinitionsMove, IdsMove
  <2>7. CASE Seed
    <3>0. Done("seed lines")
      BY <2>7 DEF Seed
    <3>1. Past' = Past \union {"seed lines"} /\ publishing' = publishing
      BY <1>0, <3>0, DoneStands
    <3>2. ~ At("seed contracts")
      BY <3>0 DEF Done, At
    <3> QED
      BY <2>7, <3>1, <3>2 DEF Seed, LinesMove
  <2>8. CASE SeedApartmentMarketSegments
    <3>0. Done("seed segments")
      BY <2>8 DEF SeedApartmentMarketSegments
    <3>1. Past' = Past \union {"seed segments"} /\ publishing' = publishing
      BY <1>0, <3>0, DoneStands
    <3>2. ~ At("seed contracts")
      BY <3>0 DEF Done, At
    <3> QED
      BY <2>8, <3>1, <3>2 DEF SeedApartmentMarketSegments, StrategiesMove
  <2>9. CASE SeedPricingStrategies
    <3>0. Done("seed strategies")
      BY <2>9 DEF SeedPricingStrategies
    <3>1. Past' = Past \union {"seed strategies"} /\ publishing' = publishing
      BY <1>0, <3>0, DoneStands
    <3>2. ~ At("seed contracts")
      BY <3>0 DEF Done, At
    <3> QED
      BY <2>9, <3>1, <3>2 DEF SeedPricingStrategies, StrategiesMove
  <2>10. CASE SeedOwners
    <3>0. Done("seed owners")
      BY <2>10 DEF SeedOwners
    <3>1. Past' = Past \union {"seed owners"} /\ publishing' = publishing
      BY <1>0, <3>0, DoneStands
    <3>2. ~ At("seed contracts")
      BY <3>0 DEF Done, At
    <3> QED
      BY <2>10, <3>1, <3>2 DEF SeedOwners
  <2>11. CASE SkipContracts
    <3>0. Done("seed contracts")
      BY <2>11 DEF SkipContracts
    <3>1. Past' = Past \union {"seed contracts"} /\ publishing' = publishing
      BY <1>0, <3>0, DoneStands
    <3> QED
      BY <2>11, <3>1 DEF SkipContracts, ContractsMove, database
  <2>12. CASE BeginContracts
    <3>1. Past' = Past
      BY <1>0, <2>12, PastMoves DEF BeginContracts
    <3> QED
      BY <2>12, <3>1 DEF BeginContracts, ContractsMove, database
  <2>13. CASE SeedContract
    <3>1. Past' = Past
      BY <1>0, <2>13, PastMoves DEF SeedContract
    <3> QED
      BY <2>13, <3>1 DEF SeedContract, ContractsMove, DefinitionsMove
  <2>14. CASE CommitContracts
    <3>0. Done("seed contracts")
      BY <2>14 DEF CommitContracts
    <3>1. Past' = Past \union {"seed contracts"} /\ publishing' = publishing
      BY <1>0, <3>0, DoneStands
    <3> QED
      BY <2>14, <3>1 DEF CommitContracts, ContractsMove
  <2>15. CASE SeedBookings
    <3>0. Done("seed bookings")
      BY <2>15 DEF SeedBookings
    <3>1. Past' = Past \union {"seed bookings"} /\ publishing' = publishing
      BY <1>0, <3>0, DoneStands
    <3>2. ~ At("seed contracts")
      BY <3>0 DEF Done, At
    <3> QED
      BY <2>15, <3>1, <3>2 DEF SeedBookings, RowsMove
  <2>16. CASE SeedCompanyCostOccurrences
    <3>0. Done("seed occurrences")
      BY <2>16 DEF SeedCompanyCostOccurrences
    <3>1. Past' = Past \union {"seed occurrences"} /\ publishing' = publishing
      BY <1>0, <3>0, DoneStands
    <3>2. ~ At("seed contracts")
      BY <3>0 DEF Done, At
    <3> QED
      BY <2>16, <3>1, <3>2 DEF SeedCompanyCostOccurrences, RowsMove
  <2> QED
    BY <1>4, <2>1, <2>2, <2>3, <2>4, <2>5, <2>6, <2>7, <2>8,
       <2>9, <2>10, <2>11, <2>12, <2>13, <2>14, <2>15, <2>16 DEF StartupStep
<1>5. CASE RunForever
  <2>1. CASE InsertOne
    <3>1. Past' = Past /\ step' = step
      BY <1>0, <2>1, PastMoves DEF InsertOne, Generates, process
    <3> QED
      BY <2>1, <3>1 DEF InsertOne, Generates, process, LinesMove
  <2>2. CASE FlipOnePendingToPaid
    <3>1. Past' = Past /\ step' = step
      BY <1>0, <2>2, PastMoves DEF FlipOnePendingToPaid, Generates, process
    <3> QED
      BY <2>2, <3>1 DEF FlipOnePendingToPaid, Generates, process, LinesMove
  <2>3. CASE InsertOneBooking
    <3>1. Past' = Past /\ step' = step
      BY <1>0, <2>3, PastMoves DEF InsertOneBooking, Generates, process
    <3> QED
      BY <2>3, <3>1 DEF InsertOneBooking, Generates, process, RowsMove
  <2>4. CASE FlipOneConfirmedToCancelled
    <3>1. Past' = Past /\ step' = step
      BY <1>0, <2>4, PastMoves DEF FlipOneConfirmedToCancelled, Generates, process
    <3> QED
      BY <2>4, <3>1 DEF FlipOneConfirmedToCancelled, Generates, process, RowsMove
  <2> QED
    BY <1>5, <2>1, <2>2, <2>3, <2>4 DEF RunForever
<1>6. CASE \E o \in Operators : ReadStrategy(o) \/ InsertStrategy(o)
  <2>1. Past' = Past /\ step' = step
    BY <1>0, <1>6, PastMoves DEF ReadStrategy, InsertStrategy, process
  <2>2. UNCHANGED <<definitions, rules, ids, lines, legacy, contracts, draft, next, bookings, occurrences>>
    BY <1>6 DEF ReadStrategy, InsertStrategy, database, process
  <2> QED
    BY <1>6, <2>1, <2>2 DEF StrategiesMove
<1>7. CASE EditWeights
  <2>1. Past' = Past /\ step' = step
    BY <1>0, <1>7, PastMoves DEF EditWeights, process
  <2> QED
    BY <1>7, <2>1 DEF EditWeights, process, DefinitionsMove
<1>8. CASE NextMonth
  <2>1. Past' = Past /\ step' = step
    BY <1>0, <1>8, PastMoves DEF NextMonth, process
  <2> QED
    BY <1>8, <2>1 DEF NextMonth, database, process
<1> QED
  BY <1>1, <1>2, <1>3, <1>4, <1>5, <1>6, <1>7, <1>8 DEF Next

----------------------------------------------------------------------------
(* The definitions and their rules.                                          *)

\* Rules stay, weights are never taken away and those edited by hand not changed.
RulesKept ==
  \A d \in Definitions :
    /\ d \in Definitions'
    /\ rules[d].weights # None => rules'[d].weights # None
    /\ rules[d].weights = "edited" => rules'[d] = rules[d]

LEMMA CommissionShapes ==
  ASSUME NEW terms \in CommissionTerms
  PROVE  CommissionShape(terms) \in ShapeRecords /\ Rated(CommissionShape(terms))
         /\ CommissionShape(terms).concept = "owner_commission"
<1>1. terms \in Rates /\ terms # None
  BY NoneAssumption DEF Rates
<1>2. "owner_commission" \in Concepts /\ "booking" \in Scopes /\ "variable" \in Behaviors
      /\ "per_booking" \in Recurrences
  BY DEF Concepts, Scopes, Behaviors, Recurrences
<1>3. CommissionShape(terms) \in ShapeRecords
  BY <1>1, <1>2 DEF CommissionShape, Shape, ShapeRecords
<1>4. CommissionShape(terms).rate = terms /\ CommissionShape(terms).concept = "owner_commission"
  BY DEF CommissionShape, Shape
<1> QED
  BY <1>1, <1>3, <1>4 DEF Rated

LEMMA LegacyShapes ==
  ASSUME NEW bill \in BillRecords
  PROVE  LegacyShape(bill) \in ShapeRecords /\ Rated(LegacyShape(bill)) /\ Fits(LegacyShape(bill), bill)
<1> DEFINE scope == IF bill.concept \in {"ota_fee", "channel_manager"} THEN "booking" ELSE "property"
           behavior == IF bill.costType = "one_time" THEN "variable" ELSE bill.costType
           recurrence == IF bill.costType = "one_time" THEN "one_off" ELSE "monthly"
<1>1. None \in Rates
  BY DEF Rates
<1>2. bill.concept \in Concepts /\ bill.costType \in Behaviors \union {"one_time"}
  BY DEF BillRecords
<1>3. scope \in Scopes
  BY DEF Scopes
<1>4. behavior \in Behaviors
  BY <1>2 DEF Behaviors
<1>5. recurrence \in Recurrences
  BY DEF Recurrences
<1>6. LegacyShape(bill) = [concept |-> bill.concept, scope |-> scope, behavior |-> behavior,
                           recurrence |-> recurrence, percentage |-> FALSE, rate |-> None]
  BY DEF LegacyShape, Shape
<1> HIDE DEF scope, behavior, recurrence
<1>7. LegacyShape(bill) \in ShapeRecords
  BY <1>1, <1>2, <1>3, <1>4, <1>5, <1>6 DEF ShapeRecords
<1>8. LegacyShape(bill).concept = bill.concept /\ LegacyShape(bill).percentage = FALSE
  BY <1>6
<1> QED
  BY <1>7, <1>8 DEF Fits, Rated

LEMMA DefinitionsTypes ==
  ASSUME DefinitionsInv
  PROVE  /\ Len(definitions) \in Nat /\ Definitions = 1..Len(definitions) /\ DOMAIN rules = Definitions
         /\ \A d \in Definitions : definitions[d] \in ShapeRecords /\ rules[d] \in RuleRecords
BY DEF DefinitionsInv, Definitions

LEMMA DefinitionsStandStill ==
  ASSUME DefinitionsInv, DefinitionsStand
  PROVE  DefinitionsInv' /\ RulesKept
<1>1. Definitions' = Definitions
  BY DEF DefinitionsStand, Definitions
<1> QED
  BY <1>1 DEF DefinitionsInv, DefinitionsStand, RulesKept

\* New definitions, each different from those that are there, and their rules.
LEMMA MoreDefinitions ==
  ASSUME DefinitionsInv, "cost_definitions" \in Past,
         NEW new \in Seq(ShapeRecords),
         \A i, j \in DOMAIN new : new[i] = new[j] => i = j,
         \A i \in DOMAIN new : Rated(new[i]),
         \A d \in Definitions, i \in DOMAIN new : definitions[d] # new[i],
         definitions' = definitions \o new,
         NEW D, NEW m, rules' = Ruled(D, m),
         Definitions \union D = DOMAIN (definitions \o new),
         \A d \in D \ Definitions : m[d] \in Methods
  PROVE  DefinitionsInv' /\ RulesKept
<1> DEFINE all == definitions \o new
<1>1. definitions \in Seq(ShapeRecords) /\ \A d, e \in DOMAIN definitions : definitions[d] = definitions[e] => d = e
  BY DEF DefinitionsInv, Definitions
<1>2. Definitions = DOMAIN definitions /\ Definitions' = DOMAIN all
  BY DEF Definitions
<1>3. /\ all \in Seq(ShapeRecords) /\ DOMAIN definitions \subseteq DOMAIN all
      /\ \A i \in DOMAIN definitions : all[i] = definitions[i]
      /\ \A i \in DOMAIN all \ DOMAIN definitions :
           i - Len(definitions) \in DOMAIN new /\ all[i] = new[i - Len(definitions)]
      /\ \A i, j \in DOMAIN all : all[i] = all[j] => i = j
  BY <1>1, <1>2, Continued
<1>4. \A d \in Definitions : Rated(definitions[d])
  BY DEF DefinitionsInv
<1>5. \A d \in DOMAIN all : Rated(all[d])
  BY <1>2, <1>3, <1>4
<1>6. DOMAIN rules = Definitions /\ \A d \in Definitions : rules[d] \in RuleRecords
  BY DefinitionsTypes
<1>7. rules' = [d \in DOMAIN all |-> IF d \in Definitions THEN rules[d] ELSE [method |-> m[d], weights |-> None]]
  BY <1>2, <1>6 DEF Ruled
<1>8. rules' \in [DOMAIN all -> RuleRecords]
  BY <1>2, <1>6, <1>7 DEF RuleRecords
<1>9. \A d \in Definitions : rules'[d] = rules[d] /\ d \in Definitions'
  BY <1>2, <1>3, <1>7
<1>10. DefinitionsInv'
  <2>1. definitions' = all
    OBVIOUS
  <2> HIDE DEF all
  <2> QED
    BY <1>2, <1>3, <1>5, <1>8, <2>1 DEF DefinitionsInv
<1> QED
  BY <1>9, <1>10 DEF RulesKept

\* ensure_cost_definitions_schema gives all rates at once, so that definitions
\* that differed still do.
LEMMA EnsureKeepsDefinitions ==
  ASSUME StartInv, DefinitionsInv, NEW t \in Tables, Ensure(t)
  PROVE  DefinitionsInv' /\ RulesKept
<1>1. rules' = rules /\ Past' = Past \union {t}
  BY DoneStands DEF Ensure, StartInv
<1>2. CASE t # "cost_definitions"
  <2>1. definitions' = definitions
    BY <1>2 DEF Ensure
  <2> QED
    BY <1>1, <1>2, <2>1, DefinitionsStandStill DEF DefinitionsStand
<1>3. CASE t = "cost_definitions"
  <2>1. definitions' = [d \in Definitions |->
          IF definitions[d].percentage /\ definitions[d].rate = None
          THEN [definitions[d] EXCEPT !.rate = DefaultRate] ELSE definitions[d]]
    BY <1>3 DEF Ensure, Definitions
  <2>2. Len(definitions) \in Nat /\ Definitions = 1..Len(definitions)
        /\ \A d \in Definitions : definitions[d] \in ShapeRecords
    BY DefinitionsTypes
  <2>3. \A d \in Definitions : definitions'[d] \in ShapeRecords /\ Rated(definitions'[d])
    <3> SUFFICES ASSUME NEW d \in Definitions
                 PROVE  definitions'[d] \in ShapeRecords /\ Rated(definitions'[d])
      OBVIOUS
    <3>1. definitions[d] \in ShapeRecords
      BY <2>2
    <3>2. CASE definitions[d].percentage /\ definitions[d].rate = None
      <4>1. definitions'[d] = [definitions[d] EXCEPT !.rate = DefaultRate]
        BY <2>1, <3>2
      <4> QED
        BY <3>1, <4>1, NoneAssumption DEF ShapeRecords, Rates, Rated
    <3>3. CASE ~ (definitions[d].percentage /\ definitions[d].rate = None)
      <4>1. definitions'[d] = definitions[d]
        BY <2>1, <3>3
      <4> QED
        BY <3>1, <3>3, <4>1 DEF Rated
    <3> QED
      BY <3>2, <3>3
  <2>4. definitions' \in Seq(ShapeRecords) /\ Definitions' = Definitions
    <3>1. DOMAIN definitions' = 1..Len(definitions) /\ definitions' = [d \in 1..Len(definitions) |-> definitions'[d]]
      BY <2>1, <2>2
    <3>2. \A d \in 1..Len(definitions) : definitions'[d] \in ShapeRecords
      BY <2>2, <2>3
    <3>3. definitions' \in [1..Len(definitions) -> ShapeRecords]
      BY <3>1, <3>2
    <3>4. definitions' \in Seq(ShapeRecords)
      BY <2>2, <3>3
    <3> QED
      BY <2>2, <3>1, <3>4 DEF Definitions
  <2>5. ASSUME NEW d \in Definitions, NEW e \in Definitions, definitions'[d] = definitions'[e]
        PROVE  d = e
    <3>1. definitions[d] = definitions[e] => d = e
      BY DEF DefinitionsInv
    <3>2. CASE \A x \in Definitions : Rated(definitions[x])
      BY <2>1, <2>5, <3>1, <3>2 DEF Rated
    <3>3. CASE \A x \in Definitions : Unrated(definitions[x])
      <4>1. definitions[d] \in ShapeRecords /\ definitions[e] \in ShapeRecords
        BY <2>2
      <4>2. definitions[d] = [concept |-> definitions[d].concept, scope |-> definitions[d].scope,
              behavior |-> definitions[d].behavior, recurrence |-> definitions[d].recurrence,
              percentage |-> definitions[d].percentage, rate |-> definitions[d].rate]
        BY <4>1 DEF ShapeRecords
      <4>3. definitions[e] = [concept |-> definitions[e].concept, scope |-> definitions[e].scope,
              behavior |-> definitions[e].behavior, recurrence |-> definitions[e].recurrence,
              percentage |-> definitions[e].percentage, rate |-> definitions[e].rate]
        BY <4>1 DEF ShapeRecords
      <4>4. \A x \in Definitions :
              /\ definitions'[x].concept = definitions[x].concept
              /\ definitions'[x].scope = definitions[x].scope
              /\ definitions'[x].behavior = definitions[x].behavior
              /\ definitions'[x].recurrence = definitions[x].recurrence
              /\ definitions'[x].percentage = definitions[x].percentage
              /\ ~ definitions[x].percentage => definitions'[x].rate = definitions[x].rate
              /\ definitions[x].percentage => definitions[x].rate = None
        <5> SUFFICES ASSUME NEW x \in Definitions
                     PROVE  /\ definitions'[x].concept = definitions[x].concept
                            /\ definitions'[x].scope = definitions[x].scope
                            /\ definitions'[x].behavior = definitions[x].behavior
                            /\ definitions'[x].recurrence = definitions[x].recurrence
                            /\ definitions'[x].percentage = definitions[x].percentage
                            /\ ~ definitions[x].percentage => definitions'[x].rate = definitions[x].rate
                            /\ definitions[x].percentage => definitions[x].rate = None
          OBVIOUS
        <5>1. definitions[x] \in ShapeRecords
          BY <2>2
        <5>2. definitions'[x] = IF definitions[x].percentage /\ definitions[x].rate = None
                THEN [definitions[x] EXCEPT !.rate = DefaultRate] ELSE definitions[x]
          BY <2>1
        <5>3. definitions[x].percentage => definitions[x].rate = None
          BY <3>3 DEF Unrated
        <5> QED
          BY <5>1, <5>2, <5>3 DEF ShapeRecords
      <4>5. definitions[d].rate = definitions[e].rate
        BY <2>5, <4>4
      <4>6. definitions[d] = definitions[e]
        BY <2>5, <4>2, <4>3, <4>4, <4>5
      <4> QED
        BY <3>1, <4>6
    <3> QED
      BY <3>2, <3>3 DEF DefinitionsInv
  <2>6. rules' \in [Definitions' -> RuleRecords]
    BY <1>1, <2>4 DEF DefinitionsInv
  <2>7. DefinitionsInv'
    BY <2>3, <2>4, <2>5, <2>6 DEF DefinitionsInv
  <2> QED
    BY <1>1, <2>4, <2>7 DEF RulesKept
<1> QED
  BY <1>2, <1>3

\* The shapes that no definition has yet, each once.
LEMMA MissingShapes ==
  ASSUME DefinitionsInv, NEW S, IsFiniteSet(S), \A s \in S : s \in ShapeRecords /\ Rated(s),
         \A s \in S : Matching(s) = {}
  PROVE  /\ SetToSeq(S) \in Seq(ShapeRecords)
         /\ \A i, j \in DOMAIN SetToSeq(S) : SetToSeq(S)[i] = SetToSeq(S)[j] => i = j
         /\ \A i \in DOMAIN SetToSeq(S) : SetToSeq(S)[i] \in S /\ Rated(SetToSeq(S)[i])
         /\ \A d \in Definitions, i \in DOMAIN SetToSeq(S) : definitions[d] # SetToSeq(S)[i]
         /\ \A s \in S : \E i \in DOMAIN SetToSeq(S) : SetToSeq(S)[i] = s
<1> DEFINE q == SetToSeq(S)
<1>1. q \in Seq(S) /\ (\A i, j \in 1..Len(q) : q[i] = q[j] => i = j) /\ \A s \in S : \E i \in 1..Len(q) : q[i] = s
  BY SetToSeqLists
<1> HIDE DEF q
<1>2. DOMAIN q = 1..Len(q) /\ \A i \in DOMAIN q : q[i] \in S
  BY <1>1
<1>3. q \in Seq(ShapeRecords)
  BY <1>1, <1>2
<1>4. \A d \in Definitions, i \in DOMAIN q : definitions[d] # q[i]
  BY <1>2 DEF Matching, Definitions
<1>5. \A i \in DOMAIN q : Rated(q[i])
  BY <1>2
<1> QED
  BY <1>1, <1>2, <1>3, <1>4, <1>5 DEF q

\* The contracts of an older phase: migrate_owner_contracts_to_cost_definitions.
LEMMA OldContracts ==
  ASSUME ContractsInv, "owner_contracts" \in legacy
  PROVE  \A a \in Apartments : contracts[a] # None => contracts[a].terms \in CommissionTerms
<1> SUFFICES ASSUME NEW a \in Apartments, contracts[a] # None
             PROVE  contracts[a].terms \in CommissionTerms
  OBVIOUS
<1>1. contracts[a] \in [terms : CommissionTerms \union {None}, definition : Definitions \union {None}]
  BY DEF ContractsInv, Contracts
<1>2. contracts[a].terms # None
  BY DEF ContractsInv, OldTerms
<1> QED
  BY <1>1, <1>2

LEMMA MigrateContractsKeepsDefinitions ==
  ASSUME StartInv, DefinitionsInv, ContractsInv, MigrateContracts
  PROVE  DefinitionsInv' /\ RulesKept
<1>1. At("migrate contracts") /\ step \in 0..Running
  BY DEF MigrateContracts, Done, StartInv
<1>2. "cost_definitions" \in Past
  BY <1>1, Behind
<1>3. CASE "owner_contracts" \notin legacy
  <2>1. UNCHANGED <<definitions, rules>>
    BY <1>3 DEF MigrateContracts
  <2> QED
    BY <1>2, <2>1, DefinitionsStandStill DEF DefinitionsStand
<1>4. CASE "owner_contracts" \in legacy
  <2> DEFINE old == {a \in Apartments : contracts[a] # None}
             shape == [a \in old |-> CommissionShape(contracts[a].terms)]
             shapes == {CommissionShape(contracts[a].terms) : a \in old}
             S == {s \in shapes : Matching(s) = {}}
             new == SetToSeq(S)
             all == definitions \o new
             D == {d \in DOMAIN all : all[d].concept = "owner_commission"}
             m == [d \in DOMAIN all |-> "direct"]
  <2>1. definitions' = all /\ rules' = Ruled(D, m)
    BY <1>4 DEF MigrateContracts
  <2>2. \A s \in shapes : s \in ShapeRecords /\ Rated(s) /\ s.concept = "owner_commission"
    BY <1>4, OldContracts, CommissionShapes
  <2>3. IsFiniteSet(S)
    <3>1. IsFiniteSet(old)
      BY FiniteApartments, FS_Subset
    <3>2. shape = [a \in old |-> shape[a]] /\ shapes = {shape[a] : a \in old}
      OBVIOUS
    <3>3. IsFiniteSet(shapes)
      <4> HIDE DEF shape, shapes, old
      <4> QED
        BY <3>1, <3>2, FiniteValues
    <3> QED
      BY <3>3, FS_Subset
  <2>4. (\A s \in S : s \in ShapeRecords /\ Rated(s)) /\ \A s \in S : Matching(s) = {}
    BY <2>2
  <2>5. /\ new \in Seq(ShapeRecords)
        /\ \A i, j \in DOMAIN new : new[i] = new[j] => i = j
        /\ \A i \in DOMAIN new : new[i] \in S /\ Rated(new[i])
        /\ \A d \in Definitions, i \in DOMAIN new : definitions[d] # new[i]
    <3> HIDE DEF S
    <3> QED
      BY <2>3, <2>4, MissingShapes
  <2>6. definitions \in Seq(ShapeRecords) /\ Definitions = DOMAIN definitions
    BY DEF DefinitionsInv, Definitions
  <2>7. Definitions \union D = DOMAIN all
    <3>1. /\ DOMAIN definitions \subseteq DOMAIN all
          /\ \A i \in DOMAIN all \ DOMAIN definitions :
               i - Len(definitions) \in DOMAIN new /\ all[i] = new[i - Len(definitions)]
      <4> HIDE DEF new
      <4> QED
        BY <2>5, <2>6, Continued DEF DefinitionsInv, Definitions
    <3>2. \A i \in DOMAIN new : new[i].concept = "owner_commission"
      BY <2>2, <2>5
    <3> HIDE DEF new, all
    <3>3. \A i \in DOMAIN all \ DOMAIN definitions : i \in D
      BY <3>1, <3>2
    <3> QED
      BY <2>6, <3>1, <3>3
  <2>8. \A d \in D \ Definitions : m[d] \in Methods
    BY DEF Methods
  <2> HIDE DEF new, D, m
  <2> QED
    BY <1>2, <2>1, <2>5, <2>7, <2>8, MoreDefinitions
<1> QED
  BY <1>3, <1>4

\* The bills of an older phase: backfill of migrate_payment_lines_to_cost_definitions.
LEMMA OldLines ==
  ASSUME LinesInv, "payment_lines" \in legacy
  PROVE  /\ Len(lines) \in Nat /\ DOMAIN lines = 1..Len(lines) /\ DOMAIN lines = DOMAIN OldBills
         /\ \A l \in DOMAIN lines :
              /\ lines[l].bill = OldBills[l] /\ OldBills[l] \in BillRecords /\ lines[l].bill # None
              /\ lines[l].apartment = OldBills[l].apartment /\ lines[l].month = OldBills[l].month
<1>1. lines \in Seq(LineRecords) /\ Len(lines) = Len(OldBills) /\ OldBills \in Seq(BillRecords)
  BY OldBillsAssumption DEF LinesInv
<1>2. Len(lines) \in Nat /\ DOMAIN lines = 1..Len(lines) /\ DOMAIN lines = DOMAIN OldBills
  BY <1>1
<1>3. \A l \in DOMAIN lines : OldBills[l] \in BillRecords
  BY <1>1, <1>2
<1>4. \A l \in DOMAIN lines : lines[l] = OldLine(OldBills[l])
  BY DEF LinesInv
<1>5. \A l \in DOMAIN lines : lines[l].bill = OldBills[l] /\ lines[l].apartment = OldBills[l].apartment
                               /\ lines[l].month = OldBills[l].month
  BY <1>4 DEF OldLine
<1> QED
  BY <1>2, <1>3, <1>5, NoneAssumption

LEMMA MigrateLinesKeepsDefinitions ==
  ASSUME StartInv, DefinitionsInv, LinesInv, MigrateLines
  PROVE  DefinitionsInv' /\ RulesKept
<1>1. At("migrate lines") /\ step \in 0..Running
  BY DEF MigrateLines, Done, StartInv
<1>2. "cost_definitions" \in Past
  BY <1>1, Behind
<1>3. CASE "payment_lines" \notin legacy
  <2>1. UNCHANGED <<definitions, rules>>
    BY <1>3 DEF MigrateLines
  <2> QED
    BY <1>2, <2>1, DefinitionsStandStill DEF DefinitionsStand
<1>4. CASE "payment_lines" \in legacy
  <2> DEFINE bills == {lines[l].bill : l \in DOMAIN lines}
             bill == [l \in DOMAIN lines |-> lines[l].bill]
             unknown == {b \in bills : \A d \in DOMAIN definitions : ~ Fits(definitions[d], b)}
             shape == [b \in unknown |-> LegacyShape(b)]
             S == {LegacyShape(b) : b \in unknown}
             new == SetToSeq(S)
             all == definitions \o new
             m == [d \in DOMAIN all |-> IF all[d].recurrence = "one_off" THEN "direct" ELSE "calendar_day"]
  <2>1. definitions' = all /\ rules' = Ruled(DOMAIN all, m)
    BY <1>4 DEF MigrateLines
  <2>2. DOMAIN lines = 1..Len(lines) /\ Len(lines) \in Nat /\ \A b \in bills : b \in BillRecords
    BY <1>4, OldLines
  <2>3. IsFiniteSet(S)
    <3>1. IsFiniteSet(DOMAIN lines)
      <4>1. 1 \in Int /\ Len(lines) \in Int
        BY <2>2
      <4> QED
        BY <2>2, <4>1, FS_Interval
    <3>2. bill = [l \in DOMAIN lines |-> bill[l]] /\ bills = {bill[l] : l \in DOMAIN lines}
      OBVIOUS
    <3>3. IsFiniteSet(bills)
      <4> HIDE DEF bill, bills
      <4> QED
        BY <3>1, <3>2, FiniteValues
    <3>4. IsFiniteSet(unknown)
      BY <3>3, FS_Subset
    <3>5. shape = [b \in unknown |-> shape[b]] /\ S = {shape[b] : b \in unknown}
      OBVIOUS
    <3> HIDE DEF shape, S, unknown
    <3> QED
      BY <3>4, <3>5, FiniteValues
  <2>4. \A s \in S : s \in ShapeRecords /\ Rated(s)
    BY <2>2, LegacyShapes
  <2>5. \A s \in S : Matching(s) = {}
    <3> SUFFICES ASSUME NEW b \in unknown, NEW d \in DOMAIN definitions, definitions[d] = LegacyShape(b)
                 PROVE  FALSE
      BY DEF Matching
    <3>1. Fits(LegacyShape(b), b)
      BY <2>2, LegacyShapes
    <3> QED
      BY <3>1
  <2>6. /\ new \in Seq(ShapeRecords)
        /\ \A i, j \in DOMAIN new : new[i] = new[j] => i = j
        /\ \A i \in DOMAIN new : new[i] \in S /\ Rated(new[i])
        /\ \A d \in Definitions, i \in DOMAIN new : definitions[d] # new[i]
    <3> HIDE DEF S
    <3> QED
      BY <2>3, <2>4, <2>5, MissingShapes
  <2>7. Definitions \union DOMAIN all = DOMAIN all
    <3> HIDE DEF new
    <3> QED
      BY <2>6, Continued DEF DefinitionsInv, Definitions
  <2>8. \A d \in DOMAIN all \ Definitions : m[d] \in Methods
    BY DEF Methods
  <2> HIDE DEF new, m
  <2> QED
    BY <1>2, <2>1, <2>6, <2>7, <2>8, MoreDefinitions
<1> QED
  BY <1>3, <1>4

\* resolve_cost_definition_ids leaves a definition of every spec, and its id.
LEMMA ResolveKeepsDefinitions ==
  ASSUME StartInv, DefinitionsInv, ResolveCostDefinitionIds
  PROVE  DefinitionsInv' /\ RulesKept /\ ids' \in [SpecConcepts -> Definitions']
<1>1. At("resolve definitions") /\ step \in 0..Running
  BY DEF ResolveCostDefinitionIds, Done, StartInv
<1>2. "cost_definitions" \in Past
  BY <1>1, Behind
<1> DEFINE missing == {i \in DOMAIN Specs : Matching(Specs[i].shape) = {}}
           new == SetToSeq(missing)
           size == Len(definitions)
           ext == [i \in DOMAIN new |-> Specs[new[i]].shape]
           all == definitions \o ext
           m == [d \in size + 1 .. Len(all) |-> Specs[new[d - size]].method]
<1>3. definitions' = all /\ rules' = Ruled(DOMAIN all, m)
  BY DEF ResolveCostDefinitionIds
<1>4. /\ Specs \in Seq([shape : ShapeRecords, method : Methods])
      /\ DOMAIN Specs = 1..Len(Specs) /\ Len(Specs) \in Nat
      /\ \A i \in DOMAIN Specs : Specs[i].shape \in ShapeRecords /\ Specs[i].method \in Methods
      /\ \A i \in DOMAIN Specs : Rated(Specs[i].shape)
      /\ \A i, j \in DOMAIN Specs : Specs[i].shape = Specs[j].shape => i = j
  <2>1. /\ Specs \in Seq([shape : ShapeRecords, method : Methods])
        /\ DOMAIN Specs = 1..Len(Specs) /\ Len(Specs) \in Nat
    BY SpecsAssumption
  <2>2. \A i \in DOMAIN Specs : Specs[i] \in [shape : ShapeRecords, method : Methods]
    <3> DEFINE R == [shape : ShapeRecords, method : Methods]
    <3>1. Specs \in Seq(R)
      BY <2>1
    <3> HIDE DEF R
    <3>2. \A i \in DOMAIN Specs : Specs[i] \in R
      BY <2>1, <3>1
    <3> QED
      BY <3>2 DEF R
  <2>3. \A i \in DOMAIN Specs : Specs[i].shape \in ShapeRecords /\ Specs[i].method \in Methods
    BY <2>2
  <2> QED
    BY <2>1, <2>3, SpecsAssumption DEF Rated
<1>5. IsFiniteSet(missing)
  <2>1. 1 \in Int /\ Len(Specs) \in Int
    BY <1>4
  <2>2. IsFiniteSet(DOMAIN Specs)
    BY <1>4, <2>1, FS_Interval
  <2> QED
    BY <2>2, FS_Subset
<1>6. /\ new \in Seq(missing) /\ DOMAIN new = 1..Len(new) /\ Len(new) \in Nat
      /\ \A i \in DOMAIN new : new[i] \in missing
      /\ \A i, j \in DOMAIN new : new[i] = new[j] => i = j
      /\ \A x \in missing : \E i \in DOMAIN new : new[i] = x
  <2> HIDE DEF missing
  <2>1. new \in Seq(missing)
    BY <1>5, SetToSeqLists
  <2>2. DOMAIN new = 1..Len(new) /\ Len(new) \in Nat
    BY <2>1
  <2>3. (\A i, j \in 1..Len(new) : new[i] = new[j] => i = j) /\ \A x \in missing : \E i \in 1..Len(new) : new[i] = x
    BY <1>5, SetToSeqLists
  <2> HIDE DEF new
  <2> QED
    BY <2>1, <2>2, <2>3
<1> HIDE DEF new
<1>7. /\ DOMAIN ext = DOMAIN new
      /\ \A i \in DOMAIN ext : ext[i] = Specs[new[i]].shape /\ new[i] \in DOMAIN Specs /\ Matching(ext[i]) = {}
  BY <1>6
<1>8. ext \in Seq(ShapeRecords)
  <2>1. ext \in [1..Len(new) -> ShapeRecords]
    BY <1>4, <1>6, <1>7
  <2> QED
    BY <1>6, <2>1
<1>9. (\A i \in DOMAIN ext : Rated(ext[i])) /\ \A i, j \in DOMAIN ext : ext[i] = ext[j] => i = j
  BY <1>4, <1>6, <1>7
<1>10. \A d \in Definitions, i \in DOMAIN ext : definitions[d] # ext[i]
  BY <1>7 DEF Matching, Definitions
<1>11. definitions \in Seq(ShapeRecords) /\ Definitions = DOMAIN definitions /\ Definitions = 1..size /\ size \in Nat
  BY DEF DefinitionsInv, Definitions
<1>12. /\ DOMAIN all = 1..Len(all) /\ Len(all) = size + Len(new) /\ Definitions \subseteq DOMAIN all
       /\ \A i \in DOMAIN ext : all[size + i] = ext[i] /\ size + i \in DOMAIN all
       /\ \A i \in DOMAIN definitions : all[i] = definitions[i]
  <2>1. Len(ext) = Len(new)
    BY <1>6, <1>8
  <2>2. /\ Len(all) = Len(definitions) + Len(ext) /\ DOMAIN all = 1 .. Len(definitions) + Len(ext)
        /\ \A i \in DOMAIN ext : all[Len(definitions) + i] = ext[i]
        /\ \A i \in DOMAIN definitions : all[i] = definitions[i]
    <3> HIDE DEF ext
    <3> QED
      BY <1>8, <1>9, <1>10, <1>11, Continued DEF DefinitionsInv
  <2>3. \A i \in DOMAIN ext : i \in 1..Len(new)
    BY <1>6, <1>7
  <2> HIDE DEF ext, all
  <2> QED
    BY <1>6, <1>11, <2>1, <2>2, <2>3
<1>13. \A d \in DOMAIN all \ Definitions : m[d] \in Methods
  <2> SUFFICES ASSUME NEW d \in DOMAIN all \ Definitions
               PROVE  m[d] \in Methods
    OBVIOUS
  <2>1. d \in size + 1 .. Len(all) /\ d - size \in DOMAIN new
    <3> HIDE DEF all
    <3> QED
      BY <1>6, <1>11, <1>12
  <2>2. new[d - size] \in DOMAIN Specs
    BY <1>6, <2>1
  <2> QED
    BY <1>4, <2>1, <2>2
<1>14. Definitions \union DOMAIN all = DOMAIN all
  BY <1>12
<1>15. DefinitionsInv' /\ RulesKept
  <2> HIDE DEF ext, m
  <2> QED
    BY <1>2, <1>3, <1>8, <1>9, <1>10, <1>13, <1>14, MoreDefinitions
<1>16. ids' \in [SpecConcepts -> Definitions']
  <2> DEFINE id(c) == CHOOSE d \in DOMAIN definitions' : definitions'[d] \in {s \in Shapes : s.concept = c}
  <2>1. ids' = [c \in SpecConcepts |-> id(c)]
    <3>1. {s.concept : s \in Shapes} = SpecConcepts
      BY DEF Shapes, SpecConcepts
    <3> QED
      BY <3>1 DEF ResolveCostDefinitionIds
  <2>2. \A c \in SpecConcepts : \E d \in DOMAIN all : all[d] \in {s \in Shapes : s.concept = c}
    <3> SUFFICES ASSUME NEW i \in DOMAIN Specs
                 PROVE  \E d \in DOMAIN all : all[d] = Specs[i].shape
      BY DEF SpecConcepts, Shapes
    <3>1. CASE i \in missing
      <4>1. PICK k \in DOMAIN new : new[k] = i
        BY <1>6, <3>1
      <4>2. ext[k] = Specs[i].shape /\ k \in DOMAIN ext
        BY <1>7, <4>1
      <4> HIDE DEF ext, all
      <4> QED
        BY <1>12, <4>2
    <3>2. CASE i \notin missing
      <4>1. PICK d \in DOMAIN definitions : definitions[d] = Specs[i].shape
        BY <3>2 DEF Matching
      <4> HIDE DEF all
      <4> QED
        BY <1>11, <1>12, <4>1
    <3> QED
      BY <3>1, <3>2
  <2>3. \A c \in SpecConcepts : id(c) \in DOMAIN definitions'
    <3> HIDE DEF all
    <3> QED
      BY <1>3, <2>2
  <2> HIDE DEF id
  <2> QED
    BY <2>1, <2>3 DEF Definitions
<1> QED
  BY <1>15, <1>16

\* ensure_weighted_allocation_config gives the rent of the office weights, and
\* leaves those it has.
LEMMA WeightsKeepDefinitions ==
  ASSUME StartInv, DefinitionsInv, IdsInv, EnsureWeightedAllocationConfig
  PROVE  DefinitionsInv' /\ RulesKept /\ rules'[ids["office_rent"]].weights # None
<1>1. At("ensure weights") /\ step \in 0..Running /\ Done("ensure weights")
  BY DEF EnsureWeightedAllocationConfig, Done, StartInv
<1>2. ids \in [SpecConcepts -> Definitions]
  BY <1>1, Behind DEF IdsInv
<1> DEFINE rent == ids["office_rent"]
<1>3. rent \in Definitions
  BY <1>2, SpecsAssumption DEF SpecConcepts
<1>4. DOMAIN rules = Definitions /\ rules \in [Definitions -> RuleRecords] /\ rules[rent] \in RuleRecords
  BY <1>3 DEF DefinitionsInv
<1>5. definitions' = definitions /\ Definitions' = Definitions
  BY DEF EnsureWeightedAllocationConfig, Definitions
<1>6. "cost_definitions" \in Past' => "cost_definitions" \in Past
  <2>1. Past' = Past \union {"ensure weights"}
    BY <1>1, DoneStands
  <2> QED
    BY <2>1
<1>7. CASE rules[rent].weights # None
  <2>1. rules' = rules
    BY <1>7 DEF EnsureWeightedAllocationConfig
  <2> QED
    BY <1>5, <1>6, <1>7, <2>1, DefinitionsStandStill DEF DefinitionsStand
<1>8. CASE rules[rent].weights = None
  <2>1. rules' = [rules EXCEPT ![rent].weights = "equal"]
    BY <1>3, <1>4, <1>8 DEF EnsureWeightedAllocationConfig
  <2>2. rules' \in [Definitions -> RuleRecords] /\ rules'[rent].weights = "equal"
        /\ \A d \in Definitions : d # rent => rules'[d] = rules[d]
    <3> HIDE DEF rent
    <3>1. [rules[rent] EXCEPT !.weights = "equal"] \in RuleRecords
          /\ [rules[rent] EXCEPT !.weights = "equal"].weights = "equal"
      BY <1>4 DEF RuleRecords
    <3> DEFINE equal == [rules[rent] EXCEPT !.weights = "equal"]
    <3>2. rules' = [rules EXCEPT ![rent] = equal]
      BY <2>1
    <3> HIDE DEF equal
    <3>3. equal \in RuleRecords /\ equal.weights = "equal"
      BY <3>1 DEF equal
    <3> QED
      BY <1>3, <1>4, <3>2, <3>3
  <2>3. RulesKept
    <3> HIDE DEF rent
    <3> QED
      BY <1>5, <1>8, <2>2, NoneAssumption DEF RulesKept
  <2>4. DefinitionsInv'
    BY <1>5, <1>6, <2>2 DEF DefinitionsInv
  <2> QED
    BY <2>2, <2>3, <2>4, NoneAssumption
<1> QED
  BY <1>7, <1>8

LEMMA EditKeepsDefinitions ==
  ASSUME StartInv, DefinitionsInv, EditWeights
  PROVE  DefinitionsInv' /\ RulesKept
<1>1. PICK d \in DOMAIN rules : rules' = [rules EXCEPT ![d].weights = "edited"]
  BY DEF EditWeights
<1>2. definitions' = definitions /\ Definitions' = Definitions /\ Past' = Past
  BY PastMoves DEF EditWeights, Definitions, process, StartInv
<1>3. DOMAIN rules = Definitions /\ rules \in [Definitions -> RuleRecords] /\ rules[d] \in RuleRecords
  BY DEF DefinitionsInv
<1> DEFINE edited == [rules[d] EXCEPT !.weights = "edited"]
<1>4. edited \in RuleRecords /\ edited.weights = "edited"
  BY <1>3 DEF RuleRecords
<1>5. rules[d].weights = "edited" => edited = rules[d]
  BY <1>3 DEF RuleRecords
<1>6. rules' = [rules EXCEPT ![d] = edited]
  BY <1>1
<1> HIDE DEF edited
<1>7. rules' \in [Definitions -> RuleRecords] /\ rules'[d] = edited
      /\ \A e \in Definitions : e # d => rules'[e] = rules[e]
  BY <1>3, <1>4, <1>6
<1>8. RulesKept
  BY <1>2, <1>4, <1>5, <1>7, NoneAssumption DEF RulesKept
<1> QED
  BY <1>2, <1>7, <1>8 DEF DefinitionsInv

\* resolve_owner_commission_cost_definition_id makes what it does not find.
LEMMA SeedContractKeepsDefinitions ==
  ASSUME StartInv, DefinitionsInv, SeedContract
  PROVE  DefinitionsInv' /\ RulesKept
<1>1. At("seed contracts") /\ step \in 0..Running
  BY DEF SeedContract, StartInv
<1>2. "cost_definitions" \in Past /\ Past' = Past
  BY <1>1, Behind, PastMoves DEF SeedContract
<1>3. PICK terms \in CommissionTerms :
        IF Matching(CommissionShape(terms)) # {} THEN UNCHANGED <<definitions, rules>>
        ELSE /\ definitions' = Append(definitions, CommissionShape(terms))
             /\ rules' = Ruled({Len(definitions) + 1}, [d \in {Len(definitions) + 1} |-> "direct"])
  BY DEF SeedContract
<1>4. CASE UNCHANGED <<definitions, rules>>
  BY <1>2, <1>4, DefinitionsStandStill DEF DefinitionsStand
<1>5. CASE Matching(CommissionShape(terms)) = {}
  <2> DEFINE shape == CommissionShape(terms)
             new == <<shape>>
             D == {Len(definitions) + 1}
             m == [d \in {Len(definitions) + 1} |-> "direct"]
  <2>1. definitions \in Seq(ShapeRecords) /\ Definitions = 1..Len(definitions) /\ Len(definitions) \in Nat
    BY DEF DefinitionsInv, Definitions
  <2>2. shape \in ShapeRecords /\ Rated(shape)
    BY CommissionShapes
  <2>3. \A d \in Definitions : definitions[d] # shape
    BY <1>5 DEF Matching, Definitions
  <2>4. rules' = Ruled(D, m)
    BY <1>3, <1>5
  <2>5. definitions' = Append(definitions, shape)
    BY <1>3, <1>5
  <2> HIDE DEF shape
  <2>6. new \in Seq(ShapeRecords) /\ DOMAIN new = {1} /\ new[1] = shape
    BY <2>2
  <2>7. definitions' = definitions \o new /\ DOMAIN (definitions \o new) = 1 .. Len(definitions) + 1
    BY <2>1, <2>2, <2>5
  <2>8. Definitions \union D = DOMAIN (definitions \o new)
    BY <2>1, <2>7
  <2>9. \A d \in D \ Definitions : m[d] \in Methods
    BY DEF Methods
  <2>10. /\ \A i, j \in DOMAIN new : new[i] = new[j] => i = j
         /\ \A i \in DOMAIN new : Rated(new[i])
         /\ \A d \in Definitions, i \in DOMAIN new : definitions[d] # new[i]
    BY <2>2, <2>3, <2>6
  <2> HIDE DEF new, D, m
  <2> QED
    BY <1>2, <2>4, <2>6, <2>7, <2>8, <2>9, <2>10, MoreDefinitions
<1> QED
  BY <1>3, <1>4, <1>5

LEMMA StepKeepsDefinitions ==
  ASSUME OfficeInv, [Next]_vars
  PROVE  DefinitionsInv' /\ RulesKept
<1>1. StartInv /\ DefinitionsInv /\ IdsInv /\ LinesInv /\ ContractsInv
  BY DEF OfficeInv
<1>2. DefinitionsMove \/ DefinitionsStand
  BY <1>1, StepChanges DEF WhatChanges
<1> QED
  BY <1>1, <1>2, EnsureKeepsDefinitions, MigrateContractsKeepsDefinitions, MigrateLinesKeepsDefinitions,
     ResolveKeepsDefinitions, WeightsKeepDefinitions, SeedContractKeepsDefinitions, EditKeepsDefinitions,
     DefinitionsStandStill DEF DefinitionsMove

----------------------------------------------------------------------------
(* The ids and the bills.                                                    *)

LEMMA StepKeepsIds ==
  ASSUME OfficeInv, [Next]_vars
  PROVE  IdsInv'
<1>1. StartInv /\ DefinitionsInv /\ IdsInv /\ step \in 0..Running
  BY DEF OfficeInv, StartInv
<1>2. RulesKept
  BY StepKeepsDefinitions
<1>3. IdsMove \/ IdsStand
  BY <1>1, StepChanges DEF WhatChanges
<1>4. CASE ResolveCostDefinitionIds
  <2>1. Done("resolve definitions") /\ At("resolve definitions")
    BY <1>4 DEF ResolveCostDefinitionIds, Done
  <2>2. Past' = Past \union {"resolve definitions"}
    BY <1>1, <2>1, DoneStands
  <2>3. "ensure weights" \notin Past'
    BY <2>1, <2>2, Behind
  <2>4. ids' \in [SpecConcepts -> Definitions']
    BY <1>1, <1>4, ResolveKeepsDefinitions
  <2> QED
    BY <2>3, <2>4 DEF IdsInv
<1>5. CASE EnsureWeightedAllocationConfig
  <2>1. Done("ensure weights") /\ At("ensure weights") /\ ids' = ids /\ Definitions' = Definitions
    BY <1>5 DEF EnsureWeightedAllocationConfig, Done, Definitions
  <2>2. Past' = Past \union {"ensure weights"}
    BY <1>1, <2>1, DoneStands
  <2>3. "resolve definitions" \in Past
    BY <2>1, Behind
  <2>4. rules'[ids["office_rent"]].weights # None
    BY <1>1, <1>5, WeightsKeepDefinitions
  <2> QED
    BY <1>1, <2>1, <2>2, <2>3, <2>4 DEF IdsInv
<1>6. CASE IdsStand
  <2>1. CASE Past' = {}
    BY <2>1 DEF IdsInv
  <2>2. CASE /\ ids' = ids /\ Past \subseteq Past'
             /\ "resolve definitions" \in Past' => "resolve definitions" \in Past
             /\ "ensure weights" \in Past' => "ensure weights" \in Past
    <3>1. Definitions \subseteq Definitions'
      BY <1>2 DEF RulesKept
    <3>2. "resolve definitions" \in Past' => ids' \in [SpecConcepts -> Definitions']
      BY <1>1, <2>2, <3>1 DEF IdsInv
    <3>3. ASSUME "ensure weights" \in Past'
          PROVE  "resolve definitions" \in Past' /\ rules'[ids'["office_rent"]].weights # None
      <4>1. "ensure weights" \in Past /\ "resolve definitions" \in Past /\ rules[ids["office_rent"]].weights # None
        BY <1>1, <2>2, <3>3 DEF IdsInv
      <4>2. ids["office_rent"] \in Definitions
        BY <1>1, <4>1, SpecsAssumption DEF IdsInv, SpecConcepts
      <4>3. rules'[ids'["office_rent"]].weights # None
        BY <1>2, <2>2, <4>1, <4>2 DEF RulesKept
      <4> QED
        BY <2>2, <4>1, <4>3
    <3> QED
      BY <3>2, <3>3 DEF IdsInv
  <2> QED
    BY <1>6, <2>1, <2>2 DEF IdsStand
<1> QED
  BY <1>3, <1>4, <1>5, <1>6 DEF IdsMove

\* A bill keeps its definition, one of an older phase gets one that fits it.
LinesKept ==
  \A l \in DOMAIN lines :
    LET now == lines'[l]
    IN IF lines[l].bill = None THEN now.definition = lines[l].definition
       ELSE now.bill = None => Fits(definitions'[now.definition], lines[l].bill)

LEMMA LinesTypes ==
  ASSUME LinesInv
  PROVE  /\ lines \in Seq(LineRecords) /\ Len(lines) \in Nat /\ DOMAIN lines = 1..Len(lines)
         /\ \A l \in DOMAIN lines : lines[l] \in LineRecords
BY DEF LinesInv

LEMMA LinesStandStill ==
  ASSUME LinesInv, RulesKept, LinesStand
  PROVE  LinesInv' /\ LinesKept
<1>1. Definitions \subseteq Definitions'
  BY DEF RulesKept
<1>2. lines' = lines /\ ("payment_lines" \in legacy' <=> "payment_lines" \in legacy)
  BY DEF LinesStand
<1>3. LinesInv'
  BY <1>1, <1>2 DEF LinesInv
<1>4. ASSUME NEW l \in DOMAIN lines, lines[l].bill # None, lines'[l].bill = None
      PROVE  FALSE
  BY <1>2, <1>4
<1> QED
  BY <1>2, <1>3, <1>4 DEF LinesKept

\* Bills of the same apartment, concept and month would be the same old bill.
\* The type of an old bill is told by behavior and recurrence.
LEMMA LegacyTypes ==
  ASSUME NEW b \in BillRecords, NEW c \in BillRecords,
         LegacyShape(b).behavior = LegacyShape(c).behavior, LegacyShape(b).recurrence = LegacyShape(c).recurrence
  PROVE  b.costType = c.costType
<1>1. \A x \in {b, c} : /\ LegacyShape(x).behavior = IF x.costType = "one_time" THEN "variable" ELSE x.costType
                       /\ LegacyShape(x).recurrence = IF x.costType = "one_time" THEN "one_off" ELSE "monthly"
  BY DEF LegacyShape, Shape
<1>2. LegacyShape(b).recurrence = "one_off" <=> b.costType = "one_time"
  BY <1>1
<1>3. LegacyShape(c).recurrence = "one_off" <=> c.costType = "one_time"
  BY <1>1
<1> QED
  BY <1>1, <1>2, <1>3

LEMMA MigrateLinesKeepsLines ==
  ASSUME StartInv, DefinitionsInv, LinesInv, RulesKept, DefinitionsInv', MigrateLines
  PROVE  LinesInv' /\ LinesKept
<1>1. legacy' = legacy \ {"payment_lines"}
  BY DEF MigrateLines
<1>2. CASE "payment_lines" \notin legacy
  <2>1. lines' = lines
    BY <1>2 DEF MigrateLines
  <2> QED
    BY <1>1, <1>2, <2>1, LinesStandStill DEF LinesStand
<1>3. CASE "payment_lines" \in legacy
  <2>1. \E chosen \in [DOMAIN lines -> DOMAIN definitions'] :
          /\ \A l \in DOMAIN lines : Fits(definitions'[chosen[l]], lines[l].bill)
          /\ lines' = [l \in DOMAIN lines |-> [lines[l] EXCEPT !.definition = chosen[l], !.bill = None]]
    BY <1>3 DEF MigrateLines
  <2>2. PICK chosen \in [DOMAIN lines -> DOMAIN definitions'] :
          /\ \A l \in DOMAIN lines : Fits(definitions'[chosen[l]], lines[l].bill)
          /\ lines' = [l \in DOMAIN lines |-> [lines[l] EXCEPT !.definition = chosen[l], !.bill = None]]
    BY <2>1
  <2>3. /\ Len(lines) \in Nat /\ DOMAIN lines = 1..Len(lines) /\ DOMAIN lines = DOMAIN OldBills
        /\ \A l \in DOMAIN lines :
             /\ lines[l].bill = OldBills[l] /\ OldBills[l] \in BillRecords /\ lines[l].bill # None
             /\ lines[l].apartment = OldBills[l].apartment /\ lines[l].month = OldBills[l].month
    BY <1>3, OldLines
  <2>4. \A l \in DOMAIN lines :
          /\ lines'[l] \in LineRecords /\ lines'[l].definition = chosen[l] /\ chosen[l] \in Definitions'
          /\ lines'[l].apartment = lines[l].apartment /\ lines'[l].month = lines[l].month
    <3> SUFFICES ASSUME NEW l \in DOMAIN lines
                 PROVE  /\ lines'[l] \in LineRecords /\ lines'[l].definition = chosen[l] /\ chosen[l] \in Definitions'
                        /\ lines'[l].apartment = lines[l].apartment /\ lines'[l].month = lines[l].month
      OBVIOUS
    <3>1. lines[l] \in LineRecords
      BY LinesTypes
    <3>2. chosen[l] \in Definitions'
      BY DEF Definitions
    <3>3. Definitions' \subseteq Nat
      BY DEF DefinitionsInv, Definitions
    <3>4. lines'[l] = [lines[l] EXCEPT !.definition = chosen[l], !.bill = None]
      BY <2>2
    <3> QED
      BY <3>1, <3>2, <3>3, <3>4 DEF LineRecords
  <2>5. lines' \in Seq(LineRecords) /\ DOMAIN lines' = DOMAIN lines
    <3>1. lines' \in [1..Len(lines) -> LineRecords]
      BY <2>2, <2>3, <2>4
    <3> QED
      BY <2>3, <3>1
  <2>6. ASSUME NEW k \in DOMAIN lines, NEW l \in DOMAIN lines, SameBill(lines'[k], lines'[l])
        PROVE  k = l
    <3>1. chosen[k] = chosen[l] /\ lines[k].apartment = lines[l].apartment /\ lines[k].month = lines[l].month
      BY <2>4, <2>6 DEF SameBill
    <3>2. /\ OldBills[k].concept = OldBills[l].concept
          /\ LegacyShape(OldBills[k]).behavior = LegacyShape(OldBills[l]).behavior
          /\ LegacyShape(OldBills[k]).recurrence = LegacyShape(OldBills[l]).recurrence
      <4>1. Fits(definitions'[chosen[k]], OldBills[k]) /\ Fits(definitions'[chosen[l]], OldBills[l])
        BY <2>2, <2>3
      <4>2. definitions'[chosen[k]] = definitions'[chosen[l]]
        BY <3>1
      <4> QED
        BY ONLY <4>1, <4>2 DEF Fits
    <3>3. k \in DOMAIN OldBills /\ l \in DOMAIN OldBills
      BY <2>3
    <3>4. OldBills[k].apartment = OldBills[l].apartment /\ OldBills[k].month = OldBills[l].month
      BY <2>3, <3>1
    <3>5. OldBills[k].costType = OldBills[l].costType
      BY <2>3, <3>2, <3>3, LegacyTypes
    <3>6. \A b, c \in BillRecords :
            b.apartment = c.apartment /\ b.concept = c.concept /\ b.costType = c.costType /\ b.month = c.month => b = c
      BY DEF BillRecords
    <3>7. OldBills[k] = OldBills[l]
      BY <2>3, <3>2, <3>3, <3>4, <3>5, <3>6
    <3> QED
      BY <3>3, <3>7, OldBillsAssumption
  <2>7. LinesInv'
    BY <1>1, <2>4, <2>5, <2>6 DEF LinesInv
  <2>8. LinesKept
    BY <2>2, <2>3, <2>4 DEF LinesKept
  <2> QED
    BY <2>7, <2>8
<1> QED
  BY <1>2, <1>3

\* The seed of the bills makes one of a kind and only into an empty table.
LEMMA SeedKeepsLines ==
  ASSUME StartInv, DefinitionsInv, IdsInv, LinesInv, RulesKept, Seed
  PROVE  LinesInv' /\ LinesKept
<1>1. At("seed lines") /\ legacy' = legacy /\ definitions' = definitions
  BY DEF Seed, Done
<1>2. "payment_lines" \notin legacy /\ ids \in [SpecConcepts -> Definitions]
  BY <1>1, Behind DEF StartInv, IdsInv
<1>3. CASE lines # << >>
  <2>1. lines' = lines
    BY <1>3 DEF Seed
  <2> QED
    BY <1>1, <2>1, LinesStandStill DEF LinesStand
<1>4. CASE lines = << >>
  <2> DEFINE Months == month - SeedMonths .. month - 1
             Rows(concepts) == {q \in Apartments \X Months \X Profiles : q[3] \in concepts[<<q[1], q[2]>>]}
             Lines(concepts) == {Line(r[1], ids[r[3]], r[2], TRUE) : r \in Rows(concepts)}
  <2>1. PICK concepts : lines' = SetToSeq(Lines(concepts))
    BY <1>4 DEF Seed
  <2>0. month \in Nat /\ SeedMonths \in Nat
    BY BoundsAssumption DEF StartInv
  <2> DEFINE R == Rows(concepts)
             S == Lines(concepts)
             line == [r \in R |-> Line(r[1], ids[r[3]], r[2], TRUE)]
  <2>2. IsFiniteSet(R)
    <3>1. IsFiniteSet(Months)
      <4>1. month - SeedMonths \in Int /\ month - 1 \in Int
        BY <2>0
      <4> QED
        BY <4>1, FS_Interval
    <3>2. IsFiniteSet(Profiles) /\ IsFiniteSet(Apartments)
      BY SpecsAssumption, FiniteApartments
    <3>3. IsFiniteSet(Apartments \X Months \X Profiles)
      <4> HIDE DEF Months
      <4> QED
        BY <3>1, <3>2, FiniteTriples
    <3> DEFINE All == Apartments \X Months \X Profiles
    <3>4. R \in SUBSET All
      OBVIOUS
    <3> HIDE DEF R, All
    <3>5. IsFiniteSet(All)
      BY <3>3 DEF All
    <3> QED
      BY <3>4, <3>5, FS_Subset
  <2>3. IsFiniteSet(S)
    <3>1. line = [r \in R |-> line[r]] /\ S = {line[r] : r \in R}
      OBVIOUS
    <3> HIDE DEF line, R, S
    <3> QED
      BY <2>2, <3>1, FiniteValues
  <2>4. \A x \in S : /\ x \in LineRecords /\ x.definition \in Definitions
                     /\ x = Line(x.apartment, x.definition, x.month, TRUE)
    <3> SUFFICES ASSUME NEW r \in R
                 PROVE  LET x == Line(r[1], ids[r[3]], r[2], TRUE)
                        IN /\ x \in LineRecords /\ x.definition \in Definitions
                           /\ x = Line(x.apartment, x.definition, x.month, TRUE)
      OBVIOUS
    <3>1. r[1] \in Apartments /\ r[2] \in Months /\ r[3] \in Profiles
      OBVIOUS
    <3>2. r[2] \in Int
      BY <2>0, <3>1
    <3>3. r[3] \in SpecConcepts
      BY <3>1, SpecsAssumption DEF SpecConcepts
    <3>4. ids[r[3]] \in Definitions /\ ids[r[3]] \in Nat
      BY <1>2, <3>3, DefinitionsTypes
    <3> HIDE DEF R
    <3> QED
      BY <3>1, <3>2, <3>4 DEF Line, LineRecords
  <2> HIDE DEF S
  <2>5. lines' = SetToSeq(S)
    BY <2>1 DEF S
  <2>6. /\ lines' \in Seq(S) /\ \A i, j \in 1..Len(lines') : lines'[i] = lines'[j] => i = j
    BY <2>3, <2>5, SetToSeqLists
  <2>7. DOMAIN lines' = 1..Len(lines') /\ \A l \in DOMAIN lines' : lines'[l] \in S
    BY <2>6
  <2>8. lines' \in Seq(LineRecords)
    <3>1. Len(lines') \in Nat /\ lines' \in [1..Len(lines') -> S]
      BY <2>6
    <3>2. lines' \in [1..Len(lines') -> LineRecords]
      BY <2>4, <3>1
    <3> QED
      BY <3>1, <3>2
  <2>9. ASSUME NEW k \in DOMAIN lines', NEW l \in DOMAIN lines', SameBill(lines'[k], lines'[l])
        PROVE  k = l
    <3>1. lines'[k] = lines'[l]
      BY <2>4, <2>7, <2>9 DEF SameBill
    <3> QED
      BY <2>6, <2>7, <3>1
  <2>10. \A l \in DOMAIN lines' : lines'[l].definition \in Definitions'
    BY <1>1, <2>4, <2>7 DEF Definitions
  <2>11. LinesInv'
    BY <1>1, <1>2, <2>8, <2>9, <2>10 DEF LinesInv
  <2> QED
    BY <1>4, <2>11 DEF LinesKept
<1> QED
  BY <1>3, <1>4

\* The generator enters a bill only where there is none, and pays bills.
LEMMA InsertKeepsLines ==
  ASSUME StartInv, DefinitionsInv, IdsInv, LinesInv, InsertOne
  PROVE  LinesInv' /\ LinesKept
<1>1. step = Running /\ legacy' = legacy /\ definitions' = definitions
  BY DEF InsertOne, Generates
<1>2. "payment_lines" \notin legacy /\ ids \in [SpecConcepts -> Definitions]
  BY <1>1, Behind DEF StartInv, IdsInv
<1>3. PICK a \in Apartments, concept \in Profiles :
        /\ ~ AlreadyHasLineForPeriod(a, ids[concept], month)
        /\ lines' = Append(lines, Line(a, ids[concept], month, FALSE))
  BY DEF InsertOne
<1> DEFINE line == Line(a, ids[concept], month, FALSE)
<1>4. ids[concept] \in Definitions /\ ids[concept] \in Nat /\ month \in Int
  <2>1. concept \in SpecConcepts
    BY SpecsAssumption DEF SpecConcepts
  <2>2. month \in Nat
    BY DEF StartInv
  <2> QED
    BY <1>2, <2>1, <2>2, DefinitionsTypes
<1>5. /\ line \in LineRecords /\ line.apartment = a /\ line.definition = ids[concept] /\ line.month = month
  BY <1>4 DEF Line, LineRecords
<1>6. /\ lines \in Seq(LineRecords) /\ Len(lines) \in Nat /\ DOMAIN lines = 1..Len(lines)
      /\ lines' = Append(lines, line)
  BY <1>3, LinesTypes
<1> HIDE DEF line
<1>7. /\ lines' \in Seq(LineRecords) /\ DOMAIN lines' = 1 .. Len(lines) + 1
      /\ (\A l \in DOMAIN lines : lines'[l] = lines[l]) /\ lines'[Len(lines) + 1] = line
  BY <1>5, <1>6
<1>8. \A l \in DOMAIN lines : ~ SameBill(lines[l], line) /\ ~ SameBill(line, lines[l])
  BY <1>3, <1>5 DEF AlreadyHasLineForPeriod, SameBill
<1>9. ASSUME NEW k \in DOMAIN lines', NEW l \in DOMAIN lines', lines'[k].definition # None,
             SameBill(lines'[k], lines'[l])
      PROVE  k = l
  <2>1. k \in DOMAIN lines \/ k = Len(lines) + 1
    BY <1>6, <1>7
  <2>2. l \in DOMAIN lines \/ l = Len(lines) + 1
    BY <1>6, <1>7
  <2> QED
    BY <1>7, <1>8, <1>9, <2>1, <2>2 DEF LinesInv
<1>10. \A l \in DOMAIN lines' : lines'[l].definition \in Definitions'
  <2>1. Definitions' = Definitions /\ \A l \in DOMAIN lines : lines[l].definition \in Definitions
    BY <1>1, <1>2 DEF LinesInv, Definitions
  <2>2. \A l \in DOMAIN lines' : l \in DOMAIN lines \/ l = Len(lines) + 1
    BY <1>6, <1>7
  <2> QED
    BY <1>4, <1>5, <1>7, <2>1, <2>2
<1>11. LinesInv'
  BY <1>1, <1>2, <1>7, <1>9, <1>10 DEF LinesInv
<1>12. LinesKept
  <2>1. ASSUME NEW l \in DOMAIN lines, lines[l].bill # None, lines'[l].bill = None
        PROVE  FALSE
    BY <1>7, <2>1
  <2> QED
    BY <1>7, <2>1 DEF LinesKept
<1> QED
  BY <1>11, <1>12

LEMMA PayKeepsLines ==
  ASSUME StartInv, DefinitionsInv, LinesInv, FlipOnePendingToPaid
  PROVE  LinesInv' /\ LinesKept
<1>1. step = Running /\ legacy' = legacy /\ definitions' = definitions
  BY DEF FlipOnePendingToPaid, Generates
<1>2. "payment_lines" \notin legacy
  BY <1>1, Behind DEF StartInv
<1>3. PICK p \in DOMAIN lines : lines' = [lines EXCEPT ![p].paid = TRUE]
  BY DEF FlipOnePendingToPaid
<1>4. /\ lines \in Seq(LineRecords) /\ Len(lines) \in Nat /\ DOMAIN lines = 1..Len(lines)
      /\ \A l \in DOMAIN lines : lines[l] \in LineRecords
  BY LinesTypes
<1> DEFINE paid == [lines[p] EXCEPT !.paid = TRUE]
<1>5. /\ paid \in LineRecords /\ paid.apartment = lines[p].apartment /\ paid.definition = lines[p].definition
      /\ paid.month = lines[p].month /\ paid.bill = lines[p].bill
  BY <1>4 DEF LineRecords
<1>6. lines' = [lines EXCEPT ![p] = paid]
  BY <1>3
<1> HIDE DEF paid
<1>7. /\ DOMAIN lines' = DOMAIN lines
      /\ \A l \in DOMAIN lines :
           /\ lines'[l] \in LineRecords /\ lines'[l].apartment = lines[l].apartment
           /\ lines'[l].definition = lines[l].definition /\ lines'[l].month = lines[l].month
           /\ lines'[l].bill = lines[l].bill
  BY <1>4, <1>5, <1>6
<1>8. lines' \in Seq(LineRecords)
  <2>1. lines' = [l \in 1..Len(lines) |-> lines'[l]]
    BY <1>4, <1>6
  <2>2. lines' \in [1..Len(lines) -> LineRecords]
    BY <1>4, <1>7, <2>1
  <2> QED
    BY <1>4, <2>2
<1>9. \A k, l \in DOMAIN lines : SameBill(lines'[k], lines'[l]) => SameBill(lines[k], lines[l])
  BY <1>7 DEF SameBill
<1>10. Definitions' = Definitions
  BY <1>1 DEF Definitions
<1>11. LinesInv'
  BY <1>1, <1>2, <1>7, <1>8, <1>9, <1>10 DEF LinesInv
<1>12. LinesKept
  <2>1. ASSUME NEW l \in DOMAIN lines, lines[l].bill # None, lines'[l].bill = None
        PROVE  FALSE
    BY <1>7, <2>1
  <2> QED
    BY <1>7, <2>1 DEF LinesKept
<1> QED
  BY <1>11, <1>12

LEMMA StepKeepsLines ==
  ASSUME OfficeInv, [Next]_vars
  PROVE  LinesInv' /\ LinesKept
<1>1. StartInv /\ DefinitionsInv /\ IdsInv /\ LinesInv
  BY DEF OfficeInv
<1>2. RulesKept /\ DefinitionsInv'
  BY StepKeepsDefinitions
<1>3. LinesMove \/ LinesStand
  BY <1>1, StepChanges DEF WhatChanges
<1> QED
  BY <1>1, <1>2, <1>3, MigrateLinesKeepsLines, SeedKeepsLines, InsertKeepsLines, PayKeepsLines, LinesStandStill
     DEF LinesMove

----------------------------------------------------------------------------
(* The segments and the strategies.                                          *)

\* Strategies stay; those of the segments of an older phase are brought over.
StrategiesKept ==
  /\ segments \subseteq segments' /\ strategies \subseteq strategies'
  /\ "apartment_market_segments" \in legacy \ legacy' =>
       \A a \in segments : Strategy(a, 1, OldMargin, OldMargin) \in strategies'

\* A first version for every apartment, all with the same margin.
LEMMA FirstVersions ==
  ASSUME NEW margin \in Margins
  PROVE  LET rows == {Strategy(a, 1, margin, margin) : a \in Apartments}
         IN rows \subseteq StrategyRecords /\ rows # {} /\ Seeded(rows)
<1> DEFINE rows == {Strategy(a, 1, margin, margin) : a \in Apartments}
<1>1. \A a \in Apartments : Strategy(a, 1, margin, margin) \in StrategyRecords
  BY DEF Strategy, StrategyRecords
<1>2. rows # {}
  BY FiniteApartments
<1>3. ASSUME NEW a \in Apartments
      PROVE  \E s \in rows : s.apartment = a /\ s.version = 1
  <2>1. Strategy(a, 1, margin, margin) \in rows
    OBVIOUS
  <2>2. Strategy(a, 1, margin, margin).apartment = a /\ Strategy(a, 1, margin, margin).version = 1
    BY StrategyFields
  <2> QED
    BY <2>1, <2>2
<1> QED
  BY <1>1, <1>2, <1>3 DEF Seeded

LEMMA SeededStays ==
  ASSUME NEW rows, NEW more, rows \subseteq more, Seeded(rows)
  PROVE  Seeded(more)
BY DEF Seeded

LEMMA StrategiesStandStill ==
  ASSUME StrategiesInv, StrategiesStand, "apartment_market_segments" \notin legacy \ legacy'
  PROVE  StrategiesInv' /\ StrategiesKept
BY DEF StrategiesInv, StrategiesStand, StrategiesKept

LEMMA MigrateSegmentsKeepsStrategies ==
  ASSUME StartInv, StrategiesInv, MigrateSegments
  PROVE  StrategiesInv' /\ StrategiesKept
<1>1. Done("migrate segments") /\ segments' = segments /\ legacy' = legacy \ {"apartment_market_segments"}
      /\ step \in 0..Running
  BY DEF MigrateSegments, StartInv
<1>2. Past' = Past \union {"migrate segments"} /\ publishing' = publishing
  BY <1>1, DoneStands
<1>3. CASE "apartment_market_segments" \notin legacy
  <2>1. strategies' = strategies
    BY <1>3 DEF MigrateSegments
  <2> QED
    BY <1>1, <1>2, <1>3, <2>1 DEF StrategiesInv, StrategiesKept
<1>4. CASE "apartment_market_segments" \in legacy
  <2>1. segments = Apartments /\ strategies = {}
    BY <1>4 DEF StrategiesInv
  <2>2. {b \in segments : \A s \in VersionsOf(b) : s.version # 1} = Apartments
    BY <2>1 DEF VersionsOf
  <2>3. strategies' = {Strategy(a, 1, OldMargin, OldMargin) : a \in Apartments}
    BY <1>4, <2>1, <2>2 DEF MigrateSegments
  <2>4. strategies' \subseteq StrategyRecords /\ strategies' # {} /\ Seeded(strategies')
    <3>1. OldMargin \in Margins
      BY MarginsAssumption
    <3> QED
      BY <2>3, <3>1, FirstVersions
  <2>5. StrategiesInv'
    BY <1>1, <1>2, <2>1, <2>4 DEF StrategiesInv
  <2>6. StrategiesKept
    BY <1>1, <2>1, <2>3 DEF StrategiesKept
  <2> QED
    BY <2>5, <2>6
<1> QED
  BY <1>3, <1>4

LEMMA SeedSegmentsKeepsStrategies ==
  ASSUME StartInv, StrategiesInv, SeedApartmentMarketSegments
  PROVE  StrategiesInv' /\ StrategiesKept
<1>1. Done("seed segments") /\ strategies' = strategies /\ legacy' = legacy /\ step \in 0..Running
      /\ segments' = IF segments = {} THEN Apartments ELSE segments
  BY DEF SeedApartmentMarketSegments, StartInv
<1>2. Past' = Past \union {"seed segments"} /\ publishing' = publishing
  BY <1>1, DoneStands
<1>3. segments' = Apartments /\ segments \subseteq segments'
  BY <1>1 DEF StrategiesInv
<1> QED
  BY <1>1, <1>2, <1>3 DEF StrategiesInv, StrategiesKept

LEMMA SeedStrategiesKeepsStrategies ==
  ASSUME StartInv, StrategiesInv, SeedPricingStrategies
  PROVE  StrategiesInv' /\ StrategiesKept
<1>1. /\ Done("seed strategies") /\ At("seed strategies") /\ ~ Refused /\ step \in 0..Running
      /\ segments' = segments /\ legacy' = legacy
  BY DEF SeedPricingStrategies, Done, StartInv
<1>2. Past' = Past \union {"seed strategies"} /\ publishing' = publishing
  BY <1>1, DoneStands
<1>3. "apartment_market_segments" \notin legacy
  BY <1>1, Behind DEF StartInv
<1>4. CASE strategies # {}
  <2>1. strategies' = strategies
    BY <1>4 DEF SeedPricingStrategies
  <2> QED
    BY <1>1, <1>2, <1>4, <2>1 DEF StrategiesInv, StrategiesKept
<1>5. CASE strategies = {}
  <2>1. strategies' = {Strategy(a, 1, DefaultMargin, DefaultMargin) : a \in Apartments}
    BY <1>5 DEF SeedPricingStrategies
  <2>2. strategies' \subseteq StrategyRecords /\ strategies' # {} /\ Seeded(strategies')
    <3>1. DefaultMargin \in Margins
      BY MarginsAssumption
    <3> QED
      BY <2>1, <3>1, FirstVersions
  <2>3. segments = Apartments
    <3>1. Apartments \subseteq segments
      BY <1>1, <1>5 DEF Refused
    <3> QED
      BY <3>1 DEF StrategiesInv
  <2>4. StrategiesInv'
    BY <1>1, <1>2, <1>3, <2>2, <2>3 DEF StrategiesInv
  <2>5. StrategiesKept
    BY <1>1, <1>5 DEF StrategiesKept
  <2> QED
    BY <2>4, <2>5
<1> QED
  BY <1>4, <1>5

LEMMA ReadKeepsStrategies ==
  ASSUME StartInv, StrategiesInv, NEW o \in Operators, ReadStrategy(o)
  PROVE  StrategiesInv' /\ StrategiesKept
<1>1. UNCHANGED <<segments, strategies, legacy>> /\ Past' = Past
  BY PastMoves DEF ReadStrategy, database, process, StartInv
<1>2. PICK a \in Apartments : \E last \in Latest(a) :
        \/ \E margin \in Margins \ {last.margin} :
             publishing' = [publishing EXCEPT ![o] = Strategy(a, last.version + 1, margin, last.discount)]
        \/ \E discount \in Margins \ {last.discount} :
             publishing' = [publishing EXCEPT ![o] = Strategy(a, last.version + 1, last.margin, discount)]
  BY DEF ReadStrategy
<1>2b. PICK last \in Latest(a) :
        \/ \E margin \in Margins \ {last.margin} :
             publishing' = [publishing EXCEPT ![o] = Strategy(a, last.version + 1, margin, last.discount)]
        \/ \E discount \in Margins \ {last.discount} :
             publishing' = [publishing EXCEPT ![o] = Strategy(a, last.version + 1, last.margin, discount)]
  BY <1>2
<1>3. last \in StrategyRecords
  BY DEF Latest, VersionsOf, StrategiesInv
<1>4. last.version + 1 \in Nat \ {0} /\ last.margin \in Margins /\ last.discount \in Margins
  BY <1>3 DEF StrategyRecords
<1>5. \E margin \in Margins, discount \in Margins :
        publishing' = [publishing EXCEPT ![o] = Strategy(a, last.version + 1, margin, discount)]
  BY <1>2b, <1>4
<1>6. PICK row \in StrategyRecords : publishing' = [publishing EXCEPT ![o] = row]
  BY <1>4, <1>5 DEF Strategy, StrategyRecords
<1>7. publishing' \in [Operators -> {None} \union StrategyRecords]
  BY <1>6 DEF StrategiesInv
<1> QED
  BY <1>1, <1>7 DEF StrategiesInv, StrategiesKept

LEMMA InsertKeepsStrategies ==
  ASSUME HistoryInv, StartInv, StrategiesInv, NEW o \in Operators, InsertStrategy(o)
  PROVE  StrategiesInv' /\ StrategiesKept
<1>1. UNCHANGED <<segments, legacy>> /\ Past' = Past
  BY PastMoves DEF InsertStrategy, process, StartInv
<1>2. publishing[o] # None /\ publishing[o] \in StrategyRecords
  BY DEF InsertStrategy, StrategiesInv
<1>3. strategies # {}
  BY <1>2 DEF HistoryInv, PublishingFollows, Follows
<1>4. strategies \subseteq strategies' /\ strategies' \subseteq strategies \union {publishing[o]}
  BY DEF InsertStrategy
<1>5. publishing' \in [Operators -> {None} \union StrategyRecords]
  BY DEF InsertStrategy, StrategiesInv
<1>6. segments = Apartments /\ Seeded(strategies) /\ "apartment_market_segments" \notin legacy
      /\ strategies \subseteq StrategyRecords
  BY <1>3 DEF StrategiesInv
<1>7. Seeded(strategies') /\ strategies' # {} /\ strategies' \subseteq StrategyRecords
  BY <1>2, <1>3, <1>4, <1>6, SeededStays
<1>8. StrategiesInv'
  BY <1>1, <1>5, <1>6, <1>7 DEF StrategiesInv
<1> QED
  BY <1>1, <1>4, <1>8 DEF StrategiesKept

LEMMA StepKeepsStrategies ==
  ASSUME OfficeInv, [Next]_vars
  PROVE  StrategiesInv' /\ StrategiesKept
<1>1. HistoryInv /\ StartInv /\ StrategiesInv
  BY DEF OfficeInv
<1>2. StrategiesMove \/ StrategiesStand
  BY <1>1, StepChanges DEF WhatChanges
<1>3. StrategiesStand => "apartment_market_segments" \notin legacy \ legacy'
  BY DEF StrategiesStand
<1> QED
  BY <1>1, <1>2, <1>3, MigrateSegmentsKeepsStrategies, SeedSegmentsKeepsStrategies, SeedStrategiesKeepsStrategies,
     ReadKeepsStrategies, InsertKeepsStrategies, StrategiesStandStill DEF StrategiesMove


----------------------------------------------------------------------------
(* The contracts.                                                            *)

\* Contracts stay, or come to refer to a definition with the terms they had.
ContractsKept ==
  \A a \in Apartments :
    contracts[a] # None =>
      \/ contracts'[a] = contracts[a]
      \/ definitions'[contracts'[a].definition] = CommissionShape(contracts[a].terms)

LEMMA PoolLength ==
  /\ Len(Pool) \in Nat /\ Len(Pool) > 0 /\ 1 \in 1..Len(Pool)
  /\ 0 \in 0 .. Len(Pool) + 1 /\ 1 \in 0 .. Len(Pool) + 1
  /\ \A n \in 0 .. Len(Pool) + 1 :
       /\ n \in Nat
       /\ n > Len(Pool) => n > 0 /\ \A i \in 1..Len(Pool) : i < n
       /\ n \in 1..Len(Pool) => n + 1 \in 0 .. Len(Pool) + 1 /\ n - 1 \in 0..Len(Pool)
                                /\ (\A i \in 1..Len(Pool) : i < n <=> i <= n - 1)
                                /\ (\A i \in 1..Len(Pool) : i < n + 1 <=> i < n \/ i = n)
  /\ \A i \in 1..Len(Pool) : i <= Len(Pool)
<1> SUFFICES ASSUME NEW m, m = Len(Pool), m \in Nat, m > 0
             PROVE  /\ 1 \in 1..m /\ 0 \in 0 .. m + 1 /\ 1 \in 0 .. m + 1
                    /\ \A n \in 0 .. m + 1 :
                         /\ n \in Nat
                         /\ n > m => n > 0 /\ \A i \in 1..m : i < n
                         /\ n \in 1..m => n + 1 \in 0 .. m + 1 /\ n - 1 \in 0..m
                                          /\ (\A i \in 1..m : i < n <=> i <= n - 1)
                                          /\ (\A i \in 1..m : i < n + 1 <=> i < n \/ i = n)
                    /\ \A i \in 1..m : i <= m
  BY PoolAssumption
<1> QED
  OBVIOUS

LEMMA ContractRows ==
  ASSUME NEW d \in Nat
  PROVE  [terms |-> None, definition |-> d] # None
<1>1. [terms |-> None, definition |-> d] \in [terms : CommissionTerms \union {None}, definition : Nat \union {None}]
  OBVIOUS
<1> QED
  BY <1>1, NoneAssumption

LEMMA ContractsGrow ==
  ASSUME Definitions \subseteq Definitions'
  PROVE  Contracts \subseteq Contracts'
BY DEF Contracts

\* Apartments with a contract, as one condition.
LEMMA SomeContract ==
  ASSUME NEW S, NEW f, f \in [Apartments -> S]
  PROVE  f # NoContracts <=> \E a \in Apartments : f[a] # None
<1>1. f = [a \in Apartments |-> f[a]]
  OBVIOUS
<1>2. (\A a \in Apartments : f[a] = None) => f = NoContracts
  BY <1>1 DEF NoContracts
<1>3. \A a \in Apartments : NoContracts[a] = None
  BY DEF NoContracts
<1> QED
  BY <1>2, <1>3

LEMMA NoContractsYet ==
  /\ \A a \in Apartments : NoContracts[a] = None
  /\ NoContracts \in [Apartments -> Contracts] /\ NoContracts \in [Apartments -> Contracts']
  /\ \A rows : Apart(rows, NoContracts)
BY DEF NoContracts, Contracts, Apart

\* What a commit writes in the middle of the loop: the contracts before it.
LEMMA CommittedContracts ==
  ASSUME ContractsInv, next > 0
  PROVE  /\ Committed \in [Apartments -> Contracts]
         /\ \A i \in 1..Len(Pool) : Committed[Pool[i]] # None <=> i < next
         /\ \A a \in Apartments : contracts[a] # None => Committed[a] = contracts[a]
<1>1. \A a \in Apartments : Committed[a] = IF draft[a] # None THEN draft[a] ELSE contracts[a]
  BY DEF Committed
<1>2. \A a \in Apartments : Committed[a] \in Contracts
  BY <1>1 DEF ContractsInv
<1>3. Committed \in [Apartments -> Contracts]
  BY <1>2 DEF Committed
<1>4. \A i \in 1..Len(Pool) : contracts[Pool[i]] # None \/ draft[Pool[i]] # None <=> i < next
  BY DEF ContractsInv, Reached
<1>5. \A a \in Apartments : draft[a] # None => contracts[a] = None
  BY DEF ContractsInv, Apart
<1> QED
  BY <1>1, <1>3, <1>4, <1>5, FiniteApartments

LEMMA ContractsStandStill ==
  ASSUME ContractsInv, ContractsStand, Definitions \subseteq Definitions'
  PROVE  ContractsInv' /\ ContractsKept
<1>1. contracts' = contracts /\ draft' = draft /\ next' = next /\ (OldTerms' <=> OldTerms)
  BY DEF ContractsStand, OldTerms
<1>2. contracts' \in [Apartments -> Contracts'] /\ draft' \in [Apartments -> Contracts']
  BY <1>1, ContractsGrow DEF ContractsInv
<1>3. next > 0 => At("seed contracts")'
  BY DEF ContractsInv, ContractsStand, At
<1>4. ("owner_contracts" \in legacy' => "owner_contracts" \in legacy)
      /\ ("seed contracts" \in Past' => "seed contracts" \in Past)
  BY DEF ContractsStand
<1>5. ContractsInv'
  BY <1>1, <1>2, <1>3, <1>4 DEF ContractsInv
<1> QED
  BY <1>1, <1>5 DEF ContractsKept

LEMMA SkipKeepsContracts ==
  ASSUME StartInv, ContractsInv, SkipContracts
  PROVE  ContractsInv' /\ ContractsKept
<1>1. UNCHANGED <<contracts, draft, next, legacy, definitions>> /\ next = 0 /\ contracts # NoContracts
  BY DEF SkipContracts, database
<1>2. Contracts' = Contracts /\ (OldTerms' <=> OldTerms)
  BY <1>1 DEF Contracts, Definitions, OldTerms
<1>3. ~ (next' > 0) /\ next' \in 0 .. Len(Pool) + 1
  BY <1>1, PoolLength
<1>4. ContractsInv'
  BY <1>1, <1>2, <1>3 DEF ContractsInv
<1> QED
  BY <1>1, <1>4 DEF ContractsKept

LEMMA BeginKeepsContracts ==
  ASSUME StartInv, ContractsInv, BeginContracts
  PROVE  ContractsInv' /\ ContractsKept
<1>1. /\ UNCHANGED <<contracts, draft, legacy, definitions, step>> /\ next = 0 /\ next' = 1
      /\ contracts = NoContracts /\ At("seed contracts") /\ step \in 0..Running
  BY DEF BeginContracts, database, StartInv
<1>2. Contracts' = Contracts /\ Past' = Past /\ At("seed contracts")' /\ (OldTerms' <=> OldTerms)
  BY <1>1, PastMoves DEF Contracts, Definitions, At, OldTerms
<1>3. draft = NoContracts
  BY <1>1 DEF ContractsInv
<1>4. next' \in 0 .. Len(Pool) + 1
  BY <1>1, PoolLength
<1>5. Reached(contracts', draft', next')
  <2>1. \A i \in 1..Len(Pool) : ~ (i < 1)
    OBVIOUS
  <2> QED
    BY <1>1, <1>3, <2>1, FiniteApartments, NoContractsYet DEF Reached
<1>6. ContractsInv'
  BY <1>1, <1>2, <1>3, <1>4, <1>5 DEF ContractsInv
<1> QED
  BY <1>1, <1>6 DEF ContractsKept

LEMMA EndKeepsContracts ==
  ASSUME StartInv, ContractsInv, End
  PROVE  ContractsInv' /\ ContractsKept
<1>1. /\ UNCHANGED <<contracts, legacy, definitions>> /\ step' = 0 /\ draft' = NoContracts /\ next' = 0
      /\ step \in 0..Running
  BY DEF End, Down, database, StartInv
<1>2. Contracts' = Contracts /\ Past' = {} /\ (OldTerms' <=> OldTerms)
  BY <1>1, PastMoves DEF Contracts, Definitions, OldTerms
<1>3. next' \in 0 .. Len(Pool) + 1 /\ ~ (next' > 0)
  BY <1>1, PoolLength
<1>4. draft' \in [Apartments -> Contracts'] /\ Apart(contracts', draft')
  BY <1>1, NoContractsYet
<1>5. ContractsInv'
  BY <1>1, <1>2, <1>3, <1>4 DEF ContractsInv
<1> QED
  BY <1>1, <1>5 DEF ContractsKept

LEMMA CommitKeepsContracts ==
  ASSUME StartInv, ContractsInv, CommitContracts
  PROVE  ContractsInv' /\ ContractsKept
<1>1. /\ UNCHANGED <<legacy, definitions>> /\ next > Len(Pool) /\ contracts' = Committed /\ draft' = NoContracts
      /\ next' = 0 /\ At("seed contracts") /\ Done("seed contracts") /\ step \in 0..Running
  BY DEF CommitContracts, Done, StartInv
<1>2. Contracts' = Contracts
  BY <1>1 DEF Contracts, Definitions
<1>3. next \in 0 .. Len(Pool) + 1 /\ next' \in 0 .. Len(Pool) + 1
  BY <1>1, PoolLength DEF ContractsInv
<1>3a. next' = 0
  BY <1>1
<1>3b. ~ (next' > 0)
  BY <1>3a
<1>3c. next > 0 /\ \A i \in 1..Len(Pool) : i < next /\ i <= Len(Pool)
  BY <1>1, <1>3, PoolLength
<1>4. /\ Committed \in [Apartments -> Contracts]
      /\ \A i \in 1..Len(Pool) : Committed[Pool[i]] # None <=> i < next
      /\ \A a \in Apartments : contracts[a] # None => Committed[a] = contracts[a]
  BY <1>3c, CommittedContracts
<1>5. \A i \in 1..Len(Pool) : contracts'[Pool[i]] # None <=> i <= Len(Pool)
  BY <1>1, <1>3c, <1>4
<1>6. Prefix(contracts')
  <2>1. Len(Pool) \in 0..Len(Pool)
    BY PoolLength
  <2> QED
    BY <1>5, <2>1 DEF Prefix
<1>7. contracts' # NoContracts
  <2>1. 1 \in 1..Len(Pool) /\ 1 <= Len(Pool)
    BY PoolLength
  <2>2. contracts'[Pool[1]] # None /\ Pool[1] \in Apartments
    BY <1>5, <2>1, FiniteApartments
  <2> QED
    BY <2>2, NoContractsYet
<1>8. "owner_contracts" \notin legacy
  BY <1>1, Behind DEF StartInv
<1>9. draft' \in [Apartments -> Contracts'] /\ Apart(contracts', draft')
  BY <1>1, NoContractsYet
<1>10. ContractsInv'
  BY <1>1, <1>2, <1>3, <1>3b, <1>4, <1>6, <1>7, <1>8, <1>9 DEF ContractsInv
<1> QED
  BY <1>1, <1>4, <1>10 DEF ContractsKept


\* A contract of an older phase comes to refer to the definition of its
\* commission, which is there when it does.
LEMMA MigrateKeepsContracts ==
  ASSUME StartInv, DefinitionsInv, ContractsInv, MigrateContracts, Definitions \subseteq Definitions'
  PROVE  ContractsInv' /\ ContractsKept
<1>1. /\ At("migrate contracts") /\ Done("migrate contracts") /\ draft' = draft /\ next' = next
      /\ legacy' = legacy \ {"owner_contracts"} /\ step \in 0..Running
  BY DEF MigrateContracts, Done, StartInv
<1>2. Past' = Past \union {"migrate contracts"}
  BY <1>1, DoneStands
<1>3. "seed contracts" \in Past' => "seed contracts" \in Past
  BY <1>2
<1>4. ~ At("seed contracts")
  BY <1>1 DEF At
<1>5. next \in Nat /\ ~ (next > 0)
  <2>1. ~ (next > 0)
    BY <1>4 DEF ContractsInv
  <2> QED
    BY <2>1, PoolLength DEF ContractsInv
<1>6. next = 0 /\ draft = NoContracts /\ next \in 0 .. Len(Pool) + 1
  <2>1. next = 0
    BY <1>5
  <2> QED
    BY <2>1 DEF ContractsInv
<1>7. draft' \in [Apartments -> Contracts'] /\ Apart(contracts', draft')
  BY <1>1, <1>6, NoContractsYet
<1>8. CASE "owner_contracts" \notin legacy
  <2>1. contracts' = contracts
    BY <1>8 DEF MigrateContracts
  <2>2. contracts' \in [Apartments -> Contracts']
    BY <2>1, ContractsGrow DEF ContractsInv
  <2>3. ContractsInv'
    BY <1>1, <1>3, <1>5, <1>6, <1>7, <1>8, <2>1, <2>2 DEF ContractsInv
  <2> QED
    BY <2>1, <2>3 DEF ContractsKept
<1>9. CASE "owner_contracts" \in legacy
  <2> DEFINE old == {a \in Apartments : contracts[a] # None}
             shape == [a \in old |-> CommissionShape(contracts[a].terms)]
             shapes == {CommissionShape(contracts[a].terms) : a \in old}
             S == {s \in shapes : Matching(s) = {}}
             new == SetToSeq(S)
             all == definitions \o new
             id(a) == CHOOSE d \in DOMAIN all : all[d] = CommissionShape(contracts[a].terms)
  <2>1. /\ definitions' = all
        /\ contracts' = [a \in Apartments |->
             IF a \notin old THEN None ELSE [terms |-> None, definition |-> id(a)]]
    BY <1>9 DEF MigrateContracts
  <2>2. \A s \in shapes : s \in ShapeRecords /\ Rated(s)
    BY <1>9, OldContracts, CommissionShapes
  <2>3. IsFiniteSet(S)
    <3>1. IsFiniteSet(old)
      BY FiniteApartments, FS_Subset
    <3>2. shape = [a \in old |-> shape[a]] /\ shapes = {shape[a] : a \in old}
      OBVIOUS
    <3>3. IsFiniteSet(shapes)
      <4> HIDE DEF shape, shapes, old
      <4> QED
        BY <3>1, <3>2, FiniteValues
    <3> QED
      BY <3>3, FS_Subset
  <2>4. (\A s \in S : s \in ShapeRecords /\ Rated(s)) /\ \A s \in S : Matching(s) = {}
    BY <2>2
  <2>5. /\ new \in Seq(ShapeRecords)
        /\ \A i, j \in DOMAIN new : new[i] = new[j] => i = j
        /\ \A d \in Definitions, i \in DOMAIN new : definitions[d] # new[i]
        /\ \A s \in S : \E i \in DOMAIN new : new[i] = s
    <3> HIDE DEF S
    <3> QED
      BY <2>3, <2>4, MissingShapes
  <2>6. /\ definitions \in Seq(ShapeRecords) /\ Definitions = DOMAIN definitions
        /\ \A d, e \in DOMAIN definitions : definitions[d] = definitions[e] => d = e
    BY DEF DefinitionsInv, Definitions
  <2>7. /\ DOMAIN definitions \subseteq DOMAIN all
        /\ \A i \in DOMAIN definitions : all[i] = definitions[i]
        /\ \A i \in DOMAIN new : all[Len(definitions) + i] = new[i]
        /\ DOMAIN all = 1 .. Len(definitions) + Len(new)
    <3> HIDE DEF new
    <3> QED
      BY <2>5, <2>6, Continued
  <2>8. \A i \in DOMAIN new : Len(definitions) + i \in DOMAIN all
    <3>1. DOMAIN new = 1..Len(new) /\ Len(new) \in Nat /\ Len(definitions) \in Nat
      BY <2>5, <2>6
    <3> HIDE DEF new, all
    <3> QED
      BY <2>7, <3>1
  <2>9. \A s \in shapes : \E d \in DOMAIN all : all[d] = s
    <3> SUFFICES ASSUME NEW s \in shapes
                 PROVE  \E d \in DOMAIN all : all[d] = s
      OBVIOUS
    <3>1. CASE s \in S
      <4> HIDE DEF new, all, S, shapes
      <4> QED
        BY <2>5, <2>7, <2>8, <3>1
    <3>2. CASE s \notin S
      <4>1. \E d \in DOMAIN definitions : definitions[d] = s
        BY <3>2 DEF Matching
      <4> HIDE DEF new, all, S, shapes
      <4> QED
        BY <2>7, <4>1
    <3> QED
      BY <3>1, <3>2
  <2>10. \A a \in old : id(a) \in DOMAIN all /\ all[id(a)] = CommissionShape(contracts[a].terms)
    <3> HIDE DEF all
    <3> QED
      BY <2>9
  <2>11. DOMAIN all = Definitions' /\ \A d \in DOMAIN all : d \in Nat
    <3>1. \A n : \A d \in 1..n : d \in Nat
      OBVIOUS
    <3> HIDE DEF all
    <3> QED
      BY <2>1, <2>7, <3>1 DEF Definitions
  <2> HIDE DEF all, id
  <2>12. \A a \in old : contracts'[a] = [terms |-> None, definition |-> id(a)] /\ contracts'[a] # None
    BY <2>1, <2>10, <2>11, ContractRows
  <2>13. \A a \in Apartments \ old : contracts'[a] = None
    BY <2>1
  <2>14. contracts' \in [Apartments -> Contracts']
    <3>1. \A a \in Apartments : contracts'[a] \in Contracts'
      <4> SUFFICES ASSUME NEW a \in Apartments
                   PROVE  contracts'[a] \in Contracts'
        OBVIOUS
      <4>1. CASE a \in old
        <5>1. id(a) \in Definitions'
          BY <2>10, <2>11, <4>1
        <5>2. \A d \in Definitions' : [terms |-> None, definition |-> d] \in Contracts'
          BY DEF Contracts
        <5>3. contracts'[a] = [terms |-> None, definition |-> id(a)]
          BY <2>12, <4>1
        <5> QED
          BY <5>1, <5>2, <5>3
      <4>2. CASE a \notin old
        BY <2>13, <4>2 DEF Contracts
      <4> QED
        BY <4>1, <4>2
    <3>2. contracts' = [a \in Apartments |-> contracts'[a]]
      BY <2>1
    <3> QED
      BY <3>1, <3>2
  <2>15. \A a \in Apartments : contracts'[a] # None <=> contracts[a] # None
    BY <2>12, <2>13
  <2>16. Prefix(contracts')
    BY <2>15, FiniteApartments DEF ContractsInv, Prefix
  <2>17. "seed contracts" \in Past => contracts' # NoContracts
    <3>1. contracts # NoContracts <=> \E a \in Apartments : contracts[a] # None
      BY SomeContract DEF ContractsInv
    <3>2. contracts' # NoContracts <=> \E a \in Apartments : contracts'[a] # None
      BY <2>14, SomeContract
    <3>3. "seed contracts" \in Past => contracts # NoContracts
      BY DEF ContractsInv
    <3> QED
      BY ONLY <2>15, <3>1, <3>2, <3>3
  <2>18. ContractsInv'
    BY <1>1, <1>3, <1>5, <1>6, <1>7, <2>14, <2>16, <2>17 DEF ContractsInv
  <2>19. ContractsKept
    BY <2>1, <2>10, <2>12 DEF ContractsKept
  <2> QED
    BY <2>18, <2>19
<1> QED
  BY <1>8, <1>9


\* The loop makes the contract of the next apartment; making a definition commits
\* those before it.
LEMMA SeedContractKeepsContracts ==
  ASSUME StartInv, DefinitionsInv, ContractsInv, SeedContract, Definitions \subseteq Definitions'
  PROVE  ContractsInv' /\ ContractsKept
<1>1. /\ At("seed contracts") /\ next \in 1..Len(Pool) /\ next' = next + 1 /\ step' = step /\ legacy' = legacy
      /\ step \in 0..Running
  BY DEF SeedContract, StartInv
<1>2. Past' = Past /\ At("seed contracts")'
  BY <1>1, PastMoves DEF At
<1>3. "owner_contracts" \notin legacy'
  BY <1>1, Behind DEF StartInv
<1>4. next \in 0 .. Len(Pool) + 1
  BY DEF ContractsInv
<1>5. /\ next > 0 /\ next' > 0 /\ next' # 0 /\ next' \in 0 .. Len(Pool) + 1 /\ next - 1 \in 0..Len(Pool)
      /\ \A i \in 1..Len(Pool) : i < next <=> i <= next - 1
      /\ \A i \in 1..Len(Pool) : i < next' <=> i < next \/ i = next
      /\ ~ (next < next)
  <2>1. \A n \in Nat : n \in 1..Len(Pool) => n > 0 /\ n + 1 > 0 /\ n + 1 # 0 /\ ~ (n < n)
    OBVIOUS
  <2>2. next \in Nat
    BY <1>4, PoolLength
  <2> QED
    BY <1>1, <1>4, <2>1, <2>2, PoolLength
<1> DEFINE here == Pool[next]
<1>6. here \in Apartments /\ \A i \in 1..Len(Pool) : Pool[i] = here <=> i = next
  BY <1>1, FiniteApartments, PoolAssumption
<1>7. /\ Reached(contracts, draft, next) /\ Apart(contracts, draft)
      /\ contracts \in [Apartments -> Contracts] /\ draft \in [Apartments -> Contracts]
  BY <1>5 DEF ContractsInv
<1>8. contracts[here] = None
  <2>1. contracts[Pool[next]] # None \/ draft[Pool[next]] # None <=> next < next
    BY <1>1, <1>7 DEF Reached
  <2> QED
    BY <1>5, <2>1
<1>9. \A d \in Definitions' : [terms |-> None, definition |-> d] \in Contracts' /\ [terms |-> None, definition |-> d] # None
  <2>1. \A d \in Definitions' : d \in Nat
    <3>1. PICK terms : definitions' = definitions \/ definitions' = Append(definitions, CommissionShape(terms))
      BY DEF SeedContract
    <3>2. definitions \in Seq(ShapeRecords)
      BY DEF DefinitionsInv
    <3>3. \A s : LET more == Append(definitions, s) IN \A d \in DOMAIN definitions \union DOMAIN more : d \in Nat
      BY <3>2
    <3> QED
      BY <3>1, <3>3 DEF Definitions
  <2> QED
    BY <2>1, ContractRows DEF Contracts
<1>10. PICK terms \in CommissionTerms, d \in Definitions' :
         LET row == [terms |-> None, definition |-> d]
         IN \/ draft' = [draft EXCEPT ![here] = row] /\ contracts' = contracts
            \/ draft' = [NoContracts EXCEPT ![here] = row] /\ contracts' = Committed
  <2>1. PICK terms \in CommissionTerms :
          \/ /\ \E d \in Matching(CommissionShape(terms)) :
                  draft' = [draft EXCEPT ![here] = [terms |-> None, definition |-> d]]
             /\ contracts' = contracts
          \/ /\ definitions' = Append(definitions, CommissionShape(terms))
             /\ contracts' = Committed
             /\ draft' = [NoContracts EXCEPT ![here] = [terms |-> None, definition |-> Len(definitions) + 1]]
    BY DEF SeedContract
  <2>2. Matching(CommissionShape(terms)) \subseteq Definitions'
    BY DEF Matching, Definitions
  <2>3. definitions' = Append(definitions, CommissionShape(terms)) => Len(definitions) + 1 \in Definitions'
    <3>1. definitions \in Seq(ShapeRecords)
      BY DEF DefinitionsInv
    <3> QED
      BY <3>1 DEF Definitions
  <2> QED
    BY <2>1, <2>2, <2>3
<1> DEFINE row == [terms |-> None, definition |-> d]
<1>11. row \in Contracts' /\ row # None
  BY <1>9
<1> HIDE DEF row
<1>12. CASE draft' = [draft EXCEPT ![here] = row] /\ contracts' = contracts
  <2>1. contracts' \in [Apartments -> Contracts'] /\ draft' \in [Apartments -> Contracts']
    BY <1>7, <1>11, <1>12, ContractsGrow
  <2>2. draft'[here] = row /\ \A a \in Apartments : a # here => draft'[a] = draft[a]
    BY <1>6, <1>7, <1>12
  <2>3. Apart(contracts', draft')
    BY <1>7, <1>8, <1>12, <2>2 DEF Apart
  <2>4. Reached(contracts', draft', next')
    BY <1>5, <1>6, <1>7, <1>11, <1>12, <2>2, FiniteApartments DEF Reached
  <2>5. ContractsInv'
    BY <1>2, <1>3, <1>5, <1>12, <2>1, <2>3, <2>4 DEF ContractsInv
  <2> QED
    BY <1>12, <2>5 DEF ContractsKept
<1>13. CASE draft' = [NoContracts EXCEPT ![here] = row] /\ contracts' = Committed
  <2>1. /\ Committed \in [Apartments -> Contracts]
        /\ \A i \in 1..Len(Pool) : Committed[Pool[i]] # None <=> i < next
        /\ \A a \in Apartments : contracts[a] # None => Committed[a] = contracts[a]
    BY <1>5, CommittedContracts
  <2>2. contracts' \in [Apartments -> Contracts'] /\ draft' \in [Apartments -> Contracts']
    BY <1>11, <1>13, <2>1, ContractsGrow, NoContractsYet
  <2>3. draft'[here] = row /\ \A a \in Apartments : a # here => draft'[a] = None
    BY <1>6, <1>13, NoContractsYet
  <2>4. contracts'[here] = None
    BY <1>1, <1>5, <1>13, <2>1
  <2>5. Apart(contracts', draft')
    BY <2>3, <2>4 DEF Apart
  <2>6. Reached(contracts', draft', next')
    BY <1>5, <1>6, <1>11, <1>13, <2>1, <2>3, FiniteApartments DEF Reached
  <2>7. Prefix(contracts')
    BY <1>5, <1>13, <2>1 DEF Prefix
  <2>8. "seed contracts" \in Past' => contracts' # NoContracts
    <3>1. "seed contracts" \in Past => contracts # NoContracts
      BY DEF ContractsInv
    <3>2. contracts # NoContracts => \E a \in Apartments : contracts[a] # None
      BY <1>7, SomeContract
    <3>3. \A a \in Apartments : contracts[a] # None => contracts'[a] # NoContracts[a]
      BY <1>13, <2>1, NoContractsYet
    <3> QED
      BY <1>2, <3>1, <3>2, <3>3
  <2>9. ContractsInv'
    BY <1>2, <1>3, <1>5, <2>2, <2>5, <2>6, <2>7, <2>8 DEF ContractsInv
  <2> QED
    BY <1>13, <2>1, <2>9 DEF ContractsKept
<1> QED
  BY <1>10, <1>12, <1>13 DEF row

LEMMA StepKeepsContracts ==
  ASSUME OfficeInv, [Next]_vars
  PROVE  ContractsInv' /\ ContractsKept
<1>1. StartInv /\ DefinitionsInv /\ ContractsInv
  BY DEF OfficeInv
<1>2. Definitions \subseteq Definitions'
  BY StepKeepsDefinitions DEF RulesKept
<1>3. ContractsMove \/ ContractsStand
  BY <1>1, StepChanges DEF WhatChanges
<1> QED
  BY <1>1, <1>2, <1>3, MigrateKeepsContracts, SkipKeepsContracts, BeginKeepsContracts, SeedContractKeepsContracts,
     CommitKeepsContracts, EndKeepsContracts, ContractsStandStill DEF ContractsMove


----------------------------------------------------------------------------
(* The bookings and the occurrences.                                         *)

\* What is there refers to segments and definitions, which stay.
LEMMA OtherRowsStay ==
  ASSUME RowsInv, bookings' = bookings, occurrences' \subseteq occurrences,
         Definitions \subseteq Definitions', segments' = Apartments \/ segments' = segments
  PROVE  RowsInv'
BY DEF RowsInv

LEMMA SegmentsOfAll ==
  ASSUME StrategiesInv, StrategiesInv', StrategiesKept
  PROVE  segments' = Apartments \/ segments' = segments
BY DEF StrategiesInv, StrategiesKept

LEMMA SeedBookingsKeepsRows ==
  ASSUME StartInv, StrategiesInv, RowsInv, SeedBookings
  PROVE  RowsInv'
<1>1. UNCHANGED <<segments, occurrences, definitions>> /\ At("seed bookings") /\ ~ Refused
  BY DEF SeedBookings, Done
<1>1b. month \in Nat
  BY DEF StartInv
<1>2. CASE bookings # << >>
  <2>1. bookings' = bookings
    BY <1>2 DEF SeedBookings
  <2> QED
    BY <1>1, <2>1 DEF RowsInv, Definitions
<1>3. CASE bookings = << >>
  <2>1. segments = Apartments
    <3>1. Apartments \subseteq segments
      BY <1>1, <1>3 DEF Refused
    <3> QED
      BY <3>1 DEF StrategiesInv
  <2>2. bookings' = [i \in DOMAIN Pool |-> Booking(Pool[i], month - 1, "confirmed")]
    BY <1>3 DEF SeedBookings
  <2>3. DOMAIN Pool = 1..Len(Pool) /\ Len(Pool) \in Nat
    BY PoolAssumption
  <2>4. \A i \in 1..Len(Pool) : Booking(Pool[i], month - 1, "confirmed") \in BookingRecords
    <3>1. month - 1 \in Int
      BY <1>1b
    <3> QED
      BY <3>1, FiniteApartments DEF Booking, BookingRecords
  <2>5. bookings' \in [1..Len(Pool) -> BookingRecords]
    BY <2>2, <2>3, <2>4
  <2>6. bookings' \in Seq(BookingRecords)
    BY <2>3, <2>5
  <2> QED
    BY <1>1, <2>1, <2>6 DEF RowsInv, Definitions
<1> QED
  BY <1>2, <1>3

LEMMA SeedOccurrencesKeepsRows ==
  ASSUME StartInv, IdsInv, RowsInv, SeedCompanyCostOccurrences
  PROVE  RowsInv'
<1>1. UNCHANGED <<segments, bookings, definitions>> /\ At("seed occurrences")
  BY DEF SeedCompanyCostOccurrences, Done
<1>1b. month \in Nat
  BY DEF StartInv
<1>2. CASE occurrences # {}
  <2>1. occurrences' = occurrences
    BY <1>2 DEF SeedCompanyCostOccurrences
  <2> QED
    BY <1>1, <2>1 DEF RowsInv, Definitions
<1>3. CASE occurrences = {}
  <2>1. occurrences' = {[definition |-> ids["office_rent"], month |-> m] : m \in {month - 1, month - 2}}
    BY <1>3 DEF SeedCompanyCostOccurrences
  <2>2. "office_rent" \in SpecConcepts
    BY SpecsAssumption DEF SpecConcepts
  <2>3. ids["office_rent"] \in Definitions
    BY <1>1, <2>2, Behind DEF IdsInv
  <2>4. month - 1 \in Int /\ month - 2 \in Int
    BY <1>1b
  <2>5. occurrences' \subseteq [definition : Definitions, month : Int]
    BY <2>1, <2>3, <2>4
  <2> QED
    BY <1>1, <2>5 DEF RowsInv, Definitions
<1> QED
  BY <1>2, <1>3

LEMMA InsertBookingKeepsRows ==
  ASSUME StartInv, StrategiesInv, RowsInv, InsertOneBooking
  PROVE  RowsInv'
<1>1. UNCHANGED <<segments, occurrences, definitions>> /\ step = Running /\ ~ Refused /\ month \in Nat
  BY DEF InsertOneBooking, Generates, StartInv
<1>2. segments = Apartments
  <2>1. Apartments \subseteq segments
    BY <1>1 DEF Refused
  <2> QED
    BY <2>1 DEF StrategiesInv
<1>3. PICK a \in Apartments, checkIn \in {month, month + 1} :
        bookings' = Append(bookings, Booking(a, checkIn, "confirmed"))
  BY DEF InsertOneBooking
<1>4. Booking(a, checkIn, "confirmed") \in BookingRecords
  <2>1. checkIn \in Int
    BY <1>1
  <2> QED
    BY <2>1 DEF Booking, BookingRecords
<1>5. bookings' \in Seq(BookingRecords)
  BY <1>3, <1>4 DEF RowsInv
<1> QED
  BY <1>1, <1>2, <1>5 DEF RowsInv, Definitions

LEMMA FlipBookingKeepsRows ==
  ASSUME RowsInv, FlipOneConfirmedToCancelled
  PROVE  RowsInv'
<1>1. UNCHANGED <<segments, occurrences, definitions>>
  BY DEF FlipOneConfirmedToCancelled, Generates
<1>2. PICK b \in DOMAIN bookings : bookings' = [bookings EXCEPT ![b].status = "cancelled"]
  BY DEF FlipOneConfirmedToCancelled
<1>3. bookings \in Seq(BookingRecords) /\ bookings # << >>
  <2>1. bookings \in Seq(BookingRecords)
    BY DEF RowsInv
  <2>2. DOMAIN << >> = {}
    OBVIOUS
  <2> QED
    BY <1>2, <2>1, <2>2
<1>4. bookings[b] \in BookingRecords /\ DOMAIN bookings = 1..Len(bookings) /\ Len(bookings) \in Nat
  BY <1>2, <1>3
<1> DEFINE row == [bookings[b] EXCEPT !.status = "cancelled"]
<1>5. row \in BookingRecords
  BY <1>4 DEF BookingRecords
<1>6. bookings' = [bookings EXCEPT ![b] = row]
  BY <1>2
<1> HIDE DEF row
<1>7. bookings' \in Seq(BookingRecords)
  BY <1>2, <1>3, <1>5, <1>6
<1>8. segments = Apartments
  BY <1>3 DEF RowsInv
<1> QED
  BY <1>1, <1>7, <1>8 DEF RowsInv, Definitions

LEMMA StepKeepsRows ==
  ASSUME OfficeInv, [Next]_vars
  PROVE  RowsInv'
<1>1. StartInv /\ StrategiesInv /\ IdsInv /\ RowsInv
  BY DEF OfficeInv
<1>2. Definitions \subseteq Definitions'
  BY StepKeepsDefinitions DEF RulesKept
<1>3. segments' = Apartments \/ segments' = segments
  BY <1>1, StepKeepsStrategies, SegmentsOfAll
<1>4. RowsMove \/ RowsStand
  BY <1>1, StepChanges DEF WhatChanges
<1>5. CASE RowsStand
  BY <1>1, <1>2, <1>3, <1>5, OtherRowsStay DEF RowsStand
<1> QED
  BY <1>1, <1>4, <1>5, SeedBookingsKeepsRows, SeedOccurrencesKeepsRows, InsertBookingKeepsRows,
     FlipBookingKeepsRows DEF RowsMove


----------------------------------------------------------------------------
(* The start, the tables and the counters.                                   *)

SchemaInv ==
  /\ step \in 0..Running
  /\ tables \subseteq Tables /\ legacy \subseteq tables \intersect ToSet(OldTables)
  /\ "payment_lines" \in tables
  /\ Past \intersect Tables \subseteq tables
  /\ "migrate segments" \in Past => "apartment_market_segments" \notin legacy
  /\ "migrate contracts" \in Past => "owner_contracts" \notin legacy
  /\ "migrate lines" \in Past => "payment_lines" \notin legacy

LEMMA SchemaOfStart == StartInv => SchemaInv
BY DEF StartInv, SchemaInv

\* A transaction of the start: it makes its table, if it stands for one, and has
\* migrated what it stands for.
LEMMA DoneKeepsSchema ==
  ASSUME SchemaInv, NEW name, Done(name),
         tables' \in {tables, tables \union ({name} \intersect Tables)}, {name} \intersect Tables \subseteq tables',
         legacy' \subseteq legacy,
         name = "migrate segments" => "apartment_market_segments" \notin legacy',
         name = "migrate contracts" => "owner_contracts" \notin legacy',
         name = "migrate lines" => "payment_lines" \notin legacy'
  PROVE  SchemaInv'
<1>1. step' \in 0..Running /\ Past' = Past \union {name}
  BY PastMoves DEF SchemaInv
<1>2. tables \subseteq tables' /\ tables' \subseteq Tables
  BY DEF SchemaInv
<1>3. Past' \intersect Tables \subseteq tables'
  BY <1>1, <1>2 DEF SchemaInv
<1>4. legacy' \subseteq tables' \intersect ToSet(OldTables) /\ "payment_lines" \in tables'
  BY <1>2 DEF SchemaInv
<1>5. "migrate segments" \in Past' => "apartment_market_segments" \notin legacy'
  BY <1>1 DEF SchemaInv
<1>6. "migrate contracts" \in Past' => "owner_contracts" \notin legacy'
  BY <1>1 DEF SchemaInv
<1>7. "migrate lines" \in Past' => "payment_lines" \notin legacy'
  BY <1>1 DEF SchemaInv
<1> QED
  BY <1>1, <1>2, <1>3, <1>4, <1>5, <1>6, <1>7 DEF SchemaInv

\* The steps that migrate nothing and make no table.
LEMMA SeedKeepsSchema ==
  ASSUME SchemaInv, NEW name, Done(name), UNCHANGED <<tables, legacy>>,
         name \notin Tables \union {"migrate segments", "migrate contracts", "migrate lines"}
  PROVE  SchemaInv'
BY DoneKeepsSchema

LEMMA OthersKeepSchema ==
  ASSUME SchemaInv, UNCHANGED <<tables, legacy>>, step' \in {0, 1} \/ step' = step
  PROVE  SchemaInv'
<1>1. step' \in 0..Running /\ (Past' = {} \/ Past' = Past)
  BY PastMoves DEF SchemaInv
<1>2. CASE Past' = {}
  BY <1>1, <1>2 DEF SchemaInv
<1>3. CASE Past' = Past
  BY <1>1, <1>3 DEF SchemaInv
<1> QED
  BY <1>1, <1>2, <1>3

LEMMA StepKeepsSchema ==
  ASSUME SchemaInv, [Next]_vars
  PROVE  SchemaInv'
<1>1. CASE UNCHANGED vars
  BY <1>1, OthersKeepSchema DEF vars, database, process
<1>2. CASE Start
  BY <1>2, OthersKeepSchema DEF Start, database
<1>3. CASE End
  BY <1>3, OthersKeepSchema DEF End, Down, database
<1>4. CASE StartupStep
  <2>1. CASE \E t \in Tables : Ensure(t)
    <3>1. PICK t \in Tables : Ensure(t)
      BY <2>1
    <3>2. Done(t) /\ tables' = tables \union {t} /\ legacy' = legacy
      BY <3>1 DEF Ensure
    <3>3. t # "migrate segments" /\ t # "migrate contracts" /\ t # "migrate lines"
      BY DEF Tables
    <3>4. {t} \intersect Tables = {t}
      BY <3>1
    <3> QED
      BY <3>2, <3>3, <3>4, DoneKeepsSchema
  <2>2. CASE MigrateSegments
    <3>1. Done("migrate segments") /\ tables' = tables /\ legacy' = legacy \ {"apartment_market_segments"}
      BY <2>2 DEF MigrateSegments
    <3>2. "migrate segments" \notin Tables
      BY DEF Tables
    <3>3. "migrate segments" # "migrate contracts" /\ "migrate segments" # "migrate lines"
      OBVIOUS
    <3> QED
      BY <3>1, <3>2, <3>3, DoneKeepsSchema
  <2>3. CASE MigrateContracts
    <3>1. Done("migrate contracts") /\ tables' = tables /\ legacy' = legacy \ {"owner_contracts"}
      BY <2>3 DEF MigrateContracts
    <3>2. "migrate contracts" \notin Tables
      BY DEF Tables
    <3>3. "migrate contracts" # "migrate segments" /\ "migrate contracts" # "migrate lines"
      OBVIOUS
    <3> QED
      BY <3>1, <3>2, <3>3, DoneKeepsSchema
  <2>4. CASE MigrateLines
    <3>1. Done("migrate lines") /\ tables' = tables /\ legacy' = legacy \ {"payment_lines"}
      BY <2>4 DEF MigrateLines
    <3>2. "migrate lines" \notin Tables
      BY DEF Tables
    <3>3. "migrate lines" # "migrate segments" /\ "migrate lines" # "migrate contracts"
      OBVIOUS
    <3> QED
      BY <3>1, <3>2, <3>3, DoneKeepsSchema
  <2> DEFINE others == Tables \union {"migrate segments", "migrate contracts", "migrate lines"}
  <2>5. /\ "resolve definitions" \notin others /\ "ensure weights" \notin others /\ "seed lines" \notin others
        /\ "seed segments" \notin others /\ "seed strategies" \notin others /\ "seed owners" \notin others
        /\ "seed contracts" \notin others /\ "seed bookings" \notin others /\ "seed occurrences" \notin others
    BY DEF Tables
  <2> HIDE DEF others
  <2>6. \A name : Done(name) /\ UNCHANGED <<tables, legacy>> /\ name \notin others => SchemaInv'
    BY SeedKeepsSchema DEF others
  <2>7. CASE ResolveCostDefinitionIds
    BY <2>5, <2>6, <2>7 DEF ResolveCostDefinitionIds
  <2>8. CASE EnsureWeightedAllocationConfig
    BY <2>5, <2>6, <2>8 DEF EnsureWeightedAllocationConfig
  <2>9. CASE Seed
    BY <2>5, <2>6, <2>9 DEF Seed
  <2>10. CASE SeedApartmentMarketSegments
    BY <2>5, <2>6, <2>10 DEF SeedApartmentMarketSegments
  <2>11. CASE SeedPricingStrategies
    BY <2>5, <2>6, <2>11 DEF SeedPricingStrategies
  <2>12. CASE SeedOwners
    BY <2>5, <2>6, <2>12 DEF SeedOwners
  <2>13. CASE SkipContracts
    BY <2>5, <2>6, <2>13 DEF SkipContracts, database
  <2>14. CASE BeginContracts
    BY <2>14, OthersKeepSchema DEF BeginContracts, database
  <2>15. CASE SeedContract
    BY <2>15, OthersKeepSchema DEF SeedContract
  <2>16. CASE CommitContracts
    BY <2>5, <2>6, <2>16 DEF CommitContracts
  <2>17. CASE SeedBookings
    BY <2>5, <2>6, <2>17 DEF SeedBookings
  <2>18. CASE SeedCompanyCostOccurrences
    BY <2>5, <2>6, <2>18 DEF SeedCompanyCostOccurrences
  <2> QED
    BY <1>4, <2>1, <2>2, <2>3, <2>4, <2>7, <2>8, <2>9, <2>10, <2>11, <2>12, <2>13, <2>14, <2>15, <2>16,
       <2>17, <2>18 DEF StartupStep
<1>5. CASE RunForever
  BY <1>5, OthersKeepSchema DEF RunForever, InsertOne, InsertOneBooking, FlipOnePendingToPaid,
     FlipOneConfirmedToCancelled, Generates, process
<1>6. CASE \E o \in Operators : ReadStrategy(o) \/ InsertStrategy(o)
  BY <1>6, OthersKeepSchema DEF ReadStrategy, InsertStrategy, database, process
<1>7. CASE EditWeights
  BY <1>7, OthersKeepSchema DEF EditWeights, process
<1>8. CASE NextMonth
  BY <1>8, OthersKeepSchema DEF NextMonth, database, process
<1> QED
  BY <1>1, <1>2, <1>3, <1>4, <1>5, <1>6, <1>7, <1>8 DEF Next

\* What a step may do to the counters and to owners.
LEMMA StepCounts ==
  ASSUME [Next]_vars
  PROVE  /\ owners' = owners \/ owners' = TRUE
         /\ month' = month \/ month' = month + 1
         /\ events' = events \/ Event
         /\ kills' = kills \/ (kills < MaxKills /\ kills' = kills + 1)
<1>1. CASE UNCHANGED vars
  BY <1>1 DEF vars, database
<1>2. CASE Start
  BY <1>2 DEF Start, database
<1>3. CASE End
  BY <1>3 DEF End, MayEnd, database
<1>4. CASE StartupStep
  <2>1. UNCHANGED <<month, events, kills>>
    BY <1>4 DEF StartupStep, Ensure, MigrateSegments, MigrateContracts, MigrateLines, ResolveCostDefinitionIds,
       EnsureWeightedAllocationConfig, Seed, SeedApartmentMarketSegments, SeedPricingStrategies, SeedOwners,
       SkipContracts, BeginContracts, SeedContract, CommitContracts, SeedBookings, SeedCompanyCostOccurrences, Done
  <2>2. owners' = owners \/ owners' = TRUE
    BY <1>4 DEF StartupStep, Ensure, MigrateSegments, MigrateContracts, MigrateLines, ResolveCostDefinitionIds,
       EnsureWeightedAllocationConfig, Seed, SeedApartmentMarketSegments, SeedPricingStrategies, SeedOwners,
       SkipContracts, BeginContracts, SeedContract, CommitContracts, SeedBookings, SeedCompanyCostOccurrences, database
  <2> QED
    BY <2>1, <2>2
<1>5. CASE RunForever
  BY <1>5 DEF RunForever, InsertOne, InsertOneBooking, FlipOnePendingToPaid, FlipOneConfirmedToCancelled, Generates
<1>6. CASE \E o \in Operators : ReadStrategy(o) \/ InsertStrategy(o)
  BY <1>6 DEF ReadStrategy, InsertStrategy, database
<1>7. CASE EditWeights
  BY <1>7 DEF EditWeights
<1>8. CASE NextMonth
  BY <1>8 DEF NextMonth, database
<1> QED
  BY <1>1, <1>2, <1>3, <1>4, <1>5, <1>6, <1>7, <1>8 DEF Next

LEMMA StepKeepsStart ==
  ASSUME StartInv, [Next]_vars
  PROVE  StartInv'
<1>1. SchemaInv'
  BY SchemaOfStart, StepKeepsSchema
<1>2. owners' \in BOOLEAN
  BY StepCounts DEF StartInv
<1>3. month' \in Nat
  <2>1. month \in Nat
    BY DEF StartInv
  <2>2. month' = month \/ month' = month + 1
    BY StepCounts
  <2> QED
    BY <2>1, <2>2
<1>4. events' \in 0..MaxEvents
  <2>1. events \in 0..MaxEvents
    BY DEF StartInv
  <2>2. events' = events \/ (events < MaxEvents /\ events' = events + 1)
    BY StepCounts DEF Event
  <2> QED
    BY <2>1, <2>2, BoundsAssumption
<1>5. kills' \in 0..MaxKills
  <2>1. kills \in 0..MaxKills
    BY DEF StartInv
  <2>2. kills' = kills \/ (kills < MaxKills /\ kills' = kills + 1)
    BY StepCounts
  <2> QED
    BY <2>1, <2>2, BoundsAssumption
<1> QED
  BY <1>1, <1>2, <1>3, <1>4, <1>5 DEF StartInv, SchemaInv

LEMMA StepKeepsOffice ==
  ASSUME OfficeInv, [Next]_vars
  PROVE  OfficeInv'
<1>1. HistoryInv' /\ StartInv'
  BY StepKeepsHistory, StepKeepsStart DEF OfficeInv
<1> QED
  BY <1>1, StepKeepsDefinitions, StepKeepsIds, StepKeepsLines, StepKeepsStrategies, StepKeepsContracts,
     StepKeepsRows DEF OfficeInv


----------------------------------------------------------------------------
(* The volumes that the process finds.                                       *)

LEMMA NothingBehind ==
  ASSUME step = 0
  PROVE  Past = {} /\ step \in 0..Running /\ ~ At("seed contracts")
<1>1. 1 .. 0 - 1 = {}
  OBVIOUS
<1>2. Past = {}
  BY <1>1 DEF Past
<1>3. step \in 0..Running /\ ~ At("seed contracts")
  BY StartupLength DEF At
<1> QED
  BY <1>2, <1>3

\* The tables and the old columns of each of the five volumes.
LEMMA InitSchema ==
  ASSUME Init
  PROVE  /\ legacy \in {{}, {"payment_lines"}, {"payment_lines", "apartment_market_segments"},
                        {"payment_lines", "apartment_market_segments", "owner_contracts"},
                        {"apartment_market_segments", "owner_contracts"}}
         /\ legacy \subseteq tables /\ tables \subseteq Tables /\ "payment_lines" \in tables
<1>1. CASE \E n \in 0..3 : OldVolume(n)
  <2>1. PICK n \in 0..3 : OldVolume(n)
    BY <1>1
  <2>2. legacy = ToSet(SubSeq(OldTables, 1, n))
        /\ tables = {"payment_lines"} \union legacy \union (IF n = 3 THEN {"owners"} ELSE {})
    BY <2>1 DEF OldVolume
  <2>3. legacy \in {{}, {"payment_lines"}, {"payment_lines", "apartment_market_segments"},
                    {"payment_lines", "apartment_market_segments", "owner_contracts"}}
    <3>1. /\ OldTables \in Seq({OldTables[1], OldTables[2], OldTables[3]}) /\ Len(OldTables) = 3
          /\ OldTables[1] = "payment_lines" /\ OldTables[2] = "apartment_market_segments"
          /\ OldTables[3] = "owner_contracts"
      BY DEF OldTables
    <3>2. ToSet(SubSeq(OldTables, 1, n)) = {OldTables[i] : i \in 1..n}
      <4> HIDE DEF OldTables
      <4>1. SubSeq(OldTables, 1, n) = [i \in 1..n |-> OldTables[i]]
        BY <3>1
      <4> QED
        BY <4>1 DEF ToSet
    <3>3. n = 0 \/ n = 1 \/ n = 2 \/ n = 3
      OBVIOUS
    <3>4. 1..0 = {} /\ 1..1 = {1} /\ 1..2 = {1, 2} /\ 1..3 = {1, 2, 3}
      OBVIOUS
    <3>5. legacy \in {{}, {OldTables[1]}, {OldTables[1], OldTables[2]}, {OldTables[1], OldTables[2], OldTables[3]}}
      <4> HIDE DEF OldTables
      <4> QED
        BY <2>2, <3>2, <3>3, <3>4
    <3> QED
      BY <3>1, <3>5
  <2>4. legacy \subseteq Tables
    BY <2>3 DEF Tables
  <2>5. {"payment_lines", "owners"} \subseteq Tables
    BY DEF Tables
  <2> QED
    BY <2>2, <2>3, <2>4, <2>5
<1>2. CASE VolumeWithoutRates
  BY <1>2 DEF VolumeWithoutRates, Tables
<1> QED
  BY <1>1, <1>2 DEF Init

LEMMA InitStart ==
  ASSUME Init
  PROVE  StartInv
<1>1. step = 0 /\ month = 1 /\ events = 0 /\ kills = 0 /\ owners \in BOOLEAN
  BY DEF Init
<1>2. ToSet(OldTables) = {"payment_lines", "apartment_market_segments", "owner_contracts"}
  BY DEF OldTables, ToSet
<1>3. legacy \subseteq ToSet(OldTables)
  BY <1>2, InitSchema
<1>4. events \in 0..MaxEvents /\ kills \in 0..MaxKills /\ month \in Nat
  BY <1>1, BoundsAssumption
<1>5. Past = {} /\ step \in 0..Running
  BY <1>1, NothingBehind
<1> QED
  BY <1>1, <1>3, <1>4, <1>5, InitSchema DEF StartInv

LEMMA SpecTypes ==
  /\ DOMAIN Specs = 1..Len(Specs) /\ Len(Specs) \in Nat
  /\ \A d \in DOMAIN Specs : Specs[d].shape \in ShapeRecords /\ Specs[d].method \in Methods
<1> DEFINE R == [shape : ShapeRecords, method : Methods]
<1>1. \A r \in R : r.shape \in ShapeRecords /\ r.method \in Methods
  OBVIOUS
<1> HIDE DEF R
<1>2. Specs \in Seq(R)
  BY SpecsAssumption DEF R
<1>3. DOMAIN Specs = 1..Len(Specs) /\ Len(Specs) \in Nat /\ \A d \in DOMAIN Specs : Specs[d] \in R
  BY <1>2
<1> QED
  BY <1>1, <1>3

\* Definitions of an older phase had no rate, and differ by their concept.
LEMMA InitDefinitions ==
  ASSUME Init
  PROVE  DefinitionsInv
<1>1. Past = {}
  BY NothingBehind DEF Init
<1>2. CASE \E n \in 0..3 : OldVolume(n)
  <2>1. definitions = << >> /\ rules = << >>
    BY <1>2 DEF OldVolume
  <2>2. Definitions = {} /\ definitions \in Seq(ShapeRecords)
    BY <2>1 DEF Definitions
  <2>3. rules \in [{} -> RuleRecords]
    <3>1. rules = [d \in {} |-> rules[d]]
      BY <2>1
    <3> QED
      BY <3>1
  <2> QED
    BY <2>2, <2>3 DEF DefinitionsInv
<1>3. CASE VolumeWithoutRates
  <2>1. /\ definitions = [d \in DOMAIN Specs |-> [Specs[d].shape EXCEPT !.rate = None]]
        /\ rules = [d \in DOMAIN Specs |-> [method |-> Specs[d].method, weights |-> None]]
    BY <1>3 DEF VolumeWithoutRates
  <2>2. None \in Rates
    BY DEF Rates
  <2>3. \A d \in DOMAIN Specs : /\ definitions[d] \in ShapeRecords /\ definitions[d].rate = None
                                /\ definitions[d].concept = Specs[d].shape.concept
    BY <2>1, <2>2, SpecTypes DEF ShapeRecords
  <2>4. definitions \in Seq(ShapeRecords) /\ Definitions = DOMAIN Specs
    <3>1. definitions \in [1..Len(Specs) -> ShapeRecords]
      BY <2>1, <2>3, SpecTypes
    <3> QED
      BY <3>1, SpecTypes DEF Definitions
  <2>5. \A d, e \in Definitions : definitions[d] = definitions[e] => d = e
    BY <2>3, <2>4, SpecsAssumption
  <2>6. \A d \in Definitions : Unrated(definitions[d])
    BY <2>3, <2>4 DEF Unrated
  <2>7. rules \in [Definitions -> RuleRecords]
    BY <2>1, <2>4, SpecTypes DEF RuleRecords
  <2> QED
    BY <1>1, <2>4, <2>5, <2>6, <2>7 DEF DefinitionsInv
<1> QED
  BY <1>2, <1>3 DEF Init

LEMMA InitLines ==
  ASSUME Init
  PROVE  LinesInv
<1>1. CASE \E n \in 0..3 : OldVolume(n)
  <2>1. PICK n \in 0..3 : OldVolume(n)
    BY <1>1
  <2>2. lines = [i \in 1..(IF n > 0 THEN Len(OldBills) ELSE 0) |-> OldLine(OldBills[i])]
    BY <2>1 DEF OldVolume
  <2>3. OldBills \in Seq(BillRecords) /\ Len(OldBills) \in Nat
    BY OldBillsAssumption
  <2>4. CASE n > 0
    <3>1. lines = [i \in 1..Len(OldBills) |-> OldLine(OldBills[i])]
      BY <2>2, <2>4
    <3>2. \A i \in 1..Len(OldBills) : OldBills[i] \in BillRecords
      BY <2>3
    <3>3. \A b \in BillRecords : OldLine(b) \in LineRecords /\ OldLine(b).definition = None
      BY DEF OldLine, LineRecords, BillRecords
    <3>4. \A i \in 1..Len(OldBills) : lines[i] = OldLine(OldBills[i]) /\ lines[i] \in LineRecords
                                       /\ lines[i].definition = None
      BY <3>1, <3>2, <3>3
    <3>5. lines \in Seq(LineRecords) /\ Len(lines) = Len(OldBills) /\ DOMAIN lines = 1..Len(OldBills)
      <4>1. lines \in [1..Len(OldBills) -> LineRecords]
        BY <3>1, <3>4
      <4> QED
        BY <2>3, <4>1
    <3>6. "payment_lines" \in legacy
      <4>1. OldTables[1] = "payment_lines" /\ Len(OldTables) = 3 /\ OldTables \in Seq({OldTables[1], OldTables[2], OldTables[3]})
        BY DEF OldTables
      <4>2. legacy = ToSet(SubSeq(OldTables, 1, n))
        BY <2>1 DEF OldVolume
      <4> HIDE DEF OldTables
      <4>3. SubSeq(OldTables, 1, n)[1] = OldTables[1] /\ 1 \in DOMAIN SubSeq(OldTables, 1, n)
        BY <2>4, <4>1
      <4> QED
        BY <4>1, <4>2, <4>3 DEF ToSet
    <3> QED
      BY <3>4, <3>5, <3>6 DEF LinesInv
  <2>5. CASE ~ (n > 0)
    <3>1. lines = << >> /\ n = 0
      <4>1. n = 0
        BY <2>5
      <4>2. 1..0 = {}
        OBVIOUS
      <4>3. lines = [i \in 1..0 |-> OldLine(OldBills[i])]
        BY <2>2, <2>5
      <4> QED
        BY <4>1, <4>2, <4>3
    <3>2. legacy = {}
      <4>1. legacy = ToSet(SubSeq(OldTables, 1, 0))
        BY <2>1, <3>1 DEF OldVolume
      <4>2. OldTables \in Seq({OldTables[1], OldTables[2], OldTables[3]})
        BY DEF OldTables
      <4> HIDE DEF OldTables
      <4>3. SubSeq(OldTables, 1, 0) = << >>
        BY <4>2
      <4> QED
        BY <4>1, <4>3 DEF ToSet
    <3>3. DOMAIN lines = {} /\ lines \in Seq(LineRecords)
      BY <3>1
    <3> QED
      BY <3>2, <3>3 DEF LinesInv
  <2> QED
    BY <2>4, <2>5
<1>2. CASE VolumeWithoutRates
  <2>1. PICK d \in DOMAIN Specs : lines = <<Line(Pool[1], d, 1, FALSE)>>
    BY <1>2 DEF VolumeWithoutRates
  <2>2. "payment_lines" \notin legacy /\ Definitions = DOMAIN Specs
    BY <1>2 DEF VolumeWithoutRates, Definitions
  <2>3. d \in Nat /\ Pool[1] \in Apartments
    BY SpecTypes, PoolLength, FiniteApartments
  <2>4. Line(Pool[1], d, 1, FALSE) \in LineRecords /\ Line(Pool[1], d, 1, FALSE).definition = d
    BY <2>3 DEF Line, LineRecords
  <2> DEFINE line == Line(Pool[1], d, 1, FALSE)
  <2> HIDE DEF line
  <2>5. lines = <<line>> /\ line \in LineRecords /\ line.definition = d
    BY <2>1, <2>4 DEF line
  <2>6. lines \in Seq(LineRecords) /\ DOMAIN lines = {1} /\ lines[1] = line
    BY <2>5
  <2> QED
    BY <2>2, <2>5, <2>6 DEF LinesInv
<1> QED
  BY <1>1, <1>2 DEF Init

LEMMA InitContracts ==
  ASSUME Init
  PROVE  ContractsInv
<1>1. Past = {} /\ next = 0 /\ ~ (next > 0) /\ draft = NoContracts
  <2>1. next = 0 /\ draft = NoContracts
    BY DEF Init
  <2>2. ~ (next > 0)
    BY <2>1
  <2> QED
    BY <2>1, <2>2, NothingBehind DEF Init
<1>2. draft \in [Apartments -> Contracts] /\ Apart(contracts, draft) /\ next \in 0 .. Len(Pool) + 1
  BY <1>1, NoContractsYet, PoolLength
<1>3. CASE "owner_contracts" \in legacy
  <2>1. contracts \in [Apartments -> [terms : CommissionTerms, definition : {None}]]
    BY <1>3 DEF Init
  <2>2. \A r \in [terms : CommissionTerms, definition : {None}] :
          r \in Contracts /\ r # None /\ r.terms # None
    <3>1. [terms : CommissionTerms, definition : {None}]
            \subseteq [terms : CommissionTerms \union {None}, definition : Nat \union {None}]
      OBVIOUS
    <3>2. [terms : CommissionTerms, definition : {None}] \subseteq Contracts
      BY DEF Contracts
    <3> QED
      BY <3>1, <3>2, NoneAssumption
  <2>3. \A a \in Apartments : contracts[a] \in Contracts /\ contracts[a] # None /\ contracts[a].terms # None
    BY <2>1, <2>2
  <2>4. contracts \in [Apartments -> Contracts]
    BY <2>1, <2>3
  <2>5. Prefix(contracts)
    <3>1. \A i \in 1..Len(Pool) : contracts[Pool[i]] # None /\ i <= Len(Pool)
      BY <2>3, FiniteApartments, PoolLength
    <3>2. Len(Pool) \in 0..Len(Pool)
      BY PoolLength
    <3> QED
      BY <3>1, <3>2 DEF Prefix
  <2>6. OldTerms
    BY <2>3 DEF OldTerms
  <2> QED
    BY <1>1, <1>2, <2>4, <2>5, <2>6 DEF ContractsInv
<1>4. CASE "owner_contracts" \notin legacy
  <2>1. contracts = NoContracts
    BY <1>4 DEF Init
  <2>2. Prefix(contracts)
    <3>1. \A i \in 1..Len(Pool) : contracts[Pool[i]] = None /\ ~ (i <= 0)
      BY <2>1, NoContractsYet, FiniteApartments
    <3>2. 0 \in 0..Len(Pool)
      BY PoolLength
    <3> QED
      BY <3>1, <3>2 DEF Prefix
  <2> QED
    BY <1>1, <1>2, <1>4, <2>1, <2>2, NoContractsYet DEF ContractsInv
<1> QED
  BY <1>3, <1>4

LEMMA InitOffice ==
  ASSUME Init
  PROVE  OfficeInv
<1>1. Past = {}
  BY NothingBehind DEF Init
<1>2. IdsInv
  BY <1>1 DEF IdsInv
<1>3. StrategiesInv
  BY <1>1 DEF Init, StrategiesInv
<1>4. RowsInv
  BY DEF Init, RowsInv
<1> QED
  BY <1>2, <1>3, <1>4, InitHistory, InitStart, InitDefinitions, InitLines, InitContracts DEF OfficeInv


----------------------------------------------------------------------------
(* The specification, again.                                                 *)

LEMMA OfficeStays == Spec => []OfficeInv
<1>1. OfficeInv /\ [Next]_vars => OfficeInv'
  BY StepKeepsOffice
<1> QED
  BY <1>1, InitOffice, PTL DEF Spec

LEMMA TypesOfOffice ==
  ASSUME OfficeInv
  PROVE  TypeOK
<1>1. /\ tables \subseteq Tables /\ legacy \subseteq tables /\ owners \in BOOLEAN /\ step \in 0..Running
      /\ month \in Nat /\ events \in 0..MaxEvents /\ kills \in 0..MaxKills
  BY DEF OfficeInv, StartInv
<1>2. segments \subseteq Apartments
  BY DEF OfficeInv, StrategiesInv
<1>3. strategies \subseteq [apartment : segments, version : Nat \ {0}, margin : Margins, discount : Margins]
  <2>1. strategies \subseteq StrategyRecords /\ (strategies # {} => segments = Apartments)
    BY DEF OfficeInv, StrategiesInv
  <2> QED
    BY <2>1 DEF StrategyRecords
<1>4. contracts \in [Apartments -> Contracts] /\ draft \in [Apartments -> Contracts] /\ next \in 0 .. Len(Pool) + 1
  BY DEF OfficeInv, ContractsInv
<1>5. DOMAIN rules \subseteq Definitions /\ \A d \in DOMAIN rules : rules[d].weights \in {None, "equal", "edited"}
  BY DEF OfficeInv, DefinitionsInv, RuleRecords
<1>6. \A l \in DOMAIN lines : lines[l].definition \in Definitions \/ "payment_lines" \in legacy
  BY DEF OfficeInv, LinesInv
<1>7. \A b \in DOMAIN bookings : bookings[b].apartment \in segments
  <2> SUFFICES ASSUME NEW b \in DOMAIN bookings
               PROVE  bookings[b].apartment \in segments
    OBVIOUS
  <2>1. bookings \in Seq(BookingRecords) /\ (bookings # << >> => segments = Apartments)
    BY DEF OfficeInv, RowsInv
  <2>2. bookings # << >>
    <3>1. DOMAIN << >> = {}
      OBVIOUS
    <3> QED
      BY <3>1
  <2>3. bookings[b] \in BookingRecords
    BY <2>1
  <2> QED
    BY <2>1, <2>2, <2>3 DEF BookingRecords
<1>8. \A c \in occurrences : c.definition \in Definitions
  BY DEF OfficeInv, RowsInv
<1> QED
  BY <1>1, <1>2, <1>3, <1>4, <1>5, <1>6, <1>7, <1>8 DEF TypeOK

LEMMA SeededOffice ==
  ASSUME OfficeInv
  PROVE  RunningMeansSeeded
<1> SUFFICES ASSUME step = Running
             PROVE  /\ legacy = {} /\ tables = Tables
                    /\ segments = Apartments
                    /\ \A a \in Apartments : \E s \in VersionsOf(a) : s.version = 1
                    /\ \A d \in Definitions : definitions[d].percentage => definitions[d].rate # None
                    /\ rules[ids["office_rent"]].weights # None
                    /\ \E k \in 1..Len(Pool) : \A i \in 1..Len(Pool) : contracts[Pool[i]] # None <=> i <= k
  BY DEF RunningMeansSeeded
<1>1. /\ Tables \ {"payment_lines"} \subseteq Past
      /\ {"migrate segments", "migrate contracts", "migrate lines"} \subseteq Past
      /\ {"resolve definitions", "ensure weights"} \subseteq Past
      /\ {"seed segments", "seed strategies", "seed contracts"} \subseteq Past
  BY Behind
<1>2. legacy = {}
  <2>1. ToSet(OldTables) = {"payment_lines", "apartment_market_segments", "owner_contracts"}
    BY DEF OldTables, ToSet
  <2>2. legacy \subseteq ToSet(OldTables)
    BY DEF OfficeInv, StartInv
  <2>3. /\ "payment_lines" \notin legacy /\ "apartment_market_segments" \notin legacy
        /\ "owner_contracts" \notin legacy
    BY <1>1 DEF OfficeInv, StartInv
  <2> QED
    BY <2>1, <2>2, <2>3
<1>3. tables = Tables
  BY <1>1 DEF OfficeInv, StartInv
<1>4. segments = Apartments /\ Seeded(strategies)
  BY <1>1 DEF OfficeInv, StrategiesInv
<1>5. \A a \in Apartments : \E s \in VersionsOf(a) : s.version = 1
  BY <1>4 DEF Seeded, VersionsOf
<1>6. "cost_definitions" \in Past
  <2>1. "cost_definitions" \in Tables \ {"payment_lines"}
    BY DEF Tables
  <2> QED
    BY <1>1, <2>1
<1>7. \A d \in Definitions : definitions[d].percentage => definitions[d].rate # None
  BY <1>6 DEF OfficeInv, DefinitionsInv, Rated
<1>8. rules[ids["office_rent"]].weights # None
  BY <1>1 DEF OfficeInv, IdsInv
<1>9. contracts # NoContracts /\ Prefix(contracts) /\ contracts \in [Apartments -> Contracts]
  BY <1>1 DEF OfficeInv, ContractsInv
<1>10. PICK k \in 0..Len(Pool) : \A i \in 1..Len(Pool) : contracts[Pool[i]] # None <=> i <= k
  BY <1>9 DEF Prefix
<1>11. k \in 1..Len(Pool)
  <2>1. PICK a \in Apartments : contracts[a] # None
    BY <1>9, SomeContract
  <2>2. PICK i \in 1..Len(Pool) : Pool[i] = a
    BY FiniteApartments
  <2>3. i <= k
    BY <1>10, <2>1, <2>2
  <2>4. k \in Nat /\ Len(Pool) \in Nat /\ k <= Len(Pool) /\ i \in Nat /\ i >= 1
    BY PoolLength
  <2> QED
    BY <2>3, <2>4
<1> QED
  BY <1>2, <1>3, <1>4, <1>5, <1>7, <1>8, <1>10, <1>11

\* For any specs, pool, old volume and number of kills, the variables keep their
\* types and rows refer only to rows that are there (the foreign keys that
\* migrations.py declares, and those it does not).
THEOREM TypesHold == Spec => []TypeOK
BY OfficeStays, TypesOfOffice, PTL

\* The ledger stays sound through any interleaving of kills, restarts,
\* migrations, seeds and generated bills: no definition is made a second time,
\* each has its rule, and no bill is entered twice for an apartment, a definition
\* and a month (generator.py already_has_line_for_period, seed.py).
THEOREM LedgerStaysSound == Spec => []LedgerIsSound
<1>1. OfficeInv => LedgerIsSound
  <2> SUFFICES ASSUME OfficeInv
               PROVE  LedgerIsSound
    OBVIOUS
  <2>1. (\A d, e \in Definitions : definitions[d] = definitions[e] => d = e) /\ DOMAIN rules = Definitions
    BY DEF OfficeInv, DefinitionsInv
  <2>2. \A k, l \in DOMAIN lines : lines[k].definition # None /\ SameBill(lines[k], lines[l]) => k = l
    BY DEF OfficeInv, LinesInv
  <2> QED
    BY <2>1, <2>2 DEF LedgerIsSound, SameBill
<1> QED
  BY <1>1, OfficeStays, PTL

\* Whatever interrupted the starts before, when main() reaches run_forever every
\* table is there and migrated, every apartment has its segment and its first
\* strategy, percentages have rates, the rent has weights, and the apartments up
\* to one of the pool have contracts.
THEOREM StartSeedsEverything == Spec => []RunningMeansSeeded
BY OfficeStays, SeededOffice, PTL

\* No step of a start, of the generator or of a person rewrites a bill's
\* definition, the terms of a contract, a strategy or weights edited by hand
\* (migrations.py, seed.py, ensure_weighted_allocation_config).
THEOREM StartsRewriteNothing == Spec => NothingIsRewritten
<1> DEFINE Kept ==
      /\ \A l \in DOMAIN lines :
           LET now == lines'[l]
           IN IF lines[l].bill = None THEN now.definition = lines[l].definition
              ELSE now.bill = None => Fits(definitions'[now.definition], lines[l].bill)
      /\ \A a \in Apartments :
           contracts[a] # None =>
             \/ contracts'[a] = contracts[a]
             \/ definitions'[contracts'[a].definition] = CommissionShape(contracts[a].terms)
      /\ strategies \subseteq strategies'
      /\ "apartment_market_segments" \in legacy \ legacy' =>
           \A a \in segments : Strategy(a, 1, OldMargin, OldMargin) \in strategies'
      /\ \A d \in DOMAIN rules : rules[d].weights = "edited" => rules'[d] = rules[d]
<1>1. OfficeInv /\ [Next]_vars => [Kept]_vars
  <2> SUFFICES ASSUME OfficeInv, [Next]_vars
               PROVE  Kept
    OBVIOUS
  <2>1. LinesKept /\ ContractsKept /\ StrategiesKept /\ RulesKept
    BY StepKeepsLines, StepKeepsContracts, StepKeepsStrategies, StepKeepsDefinitions
  <2>2. DOMAIN rules = Definitions
    BY DEF OfficeInv, DefinitionsInv
  <2> QED
    BY <2>1, <2>2 DEF LinesKept, ContractsKept, StrategiesKept, RulesKept
<1>2. [][Kept]_vars <=> NothingIsRewritten
  BY DEF NothingIsRewritten
<1> HIDE DEF Kept
<1> QED
  BY <1>1, <1>2, OfficeStays, PTL DEF Spec
===============================================================================
