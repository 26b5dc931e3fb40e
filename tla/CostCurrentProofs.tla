--------------------------- MODULE CostCurrentProofs ---------------------------
(***************************************************************************)
(* Theorems about what flows through CostPipeline, for any lines, bookings *)
(* and configuration: Stage A holds the newest periods, what leaves it is  *)
(* well formed, and what Stage B prices is the cost of all that came in.   *)
(***************************************************************************)
EXTENDS CostPipelineProofs, FiniteSetTheorems, WellFoundedInduction, NaturalsInduction

-----------------------------------------------------------------------------
(* Sets of period ends *)

\* Two members or none differ: a set of fewer than two elements.
AtMostOne(S) == \A x, y \in S : x = y

LEMMA FewerThanTwo ==
    ASSUME NEW S, IsFiniteSet(S)
    PROVE  Cardinality(S) < 2 <=> AtMostOne(S)
<1>1. ASSUME NEW x \in S, NEW y \in S, x # y
      PROVE  ~(Cardinality(S) < 2)
  <2>1. IsFiniteSet({x}) /\ Cardinality({x}) = 1
    BY FS_Singleton
  <2>2. Cardinality({x} \cup {y}) = 2
    BY <1>1, <2>1, FS_AddElement
  <2>3. ({x} \cup {y}) \in SUBSET S
    BY <1>1
  <2>4. Cardinality({x} \cup {y}) <= Cardinality(S)
    BY <2>3, FS_Subset
  <2> QED
    BY <2>2, <2>4, FS_CardinalityType
<1>2. ASSUME AtMostOne(S), S # {}
      PROVE  Cardinality(S) < 2
  <2>1. PICK x : x \in S
    BY <1>2
  <2>2. S = {x}
    BY <1>2, <2>1 DEF AtMostOne
  <2> QED
    BY <2>2, FS_Singleton
<1>3. S = {} => Cardinality(S) < 2
  BY FS_EmptySet
<1> QED
  BY <1>1, <1>2, <1>3 DEF AtMostOne

\* A set of naturals that is not empty has a least element.
LEMMA LeastExists ==
    ASSUME NEW S \in SUBSET Nat, S # {}
    PROVE  \E x \in S : \A y \in S : x <= y
<1>1. PICK least \in S : \A y \in S : ~ (<<y, least>> \in OpToRel(<, Nat))
  BY WFMin, NatLessThanWellFounded
<1>2. \A y \in S : ~ (y < least)
  BY <1>1 DEF OpToRel
<1> QED
  BY <1>2

\* A finite one has a greatest: the one with the fewest elements above it.
LEMMA GreatestExists ==
    ASSUME NEW S \in SUBSET Nat, IsFiniteSet(S), S # {}
    PROVE  \E x \in S : \A y \in S : x >= y
<1> DEFINE Above(x) == {y \in S : y > x}
           sizes == {Cardinality(Above(x)) : x \in S}
<1>1. \A x \in S : IsFiniteSet(Above(x)) /\ Cardinality(Above(x)) \in Nat
  <2> TAKE x \in S
  <2>1. Above(x) \in SUBSET S
    OBVIOUS
  <2> QED
    BY <2>1, FS_Subset, FS_CardinalityType
<1>2. sizes \in SUBSET Nat /\ sizes # {}
  BY <1>1
<1>3. PICK least \in sizes : \A n \in sizes : least <= n
  <2> HIDE DEF sizes
  <2> QED
    BY <1>2, LeastExists
<1>4. PICK x \in S : least = Cardinality(Above(x))
  OBVIOUS
<1>5. ASSUME NEW y \in S, y > x
      PROVE  FALSE
  <2>1. x \in Nat /\ y \in Nat /\ \A z \in S : z \in Nat
    OBVIOUS
  <2>2. Above(y) \in SUBSET Above(x) /\ y \in Above(x) /\ y \notin Above(y)
    <3>1. \A z \in S : z > y => z > x
      BY <1>5, <2>1
    <3>2. ~(y > y)
      BY <2>1
    <3> QED
      BY <1>5, <3>1, <3>2
  <2>3. Cardinality(Above(x)) <= Cardinality(Above(y))
    BY <1>3, <1>4
  <2> HIDE DEF Above
  <2>4. Cardinality(Above(y)) <= Cardinality(Above(x))
        /\ (Cardinality(Above(x)) = Cardinality(Above(y)) => Above(x) = Above(y))
    BY <1>1, <2>2, FS_Subset
  <2> QED
    BY <1>1, <2>2, <2>3, <2>4
<1> QED
  BY <1>5

\* What Max returns of a finite set.
LEMMA MaxFacts ==
    ASSUME NEW S \in SUBSET Nat, IsFiniteSet(S), S # {}
    PROVE  /\ Max(S) \in S
           /\ \A y \in S : y <= Max(S)
           /\ \A x \in S : (\A y \in S : y <= x) => x = Max(S)
<1>1. Max(S) \in S /\ \A y \in S : Max(S) >= y
  BY GreatestExists DEF Max
<1>2. Max(S) \in Nat /\ \A y \in S : y \in Nat
  BY <1>1
<1>3. \A y \in S : y <= Max(S)
  BY <1>1, <1>2
<1>4. ASSUME NEW x \in S, \A y \in S : y <= x
      PROVE  x = Max(S)
  <2>1. Max(S) <= x /\ x <= Max(S) /\ x \in Nat
    BY <1>1, <1>2, <1>3, <1>4
  <2> QED
    BY <1>2, <2>1
<1> QED
  BY <1>1, <1>3, <1>4

\* The ends above one of them, and the ends with at most one above.
Newer(S, x) == {y \in S : y > x}
NewestTwo(S) == {x \in S : AtMostOne(Newer(S, x))}

LEMMA RetainedAreNewestTwo ==
    ASSUME NEW S, IsFiniteSet(S)
    PROVE  RetainedPeriodEnds(S) = NewestTwo(S)
<1>1. ASSUME NEW x \in S
      PROVE  Cardinality({f \in S : f > x}) < 2 <=> AtMostOne(Newer(S, x))
  <2>1. Newer(S, x) \in SUBSET S
    BY DEF Newer
  <2>2. IsFiniteSet(Newer(S, x))
    BY <2>1, FS_Subset
  <2> QED
    BY <2>2, FewerThanTwo DEF Newer
<1> QED
  BY <1>1 DEF RetainedPeriodEnds, NewestTwo

\* Two different ends above x: then two of the newest two are above x.
LEMMA NewestTwoDecide ==
    ASSUME NEW S \in SUBSET Nat, IsFiniteSet(S), NEW x \in Nat
    PROVE  AtMostOne(Newer(NewestTwo(S), x)) <=> AtMostOne(Newer(S, x))
<1>1. AtMostOne(Newer(S, x)) => AtMostOne(Newer(NewestTwo(S), x))
  BY DEF AtMostOne, Newer, NewestTwo
<1>2. ASSUME ~AtMostOne(Newer(S, x))
      PROVE  ~AtMostOne(Newer(NewestTwo(S), x))
  <2> DEFINE above == Newer(S, x)
  <2>1. above \in SUBSET S
    BY DEF Newer
  <2>2. IsFiniteSet(above) /\ above \in SUBSET Nat /\ above # {}
    BY <1>2, <2>1, FS_Subset DEF AtMostOne
  <2>3. PICK first \in above : \A y \in above : first >= y
    <3> HIDE DEF above
    <3> QED
      BY <2>2, GreatestExists
  <2> DEFINE rest == above \ {first}
  <2>4. IsFiniteSet(rest) /\ rest \in SUBSET Nat /\ rest # {}
    <3>1. rest \in SUBSET above
      OBVIOUS
    <3>2. PICK y \in above, z \in above : y # z
      BY <1>2 DEF AtMostOne
    <3> QED
      BY <2>2, <3>1, <3>2, FS_Subset
  <2>5. PICK second \in rest : \A y \in rest : second >= y
    <3> HIDE DEF rest
    <3> QED
      BY <2>4, GreatestExists
  <2>6. first \in S /\ second \in S /\ first > x /\ second > x /\ second # first
    BY DEF Newer
  <2>7. \A y \in S : y > first => FALSE
    BY <2>2, <2>3, <2>6 DEF Newer
  <2>8. \A y \in S : y > second => y = first
    <3> TAKE y \in S
    <3> HAVE y > second
    <3>1. y > x
      BY <2>6
    <3>2. y \in above
      BY <3>1 DEF Newer
    <3> QED
      BY <2>4, <2>5, <3>2
  <2>9. first \in NewestTwo(S) /\ second \in NewestTwo(S)
    BY <2>6, <2>7, <2>8 DEF NewestTwo, AtMostOne, Newer
  <2> QED
    BY <2>6, <2>9 DEF AtMostOne, Newer
<1> QED
  BY <1>1, <1>2

\* When one more end comes in, what is held and the new one decide which two are the
\* newest: the ends given up before do not matter any more.
LEMMA NewestTwoWithOneMore ==
    ASSUME NEW S \in SUBSET Nat, IsFiniteSet(S), NEW n \in Nat
    PROVE  NewestTwo(NewestTwo(S) \cup {n}) = NewestTwo(S \cup {n})
<1> DEFINE all == S \cup {n}
           held == NewestTwo(S) \cup {n}
<1>1. IsFiniteSet(all) /\ all \in SUBSET Nat
  BY FS_AddElement
<1>2. held \in SUBSET all
  BY DEF NewestTwo
<1>3. NewestTwo(all) \subseteq held
  BY DEF NewestTwo, AtMostOne, Newer
<1>4. ASSUME NEW x \in all
      PROVE  AtMostOne(Newer(held, x)) <=> AtMostOne(Newer(all, x))
  <2>1. AtMostOne(Newer(all, x)) => AtMostOne(Newer(held, x))
    BY <1>2 DEF AtMostOne, Newer
  <2>2. AtMostOne(Newer(held, x)) => AtMostOne(Newer(NewestTwo(all), x))
    BY <1>3 DEF AtMostOne, Newer
  <2>3. x \in Nat
    BY <1>1
  <2> HIDE DEF all, held
  <2> QED
    BY <1>1, <2>1, <2>2, <2>3, NewestTwoDecide
<1>5. NewestTwo(held) \subseteq NewestTwo(all)
  BY <1>2, <1>4 DEF NewestTwo
<1>6. NewestTwo(all) \subseteq NewestTwo(held)
  BY <1>3, <1>4 DEF NewestTwo
<1> QED
  BY <1>5, <1>6
-----------------------------------------------------------------------------
(* Rows of payment lines and bookings *)

\* The period ends of the lines a map holds.
Ends(f) == {l.end : l \in Rows(f)}

LEMMA RowsOfLines ==
    ASSUME NEW f \in [EventIds -> Line \cup {None}]
    PROVE  /\ Rows(f) \subseteq Line
           /\ \A l \in Rows(f) : \E e \in EventIds : f[e] = l /\ l # None
           /\ \A e \in EventIds : f[e] # None => f[e] \in Rows(f) /\ f[e] \in Line
BY NoneAssumption DEF Rows

LEMMA EndsFacts ==
    ASSUME NEW f \in [EventIds -> Line \cup {None}]
    PROVE  /\ IsFiniteSet(Ends(f))
           /\ Ends(f) \in SUBSET Nat
           /\ \A e \in EventIds : f[e] # None => f[e].end \in Ends(f)
           /\ \A x \in Ends(f) : \E e \in EventIds : f[e] # None /\ f[e].end = x
<1>1. /\ \A e \in EventIds : f[e] # None => f[e].end \in Ends(f)
      /\ \A x \in Ends(f) : \E e \in EventIds : f[e] # None /\ f[e].end = x
  BY RowsOfLines DEF Ends
<1>2. Ends(f) \in SUBSET Nat
  BY <1>1, RowsOfLines DEF Line
<1>3. IsFiniteSet(Ends(f))
  <2> DEFINE holders == {e \in EventIds : f[e] # None}
             endOf == [e \in holders |-> f[e].end]
  <2>1. IsFiniteSet(holders)
    <3>1. holders \in SUBSET EventIds
      OBVIOUS
    <3> QED
      BY <3>1, FS_Subset, CostPipelineAssumption DEF CostPipelineAssumption
  <2>2. endOf \in Surjection(holders, Ends(f))
    BY <1>1 DEF Surjection
  <2> HIDE DEF holders, endOf
  <2> QED
    BY <2>1, <2>2, FS_Surjection
<1> QED
  BY <1>1, <1>2, <1>3

\* A line as it was enriched from one version of its row.
FromRow(l) ==
    /\ l \in Line
    /\ l.version \in DOMAIN PaymentRows[l.event]
    /\ l.start = PaymentRows[l.event][l.version].start
    /\ l.end = PaymentRows[l.event][l.version].end

\* What a map from events to lines holds.
FromRows(f) == \A e \in EventIds : f[e] # None => FromRow(f[e]) /\ f[e].event = e

\* Every line has the period of its payment line, and newer ones do not begin before
\* the bookings that are kept for an older one.
LEMMA PeriodFacts ==
    ASSUME NEW l, NEW k, FromRow(l), FromRow(k)
    PROVE  /\ l.start \in Nat /\ l.end \in Nat /\ l.start <= l.end
           /\ l.event = k.event => l.start = k.start /\ l.end = k.end
           /\ l.end <= k.end => l.start - RetentionBufferDays <= k.start
<1>1. l.event \in EventIds /\ k.event \in EventIds
  BY DEF FromRow, Line
<1>2. /\ l.start \in Nat /\ l.end \in Nat
      /\ l.version \in DOMAIN PaymentRows[l.event]
      /\ k.version \in DOMAIN PaymentRows[k.event]
  BY DEF FromRow, Line
<1> QED
  BY <1>1, <1>2, PeriodsAssumption DEF PeriodsAssumption, FromRow

-----------------------------------------------------------------------------
(* Stage A holds the newest periods. *)

\* HoldsTheNewestPeriods without the cardinalities.
HoldsNewest(held, all) ==
    \A e \in EventIds :
        held[e] = IF all[e] = None THEN None
                  ELSE IF all[e].end \in NewestTwo(Ends(all)) THEN all[e] ELSE None

NewestHeld == HoldsNewest(lines, accepted)

LineMaps ==
    /\ lines \in [EventIds -> Line \cup {None}]
    /\ accepted \in [EventIds -> Line \cup {None}]
    /\ FromRows(accepted)

LEMMA NewestHeldIsThat ==
    ASSUME LineMaps
    PROVE  NewestHeld <=> HoldsTheNewestPeriods
<1>1. ASSUME NEW e \in EventIds, accepted[e] # None
      PROVE  accepted[e].end \in NewestTwo(Ends(accepted)) <=>
             Cardinality({l.end : l \in {k \in Rows(accepted) :
                                              k.end > accepted[e].end}}) < 2
  <2> DEFINE newer == {l.end : l \in {k \in Rows(accepted) : k.end > accepted[e].end}}
  <2>1. newer = Newer(Ends(accepted), accepted[e].end)
    BY DEF Newer, Ends
  <2>2. Newer(Ends(accepted), accepted[e].end) \in SUBSET Ends(accepted)
    BY DEF Newer
  <2>3. IsFiniteSet(newer) /\ accepted[e].end \in Ends(accepted)
    BY <1>1, <2>1, <2>2, EndsFacts, FS_Subset DEF LineMaps
  <2> HIDE DEF newer
  <2> QED
    BY <2>1, <2>3, FewerThanTwo DEF NewestTwo, newer
<1> QED
  BY <1>1 DEF NewestHeld, HoldsNewest, HoldsTheNewestPeriods

\* The ends held are the newest two of the ends that came in.
LEMMA EndsHeld ==
    ASSUME NEW held \in [EventIds -> Line \cup {None}],
           NEW all \in [EventIds -> Line \cup {None}],
           HoldsNewest(held, all)
    PROVE  Ends(held) = NewestTwo(Ends(all))
<1>1. ASSUME NEW x \in Ends(held)
      PROVE  x \in NewestTwo(Ends(all))
  <2>1. PICK e \in EventIds : held[e] # None /\ held[e].end = x
    BY EndsFacts
  <2> QED
    BY <2>1 DEF HoldsNewest
<1>2. ASSUME NEW x \in NewestTwo(Ends(all))
      PROVE  x \in Ends(held)
  <2>1. x \in Ends(all)
    BY DEF NewestTwo
  <2>2. PICK e \in EventIds : all[e] # None /\ all[e].end = x
    BY <2>1, EndsFacts
  <2>3. held[e] # None /\ held[e].end = x
    BY <2>2 DEF HoldsNewest
  <2> QED
    BY <2>3, EndsFacts
<1> QED
  BY <1>1, <1>2

\* One line is put in a map.
LEMMA PutLine ==
    ASSUME NEW f \in [EventIds -> Line \cup {None}], NEW l \in Line,
           f[l.event] # None => f[l.event].end = l.end
    PROVE  LET put == [f EXCEPT ![l.event] = l]
           IN  /\ put \in [EventIds -> Line \cup {None}]
               /\ \A e \in EventIds : put[e] = IF e = l.event THEN l ELSE f[e]
               /\ Ends(put) = Ends(f) \cup {l.end}
<1> DEFINE put == [f EXCEPT ![l.event] = l]
<1>1. /\ put \in [EventIds -> Line \cup {None}]
      /\ \A e \in EventIds : put[e] = IF e = l.event THEN l ELSE f[e]
      /\ l.event \in EventIds /\ l # None
  BY NoneAssumption DEF Line
<1> HIDE DEF put
<1>2. \A x \in Ends(put) : x \in Ends(f) \/ x = l.end
  BY <1>1, EndsFacts
<1>3. \A x \in Ends(f) : x \in Ends(put)
  BY <1>1, EndsFacts
<1>4. l.end \in Ends(put)
  BY <1>1, EndsFacts
<1> QED
  BY <1>1, <1>2, <1>3, <1>4 DEF put

\* What Stage A makes of the map keeps it so.
LEMMA WithLineHoldsNewest ==
    ASSUME LineMaps, NewestHeld, NEW l, FromRow(l),
           lines' = WithLine(lines, l),
           accepted' = [accepted EXCEPT ![l.event] = l]
    PROVE  LineMaps' /\ NewestHeld'
<1> DEFINE put == [lines EXCEPT ![l.event] = l]
           all == Ends(accepted)
<1>1. l \in Line /\ l.event \in EventIds /\ l.end \in Nat /\ l # None
  BY NoneAssumption DEF FromRow, Line
<1>2. accepted[l.event] # None => accepted[l.event].end = l.end
  BY <1>1, PeriodFacts DEF LineMaps, FromRows
<1>3. lines[l.event] # None => lines[l.event].end = l.end
  BY <1>1, <1>2 DEF NewestHeld, HoldsNewest
<1>4. /\ put \in [EventIds -> Line \cup {None}]
      /\ \A e \in EventIds : put[e] = IF e = l.event THEN l ELSE lines[e]
      /\ Ends(put) = NewestTwo(all) \cup {l.end}
  <2>1. lines \in [EventIds -> Line \cup {None}]
    BY DEF LineMaps
  <2>2. Ends(lines) = NewestTwo(all)
    BY EndsHeld DEF LineMaps, NewestHeld
  <2>3. /\ put \in [EventIds -> Line \cup {None}]
        /\ \A e \in EventIds : put[e] = IF e = l.event THEN l ELSE lines[e]
        /\ Ends(put) = Ends(lines) \cup {l.end}
    BY <1>1, <1>3, <2>1, PutLine
  <2> QED
    BY <2>2, <2>3
<1>5. /\ accepted' \in [EventIds -> Line \cup {None}]
      /\ \A e \in EventIds : accepted'[e] = IF e = l.event THEN l ELSE accepted[e]
      /\ Ends(accepted') = all \cup {l.end}
  BY <1>1, <1>2, PutLine DEF LineMaps
<1>6. IsFiniteSet(all) /\ all \in SUBSET Nat /\ IsFiniteSet(Ends(put))
  BY <1>4, EndsFacts DEF LineMaps
<1>7. RetainedPeriodEnds(Ends(put)) = NewestTwo(Ends(accepted'))
  <2>1. RetainedPeriodEnds(Ends(put)) = NewestTwo(Ends(put))
    BY <1>6, RetainedAreNewestTwo
  <2>2. NewestTwo(NewestTwo(all) \cup {l.end}) = NewestTwo(all \cup {l.end})
    BY <1>1, <1>6, NewestTwoWithOneMore
  <2> QED
    BY <1>4, <1>5, <2>1, <2>2, Zenon
<1>8. \A e \in EventIds :
          lines'[e] = IF put[e] = None THEN None
                      ELSE IF put[e].end \in NewestTwo(Ends(accepted')) THEN put[e]
                      ELSE None
  BY <1>7 DEF WithLine, Ends
<1>9. lines' \in [EventIds -> Line \cup {None}]
  <2>1. lines' = [e \in EventIds |-> lines'[e]]
    BY DEF WithLine
  <2>2. \A e \in EventIds : lines'[e] \in Line \cup {None}
    BY <1>4, <1>8
  <2> QED
    BY <2>1, <2>2
<1>10. FromRows(accepted')
  BY <1>1, <1>5 DEF LineMaps, FromRows
<1>11. NewestHeld'
  <2> SUFFICES ASSUME NEW e \in EventIds
               PROVE  lines'[e] = IF accepted'[e] = None THEN None
                                  ELSE IF accepted'[e].end \in NewestTwo(Ends(accepted'))
                                       THEN accepted'[e] ELSE None
    BY DEF NewestHeld, HoldsNewest
  <2>1. CASE e = l.event
    BY <1>1, <1>4, <1>5, <1>8, <2>1
  <2>2. CASE e # l.event /\ accepted[e] = None
    BY <1>4, <1>5, <1>8, <2>2 DEF NewestHeld, HoldsNewest
  <2>3. CASE e # l.event /\ accepted[e] # None
    <3>1. accepted[e].end \in NewestTwo(all \cup {l.end}) => accepted[e].end \in NewestTwo(all)
      <4>1. accepted[e].end \in all
        BY <2>3, EndsFacts DEF LineMaps
      <4> QED
        BY <4>1 DEF NewestTwo, AtMostOne, Newer
    <3> QED
      BY <1>4, <1>5, <1>8, <2>3, <3>1 DEF NewestHeld, HoldsNewest
  <2> QED
    BY <2>1, <2>2, <2>3
<1> QED
  BY <1>9, <1>5, <1>10, <1>11 DEF LineMaps

-----------------------------------------------------------------------------
(* The invariant of Stages A0 and A: counters of what was delivered stay   *)
(* within what there is, so what A0 enriches is a line, with the period of *)
(* its row; and Stage A holds the newest periods.                          *)

ConfigTypes ==
    /\ definitions \in [Stages -> [Definitions -> Nat]]
    /\ \A s \in Stages, d \in Definitions : definitions[s][d] <= Len(DefinitionRows[d])
    /\ rules \in [{"A0", "A4"} -> [Definitions -> Nat]]
    /\ \A s \in {"A0", "A4"}, d \in Definitions : rules[s][d] <= Len(RuleRows[d])
    /\ occurrences \subseteq OccurrenceRows
    /\ contract \in 0 .. Len(ContractRows)
    /\ profile \in BOOLEAN
    /\ strategy \in StrategyVersions \cup {0}

InputTypes ==
    /\ published \in [EventIds -> Nat]
    /\ \A e \in EventIds : published[e] <= Len(PaymentRows[e])
    /\ bookingsSent \in [BookingIds -> Nat]
    /\ \A b \in BookingIds : bookingsSent[b] <= Len(BookingRows[b])
    /\ redeliveries \in 0 .. MaxRedeliveries

BookingMaps ==
    /\ known \in [BookingIds -> BookingRow \cup {None}]
    /\ bookings \in [BookingIds -> BookingRow \cup {None}]
    /\ \A b \in BookingIds : bookings[b] \in {None, known[b]}

ResolvedLines == resolved \in Seq(Line) /\ \A i \in DOMAIN resolved : FromRow(resolved[i])

LinesInv ==
    /\ ConfigTypes
    /\ InputTypes
    /\ BookingMaps
    /\ ResolvedLines
    /\ LineMaps
    /\ NewestHeld

LEMMA InitialLines == Init => LinesInv
<1> SUFFICES ASSUME Init PROVE LinesInv
  OBVIOUS
<1>1. ConfigTypes
  <2>1. \A s \in {"A0", "A4"} : s \in Stages
    BY DEF Stages
  <2>2. \A d \in Definitions : Len(DefinitionRows[d]) \in Nat /\ Len(RuleRows[d]) \in Nat
    BY CostPipelineAssumption DEF CostPipelineAssumption
  <2>3. \A d \in Definitions :
            /\ DefinitionRows[d] # <<>> => Len(DefinitionRows[d]) >= 1
            /\ RuleRows[d] # <<>> => Len(RuleRows[d]) >= 1
    BY CostPipelineAssumption DEF CostPipelineAssumption
  <2>4. definitions \in [Stages -> [Definitions -> Nat]]
        /\ rules \in [{"A0", "A4"} -> [Definitions -> Nat]]
    BY DEF Init
  <2>5. \A s \in Stages, d \in Definitions : definitions[s][d] <= Len(DefinitionRows[d])
    <3> TAKE s \in Stages, d \in Definitions
    <3>1. CASE <<s, d>> \in Warm
      <4>1. DefinitionRows[d] # <<>>
        BY <3>1, CostPipelineAssumption DEF CostPipelineAssumption
      <4> QED
        BY <2>2, <2>3, <3>1, <4>1 DEF Init
    <3>2. CASE <<s, d>> \notin Warm
      BY <2>2, <3>2 DEF Init
    <3> QED
      BY <3>1, <3>2
  <2>6. \A s \in {"A0", "A4"}, d \in Definitions : rules[s][d] <= Len(RuleRows[d])
    <3> TAKE s \in {"A0", "A4"}, d \in Definitions
    <3>1. CASE <<s, d>> \in Warm
      <4>1. RuleRows[d] # <<>>
        BY <3>1, CostPipelineAssumption DEF CostPipelineAssumption
      <4> QED
        BY <2>2, <2>3, <3>1, <4>1 DEF Init
    <3>2. CASE <<s, d>> \notin Warm
      BY <2>2, <3>2 DEF Init
    <3> QED
      BY <3>1, <3>2
  <2>7. contract \in 0 .. Len(ContractRows)
    <3>1. ContractRows \in Seq(Definitions)
      BY CostPipelineAssumption DEF CostPipelineAssumption
    <3>2. <<"A2", "contract">> \in Warm => ContractRows # <<>>
      BY CostPipelineAssumption DEF CostPipelineAssumption
    <3>3. contract = IF <<"A2", "contract">> \in Warm THEN 1 ELSE 0
      BY DEF Init
    <3> QED
      BY <3>1, <3>2, <3>3
  <2>8. strategy \in StrategyVersions \cup {0}
    BY CostPipelineAssumption DEF CostPipelineAssumption, Init
  <2> QED
    BY <2>4, <2>5, <2>6, <2>7, <2>8 DEF Init, ConfigTypes
<1>2. InputTypes
  <2>1. \A e \in EventIds : Len(PaymentRows[e]) \in Nat
    BY CostPipelineAssumption DEF CostPipelineAssumption
  <2>2. \A b \in BookingIds : Len(BookingRows[b]) \in Nat
    BY CostPipelineAssumption DEF CostPipelineAssumption
  <2>3. MaxRedeliveries \in Nat
    BY CostPipelineAssumption DEF CostPipelineAssumption
  <2> QED
    BY <2>1, <2>2, <2>3 DEF Init, InputTypes
<1>3. BookingMaps /\ LineMaps /\ NewestHeld
  BY DEF Init, BookingMaps, LineMaps, FromRows, NewestHeld, HoldsNewest
<1>4. ResolvedLines
  <2>1. resolved = <<>>
    BY DEF Init
  <2> QED
    BY <2>1 DEF ResolvedLines
<1> QED
  BY <1>1, <1>2, <1>3, <1>4 DEF LinesInv

\* Elements of a sequence.
LEMMA SeqElements ==
    ASSUME NEW S, NEW s \in Seq(S)
    PROVE  /\ DOMAIN s = 1 .. Len(s)
           /\ \A i \in DOMAIN s : i \in Nat /\ s[i] \in S
           /\ \A i \in 1 .. Len(s) : s[i] \in S
OBVIOUS

\* A0 enriches a row to a line with the row's period.
LEMMA EnrichedIsFromRow ==
    ASSUME ConfigTypes, NEW e \in EventIds, NEW v \in DOMAIN PaymentRows[e],
           Resolvable(PaymentRows[e][v].definition)
    PROVE  FromRow(EnrichedPaymentLine(e, v))
<1> DEFINE row == PaymentRows[e][v]
           d == row.definition
           definition == Held(DefinitionRows[d], definitions["A0"][d])
           rule == Held(RuleRows[d], rules["A0"][d])
<1>1. v \in Nat /\ row \in PaymentRow
  <2>1. PaymentRows[e] \in Seq(PaymentRow)
    BY CostPipelineAssumption DEF CostPipelineAssumption
  <2> QED
    BY <2>1, SeqElements
<1>2. d \in Definitions
  BY <1>1 DEF PaymentRow
<1>3. /\ definitions["A0"][d] \in Nat /\ definitions["A0"][d] <= Len(DefinitionRows[d])
      /\ rules["A0"][d] \in Nat /\ rules["A0"][d] <= Len(RuleRows[d])
  BY <1>2 DEF ConfigTypes, Stages
<1>4. definitions["A0"][d] > 0 /\ rules["A0"][d] > 0
  BY DEF Resolvable
<1>5. DefinitionRows[d] \in Seq(DefinitionRow) /\ RuleRows[d] \in Seq(RuleRow)
  BY <1>2, CostPipelineAssumption DEF CostPipelineAssumption
<1>6. definition \in DefinitionRow
  <2>1. definition = DefinitionRows[d][definitions["A0"][d]]
    BY <1>4 DEF Held
  <2>2. definitions["A0"][d] \in 1 .. Len(DefinitionRows[d])
    BY <1>3, <1>4, <1>5
  <2> QED
    BY <1>5, <2>1, <2>2, SeqElements
<1>7. rule \in RuleRow
  <2>1. rule = RuleRows[d][rules["A0"][d]]
    BY <1>4 DEF Held
  <2>2. rules["A0"][d] \in 1 .. Len(RuleRows[d])
    BY <1>3, <1>4, <1>5
  <2> QED
    BY <1>5, <2>1, <2>2, SeqElements
<1>8. EnrichedPaymentLine(e, v) =
        [event |-> e, version |-> v, start |-> row.start, end |-> row.end,
         amount |-> row.amount, concept |-> definition.concept,
         scope |-> definition.scope, behavior |-> definition.behavior,
         calculationBase |-> definition.calculationBase,
         recurrence |-> definition.recurrence,
         revenueBase |-> definition.revenueBase, rate |-> definition.rate,
         method |-> rule.method]
  BY DEF EnrichedPaymentLine
<1> HIDE DEF definition, rule
<1>9. EnrichedPaymentLine(e, v) \in Line
  BY <1>1, <1>6, <1>7, <1>8 DEF Line, PaymentRow, DefinitionRow, RuleRow
<1> QED
  BY <1>8, <1>9 DEF FromRow

LEMMA UnchangedLines ==
    /\ UNCHANGED config /\ ConfigTypes => ConfigTypes'
    /\ UNCHANGED inputs /\ InputTypes => InputTypes'
    /\ UNCHANGED <<known, bookings>> /\ BookingMaps => BookingMaps'
    /\ UNCHANGED resolved /\ ResolvedLines => ResolvedLines'
    /\ UNCHANGED <<lines, accepted>> /\ LineMaps => LineMaps'
    /\ UNCHANGED <<lines, accepted>> /\ NewestHeld => NewestHeld'
<1>1. UNCHANGED config /\ ConfigTypes => ConfigTypes'
  BY DEF config, ConfigTypes
<1>2. UNCHANGED inputs /\ InputTypes => InputTypes'
  BY DEF inputs, InputTypes
<1>3. UNCHANGED <<known, bookings>> /\ BookingMaps => BookingMaps'
  BY DEF BookingMaps
<1>4. UNCHANGED resolved /\ ResolvedLines => ResolvedLines'
  BY DEF ResolvedLines
<1>5. UNCHANGED <<lines, accepted>> /\ LineMaps => LineMaps'
  BY DEF LineMaps, FromRows
<1>6. UNCHANGED <<lines, accepted>> /\ NewestHeld => NewestHeld'
  BY DEF NewestHeld, HoldsNewest, Ends, Rows
<1> QED
  BY <1>1, <1>2, <1>3, <1>4, <1>5, <1>6

LEMMA DeliverLines ==
    ASSUME LinesInv, Deliver
    PROVE  LinesInv'
<1>1. UNCHANGED <<inputs, resolved, lines, accepted, known, bookings>>
  BY DEF Deliver, DeliverDefinition, DeliverRule, DeliverOccurrence,
         DeliverContract, DeliverProfile, DeliverStrategy, history
<1>2. ASSUME NEW s \in Stages, NEW d \in Definitions, DeliverDefinition(s, d)
      PROVE  ConfigTypes'
  <2>1. /\ definitions' = [definitions EXCEPT ![s][d] = @ + 1]
        /\ definitions[s][d] < Len(DefinitionRows[d])
        /\ UNCHANGED <<rules, occurrences, contract, profile, strategy>>
    BY <1>2 DEF DeliverDefinition
  <2>2. Len(DefinitionRows[d]) \in Nat
    BY CostPipelineAssumption DEF CostPipelineAssumption
  <2>3. definitions' \in [Stages -> [Definitions -> Nat]]
    BY <2>1 DEF LinesInv, ConfigTypes
  <2>4. \A s1 \in Stages, d1 \in Definitions : definitions'[s1][d1] <= Len(DefinitionRows[d1])
    BY <2>1, <2>2 DEF LinesInv, ConfigTypes
  <2> QED
    BY <2>1, <2>3, <2>4 DEF LinesInv, ConfigTypes
<1>3. ASSUME NEW s \in {"A0", "A4"}, NEW d \in Definitions, DeliverRule(s, d)
      PROVE  ConfigTypes'
  <2>1. /\ rules' = [rules EXCEPT ![s][d] = @ + 1]
        /\ rules[s][d] < Len(RuleRows[d])
        /\ UNCHANGED <<definitions, occurrences, contract, profile, strategy>>
    BY <1>3 DEF DeliverRule
  <2>2. Len(RuleRows[d]) \in Nat
    BY CostPipelineAssumption DEF CostPipelineAssumption
  <2>3. rules' \in [{"A0", "A4"} -> [Definitions -> Nat]]
    BY <2>1 DEF LinesInv, ConfigTypes
  <2>4. \A s1 \in {"A0", "A4"}, d1 \in Definitions : rules'[s1][d1] <= Len(RuleRows[d1])
    BY <2>1, <2>2 DEF LinesInv, ConfigTypes
  <2> QED
    BY <2>1, <2>3, <2>4 DEF LinesInv, ConfigTypes
<1>4. ASSUME NEW o \in OccurrenceRows, DeliverOccurrence(o)
      PROVE  ConfigTypes'
  BY <1>4 DEF DeliverOccurrence, LinesInv, ConfigTypes
<1>5. ASSUME DeliverContract
      PROVE  ConfigTypes'
  <2>1. Len(ContractRows) \in Nat
    BY CostPipelineAssumption DEF CostPipelineAssumption
  <2> QED
    BY <1>5, <2>1 DEF DeliverContract, LinesInv, ConfigTypes
<1>6. ASSUME DeliverProfile
      PROVE  ConfigTypes'
  BY <1>6 DEF DeliverProfile, LinesInv, ConfigTypes
<1>7. ASSUME NEW v \in StrategyVersions, DeliverStrategy(v)
      PROVE  ConfigTypes'
  BY <1>7 DEF DeliverStrategy, LinesInv, ConfigTypes
<1>8. ConfigTypes'
  BY <1>2, <1>3, <1>4, <1>5, <1>6, <1>7 DEF Deliver
<1> QED
  BY <1>1, <1>8, UnchangedLines DEF LinesInv

LEMMA ResolveLineLines ==
    ASSUME LinesInv, NEW e \in EventIds, NEW v \in DOMAIN PaymentRows[e],
           ResolveLine(e, v)
    PROVE  LinesInv'
<1> DEFINE l == EnrichedPaymentLine(e, v)
<1>1. UNCHANGED <<bookingsSent, config, lines, accepted, known, bookings>>
  BY DEF ResolveLine, history
<1>2. PaymentRows[e] \in Seq(PaymentRow) /\ MaxRedeliveries \in Nat
  BY CostPipelineAssumption DEF CostPipelineAssumption
<1>3. v \in Nat /\ v <= Len(PaymentRows[e])
  BY <1>2
<1>4. InputTypes'
  <2>1. published' = [published EXCEPT ![e] = IF v > @ THEN v ELSE @]
    BY DEF ResolveLine
  <2>2. redeliveries' \in 0 .. MaxRedeliveries
    BY <1>2 DEF ResolveLine, Sends, LinesInv, InputTypes
  <2> QED
    BY <1>1, <1>3, <2>1, <2>2 DEF LinesInv, InputTypes
<1>5. ResolvedLines'
  <2>1. CASE Resolvable(PaymentRows[e][v].definition)
    <3>1. FromRow(l)
      BY <2>1, EnrichedIsFromRow DEF LinesInv
    <3>2. resolved' = Append(resolved, l) /\ l \in Line
      BY <2>1, <3>1 DEF ResolveLine, FromRow
    <3> HIDE DEF l
    <3>3. /\ resolved' \in Seq(Line)
          /\ \A i \in DOMAIN resolved' : resolved'[i] = l \/ \E j \in DOMAIN resolved : resolved'[i] = resolved[j]
      BY <3>2 DEF LinesInv, ResolvedLines
    <3> QED
      BY <3>1, <3>3 DEF LinesInv, ResolvedLines
  <2>2. CASE ~Resolvable(PaymentRows[e][v].definition)
    BY <2>2, UnchangedLines DEF ResolveLine, LinesInv
  <2> QED
    BY <2>1, <2>2
<1> QED
  BY <1>1, <1>4, <1>5, UnchangedLines DEF LinesInv

LEMMA PruneKeeps ==
    ASSUME NEW held, NEW a, NEW b \in BookingIds
    PROVE  Prune(held, a)[b] \in {None, held[b]}
BY DEF Prune

LEMMA BookingArrivesLines ==
    ASSUME LinesInv, NEW b \in BookingIds, NEW v \in DOMAIN BookingRows[b],
           BookingArrives(b, v)
    PROVE  LinesInv'
<1> DEFINE put == [bookings EXCEPT ![b] = BookingRows[b][v]]
<1>1. UNCHANGED <<published, config, resolved, lines, accepted>>
  BY DEF BookingArrives, config
<1>2. BookingRows[b] \in Seq(BookingRow) /\ MaxRedeliveries \in Nat
  BY CostPipelineAssumption DEF CostPipelineAssumption
<1>3. v \in Nat /\ v <= Len(BookingRows[b]) /\ BookingRows[b][v] \in BookingRow
  BY <1>2, SeqElements
<1>4. InputTypes'
  <2>1. bookingsSent' = [bookingsSent EXCEPT ![b] = IF v > @ THEN v ELSE @]
    BY DEF BookingArrives
  <2>2. redeliveries' \in 0 .. MaxRedeliveries
    BY <1>2 DEF BookingArrives, Sends, LinesInv, InputTypes
  <2> QED
    BY <1>1, <1>3, <2>1, <2>2 DEF LinesInv, InputTypes
<1>5. /\ known' = [known EXCEPT ![b] = BookingRows[b][v]]
      /\ bookings' = IF cached = None THEN put ELSE Prune(put, cached)
  BY DEF BookingArrives
<1>6. known' \in [BookingIds -> BookingRow \cup {None}]
  BY <1>3, <1>5 DEF LinesInv, BookingMaps
<1>7. put \in [BookingIds -> BookingRow \cup {None}]
  BY <1>3 DEF LinesInv, BookingMaps
<1>8. \A c \in BookingIds : put[c] \in {None, known'[c]}
  BY <1>5 DEF LinesInv, BookingMaps
<1> HIDE DEF put
<1>9. \A c \in BookingIds : bookings'[c] \in {None, put[c]}
  BY <1>5, PruneKeeps
<1>10. bookings' = [c \in BookingIds |-> bookings'[c]]
  <2>1. CASE cached = None
    BY <1>5, <1>7, <2>1
  <2>2. CASE cached # None
    BY <1>5, <2>2 DEF Prune
  <2> QED
    BY <2>1, <2>2
<1>11. BookingMaps'
  <2>1. \A c \in BookingIds : bookings'[c] \in BookingRow \cup {None}
    BY <1>7, <1>9
  <2>2. bookings' \in [BookingIds -> BookingRow \cup {None}]
    BY <1>10, <2>1
  <2> QED
    BY <1>6, <1>8, <1>9, <2>2 DEF BookingMaps
<1> QED
  BY <1>1, <1>4, <1>11, UnchangedLines DEF LinesInv

\* What is next in the channel to Stage A is the line of a row.
LEMMA HeadIsFromRow ==
    ASSUME ResolvedLines, resolved # <<>>
    PROVE  /\ FromRow(Head(resolved))
           /\ resolved' = Tail(resolved) => ResolvedLines'
<1>1. /\ Head(resolved) = resolved[1] /\ 1 \in DOMAIN resolved
      /\ Tail(resolved) \in Seq(Line)
      /\ \A i \in DOMAIN Tail(resolved) : \E j \in DOMAIN resolved : Tail(resolved)[i] = resolved[j]
  BY DEF ResolvedLines
<1> QED
  BY <1>1 DEF ResolvedLines

LEMMA AggregateLineLines ==
    ASSUME LinesInv, AggregateLine
    PROVE  LinesInv'
<1>1. UNCHANGED <<inputs, config, known, bookings>>
  BY DEF AggregateLine
<1>2. /\ resolved # <<>> /\ resolved' = Tail(resolved)
      /\ lines' = WithLine(lines, Head(resolved))
      /\ accepted' = [accepted EXCEPT ![Head(resolved).event] = Head(resolved)]
  BY DEF AggregateLine
<1>3. FromRow(Head(resolved)) /\ ResolvedLines'
  BY <1>2, HeadIsFromRow DEF LinesInv
<1>4. LineMaps' /\ NewestHeld'
  BY <1>2, <1>3, WithLineHoldsNewest DEF LinesInv
<1> QED
  BY <1>1, <1>3, <1>4, UnchangedLines DEF LinesInv

LEMMA StepLines == LinesInv /\ [Next]_vars => LinesInv'
<1> SUFFICES ASSUME LinesInv, [Next]_vars PROVE LinesInv'
  OBVIOUS
<1>1. ASSUME UNCHANGED <<inputs, config, known, bookings, resolved, lines, accepted>>
      PROVE  LinesInv'
  BY <1>1, UnchangedLines DEF LinesInv
<1>2. CASE CostArrivesAtBookings \/ ChargeCompany \/ ResolveContract
  BY <1>1, <1>2 DEF CostArrivesAtBookings, ChargeCompany, ResolveContract, history
<1>3. CASE UNCHANGED vars
  BY <1>1, <1>3 DEF vars, history
<1> QED
  BY <1>2, <1>3, DeliverLines, ResolveLineLines, BookingArrivesLines, AggregateLineLines
  DEF Next, Process

\* Stage A's map holds the newest two periods of what reached it, each with its last
\* rows, for any rows in any order (apply of stage_cost_enrichment.py): the periods
\* already removed need not be remembered for that.
THEOREM PeriodsHeld == Spec => []HoldsTheNewestPeriods
<1>1. LinesInv => HoldsTheNewestPeriods
  BY NewestHeldIsThat DEF LinesInv
<1> QED
  BY <1>1, InitialLines, StepLines, PTL DEF Spec

-----------------------------------------------------------------------------
(* Aggregates: every one that flows has the period of a line Stage A holds *)
(* and as many occupied nights as its period can have.                     *)

\* The period of a cost, and the fields the later stages replace.
Period(c) ==
    /\ {"periodStart", "periodEnd", "availableDays", "fixed", "variable", "pending"}
           \subseteq DOMAIN c
    /\ c.periodStart \in Nat
    /\ c.periodEnd \in Nat
    /\ c.periodStart <= c.periodEnd
    /\ c.availableDays = c.periodEnd - c.periodStart + 1

Shaped(a) ==
    /\ {"cost", "strategy", "occupiedNights", "bookingCount", "avgGuests",
        "commissionBase", "commissionPct", "charged"} \subseteq DOMAIN a
    /\ Period(a.cost)

WellFormed(a) ==
    /\ Shaped(a)
    /\ a.strategy \in StrategyVersions
    /\ a.occupiedNights \in 0 .. a.cost.availableDays

LEMMA WellFormedIsAggregate ==
    ASSUME NEW a, WellFormed(a)
    PROVE  Aggregate(a)
BY DEF WellFormed, Shaped, Period, Aggregate

\* The newest end in a map that is not empty, the lines that have it, and the one
\* whose start the aggregate takes.
LEMMA NewestLines ==
    ASSUME NEW f \in [EventIds -> Line \cup {None}], Rows(f) # {}
    PROVE  LET end == Max(Ends(f))
               matching == {l \in Rows(f) : l.end = end}
           IN  /\ end \in Ends(f)
               /\ \A x \in Ends(f) : x <= end
               /\ FirstOf(matching) \in matching
<1> DEFINE end == Max(Ends(f))
           matching == {l \in Rows(f) : l.end = end}
           events == {l.event : l \in matching}
<1>1. Ends(f) \in SUBSET Nat /\ IsFiniteSet(Ends(f)) /\ Ends(f) # {}
  BY EndsFacts DEF Ends
<1>2. end \in Ends(f) /\ \A x \in Ends(f) : x <= end
  BY <1>1, MaxFacts
<1>3. matching # {} /\ matching \subseteq Line
  <2>1. PICK l \in Rows(f) : l.end = end
    BY <1>2 DEF Ends
  <2> QED
    BY <2>1, RowsOfLines
<1> HIDE DEF matching
<1>4. events \in SUBSET Nat /\ events # {}
  <2>1. \A l \in matching : l.event \in EventIds
    BY <1>3 DEF Line
  <2>2. EventIds \subseteq Nat
    BY CostPipelineAssumption DEF CostPipelineAssumption
  <2> QED
    BY <1>3, <2>1, <2>2
<1>5. PICK x \in events : \A y \in events : x <= y
  <2> HIDE DEF events
  <2> QED
    BY <1>4, LeastExists
<1>6. PICK l \in matching : l.event = x
  OBVIOUS
<1>7. l \in matching /\ \A k \in matching : l.event <= k.event
  BY <1>5, <1>6
<1>8. FirstOf(matching) \in matching
  BY <1>7 DEF FirstOf
<1> QED
  BY <1>2, <1>8 DEF matching

\* The aggregate of the lines held has the period of one of the newest.
LEMMA AggregateCostPeriod ==
    ASSUME NEW f \in [EventIds -> Line \cup {None}], FromRows(f), Rows(f) # {}
    PROVE  /\ Period(AggregateCost(Rows(f)))
           /\ AggregateCost(Rows(f)).periodEnd = Max(Ends(f))
           /\ \E l \in Rows(f) : /\ l.end = Max(Ends(f))
                                 /\ l.start = AggregateCost(Rows(f)).periodStart
<1> DEFINE end == Max(Ends(f))
           matching == {l \in Rows(f) : l.end = end}
           first == FirstOf(matching)
           c == PeriodCost(matching, end)
<1>1. AggregateCost(Rows(f)) = c
  BY DEF AggregateCost, Ends
<1>2. first \in Rows(f) /\ first.end = end
  BY NewestLines
<1>3. /\ {"periodStart", "periodEnd", "availableDays", "fixed", "variable", "pending"}
             \subseteq DOMAIN c
      /\ c.periodStart = first.start
      /\ c.periodEnd = end
      /\ c.availableDays = end - first.start + 1
  BY DEF PeriodCost
<1> HIDE DEF matching, first, c, end
<1>4. FromRow(first)
  BY <1>2, RowsOfLines DEF FromRows
<1>5. first.start \in Nat /\ first.end \in Nat /\ first.start <= first.end
  BY <1>4, PeriodFacts
<1>6. Period(c)
  BY <1>2, <1>3, <1>5 DEF Period
<1> QED
  BY <1>1, <1>2, <1>3, <1>6 DEF end

\* Occupied nights are counted among the days of the period.
LEMMA NightsWithinPeriod ==
    ASSUME NEW first \in Nat, NEW end \in Nat, first <= end, NEW rows
    PROVE  OccupiedNights(rows, first, end) \in 0 .. (end - first + 1)
<1> DEFINE nights == {n \in first .. end : \E b \in Confirmed(rows) :
                                               b.checkIn <= n /\ n < b.checkOut}
<1>1. nights \in SUBSET (first .. end)
  OBVIOUS
<1>2. IsFiniteSet(first .. end) /\ Cardinality(first .. end) = end - first + 1
  BY FS_Interval
<1> HIDE DEF nights
<1>3. Cardinality(nights) \in Nat /\ Cardinality(nights) <= end - first + 1
  BY <1>1, <1>2, FS_Subset, FS_CardinalityType
<1> QED
  BY <1>3 DEF OccupiedNights, nights

LEMMA CostAggregateWellFormed ==
    ASSUME NEW f \in [EventIds -> Line \cup {None}], FromRows(f), Rows(f) # {},
           NEW v \in StrategyVersions
    PROVE  WellFormed(CostAggregate(Rows(f), v))
<1> DEFINE c == AggregateCost(Rows(f))
<1>1. Period(c)
  BY AggregateCostPeriod
<1> HIDE DEF c
<1>2. 0 \in 0 .. c.availableDays
  BY <1>1 DEF Period
<1> QED
  BY <1>1, <1>2 DEF CostAggregate, WellFormed, Shaped, c

\* What becomes of a cost in A-correction and in A4.
CorrectedCost(c, nights, count) ==
    LET Addition(corrections) ==
            DeferredPerNight(corrections, nights, count, c.availableDays)
        fixed == {x \in c.pending : x.behavior = "fixed"}
    IN  [c EXCEPT !.fixed = @ + Addition(fixed),
                  !.variable = @ + Addition(c.pending \ fixed),
                  !.pending = {}]

ChargedCost(c, shares) ==
    LET fixed == {s \in shares : s.behavior = "fixed"}
    IN  [c EXCEPT !.fixed = @ + SharesPerNight(fixed),
                  !.variable = @ + SharesPerNight(shares \ fixed)]

\* What Recompute and CorrectAllocations make of an aggregate.
LEMMA EmissionFields ==
    ASSUME NEW a, Shaped(a), NEW held
    PROVE  LET first == a.cost.periodStart
               end == a.cost.periodEnd
               nights == OccupiedNights(Rows(held), first, end)
               count == BookingCount(Rows(held), first, end)
               e == Emission(a, held)
           IN  /\ Shaped(e)
               /\ WellFormed(a) => WellFormed(e)
               /\ e.cost = CorrectedCost(a.cost, nights, count)
               /\ e.occupiedNights = nights
               /\ e.bookingCount = count
               /\ e.avgGuests = AvgGuests(Rows(held), first, end)
               /\ e.strategy = a.strategy
               /\ e.charged = a.charged
<1> DEFINE first == a.cost.periodStart
           end == a.cost.periodEnd
           nights == OccupiedNights(Rows(held), first, end)
           count == BookingCount(Rows(held), first, end)
           guests == AvgGuests(Rows(held), first, end)
           Addition(corrections) ==
               DeferredPerNight(corrections, nights, count, a.cost.availableDays)
           fixed == {c \in a.cost.pending : c.behavior = "fixed"}
           corrected1 == [a.cost EXCEPT !.fixed = @ + Addition(fixed),
                                        !.variable = @ + Addition(a.cost.pending \ fixed),
                                        !.pending = {}]
           r == Recompute(a, Rows(held))
           e == Emission(a, held)
<1>1. nights \in 0 .. a.cost.availableDays
  BY NightsWithinPeriod DEF Shaped, Period
<1> HIDE DEF nights, count, guests
<1>2. /\ r = [a EXCEPT !.occupiedNights = nights, !.bookingCount = count,
                       !.avgGuests = guests]
      /\ DOMAIN r = DOMAIN a
      /\ r.cost = a.cost /\ r.strategy = a.strategy /\ r.charged = a.charged
      /\ r.occupiedNights = nights /\ r.bookingCount = count /\ r.avgGuests = guests
  BY DEF Recompute, Shaped, nights, count, guests
<1> DEFINE more == Addition(fixed)
           most == Addition(a.cost.pending \ fixed)
           r1 == [r EXCEPT !.cost.fixed = @ + more]
           r2 == [r1 EXCEPT !.cost.variable = @ + most]
<1>3. /\ DOMAIN e = DOMAIN r
      /\ \A x \in DOMAIN r \ {"cost"} : e[x] = r[x]
      /\ e.cost = corrected1
  <2>1. e = [r2 EXCEPT !.cost.pending = {}]
    <3> DEFINE fixedR == {c \in r.cost.pending : c.behavior = "fixed"}
               OnR(corrections) ==
                   DeferredPerNight(corrections, r.occupiedNights, r.bookingCount,
                                    r.cost.availableDays)
               moreR == OnR(fixedR)
               mostR == OnR(r.cost.pending \ fixedR)
    <3>1. e = [r EXCEPT !.cost.fixed = @ + moreR, !.cost.variable = @ + mostR,
                        !.cost.pending = {}]
      BY DEF Emission, CorrectAllocations
    <3> HIDE DEF r, e
    <3>2. r.cost = a.cost /\ r.occupiedNights = nights /\ r.bookingCount = count
      BY <1>2
    <3>3. fixedR = fixed
      BY <3>2
    <3> HIDE DEF fixedR, fixed
    <3>4. moreR = more /\ mostR = most
      BY <3>2, <3>3
    <3> HIDE DEF moreR, mostR, more, most
    <3> QED
      BY <3>1, <3>4
  <2> HIDE DEF r, e, more, most
  <2>2. /\ DOMAIN r1 = DOMAIN r /\ r1.cost = [a.cost EXCEPT !.fixed = @ + more]
        /\ \A x \in DOMAIN r \ {"cost"} : r1[x] = r[x]
    BY <1>2 DEF Shaped
  <2> HIDE DEF r1
  <2>3. /\ DOMAIN r2 = DOMAIN r
        /\ r2.cost = [a.cost EXCEPT !.fixed = @ + more, !.variable = @ + most]
        /\ \A x \in DOMAIN r \ {"cost"} : r2[x] = r[x]
    BY <1>2, <2>2 DEF Shaped
  <2> HIDE DEF r2
  <2>4. /\ DOMAIN e = DOMAIN r
        /\ e.cost = [a.cost EXCEPT !.fixed = @ + more, !.variable = @ + most, !.pending = {}]
        /\ \A x \in DOMAIN r \ {"cost"} : e[x] = r[x]
    BY <1>2, <2>1, <2>3 DEF Shaped
  <2> QED
    BY <2>4 DEF more, most
<1> HIDE DEF r, e, fixed
<1>4. /\ DOMAIN corrected1 = DOMAIN a.cost
      /\ corrected1.periodStart = a.cost.periodStart
      /\ corrected1.periodEnd = a.cost.periodEnd
      /\ corrected1.availableDays = a.cost.availableDays
  BY DEF Shaped, Period
<1> HIDE DEF corrected1
<1>5. Period(corrected1)
  BY <1>4 DEF Shaped, Period
<1>6. /\ DOMAIN e = DOMAIN a /\ e.cost = corrected1
      /\ e.strategy = a.strategy /\ e.charged = a.charged
      /\ e.occupiedNights = nights /\ e.bookingCount = count /\ e.avgGuests = guests
  BY <1>2, <1>3 DEF Shaped
<1>7. Shaped(e) /\ (WellFormed(a) => WellFormed(e))
  BY <1>1, <1>4, <1>5, <1>6 DEF WellFormed, Shaped
<1> QED
  BY <1>6, <1>7 DEF e, nights, count, guests, fixed, corrected1, CorrectedCost

\* Company costs and the commission change neither the period nor the occupancy.
LEMMA CompanyCostsFields ==
    ASSUME NEW a, Shaped(a), NEW shares
    PROVE  LET c == ChargeCompanyCosts(a, shares)
           IN  /\ WellFormed(a) => WellFormed(c)
               /\ c.charged = shares
               /\ c.cost = ChargedCost(a.cost, shares)
               /\ c.occupiedNights = a.occupiedNights
               /\ c.bookingCount = a.bookingCount
               /\ c.avgGuests = a.avgGuests
<1> DEFINE c == ChargeCompanyCosts(a, shares)
           fixed == {s \in shares : s.behavior = "fixed"}
           more == SharesPerNight(fixed)
           most == SharesPerNight(shares \ fixed)
<1>1. c = [a EXCEPT !.cost.fixed = @ + more, !.cost.variable = @ + most, !.charged = shares]
  BY DEF ChargeCompanyCosts
<1> HIDE DEF c, more, most
<1>2. /\ DOMAIN c = DOMAIN a
      /\ c.cost = [a.cost EXCEPT !.fixed = @ + more, !.variable = @ + most]
      /\ c.charged = shares
      /\ c.occupiedNights = a.occupiedNights
      /\ c.bookingCount = a.bookingCount
      /\ c.avgGuests = a.avgGuests
      /\ c.strategy = a.strategy
  BY <1>1 DEF Shaped
<1>3. /\ DOMAIN c.cost = DOMAIN a.cost
      /\ c.cost.periodStart = a.cost.periodStart
      /\ c.cost.periodEnd = a.cost.periodEnd
      /\ c.cost.availableDays = a.cost.availableDays
  BY <1>2 DEF Shaped, Period
<1>4. WellFormed(a) => WellFormed(c)
  BY <1>2, <1>3 DEF WellFormed, Shaped, Period
<1> QED
  BY <1>2, <1>4 DEF c, more, most, ChargedCost

LEMMA CommissionFields ==
    ASSUME NEW a, WellFormed(a), NEW definition
    PROVE  LET p == ApplyCommission(a, definition)
           IN  /\ WellFormed(p)
               /\ p.cost = a.cost
               /\ p.charged = a.charged
               /\ p.occupiedNights = a.occupiedNights
               /\ p.bookingCount = a.bookingCount
               /\ p.avgGuests = a.avgGuests
BY DEF ApplyCommission, WellFormed, Shaped

\* A channel of such aggregates.
AllWellFormed(s) == \E S : s \in Seq(S) /\ \A a \in S : WellFormed(a)

LEMMA AllWellFormedChannel ==
    ASSUME NEW s, AllWellFormed(s)
    PROVE  /\ \A i \in DOMAIN s : WellFormed(s[i])
           /\ s # <<>> => WellFormed(Head(s)) /\ AllWellFormed(Tail(s))
           /\ \A a : WellFormed(a) => AllWellFormed(Append(s, a))
<1>1. PICK S : s \in Seq(S) /\ \A a \in S : WellFormed(a)
  BY DEF AllWellFormed
<1>2. \A i \in DOMAIN s : WellFormed(s[i])
  BY <1>1, SeqElements
<1>3. ASSUME s # <<>>
      PROVE  WellFormed(Head(s)) /\ AllWellFormed(Tail(s))
  <2>1. Head(s) \in S /\ Tail(s) \in Seq(S)
    BY <1>1, <1>3
  <2> QED
    BY <1>1, <2>1 DEF AllWellFormed
<1>4. ASSUME NEW a, WellFormed(a)
      PROVE  AllWellFormed(Append(s, a))
  <2>1. Append(s, a) \in Seq(S \cup {a})
    BY <1>1
  <2>2. \A x \in S \cup {a} : WellFormed(x)
    BY <1>1, <1>4
  <2> QED
    BY <2>1, <2>2 DEF AllWellFormed
<1> QED
  BY <1>2, <1>3, <1>4

FlowTypes ==
    /\ AllWellFormed(aggregates)
    /\ AllWellFormed(corrected)
    /\ AllWellFormed(charged)
    /\ cached # None => WellFormed(cached)
    /\ priced # None => WellFormed(priced)
    /\ lost \in BOOLEAN

\* A map that has just taken a line holds one.
LEMMA SomethingIsHeld ==
    ASSUME NEW held \in [EventIds -> Line \cup {None}],
           NEW all \in [EventIds -> Line \cup {None}],
           HoldsNewest(held, all), FromRows(all),
           NEW e \in EventIds, all[e] # None
    PROVE  FromRows(held) /\ Rows(held) # {} /\ Max(Ends(held)) = Max(Ends(all))
<1>1. FromRows(held)
  BY DEF HoldsNewest, FromRows
<1>2. IsFiniteSet(Ends(all)) /\ Ends(all) \in SUBSET Nat /\ Ends(all) # {}
  BY EndsFacts
<1> DEFINE newest == Max(Ends(all))
<1>3. newest \in Ends(all) /\ \A x \in Ends(all) : x <= newest /\ x \in Nat
  BY <1>2, MaxFacts
<1> HIDE DEF newest
<1>4. newest \in NewestTwo(Ends(all))
  BY <1>3 DEF NewestTwo, AtMostOne, Newer
<1>5. newest \in Ends(held) /\ Ends(held) \subseteq Ends(all)
  BY <1>4, EndsHeld DEF NewestTwo
<1>6. IsFiniteSet(Ends(held)) /\ Ends(held) \in SUBSET Nat /\ Ends(held) # {}
  BY <1>2, <1>5, FS_Subset
<1>7. newest = Max(Ends(held))
  BY <1>3, <1>5, <1>6, MaxFacts
<1>8. Rows(held) # {}
  BY <1>5 DEF Ends
<1> QED
  BY <1>1, <1>7, <1>8 DEF newest

\* After a line came in, Stage A holds lines, and what it emits is well formed.
LEMMA AggregateLineEmits ==
    ASSUME LinesInv, AggregateLine
    PROVE  /\ LinesInv'
           /\ FromRows(lines') /\ Rows(lines') # {}
           /\ Max(Ends(lines')) = Max(Ends(accepted'))
           /\ strategy # 0 => WellFormed(CostAggregate(Rows(lines'), strategy))
<1> DEFINE l == Head(resolved)
<1>1. LinesInv'
  BY AggregateLineLines
<1>2. FromRow(l)
  BY HeadIsFromRow DEF LinesInv, AggregateLine
<1>3. l \in Line /\ l.event \in EventIds /\ l # None
  BY <1>2, NoneAssumption DEF FromRow, Line
<1>4. accepted' = [accepted EXCEPT ![l.event] = l]
  BY DEF AggregateLine
<1>5. accepted'[l.event] = l
  BY <1>3, <1>4 DEF LinesInv, LineMaps
<1> DEFINE e == l.event
<1>6. e \in EventIds /\ accepted'[e] # None
  BY <1>3, <1>5
<1> HIDE DEF l, e
<1>7. /\ FromRows(lines') /\ Rows(lines') # {}
      /\ Max(Ends(lines')) = Max(Ends(accepted'))
  <2>1. /\ lines' \in [EventIds -> Line \cup {None}]
        /\ accepted' \in [EventIds -> Line \cup {None}]
        /\ HoldsNewest(lines', accepted') /\ FromRows(accepted')
    BY <1>1 DEF LinesInv, LineMaps, NewestHeld
  <2> QED
    BY <1>6, <2>1, SomethingIsHeld
<1>8. lines' \in [EventIds -> Line \cup {None}]
  BY <1>1 DEF LinesInv, LineMaps
<1>9. strategy # 0 => strategy \in StrategyVersions
  BY DEF LinesInv, ConfigTypes
<1> QED
  BY <1>1, <1>7, <1>8, <1>9, CostAggregateWellFormed

LEMMA InitialFlow == Init => FlowTypes
<1>1. AllWellFormed(<<>>)
  <2> DEFINE nothing == {}
  <2>1. <<>> \in Seq(nothing) /\ \A a \in nothing : WellFormed(a)
    OBVIOUS
  <2> HIDE DEF nothing
  <2> QED
    BY <2>1 DEF AllWellFormed
<1> QED
  BY <1>1 DEF Init, FlowTypes

LEMMA StepFlow == LinesInv /\ FlowTypes /\ [Next]_vars => FlowTypes'
<1> SUFFICES ASSUME LinesInv, FlowTypes, [Next]_vars PROVE FlowTypes'
  OBVIOUS
<1> USE DEF FlowTypes
<1>1. ASSUME UNCHANGED <<aggregates, corrected, charged, cached, priced, lost>>
      PROVE  FlowTypes'
  BY <1>1 DEF AllWellFormed, WellFormed, Shaped, Period
<1>2. CASE Deliver
  BY <1>1, <1>2 DEF Deliver, DeliverDefinition, DeliverRule, DeliverOccurrence,
                    DeliverContract, DeliverProfile, DeliverStrategy, history
<1>3. ASSUME NEW e, NEW v, ResolveLine(e, v)
      PROVE  FlowTypes'
  BY <1>1, <1>3 DEF ResolveLine, history
<1>4. CASE AggregateLine
  <2> DEFINE a == CostAggregate(Rows(lines'), strategy)
  <2>1. strategy # 0 => WellFormed(a)
    BY <1>4, AggregateLineEmits
  <2>2. /\ aggregates' = IF profile /\ strategy # 0 THEN Append(aggregates, a) ELSE aggregates
        /\ UNCHANGED <<corrected, charged, cached, priced, lost>>
    BY <1>4 DEF AggregateLine
  <2> HIDE DEF a
  <2>3. AllWellFormed(aggregates')
    BY <2>1, <2>2, AllWellFormedChannel
  <2> QED
    BY <2>2, <2>3
<1>5. CASE CostArrivesAtBookings
  <2> DEFINE a == Head(aggregates)
  <2>1. /\ aggregates # <<>> /\ cached' = a /\ aggregates' = Tail(aggregates)
        /\ corrected' = Append(corrected, Emission(a, bookings))
        /\ UNCHANGED <<charged, priced, lost>>
    BY <1>5 DEF CostArrivesAtBookings, history
  <2>2. WellFormed(a) /\ AllWellFormed(aggregates')
    BY <2>1, AllWellFormedChannel
  <2> HIDE DEF a
  <2>3. WellFormed(Emission(a, bookings))
    BY <2>2, EmissionFields DEF WellFormed
  <2>4. AllWellFormed(corrected')
    BY <2>1, <2>3, AllWellFormedChannel
  <2> QED
    BY <2>1, <2>2, <2>4
<1>6. ASSUME NEW b, NEW v, BookingArrives(b, v)
      PROVE  FlowTypes'
  <2>1. /\ corrected' = IF cached = None THEN corrected
                        ELSE Append(corrected, Emission(cached, bookings'))
        /\ UNCHANGED <<aggregates, charged, cached, priced, lost>>
    BY <1>6 DEF BookingArrives
  <2>2. cached # None => WellFormed(Emission(cached, bookings'))
    BY EmissionFields DEF WellFormed
  <2>3. AllWellFormed(corrected')
    BY <2>1, <2>2, AllWellFormedChannel
  <2> QED
    BY <2>1, <2>3
<1>7. CASE ChargeCompany
  <2> DEFINE a == Head(corrected)
             c == ChargeCompanyCosts(a, Shares(a.cost.availableDays))
  <2>1. /\ corrected # <<>> /\ corrected' = Tail(corrected)
        /\ charged' = Append(charged, c)
        /\ UNCHANGED <<aggregates, cached, priced, lost>>
    BY <1>7 DEF ChargeCompany, history
  <2>2. WellFormed(a) /\ AllWellFormed(corrected')
    BY <2>1, AllWellFormedChannel
  <2>3. WellFormed(c)
    <3> HIDE DEF a
    <3> QED
      BY <2>2, CompanyCostsFields DEF WellFormed
  <2> HIDE DEF c
  <2>4. AllWellFormed(charged')
    BY <2>1, <2>3, AllWellFormedChannel
  <2> QED
    BY <2>1, <2>2, <2>4
<1>8. CASE ResolveContract
  <2> DEFINE a == Head(charged)
             d == ContractRows[contract]
             p == ApplyCommission(a, DefinitionRows[d][definitions["A2"][d]])
  <2>1. /\ charged # <<>> /\ charged' = Tail(charged)
        /\ priced' \in {priced, p}
        /\ lost' \in BOOLEAN
        /\ UNCHANGED <<aggregates, cached, corrected>>
    BY <1>8 DEF ResolveContract
  <2>2. WellFormed(a) /\ AllWellFormed(charged')
    BY <2>1, AllWellFormedChannel
  <2>3. WellFormed(p)
    <3> HIDE DEF a
    <3> QED
      BY <2>2, CommissionFields
  <2> HIDE DEF p
  <2> QED
    BY <2>1, <2>2, <2>3
<1>9. CASE UNCHANGED vars
  BY <1>1, <1>9 DEF vars, history
<1> QED
  BY <1>2, <1>3, <1>4, <1>5, <1>6, <1>7, <1>8, <1>9 DEF Next, Process

TypesInv == LinesInv /\ FlowTypes

LEMMA TypesInvImplies == TypesInv => TypeOK
<1> SUFFICES ASSUME TypesInv PROVE TypeOK
  OBVIOUS
<1>1. /\ \A i \in DOMAIN aggregates : Aggregate(aggregates[i])
      /\ \A i \in DOMAIN corrected : Aggregate(corrected[i])
      /\ \A i \in DOMAIN charged : Aggregate(charged[i])
      /\ cached # None => Aggregate(cached)
      /\ priced # None => Aggregate(priced)
  BY AllWellFormedChannel, WellFormedIsAggregate DEF TypesInv, FlowTypes
<1>2. /\ \A e \in EventIds : Len(PaymentRows[e]) \in Nat
      /\ \A b \in BookingIds : Len(BookingRows[b]) \in Nat
      /\ \A d \in Definitions : Len(DefinitionRows[d]) \in Nat /\ Len(RuleRows[d]) \in Nat
  BY CostPipelineAssumption DEF CostPipelineAssumption
<1>3. /\ \A e \in EventIds : published[e] \in 0 .. Len(PaymentRows[e])
      /\ \A b \in BookingIds : bookingsSent[b] \in 0 .. Len(BookingRows[b])
      /\ redeliveries \in 0 .. MaxRedeliveries
  BY <1>2 DEF TypesInv, LinesInv, InputTypes
<1>4. /\ \A s \in Stages, d \in Definitions :
             definitions[s][d] \in 0 .. Len(DefinitionRows[d])
      /\ \A s \in {"A0", "A4"}, d \in Definitions :
             rules[s][d] \in 0 .. Len(RuleRows[d])
  BY <1>2 DEF TypesInv, LinesInv, ConfigTypes
<1> QED
  BY <1>1, <1>3, <1>4 DEF TypesInv, FlowTypes, LinesInv, ConfigTypes, ResolvedLines,
                          LineMaps, BookingMaps, TypeOK

LEMMA StepTypes == TypesInv /\ [Next]_vars => TypesInv'
BY StepLines, StepFlow DEF TypesInv

\* What the stages store and what is in the channels has the form the descriptors and
\* data classes give it; an aggregate is never of an empty period or occupied for more
\* nights than it has.
THEOREM TypesHold == Spec => []TypeOK
<1>1. Init => TypesInv
  BY InitialLines, InitialFlow DEF TypesInv
<1> QED
  BY <1>1, StepTypes, TypesInvImplies, PTL DEF Spec

-----------------------------------------------------------------------------
(* What Stage B prices is current.  The last aggregate between Stage A and *)
(* A-bookings, or the cached one if there is none, is the cost of the      *)
(* lines held; the last one behind A-bookings is the emission of the       *)
(* cached aggregate with the bookings held; and a booking that is not held *)
(* any more ended long before a period that came in.                       *)

LastOf(s) == s[Len(s)]

LEMMA LastOfChannel ==
    ASSUME NEW s, AllWellFormed(s)
    PROVE  /\ \A a : Append(s, a) # <<>> /\ LastOf(Append(s, a)) = a
           /\ s # <<>> /\ Tail(s) # <<>> => LastOf(Tail(s)) = LastOf(s)
           /\ s # <<>> /\ Tail(s) = <<>> => Head(s) = LastOf(s)
           /\ s # <<>> => LastOf(s) \in {s[i] : i \in DOMAIN s}
<1>1. PICK S : s \in Seq(S)
  BY DEF AllWellFormed
<1>2. ASSUME NEW a
      PROVE  Append(s, a) # <<>> /\ LastOf(Append(s, a)) = a
  BY <1>1 DEF LastOf
<1>3. ASSUME s # <<>>, Tail(s) # <<>>
      PROVE  LastOf(Tail(s)) = LastOf(s)
  <2>1. /\ Len(s) \in Nat /\ Len(s) >= 1
        /\ Tail(s) \in Seq(S) /\ Len(Tail(s)) = Len(s) - 1
        /\ \A i \in 1 .. Len(s) - 1 : Tail(s)[i] = s[i + 1]
    BY <1>1, <1>3
  <2>2. Len(Tail(s)) >= 1
    BY <1>3, <2>1
  <2> QED
    BY <2>1, <2>2 DEF LastOf
<1>4. ASSUME s # <<>>, Tail(s) = <<>>
      PROVE  Head(s) = LastOf(s)
  <2>1. Len(s) \in Nat /\ Len(s) >= 1 /\ Len(Tail(s)) = Len(s) - 1 /\ Head(s) = s[1]
    BY <1>1, <1>4
  <2>2. Len(s) = 1
    BY <1>4, <2>1
  <2> QED
    BY <2>1, <2>2 DEF LastOf
<1>5. s # <<>> => LastOf(s) \in {s[i] : i \in DOMAIN s}
  BY <1>1 DEF LastOf
<1> QED
  BY <1>2, <1>3, <1>4, <1>5

\* The starts of the periods that came in.
Starts(f) == {l.start : l \in Rows(f)}

StartsInPeriod(a) == a.cost.periodStart \in Starts(accepted)

LatestCost ==
    /\ \A i \in DOMAIN aggregates : StartsInPeriod(aggregates[i])
    /\ cached # None => StartsInPeriod(cached)
    /\ aggregates # <<>> \/ cached # None => profile /\ strategy # 0
    /\ aggregates # <<>> => LastOf(aggregates).cost = AggregateCost(Rows(lines))
    /\ aggregates = <<>> /\ cached # None => cached.cost = AggregateCost(Rows(lines))

\* a is what A4 and A2 make of e.
ChargedFrom(a, e) ==
    /\ a.cost = ChargeCompanyCosts(e, a.charged).cost
    /\ a.occupiedNights = e.occupiedNights
    /\ a.bookingCount = e.bookingCount
    /\ a.avgGuests = e.avgGuests

LatestEmission ==
    cached # None =>
        /\ corrected # <<>> => LastOf(corrected) = Emission(cached, bookings)
        /\ corrected = <<>> /\ charged # <<>> =>
               ChargedFrom(LastOf(charged), Emission(cached, bookings))
        /\ corrected = <<>> /\ charged = <<>> /\ ~lost =>
               priced # None /\ ChargedFrom(priced, Emission(cached, bookings))

\* A booking that is not held as it is known ended before what is kept for a period
\* that begins at a start.
ForgottenBefore(start, held, b) ==
    held[b] # None /\ held[b].checkOut < start - RetentionBufferDays

ForgottenLongAgo ==
    \A b \in BookingIds :
        bookings[b] = known[b] \/ \E x \in Starts(accepted) : ForgottenBefore(x, known, b)

CurrentInv == StrategyInv /\ TypesInv /\ LatestCost /\ LatestEmission /\ ForgottenLongAgo

\* A line of an event replaces another with the same period: starts are never lost.
LEMMA StartsStay ==
    ASSUME LinesInv, [Next]_vars
    PROVE  Starts(accepted) \subseteq Starts(accepted')
<1>1. CASE AggregateLine
  <2> DEFINE l == Head(resolved)
  <2>1. FromRow(l)
    BY <1>1, HeadIsFromRow DEF AggregateLine, LinesInv
  <2>2. accepted' = [accepted EXCEPT ![l.event] = l]
    BY <1>1 DEF AggregateLine
  <2> HIDE DEF l
  <2>3. l \in Line /\ l.event \in EventIds /\ l # None
    BY <2>1, NoneAssumption DEF FromRow, Line
  <2>4. accepted \in [EventIds -> Line \cup {None}] /\ accepted' \in [EventIds -> Line \cup {None}]
    BY <2>2, <2>3 DEF LinesInv, LineMaps
  <2>5. ASSUME NEW x \in Starts(accepted)
        PROVE  x \in Starts(accepted')
    <3>1. PICK e \in EventIds : accepted[e] # None /\ accepted[e].start = x
      BY <2>4, RowsOfLines DEF Starts
    <3>2. accepted'[e] # None /\ accepted'[e].start = x
      <4>1. CASE e = l.event
        <5>1. FromRow(accepted[e]) /\ accepted[e].event = l.event
          BY <3>1, <4>1 DEF LinesInv, LineMaps, FromRows
        <5> QED
          BY <2>1, <2>2, <2>3, <2>4, <3>1, <4>1, <5>1, PeriodFacts
      <4>2. CASE e # l.event
        BY <2>2, <2>4, <3>1, <4>2
      <4> QED
        BY <4>1, <4>2
    <3> QED
      BY <2>4, <3>2, RowsOfLines DEF Starts
  <2> QED
    BY <2>5
<1>2. CASE accepted' = accepted
  BY <1>2
<1> QED
  BY <1>1, <1>2
  DEF Next, Process, Deliver, DeliverDefinition, DeliverRule, DeliverOccurrence,
      DeliverContract, DeliverProfile, DeliverStrategy, ResolveLine, BookingArrives,
      CostArrivesAtBookings, ChargeCompany, ResolveContract, vars, history

\* What is held is part of what came in.
LEMMA HeldCameIn ==
    ASSUME NEW held \in [EventIds -> Line \cup {None}],
           NEW all \in [EventIds -> Line \cup {None}],
           HoldsNewest(held, all)
    PROVE  Rows(held) \subseteq Rows(all)
<1>1. ASSUME NEW l \in Rows(held)
      PROVE  l \in Rows(all)
  <2>1. PICK e \in EventIds : held[e] = l /\ l # None
    BY RowsOfLines
  <2>2. all[e] = l
    BY <2>1 DEF HoldsNewest
  <2> QED
    BY <2>1, <2>2, RowsOfLines
<1> QED
  BY <1>1

LEMMA AggregateLineCost ==
    ASSUME TypesInv, LatestCost, AggregateLine
    PROVE  LatestCost'
<1> DEFINE a == CostAggregate(Rows(lines'), strategy)
<1>1. /\ aggregates' = IF profile /\ strategy # 0 THEN Append(aggregates, a) ELSE aggregates
      /\ UNCHANGED <<cached, profile, strategy>>
  BY DEF AggregateLine, config
<1>2. /\ lines' \in [EventIds -> Line \cup {None}]
      /\ accepted' \in [EventIds -> Line \cup {None}]
      /\ HoldsNewest(lines', accepted')
      /\ FromRows(lines') /\ Rows(lines') # {}
  BY AggregateLineEmits DEF TypesInv, LinesInv, LineMaps, NewestHeld
<1>3. a.cost = AggregateCost(Rows(lines'))
  BY DEF CostAggregate
<1>4. a.cost.periodStart \in Starts(accepted')
  <2>1. PICK l \in Rows(lines') : l.start = AggregateCost(Rows(lines')).periodStart
    BY <1>2, AggregateCostPeriod
  <2>2. l \in Rows(accepted')
    BY <1>2, HeldCameIn
  <2> QED
    BY <1>3, <2>1, <2>2 DEF Starts
<1>5. Starts(accepted) \subseteq Starts(accepted')
  BY StartsStay DEF TypesInv, Next, Process
<1> HIDE DEF a
<1>6. CASE profile /\ strategy # 0
  <2>1. aggregates' = Append(aggregates, a)
    BY <1>1, <1>6
  <2>2. AllWellFormed(aggregates)
    BY DEF TypesInv, FlowTypes
  <2>3. aggregates' # <<>> /\ LastOf(aggregates') = a
    BY <2>1, <2>2, LastOfChannel
  <2>4. \A i \in DOMAIN aggregates' :
            aggregates'[i] = a \/ \E j \in DOMAIN aggregates : aggregates'[i] = aggregates[j]
    BY <2>1, <2>2 DEF AllWellFormed
  <2>5. \A i \in DOMAIN aggregates' : aggregates'[i].cost.periodStart \in Starts(accepted')
    BY <1>4, <1>5, <2>4 DEF LatestCost, StartsInPeriod
  <2> QED
    BY <1>1, <1>3, <1>5, <1>6, <2>3, <2>5 DEF LatestCost, StartsInPeriod
<1>7. CASE ~(profile /\ strategy # 0)
  <2>1. aggregates' = aggregates /\ aggregates = <<>> /\ cached = None
    BY <1>1, <1>7 DEF LatestCost
  <2> QED
    BY <1>1, <2>1 DEF LatestCost
<1> QED
  BY <1>6, <1>7

LEMMA CostArrivesCost ==
    ASSUME TypesInv, LatestCost, CostArrivesAtBookings
    PROVE  LatestCost'
<1>1. /\ aggregates # <<>> /\ cached' = Head(aggregates) /\ aggregates' = Tail(aggregates)
      /\ UNCHANGED <<profile, strategy, lines, accepted>>
  BY DEF CostArrivesAtBookings, config, history
<1>2. AllWellFormed(aggregates)
  BY DEF TypesInv, FlowTypes
<1>3. /\ \A i \in DOMAIN aggregates' : \E j \in DOMAIN aggregates : aggregates'[i] = aggregates[j]
      /\ \E j \in DOMAIN aggregates : cached' = aggregates[j]
  <2>1. PICK S : aggregates \in Seq(S)
    BY <1>2 DEF AllWellFormed
  <2>2. 1 \in DOMAIN aggregates /\ cached' = aggregates[1]
    BY <1>1, <2>1
  <2>3. \A i \in DOMAIN aggregates' : i + 1 \in DOMAIN aggregates /\ aggregates'[i] = aggregates[i + 1]
    BY <1>1, <2>1
  <2> QED
    BY <2>2, <2>3
<1>4. /\ aggregates' # <<>> => LastOf(aggregates') = LastOf(aggregates)
      /\ aggregates' = <<>> => cached' = LastOf(aggregates)
  BY <1>1, <1>2, LastOfChannel
<1> QED
  BY <1>1, <1>3, <1>4 DEF LatestCost, StartsInPeriod

LEMMA StepCost ==
    ASSUME TypesInv, LatestCost, [Next]_vars
    PROVE  LatestCost'
<1>1. Starts(accepted) \subseteq Starts(accepted')
  BY StartsStay DEF TypesInv
<1>2. ASSUME UNCHANGED <<lines, aggregates, cached>>,
             profile => profile', strategy # 0 => strategy' # 0
      PROVE  LatestCost'
  BY <1>1, <1>2 DEF LatestCost, StartsInPeriod
<1>3. ASSUME NEW v \in StrategyVersions, DeliverStrategy(v)
      PROVE  LatestCost'
  <2>1. v # 0 /\ strategy' = v /\ UNCHANGED <<profile, lines, aggregates, cached>>
    BY <1>3, CostPipelineAssumption DEF DeliverStrategy, CostPipelineAssumption
  <2> QED
    BY <1>2, <2>1
<1>4. CASE Deliver
  BY <1>2, <1>3, <1>4 DEF Deliver, DeliverDefinition, DeliverRule, DeliverOccurrence,
                          DeliverContract, DeliverProfile
<1>5. CASE ChargeCompany \/ ResolveContract \/ UNCHANGED vars
  BY <1>2, <1>5 DEF ChargeCompany, ResolveContract, vars, config
<1>6. ASSUME NEW e, NEW v, ResolveLine(e, v) \/ BookingArrives(e, v)
      PROVE  LatestCost'
  BY <1>2, <1>6 DEF ResolveLine, BookingArrives, config
<1> QED
  BY <1>3, <1>4, <1>5, <1>6, AggregateLineCost, CostArrivesCost DEF Next, Process

LEMMA StepForgotten ==
    ASSUME TypesInv, LatestCost, ForgottenLongAgo, [Next]_vars
    PROVE  ForgottenLongAgo'
<1>1. Starts(accepted) \subseteq Starts(accepted')
  BY StartsStay DEF TypesInv
<1>2. CASE UNCHANGED <<bookings, known>>
  BY <1>1, <1>2 DEF ForgottenLongAgo, ForgottenBefore
<1>3. ASSUME NEW b \in BookingIds, NEW v \in DOMAIN BookingRows[b], BookingArrives(b, v)
      PROVE  ForgottenLongAgo'
  <2> DEFINE row == BookingRows[b][v]
             put == [bookings EXCEPT ![b] = row]
  <2>1. /\ known' = [known EXCEPT ![b] = row]
        /\ bookings' = IF cached = None THEN put ELSE Prune(put, cached)
    BY <1>3 DEF BookingArrives
  <2>2. BookingMaps
    BY DEF TypesInv, LinesInv
  <2>3. row # None
    <3>1. BookingRows[b] \in Seq(BookingRow)
      BY CostPipelineAssumption DEF CostPipelineAssumption
    <3> QED
      BY <3>1, SeqElements, NoneAssumption
  <2> HIDE DEF row
  <2>4. /\ \A c \in BookingIds : put[c] = IF c = b THEN row ELSE bookings[c]
        /\ \A c \in BookingIds : known'[c] = IF c = b THEN row ELSE known[c]
    BY <2>1, <2>2 DEF BookingMaps
  <2> HIDE DEF put
  <2>5. ASSUME NEW c \in BookingIds
        PROVE  put[c] = known'[c] \/ \E x \in Starts(accepted') : ForgottenBefore(x, known', c)
    BY <1>1, <2>4 DEF ForgottenLongAgo, ForgottenBefore
  <2>6. CASE cached = None
    BY <2>1, <2>5, <2>6 DEF ForgottenLongAgo
  <2>7. CASE cached # None
    <3> DEFINE start == cached.cost.periodStart
    <3>1. start \in Starts(accepted')
      BY <1>1, <2>7 DEF LatestCost, StartsInPeriod
    <3>2. \A c \in BookingIds :
              bookings'[c] = IF put[c] = None THEN None
                             ELSE IF put[c].checkOut < start - RetentionBufferDays THEN None
                             ELSE put[c]
      BY <2>1, <2>7 DEF Prune
    <3> HIDE DEF start
    <3>3. ASSUME NEW c \in BookingIds
          PROVE  \/ bookings'[c] = known'[c]
                 \/ \E x \in Starts(accepted') : ForgottenBefore(x, known', c)
      <4>1. put[c] \in {None, known'[c]}
        BY <2>2, <2>4 DEF BookingMaps
      <4>2. CASE bookings'[c] = put[c]
        BY <2>5, <4>2
      <4>3. CASE bookings'[c] # put[c]
        <5>1. put[c] # None /\ put[c].checkOut < start - RetentionBufferDays
          BY <3>2, <4>3
        <5>2. ForgottenBefore(start, known', c)
          BY <4>1, <5>1 DEF ForgottenBefore
        <5> QED
          BY <3>1, <5>2
      <4> QED
        BY <4>2, <4>3
    <3> QED
      BY <3>3 DEF ForgottenLongAgo
  <2> QED
    BY <2>6, <2>7
<1> QED
  BY <1>2, <1>3
  DEF Next, Process, Deliver, DeliverDefinition, DeliverRule, DeliverOccurrence,
      DeliverContract, DeliverProfile, DeliverStrategy, ResolveLine, AggregateLine,
      CostArrivesAtBookings, ChargeCompany, ResolveContract, vars, history

LEMMA StepEmission ==
    ASSUME NoneIsNoAggregate, TypesInv, LatestEmission, [Next]_vars
    PROVE  LatestEmission'
<1>1. AllWellFormed(corrected) /\ AllWellFormed(charged)
  BY DEF TypesInv, FlowTypes
<1>2. CASE UNCHANGED <<bookings, cached, corrected, charged, priced, lost>>
  BY <1>2 DEF LatestEmission, ChargedFrom
<1>3. CASE CostArrivesAtBookings
  <2>1. /\ cached' = Head(aggregates) /\ bookings' = bookings
        /\ corrected' = Append(corrected, Emission(Head(aggregates), bookings))
    BY <1>3 DEF CostArrivesAtBookings
  <2>2. corrected' # <<>> /\ LastOf(corrected') = Emission(cached', bookings')
    BY <1>1, <2>1, LastOfChannel
  <2> QED
    BY <2>2 DEF LatestEmission
<1>4. ASSUME NEW b, NEW v, BookingArrives(b, v)
      PROVE  LatestEmission'
  <2>1. cached' = cached
    BY <1>4 DEF BookingArrives
  <2>2. CASE cached # None
    <3>1. corrected' = Append(corrected, Emission(cached, bookings'))
      BY <1>4, <2>2 DEF BookingArrives
    <3>2. corrected' # <<>> /\ LastOf(corrected') = Emission(cached, bookings')
      BY <1>1, <3>1, LastOfChannel
    <3> QED
      BY <2>1, <3>2 DEF LatestEmission
  <2> QED
    BY <2>1, <2>2 DEF LatestEmission
<1>5. CASE ChargeCompany
  <2> DEFINE a == Head(corrected)
             sh == Shares(a.cost.availableDays)
             c == ChargeCompanyCosts(a, sh)
  <2>1. /\ corrected # <<>> /\ corrected' = Tail(corrected)
        /\ charged' = Append(charged, c)
        /\ UNCHANGED <<cached, bookings, priced, lost>>
    BY <1>5 DEF ChargeCompany, history
  <2>2. WellFormed(a)
    BY <1>1, <2>1, AllWellFormedChannel
  <2> HIDE DEF a, sh
  <2>9. Shaped(a)
    BY <2>2 DEF WellFormed
  <2>3. /\ c.charged = sh
        /\ c.occupiedNights = a.occupiedNights
        /\ c.bookingCount = a.bookingCount
        /\ c.avgGuests = a.avgGuests
    BY <2>9, CompanyCostsFields
  <2>4. ChargedFrom(c, a)
    BY <2>3 DEF ChargedFrom
  <2> HIDE DEF c
  <2>5. /\ charged' # <<>> /\ LastOf(charged') = c
        /\ corrected' # <<>> => LastOf(corrected') = LastOf(corrected)
        /\ corrected' = <<>> => a = LastOf(corrected)
    BY <1>1, <2>1, LastOfChannel DEF a
  <2> QED
    BY <2>1, <2>4, <2>5 DEF LatestEmission, ChargedFrom
<1>6. CASE ResolveContract
  <2> DEFINE a == Head(charged)
             d == ContractRows[contract]
             p == ApplyCommission(a, DefinitionRows[d][definitions["A2"][d]])
  <2>1. /\ charged # <<>> /\ charged' = Tail(charged)
        /\ lost' = ~ContractResolvable
        /\ priced' = IF ContractResolvable THEN p ELSE priced
        /\ UNCHANGED <<cached, bookings, corrected>>
    BY <1>6 DEF ResolveContract
  <2>2. WellFormed(a)
    BY <1>1, <2>1, AllWellFormedChannel
  <2>3. /\ charged' # <<>> => LastOf(charged') = LastOf(charged)
        /\ charged' = <<>> => a = LastOf(charged)
    BY <1>1, <2>1, LastOfChannel
  <2> HIDE DEF a
  <2>4. /\ WellFormed(p)
        /\ p.cost = a.cost /\ p.charged = a.charged
        /\ p.occupiedNights = a.occupiedNights
        /\ p.bookingCount = a.bookingCount
        /\ p.avgGuests = a.avgGuests
    BY <2>2, CommissionFields
  <2> HIDE DEF p
  <2>5. p # None
    BY <2>4, CostPipelineAssumption
    DEF WellFormed, Shaped, NoneIsNoAggregate, Versioned, CostPipelineAssumption
  <2>6. \A e : ChargedFrom(a, e) => ChargedFrom(p, e)
    BY <2>4 DEF ChargedFrom
  <2>7. CASE charged' # <<>> \/ corrected # <<>>
    BY <2>1, <2>3, <2>7 DEF LatestEmission, ChargedFrom
  <2>8. CASE charged' = <<>> /\ corrected = <<>>
    <3>1. cached # None => ChargedFrom(a, Emission(cached, bookings))
      BY <2>1, <2>3, <2>8 DEF LatestEmission
    <3>2. cached # None => ChargedFrom(p, Emission(cached, bookings))
      BY <2>6, <3>1
    <3>3. ~lost' => priced' = p
      BY <2>1
    <3> QED
      BY <2>1, <2>5, <2>8, <3>2, <3>3 DEF LatestEmission, ChargedFrom
  <2> QED
    BY <2>7, <2>8
<1> QED
  BY <1>2, <1>3, <1>4, <1>5, <1>6
  DEF Next, Process, Deliver, DeliverDefinition, DeliverRule, DeliverOccurrence,
      DeliverContract, DeliverProfile, DeliverStrategy, ResolveLine, AggregateLine,
      vars, history

\* The lines that are not held are of no newest period.
LEMMA NewestPeriodIsHeld ==
    ASSUME NEW held \in [EventIds -> Line \cup {None}],
           NEW all \in [EventIds -> Line \cup {None}],
           HoldsNewest(held, all), FromRows(all), Rows(all) # {}
    PROVE  AggregateCost(Rows(held)) = AggregateCost(Rows(all))
<1> DEFINE end == Max(Ends(all))
<1>1. PICK l \in Rows(all) : TRUE
  OBVIOUS
<1>2. PICK e \in EventIds : all[e] # None
  BY <1>1, RowsOfLines
<1>3. Max(Ends(held)) = end
  BY <1>2, SomethingIsHeld
<1>4. end \in Ends(all) /\ \A x \in Ends(all) : x <= end /\ x \in Nat
  BY EndsFacts, NewestLines
<1> HIDE DEF end
<1>5. end \in NewestTwo(Ends(all))
  BY <1>4 DEF NewestTwo, AtMostOne, Newer
<1>6. ASSUME NEW k \in Rows(all), k.end = end
      PROVE  k \in Rows(held)
  <2>1. PICK i \in EventIds : all[i] = k /\ k # None
    BY RowsOfLines
  <2>2. held[i] = k
    BY <1>5, <1>6, <2>1 DEF HoldsNewest
  <2> QED
    BY <2>1, <2>2, RowsOfLines
<1>7. {k \in Rows(held) : k.end = end} = {k \in Rows(all) : k.end = end}
  BY <1>6, HeldCameIn
<1> QED
  BY <1>3, <1>7 DEF AggregateCost, Ends, end

\* Bookings that are forgotten do not meet the newest period.
LEMMA ForgottenDoNotCount ==
    ASSUME TypesInv, ForgottenLongAgo, Rows(accepted) # {},
           NEW first, NEW end, first \in Nat, end \in Nat,
           \E l \in Rows(accepted) : l.start = first /\ l.end = end,
           \A x \in Ends(accepted) : x <= end
    PROVE  /\ OccupiedNights(Rows(bookings), first, end) =
                  OccupiedNights(Rows(known), first, end)
           /\ Overlapping(Rows(bookings), first, end) = Overlapping(Rows(known), first, end)
<1>1. BookingMaps /\ LineMaps
  BY DEF TypesInv, LinesInv
<1>2. Rows(bookings) \subseteq Rows(known)
  BY <1>1 DEF BookingMaps, Rows
<1>3. PICK l \in Rows(accepted) : l.start = first /\ l.end = end
  OBVIOUS
<1>4. FromRow(l) /\ \A k \in Rows(accepted) : FromRow(k) /\ k.end \in Ends(accepted)
  BY <1>1, RowsOfLines DEF LineMaps, FromRows, Ends
<1>5. ASSUME NEW r \in Rows(known), r \notin Rows(bookings)
      PROVE  r \in BookingRow /\ r.checkOut < first
  <2>1. PICK b \in BookingIds : known[b] = r /\ r # None
    BY <1>1 DEF BookingMaps, Rows
  <2>2. bookings[b] # known[b]
    BY <1>1, <1>5, <2>1 DEF BookingMaps, Rows
  <2>3. r \in BookingRow
    BY <1>1, <2>1 DEF BookingMaps
  <2>4. PICK x \in Starts(accepted) : ForgottenBefore(x, known, b)
    BY <2>2 DEF ForgottenLongAgo
  <2>5. PICK k \in Rows(accepted) : k.start = x
    BY <2>4 DEF Starts
  <2>6. k.start - RetentionBufferDays <= first /\ k.start \in Nat
    BY <1>3, <1>4, <2>5, PeriodFacts
  <2>7. r.checkOut < k.start - RetentionBufferDays
    BY <2>1, <2>4, <2>5 DEF ForgottenBefore
  <2>8. r.checkOut \in Nat /\ RetentionBufferDays \in Nat
    BY <2>3, CostPipelineAssumption DEF BookingRow, CostPipelineAssumption
  <2> QED
    BY <2>3, <2>6, <2>7, <2>8
<1>6. Confirmed(Rows(bookings)) \subseteq Confirmed(Rows(known))
  BY <1>2 DEF Confirmed
<1>7. \A r \in Confirmed(Rows(known)) :
          r \in Confirmed(Rows(bookings)) \/ (r.checkOut \in Nat /\ r.checkOut < first)
  BY <1>5 DEF Confirmed, BookingRow
<1>8. Overlapping(Rows(bookings), first, end) = Overlapping(Rows(known), first, end)
  <2>1. \A r \in Confirmed(Rows(known)) :
            r.checkOut > first => r \in Confirmed(Rows(bookings))
    BY <1>7
  <2> QED
    BY <1>6, <2>1 DEF Overlapping
<1>9. OccupiedNights(Rows(bookings), first, end) = OccupiedNights(Rows(known), first, end)
  <2>1. \A n \in first .. end :
            (\E r \in Confirmed(Rows(bookings)) : r.checkIn <= n /\ n < r.checkOut) <=>
            (\E r \in Confirmed(Rows(known)) : r.checkIn <= n /\ n < r.checkOut)
    <3>1. \A n \in first .. end, r \in Confirmed(Rows(known)) :
              n < r.checkOut => r \in Confirmed(Rows(bookings))
      BY <1>7
    <3> QED
      BY <1>6, <3>1
  <2> QED
    BY <2>1 DEF OccupiedNights
<1> QED
  BY <1>8, <1>9

LEMMA CurrentInvImplies == CurrentInv => CostIsCurrent
<1> SUFFICES ASSUME CurrentInv, Drained, priced # None, ~lost
             PROVE  LET reference == Emission(CostAggregate(Rows(accepted), 0), known)
                    IN  /\ priced.cost = ChargeCompanyCosts(reference, priced.charged).cost
                        /\ priced.occupiedNights = reference.occupiedNights
                        /\ priced.bookingCount = reference.bookingCount
                        /\ priced.avgGuests = reference.avgGuests
  BY DEF CostIsCurrent
<1> DEFINE c == AggregateCost(Rows(accepted))
           r == CostAggregate(Rows(accepted), 0)
           first == c.periodStart
           end == c.periodEnd
           reference == Emission(r, known)
           emitted == Emission(cached, bookings)
<1>1. cached # None
  BY DEF CurrentInv, StrategyInv, CachedInOrder
<1>2. /\ lines \in [EventIds -> Line \cup {None}]
      /\ accepted \in [EventIds -> Line \cup {None}]
      /\ HoldsNewest(lines, accepted) /\ FromRows(accepted)
  BY DEF CurrentInv, TypesInv, LinesInv, LineMaps, NewestHeld
<1>3. Rows(accepted) # {}
  BY <1>1 DEF CurrentInv, LatestCost, StartsInPeriod, Starts
<1>4. cached.cost = c
  <2>1. cached.cost = AggregateCost(Rows(lines))
    BY <1>1 DEF CurrentInv, LatestCost, Drained
  <2> QED
    BY <1>2, <1>3, <2>1, NewestPeriodIsHeld
<1>5. /\ Period(c) /\ end = Max(Ends(accepted))
      /\ \E l \in Rows(accepted) : l.start = first /\ l.end = end
  BY <1>2, <1>3, AggregateCostPeriod
<1>6. \A x \in Ends(accepted) : x <= end
  BY <1>2, <1>3, <1>5, NewestLines
<1>7. Shaped(r) /\ r.cost = c
  BY <1>5 DEF Shaped, CostAggregate
<1>8. Shaped(cached)
  BY <1>1 DEF CurrentInv, TypesInv, FlowTypes, WellFormed
<1>9. ChargedFrom(priced, emitted)
  BY <1>1 DEF CurrentInv, LatestEmission, Drained
<1> HIDE DEF c, r, emitted, reference
<1>10. first \in Nat /\ end \in Nat
  BY <1>5 DEF Period
<1>11. /\ OccupiedNights(Rows(bookings), first, end) = OccupiedNights(Rows(known), first, end)
       /\ Overlapping(Rows(bookings), first, end) = Overlapping(Rows(known), first, end)
  BY <1>3, <1>5, <1>6, <1>10, ForgottenDoNotCount DEF CurrentInv
<1>12. /\ BookingCount(Rows(bookings), first, end) = BookingCount(Rows(known), first, end)
       /\ AvgGuests(Rows(bookings), first, end) = AvgGuests(Rows(known), first, end)
  BY <1>11 DEF BookingCount, AvgGuests
<1> DEFINE nights == OccupiedNights(Rows(known), first, end)
           count == BookingCount(Rows(known), first, end)
           guests == AvgGuests(Rows(known), first, end)
           cost == CorrectedCost(c, nights, count)
<1>13. /\ Shaped(reference) /\ reference.cost = cost
       /\ reference.occupiedNights = nights
       /\ reference.bookingCount = count
       /\ reference.avgGuests = guests
  BY <1>7, EmissionFields DEF reference
<1>14. /\ Shaped(emitted) /\ emitted.cost = cost
       /\ emitted.occupiedNights = nights
       /\ emitted.bookingCount = count
       /\ emitted.avgGuests = guests
  BY <1>4, <1>8, <1>11, <1>12, EmissionFields DEF emitted
<1> HIDE DEF cost, nights, count, guests
<1>15. ChargeCompanyCosts(emitted, priced.charged).cost =
           ChargeCompanyCosts(reference, priced.charged).cost
  BY <1>13, <1>14, CompanyCostsFields
<1> QED
  BY <1>9, <1>13, <1>14, <1>15 DEF ChargedFrom, reference, r

LEMMA InitialCurrent == Init => CurrentInv
<1> SUFFICES ASSUME Init PROVE CurrentInv
  OBVIOUS
<1>1. StrategyInv /\ TypesInv
  BY InitialOrder, CostPipelineAssumption, InitialLines, InitialFlow DEF TypesInv
<1>2. LatestCost /\ LatestEmission /\ ForgottenLongAgo
  BY DEF Init, LatestCost, LatestEmission, ForgottenLongAgo
<1> QED
  BY <1>1, <1>2 DEF CurrentInv

\* Once the channels are empty, Stage B has the cost of all payment lines and all
\* bookings that came in: what the stages forget, the order in which the two inputs
\* meet at A-bookings and the aggregates it emits again make no difference
\* (apply, _recompute and _prune_old_bookings of the Flink stages).
THEOREM PricedCostIsCurrent ==
    ASSUME NoneIsNoAggregate
    PROVE  Spec => []CostIsCurrent
<1>1. CurrentInv /\ [Next]_vars => CurrentInv'
  BY StepOrder, CostPipelineAssumption, StepTypes, StepCost, StepEmission, StepForgotten
  DEF CurrentInv
<1> QED
  BY <1>1, InitialCurrent, CurrentInvImplies, PTL DEF Spec

-----------------------------------------------------------------------------
(* Company costs, once charged, stay.  A definition of company scope and   *)
(* a rule that gives the apartment a weight are taken to keep both in      *)
(* their later versions; what the theorem shows is that nothing else, of   *)
(* what is still coming or already under way, takes a company cost away.   *)

Weighs(rule) == rule.weight # None /\ rule.weight > 0

CompanyCostsKeepWeight ==
    \A d \in Definitions :
        /\ \A n, m \in DOMAIN DefinitionRows[d] :
               n <= m /\ DefinitionRows[d][n].scope = "company" =>
                   DefinitionRows[d][m].scope = "company"
        /\ \A n, m \in DOMAIN RuleRows[d] :
               n <= m /\ Weighs(RuleRows[d][n]) => Weighs(RuleRows[d][m])

\* The occurrences that A4 would charge now, and those an aggregate was charged.
Charging == {o.id : o \in {x \in occurrences : Chargeable(x)}}
Charged(a) == {s.id : s \in a.charged}

ChargedGrows ==
    /\ \A i \in DOMAIN charged : Charged(charged[i]) \subseteq Charging
    /\ \A i, j \in DOMAIN charged : i <= j => Charged(charged[i]) \subseteq Charged(charged[j])
    /\ priced # None => /\ Charged(priced) \subseteq Charging
                        /\ \A i \in DOMAIN charged : Charged(priced) \subseteq Charged(charged[i])

LEMMA SharesAreCharging ==
    ASSUME NEW days
    PROVE  {s.id : s \in Shares(days)} = Charging
<1>1. ASSUME NEW o \in {x \in occurrences : Chargeable(x)}
      PROVE  CompanyShare(o, DefinitionRows[o.definition][definitions["A4"][o.definition]],
                          RuleRows[o.definition][rules["A4"][o.definition]], days).id = o.id
  BY DEF CompanyShare
<1> QED
  BY <1>1 DEF Shares, Charging

\* Later versions of definitions and rules, and more occurrences, charge no less.
LEMMA ChargeableStays ==
    ASSUME CompanyCostsKeepWeight, LinesInv, LinesInv',
           \A d \in Definitions : /\ definitions["A4"][d] <= definitions'["A4"][d]
                                  /\ rules["A4"][d] <= rules'["A4"][d],
           occurrences \subseteq occurrences'
    PROVE  Charging \subseteq Charging'
<1>1. ASSUME NEW o \in occurrences, Chargeable(o)
      PROVE  Chargeable(o)'
  <2> DEFINE d == o.definition
             n == definitions["A4"][d]
             m == definitions'["A4"][d]
             i == rules["A4"][d]
             j == rules'["A4"][d]
  <2>1. d \in Definitions
    BY CostPipelineAssumption DEF CostPipelineAssumption, LinesInv, ConfigTypes
  <2>2. /\ n \in Nat /\ n <= Len(DefinitionRows[d]) /\ m \in Nat /\ m <= Len(DefinitionRows[d])
        /\ i \in Nat /\ i <= Len(RuleRows[d]) /\ j \in Nat /\ j <= Len(RuleRows[d])
        /\ n <= m /\ i <= j
    BY <2>1 DEF LinesInv, ConfigTypes, Stages
  <2>3. DefinitionRows[d] \in Seq(DefinitionRow) /\ RuleRows[d] \in Seq(RuleRow)
    BY <2>1, CostPipelineAssumption DEF CostPipelineAssumption
  <2>4. /\ n # 0 /\ DefinitionRows[d][n].scope = "company"
        /\ i # 0 /\ Weighs(RuleRows[d][i])
    BY <1>1 DEF Chargeable, Held, Weighs
  <2> HIDE DEF n, m, i, j
  <2>5. /\ n \in DOMAIN DefinitionRows[d] /\ m \in DOMAIN DefinitionRows[d]
        /\ i \in DOMAIN RuleRows[d] /\ j \in DOMAIN RuleRows[d]
        /\ m # 0 /\ j # 0
    BY <2>2, <2>3, <2>4
  <2>6. DefinitionRows[d][m].scope = "company" /\ Weighs(RuleRows[d][j])
    BY <2>1, <2>2, <2>4, <2>5 DEF CompanyCostsKeepWeight
  <2>7. DefinitionRows[d][m] # None /\ RuleRows[d][j] # None
    BY <2>3, <2>5, SeqElements, NoneAssumption
  <2>8. Held(DefinitionRows[d], m) = DefinitionRows[d][m] /\ Held(RuleRows[d], j) = RuleRows[d][j]
    BY <2>5 DEF Held
  <2> HIDE DEF d
  <2>9. Chargeable(o)' <=>
            LET definition == Held(DefinitionRows[d], m)
                rule == Held(RuleRows[d], j)
            IN  IF definition = None \/ rule = None THEN FALSE
                ELSE IF definition.scope # "company" \/ rule.weight = None THEN FALSE
                ELSE rule.weight > 0
    BY DEF Chargeable, d, m, j
  <2> QED
    BY <2>6, <2>7, <2>8, <2>9 DEF Weighs
<1> QED
  BY <1>1 DEF Charging

LEMMA DeliverCharges ==
    ASSUME CompanyCostsKeepWeight, LinesInv, [Next]_vars
    PROVE  Charging \subseteq Charging'
<1>1. LinesInv'
  BY StepLines
<1>2. \A d \in Definitions : definitions["A4"][d] \in Nat /\ rules["A4"][d] \in Nat
  BY DEF LinesInv, ConfigTypes, Stages
<1>3. ASSUME NEW s \in Stages, NEW c \in Definitions, DeliverDefinition(s, c)
      PROVE  Charging \subseteq Charging'
  <2>1. \A d \in Definitions : definitions["A4"][d] <= definitions'["A4"][d]
    BY <1>2, <1>3 DEF DeliverDefinition, LinesInv, ConfigTypes, Stages
  <2>2. UNCHANGED <<rules, occurrences>>
    BY <1>3 DEF DeliverDefinition
  <2> QED
    BY <1>1, <1>2, <2>1, <2>2, ChargeableStays
<1>4. ASSUME NEW s \in {"A0", "A4"}, NEW c \in Definitions, DeliverRule(s, c)
      PROVE  Charging \subseteq Charging'
  <2>1. \A d \in Definitions : rules["A4"][d] <= rules'["A4"][d]
    BY <1>2, <1>4 DEF DeliverRule, LinesInv, ConfigTypes
  <2>2. UNCHANGED <<definitions, occurrences>>
    BY <1>4 DEF DeliverRule
  <2> QED
    BY <1>1, <1>2, <2>1, <2>2, ChargeableStays
<1>5. ASSUME UNCHANGED <<definitions, rules>>, occurrences \subseteq occurrences'
      PROVE  Charging \subseteq Charging'
  BY <1>1, <1>2, <1>5, ChargeableStays
<1> QED
  BY <1>3, <1>4, <1>5
  DEF Next, Process, Deliver, DeliverOccurrence,
      DeliverContract, DeliverProfile, DeliverStrategy, ResolveLine, AggregateLine,
      BookingArrives, CostArrivesAtBookings, ChargeCompany, ResolveContract, vars, config

LEMMA StepCharged ==
    ASSUME CompanyCostsKeepWeight, TypesInv, ChargedGrows, [Next]_vars
    PROVE  /\ ChargedGrows'
           /\ priced # None => Charged(priced) \subseteq Charged(priced')
<1>1. Charging \subseteq Charging'
  BY DeliverCharges DEF TypesInv
<1>2. AllWellFormed(corrected) /\ AllWellFormed(charged)
  BY DEF TypesInv, FlowTypes
<1>3. CASE UNCHANGED <<charged, priced>>
  BY <1>1, <1>3 DEF ChargedGrows, Charged
<1>4. CASE ChargeCompany
  <2> DEFINE a == Head(corrected)
             sh == Shares(a.cost.availableDays)
             c == ChargeCompanyCosts(a, sh)
  <2>1. /\ corrected # <<>> /\ charged' = Append(charged, c)
        /\ UNCHANGED <<priced, occurrences, definitions, rules>>
    BY <1>4 DEF ChargeCompany, config
  <2>2. Shaped(a)
    BY <1>2, <2>1, AllWellFormedChannel DEF WellFormed
  <2>3. {s.id : s \in sh} = Charging
    BY SharesAreCharging
  <2> HIDE DEF a, sh
  <2>4. Charged(c) = Charging
    BY <2>2, <2>3, CompanyCostsFields DEF Charged
  <2> HIDE DEF c
  <2>5. /\ Len(charged) \in Nat /\ DOMAIN charged = 1 .. Len(charged)
        /\ DOMAIN charged' = 1 .. Len(charged) + 1
        /\ \A i \in 1 .. Len(charged) : charged'[i] = charged[i]
        /\ charged'[Len(charged) + 1] = c
    <3>1. PICK S : charged \in Seq(S)
      BY <1>2 DEF AllWellFormed
    <3> QED
      BY <2>1, <3>1
  <2>6. \A i \in DOMAIN charged' : Charged(charged'[i]) \subseteq Charging
    BY <2>4, <2>5 DEF ChargedGrows
  <2>7. \A i, j \in DOMAIN charged' :
            i <= j => Charged(charged'[i]) \subseteq Charged(charged'[j])
    <3> TAKE i, j \in DOMAIN charged'
    <3> HAVE i <= j
    <3>1. CASE j = Len(charged) + 1
      BY <2>4, <2>5, <2>6, <3>1
    <3>2. CASE j # Len(charged) + 1
      BY <2>5, <3>2 DEF ChargedGrows
    <3> QED
      BY <3>1, <3>2
  <2>8. priced # None => \A i \in DOMAIN charged' : Charged(priced) \subseteq Charged(charged'[i])
    BY <2>4, <2>5 DEF ChargedGrows
  <2> QED
    BY <1>1, <2>1, <2>6, <2>7, <2>8 DEF ChargedGrows
<1>5. CASE ResolveContract
  <2> DEFINE a == Head(charged)
             d == ContractRows[contract]
             p == ApplyCommission(a, DefinitionRows[d][definitions["A2"][d]])
  <2>1. charged # <<>> /\ charged' = Tail(charged) /\ priced' \in {priced, p}
    BY <1>5 DEF ResolveContract
  <2>2. WellFormed(a)
    BY <1>2, <2>1, AllWellFormedChannel
  <2>3. /\ 1 \in DOMAIN charged /\ a = charged[1]
        /\ \A i \in DOMAIN charged' : /\ i + 1 \in DOMAIN charged
                                      /\ charged'[i] = charged[i + 1]
                                      /\ i \in Nat /\ i >= 1
    <3>1. PICK S : charged \in Seq(S)
      BY <1>2 DEF AllWellFormed
    <3> QED
      BY <2>1, <3>1
  <2> HIDE DEF a
  <2>4. Charged(p) = Charged(a)
    BY <2>2, CommissionFields DEF Charged
  <2> HIDE DEF p
  <2>5. \A i, j \in DOMAIN charged' :
            i <= j => Charged(charged'[i]) \subseteq Charged(charged'[j])
    <3> TAKE i, j \in DOMAIN charged'
    <3> HAVE i <= j
    <3>1. i + 1 <= j + 1
      BY <2>3
    <3> QED
      BY <2>3, <3>1 DEF ChargedGrows
  <2>6. \A i \in DOMAIN charged' : /\ Charged(charged'[i]) \subseteq Charging
                                   /\ Charged(a) \subseteq Charged(charged'[i])
                                   /\ priced # None => Charged(priced) \subseteq Charged(charged'[i])
    BY <2>3 DEF ChargedGrows
  <2>7. Charged(a) \subseteq Charging
    BY <2>3 DEF ChargedGrows
  <2>8. CASE priced' = priced
    BY <1>1, <2>5, <2>6, <2>8 DEF ChargedGrows
  <2>9. CASE priced' = p
    <3>1. priced # None => Charged(priced) \subseteq Charged(a)
      BY <2>3 DEF ChargedGrows
    <3> QED
      BY <1>1, <2>4, <2>5, <2>6, <2>7, <2>9, <3>1 DEF ChargedGrows
  <2> QED
    BY <2>1, <2>8, <2>9
<1> QED
  BY <1>3, <1>4, <1>5
  DEF Next, Process, Deliver, DeliverDefinition, DeliverRule, DeliverOccurrence,
      DeliverContract, DeliverProfile, DeliverStrategy, ResolveLine, AggregateLine,
      BookingArrives, CostArrivesAtBookings, vars

\* A company cost that an apartment is charged for stays in what it is priced from,
\* whatever else is delivered to A4 and whatever is in the channels behind it
\* (process_element of stage_company_cost_enrichment.py).
THEOREM CompanyCostsAreKept ==
    ASSUME CompanyCostsKeepWeight
    PROVE  Spec => CompanyCostsStay
<1>1. Init => TypesInv /\ ChargedGrows
  BY InitialLines, InitialFlow DEF TypesInv, ChargedGrows, Init
<1>2. TypesInv /\ ChargedGrows /\ [Next]_vars => TypesInv' /\ ChargedGrows'
  BY StepTypes, StepCharged
<1>3. TypesInv /\ ChargedGrows /\ [Next]_vars =>
          [priced # None =>
              {s.id : s \in priced.charged} \subseteq {s.id : s \in priced'.charged}]_vars
  BY StepCharged DEF Charged
<1> QED
  BY <1>1, <1>2, <1>3, PTL DEF Spec, CompanyCostsStay
=============================================================================
