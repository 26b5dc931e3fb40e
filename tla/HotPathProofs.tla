----------------------------- MODULE HotPathProofs -----------------------------
(***************************************************************************)
(* Proofs about HotPath: the types of the feed and of the job, and that an *)
(* item does not go back to an older override while Stage C has read all   *)
(* rows there are, for any feed, any number of segments, nights and        *)
(* overrides, and any failures.                                            *)
(***************************************************************************)
EXTENDS HotPath, FiniteSetTheorems, SequenceTheorems, WellFoundedInduction, TLAPS

----------------------------------------------------------------------------
(* The newest of some positions of a topic.                                  *)

\* Positions up to a bound have a largest one.
LEMMA LargestExists ==
  ASSUME NEW n \in Nat, NEW S \in SUBSET (1..n), S # {}
  PROVE  \E x \in S : \A y \in S : x >= y
<1> DEFINE T == {n - x : x \in S}
<1>1. T \subseteq Nat /\ T # {}
  <2>1. \A x \in S : x \in 1..n /\ n - x \in Nat
    OBVIOUS
  <2>2. PICK x \in S : TRUE
    OBVIOUS
  <2>3. n - x \in T
    OBVIOUS
  <2> QED
    BY <2>1, <2>3
<1>2. PICK least \in T : \A y \in T : ~ (<<y, least>> \in OpToRel(<, Nat))
  <2> HIDE DEF T
  <2> QED
    BY <1>1, WFMin, NatLessThanWellFounded
<1>3. \A y \in T : ~ (y < least)
  BY <1>1, <1>2 DEF OpToRel
<1>4. PICK x \in S : least = n - x
  OBVIOUS
<1>5. \A y \in S : x >= y
  BY <1>3, <1>4
<1> QED
  BY <1>5

\* What Max returns of them, and that nothing else is the largest.
LEMMA MaxOfPositions ==
  ASSUME NEW n \in Nat, NEW S \in SUBSET (1..n), S # {}
  PROVE  /\ Max(S) \in S
         /\ \A y \in S : Max(S) >= y
         /\ \A x \in S : (\A y \in S : x >= y) => x = Max(S)
<1>1. Max(S) \in S /\ \A y \in S : Max(S) >= y
  BY LargestExists DEF Max
<1>2. ASSUME NEW x \in S, \A y \in S : x >= y
      PROVE  x = Max(S)
  <2>1. x \in 1..n /\ Max(S) \in 1..n
    BY <1>1
  <2>2. x >= Max(S) /\ Max(S) >= x
    BY <1>1, <1>2
  <2> QED
    BY <2>1, <2>2
<1> QED
  BY <1>1, <1>2

\* The entry of an apartment and night as Newest reads it, from what it is read of.
About(os, cs, n, pair) == {i \in 1..n : os[cs[i]] = pair}
NewestIn(os, cs, ks, n, pair) ==
  IF About(os, cs, n, pair) = {} THEN ks[pair] ELSE cs[Max(About(os, cs, n, pair))]

LEMMA NewestIsIn ==
  \A pair, n : Newest(pair, n) = NewestIn(overrides, changes, kept, n, pair)
BY DEF Newest, NewestIn, About

\* The last row about a pair is its entry.
LEMMA LastRowIsNewest ==
  ASSUME NEW os, NEW cs, NEW ks, NEW n, n \in Nat, NEW pair, NEW i \in About(os, cs, n, pair),
         \A j \in About(os, cs, n, pair) : i >= j
  PROVE  NewestIn(os, cs, ks, n, pair) = cs[i]
<1> DEFINE A == About(os, cs, n, pair)
<1>1. A \in SUBSET (1..n)
  BY DEF About
<1>2. i = Max(A)
  <2> HIDE DEF A
  <2> QED
    BY <1>1, MaxOfPositions DEF A
<1> QED
  BY <1>2 DEF NewestIn

\* An entry is a row about the pair, or what was kept of it.
LEMMA NewestCases ==
  ASSUME NEW os, NEW cs, NEW ks, NEW n, n \in Nat, NEW pair
  PROVE  \/ /\ About(os, cs, n, pair) = {}
            /\ NewestIn(os, cs, ks, n, pair) = ks[pair]
         \/ \E i \in About(os, cs, n, pair) :
              /\ \A j \in About(os, cs, n, pair) : i >= j
              /\ NewestIn(os, cs, ks, n, pair) = cs[i]
<1> DEFINE A == About(os, cs, n, pair)
<1>1. A \in SUBSET (1..n)
  BY DEF About
<1>2. CASE A = {}
  BY <1>2 DEF NewestIn
<1>3. CASE A # {}
  <2>1. Max(A) \in A /\ \A j \in A : Max(A) >= j
    <3> HIDE DEF A
    <3> QED
      BY <1>1, <1>3, MaxOfPositions
  <2> QED
    BY <1>3, <2>1 DEF NewestIn
<1> QED
  BY <1>2, <1>3

LEMMA EntryCases ==
  ASSUME NEW pair, NEW n, n \in Nat
  PROVE  \/ Newest(pair, n) = kept[pair]
         \/ \E i \in 1..n : overrides[changes[i]] = pair /\ Newest(pair, n) = changes[i]
<1> DEFINE A == {i \in 1..n : overrides[changes[i]] = pair}
<1>1. CASE A = {}
  BY <1>1 DEF Newest
<1>2. CASE A # {}
  <2>1. A \in SUBSET (1..n)
    OBVIOUS
  <2>2. Max(A) \in A
    <3> HIDE DEF A
    <3> QED
      BY <1>2, <2>1, MaxOfPositions
  <2>3. Newest(pair, n) = changes[Max(A)]
    BY <1>2 DEF Newest
  <2> QED
    BY <2>2, <2>3
<1> QED
  BY <1>1, <1>2

\* Rows about others change nothing, wherever the table grows meanwhile.
LEMMA OthersChangeNothing ==
  ASSUME NEW os, NEW cs, NEW ks, NEW n, n \in Nat, NEW pair,
         NEW os2, NEW cs2, NEW m, m \in Nat, n <= m,
         \A i \in 1..n : cs2[i] = cs[i] /\ os2[cs2[i]] = os[cs[i]],
         \A i \in (n + 1)..m : os2[cs2[i]] # pair
  PROVE  NewestIn(os2, cs2, ks, m, pair) = NewestIn(os, cs, ks, n, pair)
<1>1. About(os2, cs2, m, pair) = About(os, cs, n, pair)
  <2>1. ASSUME NEW i \in 1..m
        PROVE  i \in 1..n \/ i \in (n + 1)..m
    OBVIOUS
  <2>2. 1..n \subseteq 1..m
    OBVIOUS
  <2> QED
    BY <2>1, <2>2 DEF About
<1>2. CASE About(os, cs, n, pair) = {}
  BY <1>1, <1>2 DEF NewestIn
<1>3. CASE About(os, cs, n, pair) # {}
  <2>1. PICK i \in About(os, cs, n, pair) :
          /\ \A j \in About(os, cs, n, pair) : i >= j
          /\ NewestIn(os, cs, ks, n, pair) = cs[i]
    BY <1>3, NewestCases
  <2>2. NewestIn(os2, cs2, ks, m, pair) = cs2[i]
    BY <1>1, <2>1, LastRowIsNewest
  <2>3. cs2[i] = cs[i]
    BY DEF About
  <2> QED
    BY <2>1, <2>2, <2>3
<1> QED
  BY <1>2, <1>3

\* What a checkpoint keeps and what it leaves of the topic give the same entries.
Behind(cs2, cs, n, m) == \A i \in 1..(m - n) : cs2[i] = cs[n + i]
LEMMA CutChangesNothing ==
  ASSUME NEW os, NEW cs, NEW ks, NEW m, m \in Nat, NEW n, n \in 0..m, NEW pair,
         NEW cs2, Behind(cs2, cs, n, m),
         NEW ks2, ks2[pair] = NewestIn(os, cs, ks, n, pair)
  PROVE  NewestIn(os, cs2, ks2, m - n, pair) = NewestIn(os, cs, ks, m, pair)
<1>1. \A i \in 1..(m - n) : i \in About(os, cs2, m - n, pair) <=> n + i \in About(os, cs, m, pair)
  BY DEF About, Behind
<1>2. CASE \A i \in (n + 1)..m : os[cs[i]] # pair
  <2>1. NewestIn(os, cs, ks, m, pair) = NewestIn(os, cs, ks, n, pair)
    <3>1. n \in Nat /\ n <= m
      OBVIOUS
    <3> QED
      BY <1>2, <3>1, OthersChangeNothing
  <2>2. About(os, cs2, m - n, pair) = {}
    BY <1>2 DEF About, Behind
  <2> QED
    BY <2>1, <2>2 DEF NewestIn
<1>3. CASE ~ \A i \in (n + 1)..m : os[cs[i]] # pair
  <2>1. PICK k \in (n + 1)..m : os[cs[k]] = pair
    BY <1>3
  <2>2. k \in About(os, cs, m, pair)
    BY <2>1 DEF About
  <2>3. PICK i \in About(os, cs, m, pair) :
          /\ \A j \in About(os, cs, m, pair) : i >= j
          /\ NewestIn(os, cs, ks, m, pair) = cs[i]
    BY <2>2, NewestCases
  <2>4. i \in (n + 1)..m
    <3>1. i \in 1..m /\ i >= k
      BY <2>2, <2>3 DEF About
    <3> QED
      BY <3>1
  <2>5. i - n \in 1..(m - n) /\ n + (i - n) = i
    BY <2>4
  <2>6. i - n \in About(os, cs2, m - n, pair)
    BY <1>1, <2>5
  <2>7. ASSUME NEW j \in About(os, cs2, m - n, pair)
        PROVE  i - n >= j
    <3>1. j \in 1..(m - n)
      BY DEF About
    <3>2. n + j \in About(os, cs, m, pair)
      BY <1>1, <3>1
    <3>3. i >= n + j
      BY <2>3, <3>2
    <3> QED
      BY <2>4, <3>1, <3>3
  <2>8. NewestIn(os, cs2, ks2, m - n, pair) = cs2[i - n]
    <3>1. m - n \in Nat
      OBVIOUS
    <3> QED
      BY <2>6, <2>7, <3>1, LastRowIsNewest
  <2>9. cs2[i - n] = cs[i]
    BY <2>5 DEF Behind
  <2> QED
    BY <2>3, <2>8, <2>9
<1> QED
  BY <1>2, <1>3

----------------------------------------------------------------------------
(* Definitions by recursion on a position.                                   *)

\* What holds at the first position and is handed on holds at all of them.
LEMMA CountingUp ==
  ASSUME NEW low \in Nat, NEW high \in Nat, NEW A, low \in A,
         \A i \in low..high : i \in A /\ i < high => i + 1 \in A
  PROVE  low..high \subseteq A
<1> DEFINE S == (low..high) \ A
<1>1. CASE S = {}
  BY <1>1
<1>2. CASE S # {}
  <2>1. S \subseteq Nat
    OBVIOUS
  <2>2. PICK least \in S : \A y \in S : ~ (<<y, least>> \in OpToRel(<, Nat))
    <3> HIDE DEF S
    <3> QED
      BY <1>2, <2>1, WFMin, NatLessThanWellFounded
  <2>3. \A y \in S : ~ (y < least)
    BY <2>1, <2>2 DEF OpToRel
  <2>4. least \in low..high /\ least \notin A /\ least # low
    OBVIOUS
  <2>5. least - 1 \in low..high /\ least - 1 < high /\ (least - 1) + 1 = least
    BY <2>4
  <2>6. least - 1 \in A
    BY <2>3, <2>5
  <2> QED
    BY <2>4, <2>5, <2>6
<1> QED
  BY <1>1, <1>2

Builds(f, low, m, X, start, step) ==
  /\ f \in [low..m -> X]
  /\ \A i \in low..m : f[i] = IF i = low THEN start ELSE step[<<i, f[i - 1]>>]

LEMMA BuildsMore ==
  ASSUME NEW low \in Nat, NEW high \in Nat, NEW m \in low..high, m < high, NEW X,
         NEW start \in X, NEW step, step \in [(low..high) \X X -> X],
         NEW f, Builds(f, low, m, X, start, step)
  PROVE  \E g : Builds(g, low, m + 1, X, start, step)
<1> DEFINE g == [i \in low..(m + 1) |-> IF i <= m THEN f[i] ELSE step[<<i, f[m]>>]]
<1>1. f \in [low..m -> X] /\ m \in low..m /\ m + 1 \in low..high
  BY DEF Builds
<1>2. f[m] \in X
  BY <1>1
<1>3. ASSUME NEW i \in low..(m + 1)
      PROVE  g[i] \in X /\ g[i] = IF i = low THEN start ELSE step[<<i, g[i - 1]>>]
  <2>1. CASE i <= m
    <3>1. i \in low..m /\ g[i] = f[i]
      BY <2>1
    <3>2. i # low => g[i - 1] = f[i - 1]
      BY <2>1
    <3> HIDE DEF g
    <3> QED
      BY <1>1, <3>1, <3>2 DEF Builds
  <2>2. CASE ~ (i <= m)
    <3>1. i = m + 1 /\ i # low /\ g[i] = step[<<i, f[m]>>] /\ g[i - 1] = f[m]
      <4>1. i = m + 1 /\ i # low /\ i - 1 = m /\ m <= m
        BY <1>1, <2>2
      <4>2. g[i] = step[<<i, f[m]>>]
        BY <2>2
      <4>3. m \in low..(m + 1)
        BY <1>1
      <4>4. g[m] = f[m]
        BY <4>1, <4>3
      <4> HIDE DEF g
      <4> QED
        BY <4>1, <4>2, <4>4
    <3>2. <<i, f[m]>> \in (low..high) \X X
      BY <1>1, <1>2, <3>1
    <3> HIDE DEF g
    <3> QED
      BY <3>1, <3>2
  <2> QED
    BY <2>1, <2>2
<1>4. g \in [low..(m + 1) -> X]
  BY <1>3
<1> HIDE DEF g
<1> QED
  BY <1>3, <1>4 DEF Builds

\* A function whose value at a position is made from the one before it exists.
LEMMA RecursionExists ==
  ASSUME NEW low \in Nat, NEW high \in Nat, low <= high, NEW X,
         NEW start \in X, NEW step, step \in [(low..high) \X X -> X]
  PROVE  \E f : Builds(f, low, high, X, start, step)
<1> DEFINE A == {m \in low..high : \E f : Builds(f, low, m, X, start, step)}
<1>1. low \in A
  <2>1. Builds([i \in low..low |-> start], low, low, X, start, step)
    BY DEF Builds
  <2> QED
    BY <2>1
<1>2. ASSUME NEW m \in low..high, m \in A, m < high
      PROVE  m + 1 \in A
  <2>1. PICK f : Builds(f, low, m, X, start, step)
    BY <1>2
  <2>2. \E g : Builds(g, low, m + 1, X, start, step)
    BY <1>2, <2>1, BuildsMore
  <2> QED
    BY <1>2, <2>2
<1>3. low..high \subseteq A
  <2> HIDE DEF A
  <2> QED
    BY <1>1, <1>2, CountingUp
<1> QED
  BY <1>3

\* What is kept of a sequence is a sequence of the same elements.
LEMMA SubseqType ==
  ASSUME NEW X, NEW records \in Seq(X), NEW indices
  PROVE  Subseq(records, indices) \in Seq(X)
<1> DEFINE n == Len(records)
           Keeps(f) == f = [i \in 0..n |->
                              IF i = 0 THEN << >>
                              ELSE IF i \in indices THEN Append(f[i - 1], records[i])
                              ELSE f[i - 1]]
           rest == CHOOSE f : Keeps(f)
           step == [e \in (0..n) \X Seq(X) |->
                      IF e[1] \in indices /\ e[1] # 0 THEN Append(e[2], records[e[1]]) ELSE e[2]]
<1>1. n \in Nat /\ \A i \in 1..n : records[i] \in X
  OBVIOUS
<1>2. \E f : Keeps(f)
  <2>1. ASSUME NEW i \in 0..n, NEW q \in Seq(X)
        PROVE  (IF i \in indices /\ i # 0 THEN Append(q, records[i]) ELSE q) \in Seq(X)
    <3>1. i # 0 => records[i] \in X
      BY <1>1
    <3> QED
      BY <3>1
  <2>2. step \in [(0..n) \X Seq(X) -> Seq(X)]
    BY <2>1
  <2>3. << >> \in Seq(X)
    OBVIOUS
  <2>4. PICK f : Builds(f, 0, n, Seq(X), << >>, step)
    <3>1. 0 \in Nat /\ 0 <= n
      BY <1>1
    <3> HIDE DEF step, n
    <3> QED
      BY <1>1, <2>2, <2>3, <3>1, RecursionExists
  <2>5. f \in [0..n -> Seq(X)]
    BY <2>4 DEF Builds
  <2>6. ASSUME NEW i \in 0..n
        PROVE  f[i] = IF i = 0 THEN << >>
                      ELSE IF i \in indices THEN Append(f[i - 1], records[i]) ELSE f[i - 1]
    <3>1. f[i] = IF i = 0 THEN << >> ELSE step[<<i, f[i - 1]>>]
      BY <2>4 DEF Builds
    <3>2. i # 0 => f[i - 1] \in Seq(X)
      BY <1>1, <2>5
    <3>3. i # 0 => step[<<i, f[i - 1]>>] =
                     IF i \in indices THEN Append(f[i - 1], records[i]) ELSE f[i - 1]
      BY <3>2
    <3> HIDE DEF step, n
    <3> QED
      BY <3>1, <3>3
  <2>7. Keeps(f)
    <3> HIDE DEF n
    <3> QED
      BY <2>5, <2>6
  <2> HIDE DEF Keeps
  <2> QED
    BY <2>7
<1>3. Keeps(rest)
  <2> HIDE DEF Keeps
  <2> QED
    BY <1>2
<1> DEFINE A == {i \in 0..n : rest[i] \in Seq(X)}
<1>4. 0..n \subseteq A
  <2> HIDE DEF rest, n
  <2>1. 0 \in A
    BY <1>1, <1>3
  <2>2. ASSUME NEW i \in 0..n, i \in A, i < n
        PROVE  i + 1 \in A
    <3>1. i + 1 \in 0..n /\ i + 1 \in 1..n /\ i + 1 # 0 /\ (i + 1) - 1 = i
      BY <1>1, <2>2
    <3>2. rest[i] \in Seq(X) /\ records[i + 1] \in X
      BY <1>1, <2>2, <3>1
    <3>3. rest[i + 1] = IF i + 1 \in indices THEN Append(rest[i], records[i + 1]) ELSE rest[i]
      BY <1>3, <3>1
    <3>4. rest[i + 1] \in Seq(X)
      BY <3>2, <3>3
    <3> QED
      BY <3>1, <3>4
  <2> HIDE DEF A
  <2> QED
    BY <1>1, <2>1, <2>2, CountingUp
<1>5. Subseq(records, indices) = rest[n]
  BY DEF Subseq
<1>6. n \in 0..n
  BY <1>1
<1> HIDE DEF rest, n
<1> QED
  BY <1>4, <1>5, <1>6

\* Batches put one behind the other are one batch.
LEMMA FlattenType ==
  ASSUME NEW X, NEW seqs \in Seq(Seq(X))
  PROVE  FlattenSeq(seqs) \in Seq(X)
<1> DEFINE n == Len(seqs)
           Joins(f) == f = [i \in 1..n |-> IF i = 1 THEN seqs[i] ELSE f[i - 1] \o seqs[i]]
           flatten == CHOOSE f : Joins(f)
           step == [e \in (1..n) \X Seq(X) |-> e[2] \o seqs[e[1]]]
<1>1. n \in Nat /\ \A i \in 1..n : seqs[i] \in Seq(X)
  OBVIOUS
<1>2. CASE n = 0
  <2>1. seqs = << >>
    BY <1>2
  <2>2. FlattenSeq(seqs) = seqs
    BY <1>2 DEF FlattenSeq
  <2>3. << >> \in Seq(X)
    OBVIOUS
  <2> QED
    BY <2>1, <2>2, <2>3, Zenon
<1>3. CASE n # 0
  <2>1. \E f : Joins(f)
    <3>1. step \in [(1..n) \X Seq(X) -> Seq(X)]
      BY <1>1
    <3>2. 1 \in Nat /\ 1 <= n /\ seqs[1] \in Seq(X)
      BY <1>1, <1>3
    <3>3. PICK f : Builds(f, 1, n, Seq(X), seqs[1], step)
      <4> HIDE DEF step, n
      <4> QED
        BY <1>1, <3>1, <3>2, RecursionExists
    <3>4. f \in [1..n -> Seq(X)]
      BY <3>3 DEF Builds
    <3>5. ASSUME NEW i \in 1..n
          PROVE  f[i] = IF i = 1 THEN seqs[i] ELSE f[i - 1] \o seqs[i]
      <4>1. f[i] = IF i = 1 THEN seqs[1] ELSE step[<<i, f[i - 1]>>]
        BY <3>3 DEF Builds
      <4>2. i # 1 => f[i - 1] \in Seq(X)
        <5> HIDE DEF n
        <5>1. i # 1 => i - 1 \in 1..n
          BY <1>1
        <5> QED
          BY <3>4, <5>1
      <4>3. i # 1 => step[<<i, f[i - 1]>>] = f[i - 1] \o seqs[i]
        BY <4>2
      <4> HIDE DEF step, n
      <4> QED
        BY <4>1, <4>3
    <3>6. Joins(f)
      <4> HIDE DEF n
      <4> QED
        BY <3>4, <3>5
    <3> HIDE DEF Joins
    <3> QED
      BY <3>6
  <2>2. Joins(flatten)
    <3> HIDE DEF Joins
    <3> QED
      BY <2>1
  <2> DEFINE A == {i \in 1..n : flatten[i] \in Seq(X)}
  <2>3. 1..n \subseteq A
    <3> HIDE DEF flatten, n
    <3>1. 1 \in A
      BY <1>1, <1>3, <2>2
    <3>2. ASSUME NEW i \in 1..n, i \in A, i < n
          PROVE  i + 1 \in A
      <4>1. i + 1 \in 1..n /\ i + 1 # 1 /\ (i + 1) - 1 = i
        BY <1>1, <3>2
      <4>2. flatten[i] \in Seq(X) /\ seqs[i + 1] \in Seq(X)
        BY <1>1, <3>2, <4>1
      <4>3. flatten[i + 1] = flatten[i] \o seqs[i + 1]
        BY <2>2, <4>1
      <4>4. flatten[i] \o seqs[i + 1] \in Seq(X)
        BY <4>2, ConcatProperties
      <4> QED
        BY <4>1, <4>3, <4>4
    <3> HIDE DEF A
    <3> QED
      BY <1>1, <3>1, <3>2, CountingUp
  <2>4. FlattenSeq(seqs) = flatten[n]
    BY <1>3 DEF FlattenSeq
  <2>5. n \in 1..n
    BY <1>1, <1>3
  <2> HIDE DEF flatten, n
  <2> QED
    BY <2>3, <2>4, <2>5
<1> QED
  BY <1>2, <1>3

----------------------------------------------------------------------------
(* The types of the feed and of the job.                                     *)

LEMMA EventsType ==
  ASSUME NEW segment \in Market, NEW night \in Nights
  PROVE  EventsOf(segment, night) \in Seq(Records)
<1> DEFINE channels == [i \in DOMAIN Channels |-> Record(segment, night, Channels[i])]
<1>1. Channels \in Seq(ToSet(Channels))
  BY FeedAssumption
<1>2. \A c \in {"blended"} \union ToSet(Channels) : Record(segment, night, c) \in Records
  BY DEF Record, Records
<1>3. DOMAIN Channels = 1..Len(Channels) /\ Len(Channels) \in Nat
  BY <1>1
<1>4. \A i \in DOMAIN Channels : Channels[i] \in ToSet(Channels)
  BY <1>1, <1>3, ElementOfSeq
<1>5. channels \in Seq(Records)
  <2>1. \A i \in 1..Len(Channels) : Record(segment, night, Channels[i]) \in Records
    BY <1>2, <1>3, <1>4
  <2>2. channels \in [1..Len(Channels) -> Records]
    BY <1>3, <2>1
  <2> HIDE DEF channels
  <2> QED
    BY <1>3, <2>2
<1>6. <<Record(segment, night, "blended")>> \in Seq(Records)
  BY <1>2
<1> HIDE DEF channels
<1>7. <<Record(segment, night, "blended")>> \o channels \in Seq(Records)
  BY <1>5, <1>6, ConcatProperties
<1> QED
  BY <1>7 DEF EventsOf, channels

LEMMA ListIsSeq ==
  ASSUME NEW X, NEW n \in Nat, NEW f \in [1..n -> X]
  PROVE  f \in Seq(X)
OBVIOUS

\* What is left of a topic when a checkpoint has cut it.
LEMMA RestIsSeq ==
  ASSUME NEW X, NEW s, s \in Seq(X), NEW n, n \in 0..Len(s)
  PROVE  SubSeq(s, n + 1, Len(s)) \in Seq(X) /\ 0 \in 0..Len(SubSeq(s, n + 1, Len(s)))
<1>1. Len(s) \in Nat
  BY LenProperties
<1>2. \A i \in (n + 1)..Len(s) : s[i] \in X
  BY <1>1
<1>3. SubSeq(s, n + 1, Len(s)) \in Seq(X)
  BY <1>1, <1>2, SubSeqProperties
<1>4. Len(SubSeq(s, n + 1, Len(s))) \in Nat
  BY <1>3, LenProperties
<1> QED
  BY <1>3, <1>4

LEMMA NightType ==
  ASSUME NEW count \in Nat
  PROVE  NightOf(count) \in Nights
<1>1. ForecastDays \in Nat \ {0}
  BY FeedAssumption
<1>2. count % ForecastDays \in 0 .. ForecastDays - 1
  BY <1>1
<1> QED
  BY <1>1, <1>2 DEF NightOf, Nights

\* A finite set can be listed.
LEMMA ListedType ==
  ASSUME NEW S, IsFiniteSet(S)
  PROVE  SetToSeq(S) \in Seq(S)
<1> DEFINE n == Cardinality(S)
<1>1. n \in Nat /\ ExistsBijection(1..n, S)
  BY FS_CardinalityType
<1>2. \E f \in [1..n -> S] : IsInjective(f)
  BY <1>1 DEF ExistsBijection, Bijection, Injection, IsInjective
<1>3. SetToSeq(S) \in [1..n -> S]
  BY <1>2 DEF SetToSeq
<1> HIDE DEF n
<1> QED
  BY <1>1, <1>3

LEMMA PricedType ==
  ASSUME NEW r \in Records
  PROVE  SetToSeq({<<a, r.night>> : a \in ApartmentsOf[r.segment]}) \in Seq(Pairs)
<1> DEFINE A == ApartmentsOf[r.segment]
           f == [a \in A |-> <<a, r.night>>]
           S == {<<a, r.night>> : a \in A}
<1>1. r.segment \in Market /\ r.night \in Nights
  BY DEF Records
<1>2. IsFiniteSet(A)
  BY <1>1, HotPathAssumption
<1>3. f \in Bijection(A, S)
  <2>1. f \in [A -> S] /\ \A a, b \in A : f[a] = f[b] => a = b
    OBVIOUS
  <2>2. \A x \in S : \E a \in A : f[a] = x
    OBVIOUS
  <2> HIDE DEF f, S
  <2> QED
    BY <2>1, <2>2 DEF Bijection, Injection, Surjection, IsInjective
<1>4. IsFiniteSet(S)
  <2>1. ExistsBijection(A, S)
    BY <1>3 DEF ExistsBijection
  <2> HIDE DEF S
  <2> QED
    BY <1>2, <2>1, FS_Bijection
<1>5. S \subseteq Pairs
  BY <1>1 DEF Pairs, Apartments
<1>6. SetToSeq(S) \in Seq(S)
  <2> HIDE DEF S
  <2> QED
    BY <1>4, ListedType
<1>7. SetToSeq(S) \in Seq(Pairs)
  <2> HIDE DEF S
  <2> QED
    BY <1>5, <1>6, SeqMonotonic
<1> QED
  BY <1>7

LEMMA NewestType ==
  ASSUME TypeOK, NEW pair \in Pairs, NEW n \in 0..Len(changes)
  PROVE  Newest(pair, n) \in {Algorithm} \union DOMAIN overrides
<1>1. n \in Nat /\ \A i \in 1..n : changes[i] \in DOMAIN overrides
  BY DEF TypeOK
<1>2. kept[pair] \in {Algorithm} \union DOMAIN overrides
  BY DEF TypeOK
<1> QED
  BY <1>1, <1>2, EntryCases

LEMMA InitTypes ==
  ASSUME Init
  PROVE  TypeOK
<1>1. \A X : << >> \in Seq(X)
  OBVIOUS
<1> QED
  BY <1>1, FeedAssumption DEF Init, FeedInit, HotInit, TypeOK

\* A fault is counted, up to the bound.
LEMMA FaultsBounded ==
  ASSUME TypeOK, Fault
  PROVE  faults' \in 0..MaxFaults
<1>1. faults \in 0..MaxFaults /\ MaxFaults \in Nat
  BY FeedAssumption DEF TypeOK
<1> QED
  BY ONLY <1>1, Fault DEF Fault

LEMMA FeedTypes ==
  ASSUME TypeOK, FeedNext, UNCHANGED hot
  PROVE  TypeOK'
<1> USE DEF TypeOK, hot, ingestor, bridge
<1>1. CASE RunTick
  <2> DEFINE batches == [i \in DOMAIN Segments |-> EventsOf(Segments[i], NightOf(tick))]
  <2>1. Segments \in Seq(Market) /\ tick \in Nat
    BY FeedAssumption
  <2>2. \A i \in DOMAIN Segments : EventsOf(Segments[i], NightOf(tick)) \in Seq(Records)
    BY <2>1, NightType, EventsType DEF Market
  <2>3. batches \in Seq(Seq(Records))
    <3>1. DOMAIN Segments = 1..Len(Segments) /\ Len(Segments) \in Nat
      BY <2>1
    <3>2. batches \in [1..Len(Segments) -> Seq(Records)]
      BY <2>2, <3>1
    <3> HIDE DEF batches
    <3> QED
      BY ONLY <3>1, <3>2, ListIsSeq
  <2>4. FlattenSeq(batches) \in Seq(Records)
    <3> HIDE DEF batches
    <3> QED
      BY <2>3, FlattenType
  <2> QED
    BY <1>1, <2>4 DEF RunTick
<1>2. CASE PutRecords
  <2>1. \A indices : Subseq(pending, indices) \in Seq(Records)
    BY SubseqType
  <2>2. PICK refused \in SUBSET DOMAIN pending :
          LET accepted(s) ==
                {i \in DOMAIN pending \ refused : ShardOf[pending[i].segment] = s}
              over == refused = {} \/ attempt >= MaxRetries
          IN /\ IF refused = {} THEN UNCHANGED faults ELSE Fault
             /\ stream' = [s \in Shards |-> stream[s] \o Subseq(pending, accepted(s))]
             /\ pending' = IF over THEN << >> ELSE Subseq(pending, refused)
             /\ attempt' = IF over THEN 0 ELSE attempt + 1
             /\ tick' = IF over THEN (tick + 1) % ForecastDays ELSE tick
    BY <1>2 DEF PutRecords
  <2>3. stream' \in [Shards -> Seq(Records)]
    BY <2>1, <2>2, ConcatProperties
  <2>4. pending' \in Seq(Records)
    BY <2>1, <2>2
  <2>5. attempt' \in 0..MaxRetries
    BY <2>2, FeedAssumption
  <2>6. tick' \in 0 .. ForecastDays - 1
    <3>1. tick' = tick \/ tick' = (tick + 1) % ForecastDays
      BY ONLY <2>2
    <3>2. tick \in 0 .. ForecastDays - 1 /\ ForecastDays \in Nat \ {0}
      BY FeedAssumption
    <3> QED
      BY ONLY <3>1, <3>2
  <2>7. faults' \in 0..MaxFaults
    <3>1. UNCHANGED faults \/ Fault
      BY ONLY <2>2
    <3>2. UNCHANGED faults => faults' \in 0..MaxFaults
      OBVIOUS
    <3> QED
      BY ONLY <3>1, <3>2, TypeOK, FaultsBounded
  <2> QED
    BY <1>2, <2>3, <2>4, <2>5, <2>6, <2>7 DEF PutRecords
<1>3. CASE RestartIngestor
  <2>1. faults' \in 0..MaxFaults
    BY <1>3, FaultsBounded DEF RestartIngestor
  <2>2. tick' \in 0 .. ForecastDays - 1 /\ attempt' \in 0..MaxRetries
    BY <1>3, FeedAssumption DEF RestartIngestor
  <2>3. pending' \in Seq(Records)
    <3>1. pending' = << >>
      BY <1>3 DEF RestartIngestor
    <3> QED
      BY ONLY <3>1, EmptySeq
  <2> QED
    BY <1>3, <2>1, <2>2, <2>3 DEF RestartIngestor
<1>4. CASE StartBridge
  BY <1>4 DEF StartBridge
<1>5. ASSUME NEW s \in Shards, PollShard(s)
      PROVE  TypeOK'
  BY <1>5 DEF PollShard
<1>6. CASE Republish
  <2>1. inHand' \in Seq(Records) /\ log' \in Seq(Records) /\ Len(log) <= Len(log')
    <3>1. inHand \in Seq(Records) /\ inHand # << >> /\ log \in Seq(Records)
      BY <1>6 DEF Republish
    <3>2. inHand' = Tail(inHand) /\ (log' = Append(log, Head(inHand)) \/ log' = log)
      BY <1>6 DEF Republish
    <3>3. Head(inHand) \in Records /\ Tail(inHand) \in Seq(Records)
      BY ONLY <3>1, HeadTailProperties
    <3>4. Append(log, Head(inHand)) \in Seq(Records) /\ Len(Append(log, Head(inHand))) = Len(log) + 1
      BY ONLY <3>1, <3>3, AppendProperties
    <3>5. Len(log) \in Nat
      BY ONLY <3>1, LenProperties
    <3>6. CASE log' = Append(log, Head(inHand))
      BY ONLY <3>2, <3>3, <3>4, <3>5, <3>6
    <3>7. CASE log' = log
      BY ONLY <3>1, <3>2, <3>3, <3>5, <3>7
    <3> QED
      BY ONLY <3>2, <3>6, <3>7
  <2>2. faults' \in 0..MaxFaults
    BY <1>6, FaultsBounded DEF Republish
  <2>3. offset' \in 0..Len(log')
    BY <2>1
  <2> QED
    BY <1>6, <2>1, <2>2, <2>3 DEF Republish
<1>7. CASE StopBridge
  <2>1. faults' \in 0..MaxFaults
    BY <1>7, FaultsBounded DEF StopBridge
  <2>2. inHand' \in Seq(Records) /\ bridgeUp' \in BOOLEAN
    <3>1. inHand' = << >> /\ bridgeUp' = FALSE
      BY <1>7 DEF StopBridge
    <3> QED
      BY ONLY <3>1, EmptySeq
  <2> QED
    BY <1>7, <2>1, <2>2 DEF StopBridge
<1> QED
  BY <1>1, <1>2, <1>3, <1>4, <1>5, <1>6, <1>7 DEF FeedNext, FeedSteps

LEMMA JobTypes ==
  ASSUME TypeOK, [Next]_vars, ~ (FeedNext /\ UNCHANGED hot)
  PROVE  TypeOK'
<1> USE DEF TypeOK, feed, ingestor, bridge
<1>1. CASE UNCHANGED vars
  BY <1>1 DEF vars, hot
<1>2. CASE WriteOverride
  <2>1. PICK p \in Overridden : overrides' = Append(overrides, p)
    BY <1>2 DEF WriteOverride
  <2>2. overrides' \in Seq(Pairs) /\ Len(overrides') = Len(overrides) + 1
    BY <2>1, HotPathAssumption DEF Pairs
  <2>3. DOMAIN overrides \subseteq DOMAIN overrides' /\ Len(overrides) + 1 \in DOMAIN overrides'
    BY <2>2
  <2>4. changes' \in Seq(DOMAIN overrides') /\ Len(changes') = Len(changes) + 1
    <3>1. changes \in Seq(DOMAIN overrides')
      BY <2>3, SeqMonotonic
    <3>2. changes' = Append(changes, Len(overrides) + 1)
      BY <1>2 DEF WriteOverride
    <3> QED
      BY ONLY <2>3, <3>1, <3>2, AppendProperties
  <2>5. seen' \in 0..Len(changes')
    BY <1>2, <2>4 DEF WriteOverride
  <2> QED
    BY <1>2, <2>2, <2>3, <2>4, <2>5 DEF WriteOverride
<1>3. CASE Redeliver
  <2>1. PICK k \in DOMAIN overrides :
          changes' = changes \o [i \in 1 .. Len(overrides) + 1 - k |-> k + i - 1]
    BY <1>3 DEF Redeliver
  <2> DEFINE again == [i \in 1 .. Len(overrides) + 1 - k |-> k + i - 1]
  <2>2. again \in Seq(DOMAIN overrides)
    <3>1. Len(overrides) \in Nat /\ k \in 1..Len(overrides) /\ DOMAIN overrides = 1..Len(overrides)
      OBVIOUS
    <3>2. Len(overrides) + 1 - k \in Nat
      BY ONLY <3>1
    <3>3. \A i \in 1 .. Len(overrides) + 1 - k : k + i - 1 \in 1..Len(overrides)
      BY ONLY <3>1
    <3>4. again \in [1 .. Len(overrides) + 1 - k -> DOMAIN overrides]
      BY <3>1, <3>3
    <3> HIDE DEF again
    <3> QED
      BY ONLY <3>2, <3>4, ListIsSeq
  <2>3. changes' \in Seq(DOMAIN overrides) /\ Len(changes) <= Len(changes')
    <3> HIDE DEF again
    <3>1. changes' = changes \o again
      BY <2>1 DEF again
    <3>2. changes' \in Seq(DOMAIN overrides) /\ Len(changes') = Len(changes) + Len(again)
      BY <2>2, <3>1, ConcatProperties
    <3> QED
      BY <2>2, <3>2
  <2>4. seen' \in 0..Len(changes')
    <3>1. seen' = seen /\ seen \in 0..Len(changes)
      BY <1>3 DEF Redeliver
    <3>2. Len(changes) \in Nat /\ Len(changes') \in Nat
      BY <2>3, LenProperties
    <3> QED
      BY ONLY <2>3, <3>1, <3>2
  <2>5. faults' \in 0..MaxFaults
    BY <1>3, FaultsBounded DEF Redeliver
  <2> QED
    BY <1>3, <2>3, <2>4, <2>5 DEF Redeliver
<1>4. CASE Expire
  BY <1>4 DEF Expire
<1>5. CASE ProcessBroadcastElement
  BY <1>5 DEF ProcessBroadcastElement
<1>6. CASE PriceNight
  <2>1. log[offset + 1] \in Records /\ offset' \in 0..Len(log)
    BY <1>6 DEF PriceNight
  <2>2. decisions' \in Seq(Pairs)
    BY <1>6, <2>1, PricedType, EmptySeq DEF PriceNight
  <2> QED
    BY <1>6, <2>1, <2>2 DEF PriceNight
<1>7. ASSUME NEW p \in Pairs, PutItem(p)
      PROVE  TypeOK'
  <2>1. ProcessElement(p) \in {Algorithm} \union DOMAIN overrides
    BY NewestType DEF ProcessElement
  <2>2. item' \in [Pairs -> {None, Algorithm} \union DOMAIN overrides]
    BY <1>7, <2>1 DEF PutItem
  <2>3. decisions' \in Seq(Pairs)
    BY <1>7 DEF PutItem
  <2> QED
    BY <1>7, <2>2, <2>3 DEF PutItem
<1>8. CASE Checkpoint
  <2>1. log' \in Seq(Records) /\ offset' \in 0..Len(log')
    <3>1. log \in Seq(Records) /\ offset \in 0..Len(log)
      OBVIOUS
    <3>2. log' = SubSeq(log, offset + 1, Len(log)) /\ offset' = 0
      BY <1>8 DEF Checkpoint, SaveState
    <3> QED
      BY ONLY <3>1, <3>2, RestIsSeq
  <2>2. changes' \in Seq(DOMAIN overrides) /\ seen' \in 0..Len(changes')
    <3>1. changes \in Seq(DOMAIN overrides) /\ seen \in 0..Len(changes)
      OBVIOUS
    <3>2. changes' = SubSeq(changes, seen + 1, Len(changes)) /\ seen' = 0
      BY <1>8 DEF Checkpoint, SaveState
    <3> QED
      BY ONLY <3>1, <3>2, RestIsSeq
  <2>3. kept' \in [Pairs -> {Algorithm} \union DOMAIN overrides]
    BY <1>8, NewestType DEF Checkpoint, SaveState
  <2>4. known' \subseteq Market \X Nights
    <3>1. \A i \in 1..offset : log[i].segment \in Market /\ log[i].night \in Nights
      <4>1. \A i \in 1..offset : log[i] \in Records
        OBVIOUS
      <4> QED
        BY ONLY <4>1 DEF Records
    <3>2. Known(offset) \subseteq Market \X Nights
      <4>1. known \subseteq Market \X Nights
        OBVIOUS
      <4> QED
        BY ONLY <3>1, <4>1 DEF Known
    <3> QED
      BY <1>8, <3>2 DEF Checkpoint, SaveState
  <2> QED
    BY <1>8, <2>1, <2>2, <2>3, <2>4 DEF Checkpoint
<1>9. CASE FailJob
  <2>1. faults' \in 0..MaxFaults
    BY <1>9, FaultsBounded DEF FailJob
  <2>2. offset' \in 0..Len(log') /\ seen' \in 0..Len(changes')
    BY <1>9 DEF FailJob
  <2> QED
    BY <1>9, <2>1, <2>2 DEF FailJob
<1> QED
  BY <1>1, <1>2, <1>3, <1>4, <1>5, <1>6, <1>7, <1>8, <1>9 DEF Next, JobSteps

\* Every position the feed and the job keep is a position of what it counts: the
\* job has read no more records and rows than there are since its checkpoint, and
\* its state, the rows and the items name overrides that were written, through
\* refusals, restarts, redeliveries and failed jobs.
THEOREM TypesHold == Spec => []TypeOK
<1>1. Init => TypeOK
  BY InitTypes
<1>2. TypeOK /\ [Next]_vars => TypeOK'
  BY FeedTypes, JobTypes
<1> QED
  BY <1>1, <1>2, PTL DEF Spec
----------------------------------------------------------------------------
(* What was written last, and what the topic says of it.                     *)

Rows(os) == [i \in 1..Len(os) |-> i]
Nothing == [p \in Pairs |-> Algorithm]

\* The last override that was written is the entry that the table, read from its
\* first row to its last, would leave.
LEMMA LastWrittenIsIn ==
  ASSUME NEW p \in Pairs, overrides \in Seq(Pairs)
  PROVE  LastWritten(p) = NewestIn(overrides, Rows(overrides), Nothing, Len(overrides), p)
<1> DEFINE A == {i \in DOMAIN overrides : overrides[i] = p}
<1>1. About(overrides, Rows(overrides), Len(overrides), p) = A
  BY DEF About, Rows
<1>2. CASE A = {}
  BY <1>1, <1>2 DEF LastWritten, NewestIn, Nothing
<1>3. CASE A # {}
  <2>1. A \in SUBSET (1..Len(overrides)) /\ Len(overrides) \in Nat
    OBVIOUS
  <2>2. Max(A) \in 1..Len(overrides)
    <3> HIDE DEF A
    <3> QED
      BY <1>3, <2>1, MaxOfPositions
  <2>3. LastWritten(p) = Max(A)
    BY <1>3 DEF LastWritten
  <2>4. NewestIn(overrides, Rows(overrides), Nothing, Len(overrides), p) = Rows(overrides)[Max(A)]
    <3> HIDE DEF A
    <3> QED
      BY <1>1, <1>3 DEF NewestIn
  <2>5. Rows(overrides)[Max(A)] = Max(A)
    <3> HIDE DEF A
    <3> QED
      BY <2>2 DEF Rows
  <2> QED
    BY <2>3, <2>4, <2>5
<1> QED
  BY <1>2, <1>3

\* No row about a pair is behind the one that was written last.
LEMMA LastWrittenCases ==
  ASSUME NEW p \in Pairs, overrides \in Seq(Pairs)
  PROVE  \/ /\ LastWritten(p) = Algorithm
            /\ \A i \in DOMAIN overrides : overrides[i] # p
         \/ /\ LastWritten(p) \in DOMAIN overrides /\ overrides[LastWritten(p)] = p
            /\ \A i \in DOMAIN overrides : overrides[i] = p => LastWritten(p) >= i
<1> DEFINE A == {i \in DOMAIN overrides : overrides[i] = p}
<1>1. A \in SUBSET (1..Len(overrides)) /\ Len(overrides) \in Nat
  OBVIOUS
<1>2. CASE A = {}
  BY <1>2 DEF LastWritten
<1>3. CASE A # {}
  <2>1. Max(A) \in A /\ \A i \in A : Max(A) >= i
    <3> HIDE DEF A
    <3> QED
      BY <1>1, <1>3, MaxOfPositions
  <2>2. LastWritten(p) = Max(A)
    BY <1>3 DEF LastWritten
  <2> QED
    BY <2>1, <2>2
<1> QED
  BY <1>2, <1>3

\* Whatever came twice, read to its end the topic leaves what was written last, and
\* what is kept or shown of an apartment and night is an override of that night.
Agrees(p) == Newest(p, Len(changes)) = LastWritten(p)
OwnOverrides ==
  \A p \in Pairs :
    /\ kept[p] \in DOMAIN overrides => overrides[kept[p]] = p
    /\ item[p] \in DOMAIN overrides => overrides[item[p]] = p
HotInv == OwnOverrides /\ \A p \in Pairs : Agrees(p)

LEMMA InitHot ==
  ASSUME Init
  PROVE  HotInv
<1>1. overrides = << >> /\ changes = << >> /\ kept = [p \in Pairs |-> Algorithm]
  BY DEF Init, HotInit
<1>2. DOMAIN overrides = {} /\ Len(changes) = 0
  BY <1>1
<1>3. OwnOverrides
  BY <1>2 DEF OwnOverrides
<1>4. ASSUME NEW p \in Pairs
      PROVE  Agrees(p)
  <2>1. Newest(p, Len(changes)) = Algorithm
    BY <1>1, <1>2 DEF Newest
  <2>2. LastWritten(p) = Algorithm
    BY <1>2 DEF LastWritten
  <2> QED
    BY <2>1, <2>2 DEF Agrees
<1> QED
  BY <1>3, <1>4 DEF HotInv

\* An entry is an override of its own apartment and night.
LEMMA NewestIsOwn ==
  ASSUME TypeOK, OwnOverrides, NEW p \in Pairs, NEW n \in 0..Len(changes),
         Newest(p, n) \in DOMAIN overrides
  PROVE  overrides[Newest(p, n)] = p
<1>1. n \in Nat
  BY DEF TypeOK
<1>2. CASE Newest(p, n) = kept[p]
  BY <1>2 DEF OwnOverrides
<1> QED
  BY <1>1, <1>2, EntryCases

LEMMA StepKeepsOwn ==
  ASSUME TypeOK, OwnOverrides, [Next]_vars
  PROVE  OwnOverrides'
<1>1. CASE \E p \in Pairs : PutItem(p)
  <2>1. PICK q \in Pairs : PutItem(q)
    BY <1>1
  <2>2. item' = [item EXCEPT ![q] = ProcessElement(q)] /\ UNCHANGED <<overrides, kept>>
    BY <2>1 DEF PutItem
  <2>3. ProcessElement(q) \in DOMAIN overrides => overrides[ProcessElement(q)] = q
    <3>1. seen \in 0..Len(changes) /\ Algorithm \notin DOMAIN overrides
      BY DEF TypeOK, Algorithm
    <3> QED
      BY <3>1, NewestIsOwn DEF ProcessElement
  <2>4. item \in [Pairs -> {None, Algorithm} \union DOMAIN overrides]
    BY DEF TypeOK
  <2> QED
    BY <2>2, <2>3, <2>4 DEF OwnOverrides
<1>2. CASE Checkpoint
  <2>1. kept' = [p \in Pairs |-> Newest(p, seen)] /\ UNCHANGED <<overrides, item>>
    BY <1>2 DEF Checkpoint, SaveState
  <2>2. seen \in 0..Len(changes)
    BY DEF TypeOK
  <2> QED
    BY <2>1, <2>2, NewestIsOwn DEF OwnOverrides
<1>3. CASE WriteOverride
  <2>1. PICK q \in Overridden : overrides' = Append(overrides, q)
    BY <1>3 DEF WriteOverride
  <2>2. UNCHANGED <<kept, item>>
    BY <1>3 DEF WriteOverride
  <2>3. \A i \in DOMAIN overrides : overrides'[i] = overrides[i]
    BY <2>1 DEF TypeOK
  <2>4. /\ kept \in [Pairs -> {Algorithm} \union DOMAIN overrides]
        /\ item \in [Pairs -> {None, Algorithm} \union DOMAIN overrides]
        /\ {None, Algorithm} \intersect DOMAIN overrides' = {}
    <3>1. DOMAIN overrides' \subseteq Nat \ {0}
      BY <2>1, HotPathAssumption DEF TypeOK, Pairs
    <3> QED
      BY <3>1, HotPathAssumption DEF TypeOK, Algorithm
  <2> QED
    BY <2>2, <2>3, <2>4 DEF OwnOverrides
<1>4. CASE UNCHANGED <<overrides, kept, item>>
  BY <1>4 DEF OwnOverrides
<1> QED
  BY <1>1, <1>2, <1>3, <1>4 DEF Next, vars, hot, JobSteps, Redeliver, Expire,
     ProcessBroadcastElement, PriceNight, FailJob

\* A row written now is the last one of its night and of no other.
LEMMA WriteAgrees ==
  ASSUME TypeOK, WriteOverride, NEW p \in Pairs, Agrees(p)
  PROVE  Agrees(p)'
<1> DEFINE n == Len(overrides)
           m == Len(changes)
<1>1. PICK q \in Overridden : overrides' = Append(overrides, q)
  BY DEF WriteOverride
<1>2. q \in Pairs /\ changes' = Append(changes, n + 1) /\ kept' = kept
  BY HotPathAssumption DEF WriteOverride, Pairs
<1>3. /\ n \in Nat /\ m \in Nat
      /\ overrides' \in Seq(Pairs) /\ Len(overrides') = n + 1 /\ Len(changes') = m + 1
      /\ overrides'[n + 1] = q /\ changes'[m + 1] = n + 1
      /\ \A i \in 1..n : overrides'[i] = overrides[i]
      /\ \A i \in 1..m : changes'[i] = changes[i] /\ changes[i] \in 1..n
  <2>1. overrides \in Seq(Pairs) /\ n \in Nat /\ DOMAIN overrides = 1..n
    BY DEF TypeOK
  <2>2. changes \in Seq(1..n) /\ m \in Nat
    BY <2>1 DEF TypeOK
  <2>3. /\ overrides' \in Seq(Pairs) /\ Len(overrides') = n + 1 /\ overrides'[n + 1] = q
        /\ \A i \in 1..n : overrides'[i] = overrides[i]
    BY ONLY <1>1, <1>2, <2>1, AppendProperties
  <2>4. changes \in Seq(Nat) /\ n + 1 \in Nat
    <3>1. 1..n \subseteq Nat
      OBVIOUS
    <3> QED
      BY ONLY <2>1, <2>2, <3>1, SeqMonotonic
  <2>5. /\ Len(changes') = m + 1 /\ changes'[m + 1] = n + 1
        /\ \A i \in 1..m : changes'[i] = changes[i]
    BY ONLY <1>2, <2>4, AppendProperties
  <2>6. \A i \in 1..m : changes[i] \in 1..n
    BY ONLY <2>2, ElementOfSeq
  <2> QED
    BY ONLY <2>1, <2>2, <2>3, <2>5, <2>6
<1>4. LastWritten(p)' = NewestIn(overrides', Rows(overrides'), Nothing, n + 1, p)
  <2>1. (overrides \in Seq(Pairs) =>
           LastWritten(p) = NewestIn(overrides, Rows(overrides), Nothing, Len(overrides), p))'
    BY LastWrittenIsIn, PTL
  <2> QED
    BY <1>3, <2>1 DEF Nothing
<1>5. Newest(p, Len(changes))' = NewestIn(overrides', changes', kept, m + 1, p)
  BY <1>2, <1>3 DEF Newest, NewestIn, About
<1> HIDE DEF n, m
<1>6. CASE p = q
  <2>1. NewestIn(overrides', changes', kept, m + 1, p) = changes'[m + 1]
    <3>1. m + 1 \in About(overrides', changes', m + 1, p)
      BY <1>3, <1>6 DEF About
    <3>2. \A j \in About(overrides', changes', m + 1, p) : m + 1 >= j
      BY <1>3 DEF About
    <3>3. m + 1 \in Nat
      BY <1>3
    <3> QED
      BY ONLY <3>1, <3>2, <3>3, LastRowIsNewest
  <2>2. NewestIn(overrides', Rows(overrides'), Nothing, n + 1, p) = Rows(overrides')[n + 1]
    <3>1. n + 1 \in About(overrides', Rows(overrides'), n + 1, p)
      BY <1>3, <1>6 DEF About, Rows
    <3>2. \A j \in About(overrides', Rows(overrides'), n + 1, p) : n + 1 >= j
      BY <1>3 DEF About
    <3>3. n + 1 \in Nat
      BY <1>3
    <3> QED
      BY ONLY <3>1, <3>2, <3>3, LastRowIsNewest
  <2>3. Rows(overrides')[n + 1] = n + 1
    BY <1>3 DEF Rows
  <2> QED
    BY <1>3, <1>4, <1>5, <2>1, <2>2, <2>3 DEF Agrees
<1>7. CASE p # q
  <2>1. NewestIn(overrides', changes', kept, m + 1, p) = NewestIn(overrides, changes, kept, m, p)
    <3>1. /\ m \in Nat /\ m + 1 \in Nat /\ m <= m + 1
          /\ \A i \in 1..m : changes'[i] = changes[i] /\ overrides'[changes'[i]] = overrides[changes[i]]
          /\ \A i \in (m + 1)..(m + 1) : overrides'[changes'[i]] # p
      BY <1>3, <1>7
    <3> QED
      BY ONLY <3>1, OthersChangeNothing
  <2>2. NewestIn(overrides', Rows(overrides'), Nothing, n + 1, p)
          = NewestIn(overrides, Rows(overrides), Nothing, n, p)
    <3>1. n \in Nat /\ n + 1 \in Nat /\ n <= n + 1
      BY <1>3
    <3>2. \A i \in 1..n : /\ Rows(overrides')[i] = Rows(overrides)[i]
                         /\ overrides'[Rows(overrides')[i]] = overrides[Rows(overrides)[i]]
      BY <1>3 DEF Rows, n
    <3>3. \A i \in (n + 1)..(n + 1) : overrides'[Rows(overrides')[i]] # p
      BY <1>3, <1>7 DEF Rows
    <3> QED
      BY ONLY <3>1, <3>2, <3>3, OthersChangeNothing
  <2>3. LastWritten(p) = NewestIn(overrides, Rows(overrides), Nothing, n, p)
    BY LastWrittenIsIn DEF n, TypeOK
  <2>4. Newest(p, Len(changes)) = NewestIn(overrides, changes, kept, m, p)
    BY NewestIsIn DEF m
  <2> QED
    BY <1>4, <1>5, <2>1, <2>2, <2>3, <2>4 DEF Agrees
<1> QED
  BY <1>6, <1>7

\* Rows that are sent again end with the newest of each night they are about.
LEMMA RedeliveryAgrees ==
  ASSUME TypeOK, Redeliver, NEW p \in Pairs, Agrees(p)
  PROVE  Agrees(p)'
<1> DEFINE n == Len(overrides)
           m == Len(changes)
           last == LastWritten(p)
<1>1. PICK k \in DOMAIN overrides : changes' = changes \o [i \in 1 .. n + 1 - k |-> k + i - 1]
  BY DEF Redeliver
<1> DEFINE t == n + 1 - k
           again == [i \in 1..t |-> k + i - 1]
<1>2. n \in Nat /\ m \in Nat /\ DOMAIN overrides = 1..n /\ k \in 1..n /\ t \in Nat
  BY DEF TypeOK
<1>3. UNCHANGED <<overrides, kept>>
  BY DEF Redeliver
<1>4. /\ Len(changes') = m + t
      /\ \A i \in 1..m : changes'[i] = changes[i]
      /\ \A i \in 1..t : changes'[m + i] = k + i - 1
  <2>1. changes \in Seq(DOMAIN overrides) /\ changes' = changes \o again
    BY <1>1 DEF TypeOK
  <2>2. again \in Seq(Nat) /\ Len(again) = t
    <3>1. again \in [1..t -> Nat]
      BY <1>2
    <3>2. again \in Seq(Nat)
      <4> HIDE DEF again, t
      <4> QED
        BY ONLY <1>2, <3>1, ListIsSeq
    <3> QED
      BY <1>2, <3>1, <3>2
  <2>3. \A i \in 1..t : again[i] = k + i - 1
    OBVIOUS
  <2> HIDE DEF again, t
  <2> QED
    BY <1>2, <2>1, <2>2, <2>3
<1>5. LastWritten(p)' = last
  BY <1>3 DEF LastWritten
<1>6. Newest(p, Len(changes))' = NewestIn(overrides, changes', kept, m + t, p)
  BY <1>3, <1>4 DEF Newest, NewestIn, About
<1>7. \A i \in (m + 1)..(m + t) : i - m \in 1..t /\ changes'[i] = k + (i - m) - 1
  <2> HIDE DEF m, t
  <2>1. ASSUME NEW i \in (m + 1)..(m + t)
        PROVE  i - m \in 1..t /\ m + (i - m) = i
    BY <1>2
  <2> QED
    BY <1>4, <2>1
<1>8. CASE last \in k..n
  <2> DEFINE x == m + (last - k + 1)
  <2>1. x \in (m + 1)..(m + t) /\ changes'[x] = last /\ overrides[last] = p
    <3>1. last - k + 1 \in 1..t /\ k + (last - k + 1) - 1 = last
      BY <1>2, <1>8
    <3>2. changes'[x] = last
      BY <1>4, <3>1
    <3>3. overrides[last] = p
      <4>1. overrides \in Seq(Pairs) /\ last # Algorithm
        BY <1>2, <1>8 DEF TypeOK, Algorithm
      <4> QED
        BY <4>1, LastWrittenCases
    <3>4. x \in (m + 1)..(m + t)
      <4> HIDE DEF last, m, t
      <4> QED
        BY <1>2, <1>8, <3>1
    <3> QED
      BY <3>2, <3>3, <3>4
  <2>2. x \in About(overrides, changes', m + t, p)
    <3> HIDE DEF x, m, t, last
    <3> QED
      BY <1>2, <2>1 DEF About
  <2>3. ASSUME NEW j \in About(overrides, changes', m + t, p)
        PROVE  x >= j
    <3>1. j \in 1..(m + t) /\ overrides[changes'[j]] = p
      BY DEF About
    <3>2. CASE j <= m
      <4> HIDE DEF last, m, t, x
      <4> QED
        BY <1>2, <2>1, <3>1, <3>2
    <3>3. CASE j > m
      <4>1. j \in (m + 1)..(m + t)
        <5> HIDE DEF m, t
        <5> QED
          BY <1>2, <3>1, <3>3
      <4>2. changes'[j] = k + (j - m) - 1 /\ j - m \in 1..t
        BY <1>7, <4>1
      <4>3. k + (j - m) - 1 \in 1..n
        <5>1. \A i \in 1..t : k + i - 1 \in 1..n
          BY <1>2
        <5> QED
          BY <4>2, <5>1
      <4>4. last >= k + (j - m) - 1
        <5>1. overrides \in Seq(Pairs) /\ changes'[j] \in DOMAIN overrides /\ last # Algorithm
          BY <1>2, <1>8, <4>2, <4>3 DEF TypeOK, Algorithm
        <5> QED
          BY <3>1, <4>2, <5>1, LastWrittenCases
      <4> HIDE DEF last, m, t
      <4> QED
        BY <1>2, <1>8, <4>1, <4>4
    <3> QED
      <4> HIDE DEF m, t, x
      <4> QED
        BY <1>2, <3>1, <3>2, <3>3
  <2>4. NewestIn(overrides, changes', kept, m + t, p) = changes'[x]
    <3>1. m + t \in Nat
      BY <1>2
    <3> HIDE DEF m, t, x
    <3> QED
      BY ONLY <2>2, <2>3, <3>1, LastRowIsNewest
  <2> QED
    BY <1>5, <1>6, <2>1, <2>4 DEF Agrees
<1>9. CASE last \notin k..n
  <2>1. \A i \in k..n : overrides[i] # p
    <3>1. SUFFICES ASSUME NEW i \in k..n, overrides[i] = p
                   PROVE  FALSE
      OBVIOUS
    <3>2. i \in DOMAIN overrides
      BY <1>2
    <3>3. last \in 1..n /\ last >= i
      <4>1. overrides \in Seq(Pairs)
        BY DEF TypeOK
      <4> QED
        BY <1>2, <3>1, <3>2, <4>1, LastWrittenCases
    <3> HIDE DEF last
    <3> QED
      BY <1>2, <1>9, <3>3
  <2>2. NewestIn(overrides, changes', kept, m + t, p) = NewestIn(overrides, changes, kept, m, p)
    <3>1. m \in Nat /\ m + t \in Nat /\ m <= m + t
      BY <1>2
    <3>2. \A i \in 1..m : changes'[i] = changes[i] /\ overrides[changes'[i]] = overrides[changes[i]]
      BY <1>4
    <3>3. \A i \in 1..t : k + i - 1 \in k..n
      BY <1>2
    <3>4. \A i \in (m + 1)..(m + t) : overrides[changes'[i]] # p
      BY <1>7, <2>1, <3>3
    <3> HIDE DEF m, t
    <3> QED
      BY ONLY <3>1, <3>2, <3>4, OthersChangeNothing
  <2>3. Newest(p, m) = NewestIn(overrides, changes, kept, m, p)
    BY NewestIsIn
  <2> QED
    BY <1>5, <1>6, <2>2, <2>3 DEF Agrees
<1> QED
  BY <1>8, <1>9

\* A checkpoint cuts the topic where its state was read to.
LEMMA CheckpointAgrees ==
  ASSUME TypeOK, Checkpoint, NEW p \in Pairs, Agrees(p)
  PROVE  Agrees(p)'
<1> DEFINE m == Len(changes)
<1>1. m \in Nat /\ seen \in 0..m
  BY DEF TypeOK
<1>2. /\ kept' = [q \in Pairs |-> Newest(q, seen)]
      /\ changes' = SubSeq(changes, seen + 1, m)
      /\ UNCHANGED overrides
  BY DEF Checkpoint, SaveState
<1>3. Len(changes') = m - seen /\ Behind(changes', changes, seen, m)
  <2>1. changes \in Seq(DOMAIN overrides)
    BY DEF TypeOK
  <2> QED
    BY <1>1, <1>2, <2>1, SubSeqProperties DEF Behind
<1>4. kept'[p] = NewestIn(overrides, changes, kept, seen, p)
  BY <1>2, NewestIsIn
<1>5. NewestIn(overrides, changes', kept', m - seen, p) = NewestIn(overrides, changes, kept, m, p)
  <2> HIDE DEF m
  <2>1. m \in Nat
    BY <1>1
  <2>2. seen \in 0..m
    BY <1>1
  <2>3. Behind(changes', changes, seen, m)
    BY <1>3
  <2> QED
    BY ONLY <1>4, <2>1, <2>2, <2>3, CutChangesNothing
<1>6. Newest(p, Len(changes))' = NewestIn(overrides, changes', kept', m - seen, p)
  BY <1>2, <1>3 DEF Newest, NewestIn, About
<1>7. Newest(p, m) = NewestIn(overrides, changes, kept, m, p)
  BY NewestIsIn
<1>8. LastWritten(p)' = LastWritten(p)
  BY <1>2 DEF LastWritten
<1> QED
  BY <1>5, <1>6, <1>7, <1>8 DEF Agrees

LEMMA StepKeepsHot ==
  ASSUME TypeOK, HotInv, [Next]_vars
  PROVE  HotInv'
<1>1. OwnOverrides'
  BY StepKeepsOwn DEF HotInv
<1>2. ASSUME NEW p \in Pairs
      PROVE  Agrees(p)'
  <2>1. Agrees(p)
    BY DEF HotInv
  <2>2. CASE WriteOverride
    BY <2>1, <2>2, WriteAgrees
  <2>3. CASE Redeliver
    BY <2>1, <2>3, RedeliveryAgrees
  <2>4. CASE Checkpoint
    BY <2>1, <2>4, CheckpointAgrees
  <2>5. CASE UNCHANGED <<overrides, changes, kept>>
    BY <2>1, <2>5 DEF Agrees, Newest, LastWritten
  <2> QED
    BY <2>2, <2>3, <2>4, <2>5 DEF Next, vars, hot, JobSteps, Expire,
       ProcessBroadcastElement, PriceNight, PutItem, FailJob
<1> QED
  BY <1>1, <1>2 DEF HotInv

\* A put while Stage C has read all rows there are puts what was written last, which
\* is no older than what the item shows.
LEMMA StepNeverGoesBack ==
  ASSUME TypeOK, HotInv, [Next]_vars,
         NEW p \in Pairs, item[p] \in DOMAIN overrides, seen = Len(changes)
  PROVE  \/ item'[p] \in DOMAIN overrides /\ item'[p] >= item[p]
         \/ item'[p] = Algorithm /\ \E i \in expired : i >= item[p] /\ overrides[i] = p
<1>1. overrides \in Seq(Pairs) /\ item[p] \in Nat /\ p \in DOMAIN item
  BY DEF TypeOK
<1>2. CASE PutItem(p)
  <2>1. item'[p] = ProcessElement(p)
    BY <1>1, <1>2 DEF PutItem
  <2>2. Newest(p, seen) = LastWritten(p)
    BY DEF HotInv, Agrees
  <2>3. overrides[item[p]] = p
    BY DEF HotInv, OwnOverrides
  <2>4. /\ LastWritten(p) \in DOMAIN overrides /\ LastWritten(p) >= item[p]
        /\ overrides[LastWritten(p)] = p
    BY <1>1, <2>3, LastWrittenCases
  <2> QED
    BY <2>1, <2>2, <2>4 DEF ProcessElement
<1>3. CASE item'[p] = item[p]
  BY <1>1, <1>3
<1>4. CASE \E q \in Pairs \ {p} : PutItem(q)
  <2>1. item'[p] = item[p]
    BY <1>1, <1>4 DEF PutItem
  <2> QED
    BY <1>3, <2>1
<1>5. CASE UNCHANGED item
  BY <1>3, <1>5
<1> QED
  BY <1>2, <1>4, <1>5 DEF Next, vars, hot, JobSteps, WriteOverride, Redeliver, Expire,
     ProcessBroadcastElement, PriceNight, Checkpoint, FailJob

\* Through writes, redeliveries, checkpoints, replays and failed jobs, an item goes
\* back to an older override only while Stage C has rows left to read: what it has
\* read then ends with an older row that was sent again
\* (ManualOverrideEnrichmentFunction.process_broadcast_element), or begins again at
\* a checkpoint.
THEOREM NeverGoesBack == Spec => CaughtUpNeverGoesBack
<1>1. Init => TypeOK /\ HotInv
  BY InitTypes, InitHot
<1>2. TypeOK /\ HotInv /\ [Next]_vars => TypeOK' /\ HotInv'
  BY FeedTypes, JobTypes, StepKeepsHot
<1>3. TypeOK /\ HotInv /\ [Next]_vars =>
        [\A p \in Pairs : item[p] \in DOMAIN overrides /\ seen = Len(changes) =>
           \/ item'[p] \in DOMAIN overrides /\ item'[p] >= item[p]
           \/ item'[p] = Algorithm /\ \E i \in expired : i >= item[p] /\ overrides[i] = p]_vars
  BY StepNeverGoesBack
<1> QED
  BY <1>1, <1>2, <1>3, PTL DEF Spec, CaughtUpNeverGoesBack
===============================================================================
