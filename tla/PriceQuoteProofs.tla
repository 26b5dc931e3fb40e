--------------------------- MODULE PriceQuoteProofs ---------------------------
(***************************************************************************)
(* Proofs about PriceQuote: what the engine promises, for any amounts,     *)
(* contracts, strategies, attributes, market rates and lead times.         *)
(*                                                                         *)
(* The engine adds up percentage costs of any number, so the proofs begin  *)
(* with sums over finite sets.                                             *)
(***************************************************************************)
EXTENDS PriceQuote, FiniteSetTheorems, WellFoundedInduction, TLAPS

-----------------------------------------------------------------------------
(* Induction, stated with sets *)

\* The naturals are what is reached from 0 in steps of 1.
LEMMA NaturalsBySteps ==
  ASSUME NEW A, 0 \in A, \A n \in Nat : n \in A => n + 1 \in A
  PROVE  Nat \subseteq A
<1> SUFFICES ASSUME Nat \ A # {}
             PROVE  FALSE
  OBVIOUS
<1> DEFINE T == Nat \ A
<1>1. PICK least \in T : \A y \in T : ~ (<<y, least>> \in OpToRel(<, Nat))
  <2>1. T \subseteq Nat /\ T # {}
    OBVIOUS
  <2> HIDE DEF T
  <2> QED
    BY <2>1, WFMin, NatLessThanWellFounded
<1>2. \A y \in T : ~ (y < least)
  BY <1>1 DEF OpToRel
<1>3. least \in Nat /\ least # 0
  OBVIOUS
<1>4. least - 1 \in Nat /\ (least - 1) + 1 = least /\ least - 1 < least
  BY <1>3
<1>5. least - 1 \in A
  BY <1>2, <1>4
<1> QED
  BY <1>4, <1>5

\* A set that has a subset whenever it has what is left of it without any one of
\* its elements, has all subsets.
Removal(S, A) == \A T \in SUBSET S : (\A x \in T : T \ {x} \in A) => T \in A

LEMMA SubsetsByRemoval ==
  ASSUME NEW S, IsFiniteSet(S), NEW A, Removal(S, A)
  PROVE  SUBSET S \subseteq A
<1>0. \A T \in SUBSET S : (\A x \in T : T \ {x} \in A) => T \in A
  BY DEF Removal
<1> DEFINE Sizes == {n \in Nat : \A T \in SUBSET S : Cardinality(T) = n => T \in A}
<1>1. \A T \in SUBSET S : IsFiniteSet(T) /\ Cardinality(T) \in Nat
  BY FS_Subset, FS_CardinalityType
<1>2. 0 \in Sizes
  <2>1. \A T \in SUBSET S : Cardinality(T) = 0 => T = {}
    BY <1>1, FS_EmptySet
  <2>2. {} \in A
    BY <1>0
  <2> QED
    BY <2>1, <2>2
<1>3. \A n \in Nat : n \in Sizes => n + 1 \in Sizes
  <2> SUFFICES ASSUME NEW n \in Nat, n \in Sizes,
                      NEW T \in SUBSET S, Cardinality(T) = n + 1
               PROVE  T \in A
    OBVIOUS
  <2>1. ASSUME NEW x \in T
        PROVE  T \ {x} \in A
    <3>1. Cardinality(T \ {x}) = Cardinality(T) - 1
      BY <1>1, FS_RemoveElement
    <3>2. Cardinality(T \ {x}) = n
      BY <3>1
    <3> QED
      BY <3>2
  <2> QED
    BY <1>0, <2>1
<1>4. Nat \subseteq Sizes
  <2> HIDE DEF Sizes
  <2> QED
    BY <1>2, <1>3, NaturalsBySteps
<1> QED
  BY <1>1, <1>4

-----------------------------------------------------------------------------
(* Sums over finite sets, added up as MapThenSumSet does *)

\* f has the sum of F over every subset of S.
Picked(s) == CHOOSE x \in s : TRUE
Sums(f, F, S) ==
  f = [s \in SUBSET S |->
         IF s = {} THEN 0 ELSE F[Picked(s)] + f[s \ {Picked(s)}]]
Picks(f, F, S) ==
  /\ f[{}] = 0
  /\ \A s \in SUBSET S : s # {} =>
       Picked(s) \in s /\ f[s] = F[Picked(s)] + f[s \ {Picked(s)}]
Removes(f, F, S) == \A T \in SUBSET S : \A x \in T : f[T] = F[x] + f[T \ {x}]
IntSums(f, F, S) ==
  IsFiniteSet(S) /\ F \in [S -> Int] /\ f \in [SUBSET S -> Int] /\ Sums(f, F, S)

LEMMA SumsExist ==
  ASSUME NEW S, IsFiniteSet(S), NEW F, F \in [S -> Int]
  PROVE  \E f : IntSums(f, F, S)
<1> DEFINE Small(n) == {s \in SUBSET S : Cardinality(s) <= n}
           Adds(f, s) == f[s] = IF s = {} THEN 0 ELSE F[Picked(s)] + f[s \ {Picked(s)}]
           Levels == {n \in Nat : \E f \in [Small(n) -> Int] : \A s \in Small(n) : Adds(f, s)}
<1>1. \A T \in SUBSET S : IsFiniteSet(T) /\ Cardinality(T) \in Nat
  BY FS_Subset, FS_CardinalityType
<1>2. \A s \in SUBSET S : s # {} => Picked(s) \in s /\ F[Picked(s)] \in Int
  BY DEF Picked
<1>3. 0 \in Levels
  <2>1. \A s \in Small(0) : s = {}
    <3>1. \A s \in Small(0) : Cardinality(s) = 0
      BY <1>1
    <3> QED
      BY <1>1, <3>1, FS_EmptySet
  <2>2. [s \in Small(0) |-> 0] \in [Small(0) -> Int]
    OBVIOUS
  <2>3. \A s \in Small(0) : Adds([t \in Small(0) |-> 0], s)
    BY <2>1
  <2> QED
    BY <2>2, <2>3
<1>4. \A n \in Nat : n \in Levels => n + 1 \in Levels
  <2> SUFFICES ASSUME NEW n \in Nat, n \in Levels
               PROVE  n + 1 \in Levels
    OBVIOUS
  <2>1. PICK f \in [Small(n) -> Int] : \A s \in Small(n) : Adds(f, s)
    OBVIOUS
  <2> DEFINE g == [s \in Small(n + 1) |->
                     IF s = {} THEN 0 ELSE F[Picked(s)] + f[s \ {Picked(s)}]]
  <2>2. \A s \in Small(n + 1) : s # {} => s \ {Picked(s)} \in Small(n)
    <3> SUFFICES ASSUME NEW s \in Small(n + 1), s # {}
                 PROVE  s \ {Picked(s)} \in Small(n)
      OBVIOUS
    <3>1. Picked(s) \in s /\ IsFiniteSet(s)
      BY <1>1, <1>2
    <3>2. Cardinality(s \ {Picked(s)}) = Cardinality(s) - 1
      BY <3>1, FS_RemoveElement
    <3>3. Cardinality(s) \in Nat /\ Cardinality(s) <= n + 1
      BY <1>1
    <3>4. Cardinality(s \ {Picked(s)}) <= n
      BY <3>2, <3>3
    <3> QED
      BY <3>4
  <2>3. Small(n) \subseteq Small(n + 1)
    BY <1>1
  <2>4. g \in [Small(n + 1) -> Int]
    BY <1>2, <2>2
  <2>5. \A s \in Small(n) : g[s] = f[s]
    BY <2>1, <2>3
  <2>6. \A s \in Small(n + 1) : Adds(g, s)
    BY <2>2, <2>3, <2>5
  <2>7. n + 1 \in Nat
    OBVIOUS
  <2> QED
    BY <2>4, <2>6, <2>7
<1>5. Cardinality(S) \in Levels
  <2>1. Nat \subseteq Levels
    <3> HIDE DEF Levels
    <3> QED
      BY <1>3, <1>4, NaturalsBySteps
  <2> QED
    BY <1>1, <2>1
<1>6. Small(Cardinality(S)) = SUBSET S
  BY FS_Subset
<1>7. PICK f \in [SUBSET S -> Int] : \A s \in SUBSET S : Adds(f, s)
  BY <1>5, <1>6
<1>8. f = [s \in SUBSET S |-> IF s = {} THEN 0 ELSE F[Picked(s)] + f[s \ {Picked(s)}]]
  BY <1>7
<1> QED
  BY <1>8 DEF Sums, IntSums

LEMMA SumsStep ==
  ASSUME NEW S, NEW F, NEW f, Sums(f, F, S)
  PROVE  Picks(f, F, S)
BY DEF Sums, Picked, Picks

LEMMA SumsUnique ==
  ASSUME NEW S, IsFiniteSet(S), NEW F, NEW f, Sums(f, F, S), NEW g, Sums(g, F, S)
  PROVE  f = g
<1> DEFINE A == {T \in SUBSET S : f[T] = g[T]}
<1>1. Picks(f, F, S) /\ Picks(g, F, S)
  BY SumsStep
<1>2. Removal(S, A)
  BY <1>1 DEF Removal, Picks
<1>3. SUBSET S \subseteq A
  <2> HIDE DEF A
  <2> QED
    BY <1>2, SubsetsByRemoval
<1>4. f = [s \in SUBSET S |-> f[s]] /\ g = [s \in SUBSET S |-> g[s]]
  BY DEF Sums
<1> QED
  BY <1>3, <1>4

LEMMA IntSumsFacts ==
  ASSUME NEW S, NEW F, NEW f, IntSums(f, F, S)
  PROVE  /\ IsFiniteSet(S) /\ Sums(f, F, S) /\ Picks(f, F, S)
         /\ F \in [S -> Int] /\ f \in [SUBSET S -> Int]
<1>1. Sums(f, F, S)
  BY DEF IntSums
<1>2. Picks(f, F, S)
  BY ONLY <1>1, SumsStep
<1> QED
  BY <1>1, <1>2 DEF IntSums

\* The order in which elements are picked does not matter.
LEMMA SumsAdd ==
  ASSUME NEW S, NEW F, NEW f, IntSums(f, F, S)
  PROVE  Removes(f, F, S)
<1> DEFINE A == {U \in SUBSET S : \A y \in U : f[U] = F[y] + f[U \ {y}]}
<1>0. /\ IsFiniteSet(S) /\ Picks(f, F, S)
      /\ F \in [S -> Int] /\ f \in [SUBSET S -> Int]
  BY IntSumsFacts
<1>1. ASSUME NEW U \in SUBSET S, \A y \in U : U \ {y} \in A, NEW y \in U
      PROVE  f[U] = F[y] + f[U \ {y}]
  <2> DEFINE z == Picked(U)
  <2>1. z \in U /\ f[U] = F[z] + f[U \ {z}]
    BY <1>0 DEF Picks
  <2>2. CASE z = y
    BY <2>1, <2>2
  <2>3. CASE z # y
    <3> DEFINE rest == (U \ {z}) \ {y}
    <3>1. f[U \ {z}] = F[y] + f[rest]
      BY <1>1, <2>1, <2>3
    <3>2. f[U \ {y}] = F[z] + f[(U \ {y}) \ {z}]
      BY <1>1, <2>1, <2>3
    <3>3. (U \ {y}) \ {z} = rest
      OBVIOUS
    <3>4. F[y] \in Int /\ F[z] \in Int /\ f[rest] \in Int
      BY <1>0, <2>1
    <3>5. f[U] = F[z] + (F[y] + f[rest]) /\ f[U \ {y}] = F[z] + f[rest]
      BY <2>1, <3>1, <3>2, <3>3
    <3> HIDE DEF z, rest
    <3> QED
      BY <3>4, <3>5
  <2> QED
    BY <2>2, <2>3
<1>2. Removal(S, A)
  BY <1>1 DEF Removal
<1>3. IsFiniteSet(S)
  BY <1>0
<1>4. SUBSET S \subseteq A
  <2> HIDE DEF A
  <2> QED
    BY ONLY <1>2, <1>3, SubsetsByRemoval
<1> QED
  BY <1>4 DEF Removes

LEMMA Distribute ==
  ASSUME NEW a \in Int, NEW b \in Int, NEW c \in Int
  PROVE  a * (b + c) = a * b + a * c
OBVIOUS

\* A bound on the terms of a sum is a bound on the sum; the terms may be another
\* set's, one for each element, and each may be over by as much as half.
Dominates(price, half, G, N, P, F, h, Q) ==
  /\ price \in Int /\ half \in Int
  /\ h \in [P -> Q] /\ \A x, y \in P : h[x] = h[y] => x = y
  /\ \A x \in P : F[h[x]] <= price * G[x] - 100 * N[x] + half
SumDominates(price, half, g, n, P, f, h) ==
  f[{h[x] : x \in P}] <= price * g[P] - 100 * n[P] + half * Cardinality(P)

LEMMA SumsBound ==
  ASSUME NEW P, NEW G, NEW g, IntSums(g, G, P), NEW N, NEW n, IntSums(n, N, P),
         NEW Q, NEW F, NEW f, IntSums(f, F, Q), NEW price, NEW half, NEW h,
         Dominates(price, half, G, N, P, F, h, Q)
  PROVE  SumDominates(price, half, g, n, P, f, h)
<1>0. /\ price \in Int /\ half \in Int /\ h \in [P -> Q] /\ \A x, y \in P : h[x] = h[y] => x = y
      /\ \A x \in P : F[h[x]] <= price * G[x] - 100 * N[x] + half
  BY DEF Dominates
<1> DEFINE Image(T) == {h[x] : x \in T}
           Bounded(T) ==
             f[Image(T)] <= price * g[T] - 100 * n[T] + half * Cardinality(T)
           A == {T \in SUBSET P : Bounded(T)}
<1>g. Picks(g, G, P) /\ G \in [P -> Int] /\ g \in [SUBSET P -> Int] /\ IsFiniteSet(P)
  BY ONLY IntSums(g, G, P), IntSumsFacts
<1>n. Picks(n, N, P) /\ N \in [P -> Int] /\ n \in [SUBSET P -> Int]
  BY ONLY IntSums(n, N, P), IntSumsFacts
<1>f. Picks(f, F, Q) /\ F \in [Q -> Int] /\ f \in [SUBSET Q -> Int]
  BY ONLY IntSums(f, F, Q), IntSumsFacts
<1>r. Removes(f, F, Q)
  BY ONLY IntSums(f, F, Q), SumsAdd
<1>1. Bounded({})
  <2>1. f[{}] = 0 /\ g[{}] = 0 /\ n[{}] = 0
    BY <1>g, <1>n, <1>f DEF Picks
  <2>2. Image({}) = {}
    OBVIOUS
  <2>3. Cardinality({}) = 0
    BY FS_EmptySet
  <2>4. 0 <= price * 0 - 100 * 0 + half * 0
    BY <1>0
  <2> QED
    BY <2>1, <2>2, <2>3, <2>4
<1>2. ASSUME NEW T \in SUBSET P, T # {}, \A x \in T : T \ {x} \in A
      PROVE  Bounded(T)
  <2> DEFINE x == Picked(T)
             rest == T \ {x}
  <2>1. x \in T /\ g[T] = G[x] + g[rest] /\ n[T] = N[x] + n[rest]
    BY <1>g, <1>n, <1>2 DEF Picks
  <2>2. Image(T) \in SUBSET Q /\ h[x] \in Image(T)
    BY <1>0, <2>1
  <2>3. Image(T) \ {h[x]} = Image(rest)
    BY <1>0, <2>1
  <2>4. f[Image(T)] = F[h[x]] + f[Image(rest)]
    <3> DEFINE image == Image(T)
               y == h[x]
    <3>1. image \in SUBSET Q /\ y \in image
      BY <2>2
    <3>2. f[image] = F[y] + f[image \ {y}]
      <4> HIDE DEF image, y
      <4> QED
        BY <1>r, <3>1 DEF Removes
    <3> QED
      BY <2>3, <3>2
  <2>5. Bounded(rest)
    BY <1>2, <2>1
  <2>6. F[h[x]] <= price * G[x] - 100 * N[x] + half
    BY <1>0, <2>1
  <2>7. /\ G[x] \in Int /\ g[rest] \in Int /\ N[x] \in Int /\ n[rest] \in Int
        /\ F[h[x]] \in Int /\ f[Image(rest)] \in Int
    <3>1. Image(rest) \in SUBSET Q /\ h[x] \in Q /\ x \in P /\ rest \in SUBSET P
      BY <1>0, <2>1
    <3> QED
      BY <1>g, <1>n, <1>f, <3>1
  <2>8. price * (G[x] + g[rest]) = price * G[x] + price * g[rest]
    BY <1>0, <2>7, Distribute
  <2>9. price * G[x] \in Int /\ price * g[rest] \in Int
    BY <1>0, <2>7
  <2> DEFINE left == f[Image(rest)]
             more == Cardinality(rest)
  <2>c. Cardinality(T) = more + 1 /\ more \in Nat
    <3>1. IsFiniteSet(T) /\ IsFiniteSet(rest)
      BY <1>g, FS_Subset
    <3>2. Cardinality(rest) = Cardinality(T) - 1
      BY <2>1, <3>1, FS_RemoveElement
    <3>3. Cardinality(T) \in Nat /\ Cardinality(rest) \in Nat
      BY <3>1, FS_CardinalityType
    <3> HIDE DEF rest
    <3> QED
      BY <3>2, <3>3
  <2>10. left <= price * g[rest] - 100 * n[rest] + half * more /\ left \in Int
    BY <2>5, <2>7
  <2>h. half * (more + 1) = half * more + half /\ half * more \in Int
    <3> HIDE DEF more
    <3> QED
      BY <1>0, <2>c
  <2>11. F[h[x]] + left
         <= price * (G[x] + g[rest]) - 100 * (N[x] + n[rest]) + half * (more + 1)
    <3> HIDE DEF x, rest, left, more
    <3> QED
      BY <1>0, <2>6, <2>7, <2>8, <2>9, <2>10, <2>h
  <2>12. f[Image(T)] = F[h[x]] + left
    BY <2>4
  <2> HIDE DEF x, rest, left, more, Image
  <2> QED
    BY <2>1, <2>c, <2>11, <2>12
<1>3. Removal(P, A)
  <2>1. \A T \in SUBSET P : (\A x \in T : T \ {x} \in A) => Bounded(T)
    BY <1>1, <1>2
  <2> HIDE DEF Bounded
  <2> QED
    BY <2>1 DEF Removal
<1>4. IsFiniteSet(P)
  BY <1>g
<1>5. SUBSET P \subseteq A
  <2> HIDE DEF A
  <2> QED
    BY ONLY <1>3, <1>4, SubsetsByRemoval
<1> QED
  BY <1>5 DEF SumDominates

----------------------------------------------------------------------------
(* The sums of the engine *)

Rates(S) == [pc \in S |-> pc.rate]
Netted(S, c) ==
  [pc \in S |-> Nearest(pc.rate * NettedRevenueBaseAmount(pc.base, c))]
Charged(S, price) == [pc \in S |-> Charge(pc, price)]

LEMMA PercentageRatesAdd ==
  ASSUME NEW c, IsFiniteSet(c.percentageCosts), NEW f,
         Sums(f, Rates(c.percentageCosts), c.percentageCosts)
  PROVE  PercentageRates(c) = f[c.percentageCosts]
<1> DEFINE S == c.percentageCosts
           Term(pc) == pc.rate
           Adds(g) == g = [s \in SUBSET S |->
                             IF s = {} THEN 0
                             ELSE Term(CHOOSE x \in s : TRUE)
                                    + g[s \ {CHOOSE x \in s : TRUE}]]
           it == CHOOSE g : Adds(g)
           F == Rates(S)
<1>1. PercentageRates(c) = it[S]
  BY DEF PercentageRates, MapThenSumSet, MapThenFoldSet
<1>2. \A g : Adds(g) <=> Sums(g, F, S)
  <2>1. \A x \in S : F[x] = Term(x)
    BY DEF Rates
  <2> SUFFICES ASSUME NEW g
               PROVE  Adds(g) <=> Sums(g, F, S)
    OBVIOUS
  <2>2. [s \in SUBSET S |-> IF s = {} THEN 0 ELSE Term(Picked(s)) + g[s \ {Picked(s)}]]
        = [s \in SUBSET S |-> IF s = {} THEN 0 ELSE F[Picked(s)] + g[s \ {Picked(s)}]]
    <3> HIDE DEF F, Term
    <3>1. \A s \in SUBSET S : s # {} => Picked(s) \in S
      BY DEF Picked
    <3> QED
      BY <2>1, <3>1
  <2>3. Adds(g) <=> g = [s \in SUBSET S |-> IF s = {} THEN 0
                                           ELSE Term(Picked(s)) + g[s \ {Picked(s)}]]
    BY ONLY DEF Picked
  <2>4. Sums(g, F, S) <=> g = [s \in SUBSET S |-> IF s = {} THEN 0
                                                 ELSE F[Picked(s)] + g[s \ {Picked(s)}]]
    <3> HIDE DEF F, Term
    <3> QED
      BY ONLY DEF Sums
  <2> HIDE DEF F, Term, Adds
  <2> QED
    BY ONLY <2>2, <2>3, <2>4
<1>3. Adds(it)
  <2>1. Adds(f)
    <3> HIDE DEF Adds
    <3>1. Sums(f, F, S)
      OBVIOUS
    <3> HIDE DEF F, S
    <3> QED
      BY ONLY <1>2, <3>1
  <2> HIDE DEF Adds
  <2> QED
    BY <2>1
<1>4. it = f
  <2> HIDE DEF it
  <2> QED
    BY <1>2, <1>3, SumsUnique
<1> QED
  BY <1>1, <1>4

LEMMA NettingAdds ==
  ASSUME NEW c, IsFiniteSet(c.percentageCosts), NEW f,
         Sums(f, Netted(c.percentageCosts, c), c.percentageCosts)
  PROVE  Netting(c) =
           f[c.percentageCosts]
             + Nearest(c.commissionPct * NettedRevenueBaseAmount(c.commissionBase, c))
<1> DEFINE S == c.percentageCosts
           Term(pc) == Nearest(pc.rate * NettedRevenueBaseAmount(pc.base, c))
           Adds(g) == g = [s \in SUBSET S |->
                             IF s = {} THEN 0
                             ELSE Term(CHOOSE x \in s : TRUE)
                                    + g[s \ {CHOOSE x \in s : TRUE}]]
           it == CHOOSE g : Adds(g)
           F == Netted(S, c)
<1>1. MapThenSumSet(
        LAMBDA pc : Nearest(pc.rate * NettedRevenueBaseAmount(pc.base, c)), S)
      = it[S]
  BY DEF MapThenSumSet, MapThenFoldSet
<1>2. \A g : Adds(g) <=> Sums(g, F, S)
  <2>1. \A x \in S : F[x] = Term(x)
    BY DEF Netted
  <2> SUFFICES ASSUME NEW g
               PROVE  Adds(g) <=> Sums(g, F, S)
    OBVIOUS
  <2>2. [s \in SUBSET S |-> IF s = {} THEN 0 ELSE Term(Picked(s)) + g[s \ {Picked(s)}]]
        = [s \in SUBSET S |-> IF s = {} THEN 0 ELSE F[Picked(s)] + g[s \ {Picked(s)}]]
    <3> HIDE DEF F, Term
    <3>1. \A s \in SUBSET S : s # {} => Picked(s) \in S
      BY DEF Picked
    <3> QED
      BY <2>1, <3>1
  <2>3. Adds(g) <=> g = [s \in SUBSET S |-> IF s = {} THEN 0
                                           ELSE Term(Picked(s)) + g[s \ {Picked(s)}]]
    BY ONLY DEF Picked
  <2>4. Sums(g, F, S) <=> g = [s \in SUBSET S |-> IF s = {} THEN 0
                                                 ELSE F[Picked(s)] + g[s \ {Picked(s)}]]
    <3> HIDE DEF F, Term
    <3> QED
      BY ONLY DEF Sums
  <2> HIDE DEF F, Term, Adds
  <2> QED
    BY ONLY <2>2, <2>3, <2>4
<1>3. Adds(it)
  <2>1. Adds(f)
    <3> HIDE DEF Adds
    <3>1. Sums(f, F, S)
      OBVIOUS
    <3> HIDE DEF F, S
    <3> QED
      BY ONLY <1>2, <3>1
  <2> HIDE DEF Adds
  <2> QED
    BY <2>1
<1>4. it = f
  <2> HIDE DEF it
  <2> QED
    BY <1>2, <1>3, SumsUnique
<1> QED
  BY <1>1, <1>4 DEF Netting

LEMMA ChargesAdd ==
  ASSUME NEW S, IsFiniteSet(S), NEW price, NEW f, Sums(f, Charged(S, price), S)
  PROVE  MapThenSumSet(LAMBDA pc : Charge(pc, price), S) = f[S]
<1> DEFINE Term(pc) == Charge(pc, price)
           Adds(g) == g = [s \in SUBSET S |->
                             IF s = {} THEN 0
                             ELSE Term(CHOOSE x \in s : TRUE)
                                    + g[s \ {CHOOSE x \in s : TRUE}]]
           it == CHOOSE g : Adds(g)
           F == Charged(S, price)
<1>1. MapThenSumSet(LAMBDA pc : Charge(pc, price), S) = it[S]
  BY DEF MapThenSumSet, MapThenFoldSet
<1>2. \A g : Adds(g) <=> Sums(g, F, S)
  <2>1. \A x \in S : F[x] = Term(x)
    BY DEF Charged
  <2> SUFFICES ASSUME NEW g
               PROVE  Adds(g) <=> Sums(g, F, S)
    OBVIOUS
  <2>2. [s \in SUBSET S |-> IF s = {} THEN 0 ELSE Term(Picked(s)) + g[s \ {Picked(s)}]]
        = [s \in SUBSET S |-> IF s = {} THEN 0 ELSE F[Picked(s)] + g[s \ {Picked(s)}]]
    <3> HIDE DEF F, Term
    <3>1. \A s \in SUBSET S : s # {} => Picked(s) \in S
      BY DEF Picked
    <3> QED
      BY <2>1, <3>1
  <2>3. Adds(g) <=> g = [s \in SUBSET S |-> IF s = {} THEN 0
                                           ELSE Term(Picked(s)) + g[s \ {Picked(s)}]]
    BY ONLY DEF Picked
  <2>4. Sums(g, F, S) <=> g = [s \in SUBSET S |-> IF s = {} THEN 0
                                                 ELSE F[Picked(s)] + g[s \ {Picked(s)}]]
    <3> HIDE DEF F, Term
    <3> QED
      BY ONLY DEF Sums
  <2> HIDE DEF F, Term, Adds
  <2> QED
    BY ONLY <2>2, <2>3, <2>4
<1>3. Adds(it)
  <2>1. Adds(f)
    <3> HIDE DEF Adds
    <3>1. Sums(f, F, S)
      OBVIOUS
    <3> HIDE DEF F
    <3> QED
      BY ONLY <1>2, <3>1
  <2> HIDE DEF Adds
  <2> QED
    BY <2>1
<1>4. it = f
  <2> HIDE DEF it
  <2> QED
    BY <1>2, <1>3, SumsUnique
<1> QED
  BY <1>1, <1>4

-----------------------------------------------------------------------------
(* The inputs *)

CostRecord ==
  [costs : Nat, perBooking : Nat, percentageCosts : SUBSET PercentageCost,
   commissionPct : 0 .. 100, commissionBase : RevenueBases, ota : Int,
   cleaning : Int, laundry : Int, bookingScope : Int, margin : 0 .. 99,
   discount : 0 .. 99, factor : 50 .. 200]
SameContract(c, d) ==
  /\ c.percentageCosts = d.percentageCosts
  /\ c.commissionPct = d.commissionPct /\ c.commissionBase = d.commissionBase
  /\ c.ota = d.ota /\ c.cleaning = d.cleaning /\ c.laundry = d.laundry
  /\ c.bookingScope = d.bookingScope
OnePerConcept(S) == \A pc, other \in S : pc.concept = other.concept => pc = other

\* The inductive invariant: no action takes an input out of its range.
InputsInv ==
  /\ cost \in CostRecord
  /\ IsFiniteSet(cost.percentageCosts) /\ OnePerConcept(cost.percentageCosts)
  /\ rate \in Nat
  /\ DOMAIN channelRates \subseteq DOMAIN ChannelCommissionPct
  /\ \A ch \in DOMAIN channelRates : channelRates[ch] \in Nat
  /\ days \in Int /\ breachDays \in Nat

LEMMA FactorRange ==
  ASSUME NEW property \in Properties
  PROVE  PropertyAttributeFactor(property.qualityTier, property.rating,
                                 property.hasView, property.hasParking) \in 50 .. 200
<1>1. /\ property.qualityTier \in DOMAIN QualityTierAdjustments
      /\ property.rating \in 10 .. 50
  BY InputsAssumption
<1>2. QualityTierAdjustments[property.qualityTier] \in Int
  BY <1>1 DEF QualityTierAdjustments
<1> DEFINE tier == QualityTierAdjustments[property.qualityTier]
           rating == property.rating
<1>3. rating \in Int
  BY <1>1
<1> QED
  <2> HIDE DEF tier, rating
  <2>1. ASSUME NEW view \in {0, 5}, NEW parking \in {0, 4}
        PROVE  Smaller(Larger(100 + (tier + (rating - 40) + view + parking), 50), 200)
                 \in 50 .. 200
    BY <1>2, <1>3 DEF Smaller, Larger, tier
  <2> DEFINE view == IF property.hasView THEN 5 ELSE 0
             parking == IF property.hasParking THEN 4 ELSE 0
  <2>2. PropertyAttributeFactor(property.qualityTier, property.rating,
                                property.hasView, property.hasParking)
        = Smaller(Larger(100 + (tier + (rating - 40) + view + parking), 50), 200)
    BY DEF PropertyAttributeFactor, tier, rating
  <2>3. view \in {0, 5} /\ parking \in {0, 4}
    OBVIOUS
  <2> HIDE DEF view, parking
  <2> QED
    BY ONLY <2>1, <2>2, <2>3

LEMMA GreatestBelow ==
  ASSUME NEW S \in SUBSET Int, NEW bound \in Int, \A x \in S : x < bound, S # {}
  PROVE  Max(S) \in S
<1> DEFINE T == {bound - x : x \in S}
<1>1. PICK least \in T : \A y \in T : ~ (<<y, least>> \in OpToRel(<, Nat))
  <2>1. \A x \in S : bound - x \in Nat
    OBVIOUS
  <2>2. T \subseteq Nat /\ T # {}
    BY <2>1
  <2> HIDE DEF T
  <2> QED
    BY <2>2, WFMin, NatLessThanWellFounded
<1>2. \A y \in T : y \in Nat
  OBVIOUS
<1>3. \A y \in T : ~ (y < least)
  BY <1>1, <1>2 DEF OpToRel
<1>4. PICK x \in S : least = bound - x
  OBVIOUS
<1>5. \A y \in S : x >= y
  <2> SUFFICES ASSUME NEW y \in S
               PROVE  x >= y
    OBVIOUS
  <2>1. ~ (bound - y < bound - x)
    BY <1>3, <1>4
  <2> QED
    BY <2>1
<1>6. \E m \in S : \A y \in S : m >= y
  BY <1>5
<1> QED
  BY <1>6 DEF Max

LEMMA InitInputs == Init => InputsInv
<1> SUFFICES ASSUME Init
             PROVE  InputsInv
  OBVIOUS
<1>1. PICK costs \in CostAmounts, perBooking \in BookingAmounts,
          contract \in Contracts, margin \in Margins, discount \in Discounts,
          property \in Properties :
        cost = CostOf(costs, perBooking, contract, margin, discount, property)
  BY DEF Init
<1>2. costs \in Nat /\ perBooking \in Nat /\ margin \in 0 .. 99 /\ discount \in 0 .. 99
  BY QuoteAssumption
<1>3. /\ contract.percentageCosts \in SUBSET PercentageCost
      /\ IsFiniteSet(contract.percentageCosts)
      /\ OnePerConcept(contract.percentageCosts)
      /\ contract.commissionPct \in 0 .. 100 /\ contract.commissionBase \in RevenueBases
      /\ contract.ota \in Int /\ contract.cleaning \in Int
      /\ contract.laundry \in Int /\ contract.bookingScope \in Int
  BY ContractsAssumption DEF OnePerConcept
<1>4. cost \in CostRecord /\ cost.percentageCosts = contract.percentageCosts
  <2> DEFINE factor == PropertyAttributeFactor(property.qualityTier, property.rating,
                                               property.hasView, property.hasParking)
  <2>1. factor \in 50 .. 200
    BY FactorRange
  <2> HIDE DEF factor
  <2> QED
    BY <1>1, <1>2, <1>3, <2>1 DEF CostOf, CostRecord, factor
<1>5. rate \in Nat /\ days \in Int /\ breachDays \in Nat
  BY QuoteAssumption DEF Init
<1>6. /\ DOMAIN channelRates \subseteq DOMAIN ChannelCommissionPct
      /\ \A ch \in DOMAIN channelRates : channelRates[ch] \in Nat
  BY InputsAssumption DEF Init
<1> QED
  BY <1>3, <1>4, <1>5, <1>6 DEF InputsInv

\* A record that gets another value of a field's type keeps its type, and the
\* percentage costs.
LEMMA OtherCosts ==
  ASSUME NEW c \in CostRecord, NEW costs \in Nat, NEW perBooking \in Nat
  PROVE  LET new == [c EXCEPT !.costs = costs, !.perBooking = perBooking]
         IN  new \in CostRecord /\ SameContract(new, c)
<1> DEFINE d == [c EXCEPT !.costs = costs]
<1>1. d \in CostRecord /\ SameContract(d, c)
  BY DEF CostRecord, SameContract
<1> HIDE DEF d
<1>2. LET new == [d EXCEPT !.perBooking = perBooking]
      IN  new \in CostRecord /\ SameContract(new, d)
  BY <1>1 DEF CostRecord, SameContract
<1> QED
  BY <1>1, <1>2 DEF d, SameContract

LEMMA OtherStrategy ==
  ASSUME NEW c \in CostRecord, NEW margin \in 0 .. 99, NEW discount \in 0 .. 99
  PROVE  LET new == [c EXCEPT !.margin = margin, !.discount = discount]
         IN  new \in CostRecord /\ SameContract(new, c)
<1> DEFINE d == [c EXCEPT !.margin = margin]
<1>1. d \in CostRecord /\ SameContract(d, c)
  BY DEF CostRecord, SameContract
<1> HIDE DEF d
<1>2. LET new == [d EXCEPT !.discount = discount]
      IN  new \in CostRecord /\ SameContract(new, d)
  BY <1>1 DEF CostRecord, SameContract
<1> QED
  BY <1>1, <1>2 DEF d, SameContract

\* A step keeps the inputs in range, and no step changes the owner contract.
LEMMA StepInputs ==
  InputsInv /\ [Next]_vars => InputsInv' /\ SameContract(cost', cost)
<1> SUFFICES ASSUME InputsInv, [Next]_vars
             PROVE  InputsInv' /\ SameContract(cost', cost)
  OBVIOUS
<1>1. CASE CostsChange
  <2>1. PICK costs \in CostAmounts, perBooking \in BookingAmounts :
          cost' = [cost EXCEPT !.costs = costs, !.perBooking = perBooking]
    BY <1>1 DEF CostsChange
  <2>2. costs \in Nat /\ perBooking \in Nat
    BY QuoteAssumption
  <2>3. cost' \in CostRecord /\ SameContract(cost', cost)
    BY <2>1, <2>2, OtherCosts DEF InputsInv
  <2> QED
    BY <1>1, <2>3 DEF CostsChange, InputsInv, SameContract
<1>2. CASE StrategyChanges
  <2>1. PICK margin \in Margins, discount \in Discounts :
          cost' = [cost EXCEPT !.margin = margin, !.discount = discount]
    BY <1>2 DEF StrategyChanges
  <2>2. margin \in 0 .. 99 /\ discount \in 0 .. 99
    BY QuoteAssumption
  <2>3. cost' \in CostRecord /\ SameContract(cost', cost)
    BY <2>1, <2>2, OtherStrategy DEF InputsInv
  <2> QED
    BY <1>2, <2>3 DEF StrategyChanges, InputsInv, SameContract
<1>3. CASE PropertyChanges
  <2>1. PICK property \in Properties :
          cost' = [cost EXCEPT !.factor =
                     PropertyAttributeFactor(property.qualityTier, property.rating,
                                             property.hasView, property.hasParking)]
    BY <1>3 DEF PropertyChanges
  <2>2. cost' \in CostRecord /\ SameContract(cost', cost)
    <3> DEFINE factor == PropertyAttributeFactor(property.qualityTier, property.rating,
                                                 property.hasView, property.hasParking)
    <3>1. factor \in 50 .. 200
      BY FactorRange
    <3>2. cost' = [cost EXCEPT !.factor = factor]
      BY <2>1
    <3> HIDE DEF factor
    <3> QED
      BY <3>1, <3>2 DEF InputsInv, CostRecord, SameContract
  <2> QED
    BY <1>3, <2>2 DEF PropertyChanges, InputsInv, SameContract
<1>4. CASE MarketChanges
  <2>1. rate' \in Nat
    BY <1>4, QuoteAssumption DEF MarketChanges
  <2>2. /\ DOMAIN channelRates' \subseteq DOMAIN ChannelCommissionPct
        /\ \A ch \in DOMAIN channelRates' : channelRates'[ch] \in Nat
    BY <1>4, InputsAssumption DEF MarketChanges
  <2> QED
    BY <1>4, <2>1, <2>2 DEF MarketChanges, InputsInv, SameContract
<1>5. CASE TimePasses
  <2> DEFINE before == {d \in LeadTimes : d < days}
  <2>1. before \in SUBSET Int /\ before # {} /\ days \in Int /\ \A d \in before : d < days
    BY <1>5, QuoteAssumption DEF TimePasses, InputsInv
  <2>2. Max(before) \in before
    <3> HIDE DEF before
    <3> QED
      BY <2>1, GreatestBelow
  <2>3. days' \in Int
    BY <1>5, <2>1, <2>2 DEF TimePasses
  <2>4. breachDays' \in Nat
    BY <1>5, QuoteAssumption DEF TimePasses
  <2> QED
    BY <1>5, <2>3, <2>4 DEF TimePasses, InputsInv, SameContract
<1>6. CASE UNCHANGED vars
  BY <1>6 DEF vars, InputsInv, SameContract
<1> QED
  BY <1>1, <1>2, <1>3, <1>4, <1>5, <1>6 DEF Next

LEMMA InputsStay == Spec => []InputsInv
BY InitInputs, StepInputs, PTL DEF Spec

-----------------------------------------------------------------------------
(* Integer arithmetic *)

LEMMA DivisionBounds ==
  ASSUME NEW a \in Int, NEW b \in Nat \ {0}
  PROVE  a \div b \in Int /\ b * (a \div b) <= a /\ a < b * (a \div b) + b
OBVIOUS

LEMMA DivisionMonotone ==
  ASSUME NEW a \in Int, NEW b \in Int, a <= b, NEW d \in Nat \ {0}
  PROVE  a \div d <= b \div d
OBVIOUS

\* The larger the divisor, the smaller the share.
LEMMA DivisionAntitone ==
  ASSUME NEW a \in Nat, NEW d \in Nat \ {0}, NEW e \in Nat \ {0}, d <= e
  PROVE  a \div e <= a \div d
OBVIOUS

\* An amount rounded to the cent is half a cent off, at most.
LEMMA NearestBounds ==
  ASSUME NEW a \in Int
  PROVE  Nearest(a) \in Int /\ a - 50 <= 100 * Nearest(a) /\ 100 * Nearest(a) <= a + 50
BY DEF Nearest

LEMMA ProductMonotone ==
  ASSUME NEW a \in Int, NEW b \in Int, a <= b, NEW c \in Nat
  PROVE  a * c <= b * c
OBVIOUS

LEMMA NaturalProducts ==
  ASSUME NEW a \in Nat, NEW b \in Nat
  PROVE  a * b \in Nat /\ (a * b) \div 100 \in Nat
OBVIOUS

-----------------------------------------------------------------------------
(* The layers of a decision *)

PropertyRef(q) ==
  (PropertyReferencePrice(q.rate, q.factor) * BookingWindowFactor(q.days)) \div 100
MarketRef(q) == MarketReferencePrice(PropertyRef(q), q.discount)
Numerator(q, n) == q.costs + (q.perBooking \div n) - q.netting
Denominator(q) == 100 - q.p - q.margin
Floor(q, n) ==
  IF Denominator(q) = 0 THEN Numerator(q, n) * q.remainder * Huge
  ELSE Quotient(100 * Numerator(q, n), Denominator(q))

\* What decide_price() may be given.
Priceable(q) ==
  /\ q.costs \in Nat /\ q.perBooking \in Nat /\ q.netting \in Int
  /\ q.p \in Nat /\ q.margin \in 0 .. 99
  /\ q.rate \in Nat /\ q.factor \in 50 .. 200 /\ q.days \in Int /\ q.discount \in 0 .. 99
  /\ q.remainder \in Int

LEMMA DecisionParts ==
  ASSUME NEW q, NEW n
  PROVE  /\ DecidePrice(q, n).minimumPrice = Floor(q, n)
         /\ DecidePrice(q, n).propertyReference = PropertyRef(q)
         /\ DecidePrice(q, n).marketReference = MarketRef(q)
         /\ DecidePrice(q, n).rule =
              IF Floor(q, n) <= MarketRef(q) THEN "market_competitive"
              ELSE IF Floor(q, n) <= PropertyRef(q) THEN "minimum_floor"
              ELSE "minimum_profitable_price"
         /\ DecidePrice(q, n).suggested =
              IF Floor(q, n) <= MarketRef(q) THEN MarketRef(q) ELSE Floor(q, n)
<1>1. DecidePrice(q, n).minimumPrice = Floor(q, n)
  BY DEF DecidePrice, Floor, Numerator, Denominator
<1>2. /\ DecidePrice(q, n).propertyReference = PropertyRef(q)
      /\ DecidePrice(q, n).marketReference = MarketRef(q)
  BY DEF DecidePrice, PropertyRef, MarketRef
<1>3. LET guarded == ApplyGuardrails(Floor(q, n), MarketRef(q), PropertyRef(q))
      IN  /\ DecidePrice(q, n).rule = guarded.rule
          /\ DecidePrice(q, n).suggested = guarded.suggested
  BY DEF DecidePrice, Floor, Numerator, Denominator, PropertyRef, MarketRef
<1> DEFINE guarded == ApplyGuardrails(Floor(q, n), MarketRef(q), PropertyRef(q))
<1>4. guarded.rule =
        IF Floor(q, n) <= MarketRef(q) THEN "market_competitive"
        ELSE IF Floor(q, n) <= PropertyRef(q) THEN "minimum_floor"
        ELSE "minimum_profitable_price"
  BY DEF ApplyGuardrails
<1>5. guarded.suggested =
        IF guarded.rule = "market_competitive" THEN MarketRef(q) ELSE Floor(q, n)
  BY DEF ApplyGuardrails
<1>6. guarded.suggested = IF Floor(q, n) <= MarketRef(q) THEN MarketRef(q) ELSE Floor(q, n)
  <2> HIDE DEF guarded
  <2> QED
    BY <1>4, <1>5
<1> QED
  BY <1>1, <1>2, <1>3, <1>4, <1>6

LEMMA WindowFactors ==
  ASSUME NEW d \in Int
  PROVE  BookingWindowFactor(d) \in {92, 95, 97, 100}
<1> DEFINE left == Larger(d, 0)
<1>1. left \in Nat
  BY DEF Larger
<1>2. BookingWindowFactor(d) =
        CASE left >= 45 -> 100
          [] left >= 15 /\ left < 45 -> 97
          [] left >= 3 /\ left < 15 -> 100
          [] left >= 1 /\ left < 3 -> 95
          [] left < 1 -> 92
  BY DEF BookingWindowFactor
<1> HIDE DEF left
<1> QED
  BY <1>1, <1>2

LEMMA LayerTypes ==
  ASSUME NEW q, Priceable(q)
  PROVE  /\ PropertyRef(q) \in Nat /\ MarketRef(q) \in Nat
         /\ MarketRef(q) <= PropertyRef(q)
<1> DEFINE window == BookingWindowFactor(q.days)
           reference == PropertyReferencePrice(q.rate, q.factor)
           left == 100 - q.discount
<1>1. window \in Nat
  BY WindowFactors DEF Priceable
<1>2. reference \in Nat
  BY NaturalProducts DEF Priceable, PropertyReferencePrice
<1>3. PropertyRef(q) \in Nat
  <2> HIDE DEF window, reference
  <2>1. (reference * window) \div 100 \in Nat
    BY <1>1, <1>2, NaturalProducts
  <2> QED
    BY <2>1 DEF PropertyRef, window, reference
<1>4. left \in Nat /\ left <= 100
  BY DEF Priceable
<1> DEFINE price == PropertyRef(q)
<1>5. MarketRef(q) = (price * left) \div 100
  BY DEF MarketRef, MarketReferencePrice
<1> HIDE DEF left, price
<1>6. (price * left) \div 100 \in Nat /\ (price * left) \div 100 <= price
  <2>1. price \in Nat
    BY <1>3 DEF price
  <2>2. price * left <= price * 100
    BY <1>4, <2>1
  <2>3. (price * left) \div 100 \in Nat
    BY <1>4, <2>1, NaturalProducts
  <2> DEFINE product == price * left
  <2>4. product \in Nat /\ product <= price * 100
    BY <1>4, <2>1, <2>2, NaturalProducts
  <2> HIDE DEF product
  <2>5. product \div 100 <= price
    BY <2>1, <2>4
  <2> QED
    BY <2>3, <2>5 DEF product
<1> QED
  BY <1>3, <1>5, <1>6 DEF price

LEMMA FloorTypes ==
  ASSUME NEW q, Priceable(q), NEW n \in Nat \ {0}
  PROVE  Numerator(q, n) \in Int /\ Denominator(q) \in Int /\ Floor(q, n) \in Int
<1>1. q.perBooking \div n \in Int
  BY DivisionBounds DEF Priceable
<1>2. Numerator(q, n) \in Int /\ Denominator(q) \in Int
  BY <1>1 DEF Priceable, Numerator, Denominator
<1> DEFINE x == 100 * Numerator(q, n)
           y == Denominator(q)
<1>3. x \in Int /\ y \in Int
  BY <1>2
<1>4. y # 0 => Quotient(x, y) \in Int
  <2> HIDE DEF x, y
  <2>1. CASE y > 0
    <3>1. x \div y \in Int
      BY <1>3, <2>1, DivisionBounds
    <3> QED
      BY <2>1, <3>1 DEF Quotient
  <2>2. CASE y < 0
    <3>1. -y \in Nat \ {0} /\ -x \in Int /\ ~ (y > 0)
      BY <1>3, <2>2
    <3>2. (-x) \div (-y) \in Int
      BY <3>1, DivisionBounds
    <3> QED
      BY <3>1, <3>2 DEF Quotient
  <2> QED
    BY <1>3, <2>1, <2>2
<1>5. Numerator(q, n) * q.remainder * Huge \in Int
  <2> DEFINE a == Numerator(q, n)
             b == q.remainder
  <2>1. a \in Int /\ b \in Int /\ Huge \in Int
    BY <1>2, RemainderAssumption DEF Priceable
  <2> HIDE DEF a, b
  <2>2. a * b \in Int
    BY <2>1
  <2>3. a * b * Huge \in Int
    BY <2>1, <2>2
  <2> QED
    BY <2>3 DEF a, b
<1> QED
  BY <1>2, <1>4, <1>5 DEF Floor

\* What the floats leave of the whole price is known for every contract.
LEMMA RemainderTypes ==
  ASSUME NEW a \in Nat, NEW b \in Nat, NEW margin \in Nat
  PROVE  RemainderOf(a, b, margin) \in Int
<1>1. a + b + margin = 100 => a \in 0 .. 100 /\ b \in 0 .. 100
  OBVIOUS
<1>2. \A pair \in (0 .. 100) \X (0 .. 100) : Remainder[pair] \in Int
  BY RemainderAssumption
<1> QED
  BY <1>1, <1>2 DEF RemainderOf

-----------------------------------------------------------------------------
(* The sums of one contract *)

LEMMA ZeroSums ==
  ASSUME NEW S, IsFiniteSet(S)
  PROVE  IntSums([s \in SUBSET S |-> 0], [x \in S |-> 0], S)
<1> DEFINE F == [x \in S |-> 0]
           f == [s \in SUBSET S |-> 0]
<1>1. \A s \in SUBSET S : s # {} => Picked(s) \in s
  BY DEF Picked
<1>2. \A s \in SUBSET S : f[s] = IF s = {} THEN 0 ELSE F[Picked(s)] + f[s \ {Picked(s)}]
  BY <1>1
<1>3. Sums(f, F, S)
  BY <1>2 DEF Sums
<1> QED
  BY <1>3 DEF IntSums

\* Every base leaves an amount.
LEMMA NettedAmounts ==
  ASSUME NEW c \in CostRecord, NEW base \in RevenueBases
  PROVE  NettedRevenueBaseAmount(base, c) \in Int
<1>1. c.ota \in Int /\ c.cleaning \in Int /\ c.laundry \in Int /\ c.bookingScope \in Int
  BY DEF CostRecord
<1> QED
  BY <1>1 DEF NettedRevenueBaseAmount, RevenueBases

LEMMA RatesOf ==
  ASSUME NEW c \in CostRecord
  PROVE  /\ c.percentageCosts \subseteq PercentageCost
         /\ \A pc \in c.percentageCosts :
              /\ pc.rate \in Nat /\ pc.base \in RevenueBases
              /\ NettedRevenueBaseAmount(pc.base, c) \in Int
         /\ Rates(c.percentageCosts) \in [c.percentageCosts -> Int]
         /\ Netted(c.percentageCosts, c) \in [c.percentageCosts -> Int]
<1>1. c.percentageCosts \subseteq PercentageCost
  BY DEF CostRecord
<1>2. \A pc \in PercentageCost : pc.rate \in Nat /\ pc.base \in RevenueBases
  BY DEF PercentageCost
<1>3. \A pc \in c.percentageCosts :
        /\ pc.rate \in Nat /\ pc.base \in RevenueBases
        /\ NettedRevenueBaseAmount(pc.base, c) \in Int
  BY <1>1, <1>2, NettedAmounts
<1>4. ASSUME NEW pc \in c.percentageCosts
      PROVE  Nearest(pc.rate * NettedRevenueBaseAmount(pc.base, c)) \in Int
  <2> DEFINE r == pc.rate
             b == NettedRevenueBaseAmount(pc.base, c)
  <2>1. r \in Int /\ b \in Int
    BY <1>3
  <2> HIDE DEF r, b
  <2>2. Nearest(r * b) \in Int
    <3>1. r * b \in Int
      BY <2>1
    <3> QED
      BY <3>1, NearestBounds
  <2> QED
    BY <2>2 DEF r, b
<1> QED
  BY <1>1, <1>3, <1>4 DEF Rates, Netted

LEMMA RatesAreInts ==
  ASSUME InputsInv
  PROVE  /\ cost.percentageCosts \subseteq PercentageCost
         /\ \A pc \in cost.percentageCosts :
              /\ pc.rate \in Nat /\ pc.base \in RevenueBases
              /\ NettedRevenueBaseAmount(pc.base, cost) \in Int
         /\ Rates(cost.percentageCosts) \in [cost.percentageCosts -> Int]
         /\ Netted(cost.percentageCosts, cost) \in [cost.percentageCosts -> Int]
BY RatesOf DEF InputsInv

LEMMA RatesAddUp ==
  ASSUME InputsInv
  PROVE  /\ PercentageRates(cost) \in Nat
         /\ \E g : /\ IntSums(g, Rates(cost.percentageCosts), cost.percentageCosts)
                  /\ PercentageRates(cost) = g[cost.percentageCosts]
<1> DEFINE S == cost.percentageCosts
           G == Rates(S)
           Z == [x \in S |-> 0]
           z == [s \in SUBSET S |-> 0]
           h == [x \in S |-> x]
<1>1. IsFiniteSet(S) /\ G \in [S -> Int]
  BY RatesAreInts DEF InputsInv
<1>2. PICK g : IntSums(g, G, S)
  <2> HIDE DEF S, G
  <2> QED
    BY <1>1, SumsExist
<1>3. PercentageRates(cost) = g[S]
  <2>1. Sums(g, G, S)
    BY <1>2 DEF IntSums
  <2> QED
    BY <1>1, <2>1, PercentageRatesAdd
<1>4. IntSums(z, Z, S)
  BY <1>1, ZeroSums
<1>5. SumDominates(1, 0, g, z, S, z, h)
  <2>1. h \in [S -> S] /\ \A x, y \in S : h[x] = h[y] => x = y
    OBVIOUS
  <2>2. \A x \in S : Z[h[x]] <= 1 * G[x] - 100 * Z[x] + 0
    <3>1. \A x \in S : G[x] = x.rate /\ x.rate \in Nat
      BY RatesAreInts DEF Rates
    <3>2. \A x \in S : Z[h[x]] = 0 /\ Z[x] = 0
      OBVIOUS
    <3> HIDE DEF S, G, Z, h
    <3> QED
      BY <3>1, <3>2
  <2>3. Dominates(1, 0, G, Z, S, Z, h, S)
    BY <2>1, <2>2 DEF Dominates
  <2> HIDE DEF S, G, Z, z, h
  <2> QED
    BY ONLY <1>2, <1>4, <2>3, SumsBound
<1>6. g[S] \in Int /\ z[S] = 0 /\ z[{h[x] : x \in S}] = 0
  <2>1. g \in [SUBSET S -> Int]
    BY <1>2 DEF IntSums
  <2>2. {h[x] : x \in S} \in SUBSET S
    OBVIOUS
  <2> QED
    BY <2>1, <2>2
<1>7. g[S] \in Nat
  <2>1. Cardinality(S) \in Nat
    BY <1>1, FS_CardinalityType
  <2> HIDE DEF S, G, Z, z, h
  <2> QED
    BY <1>5, <1>6, <2>1 DEF SumDominates
<1> QED
  BY <1>2, <1>3, <1>7

LEMMA NettingAddsUp ==
  ASSUME InputsInv
  PROVE  \E n : /\ IntSums(n, Netted(cost.percentageCosts, cost), cost.percentageCosts)
               /\ Netting(cost) =
                    n[cost.percentageCosts]
                      + Nearest(cost.commissionPct
                                  * NettedRevenueBaseAmount(cost.commissionBase, cost))
<1> DEFINE S == cost.percentageCosts
           N == Netted(S, cost)
<1>1. IsFiniteSet(S) /\ N \in [S -> Int]
  BY RatesAreInts DEF InputsInv
<1>2. PICK n : IntSums(n, N, S)
  <2> HIDE DEF S, N
  <2> QED
    BY <1>1, SumsExist
<1>3. Sums(n, N, S)
  BY <1>2 DEF IntSums
<1> QED
  BY <1>1, <1>2, <1>3, NettingAdds

\* What is charged on a price: every percentage on the whole price, less what its
\* base leaves out.  h says which charge line stands for a percentage cost, n
\* what is netted for those, half what rounding makes too much of each.
StandsFor(h, price, half, N, P) ==
  /\ half \in Int
  /\ DOMAIN h = P /\ h = [x \in P |-> h[x]]
  /\ \A x, y \in P : h[x] = h[y] => x = y
  /\ \A x \in P :
       /\ h[x].concept # "owner_commission"
       /\ Charge(h[x], price) \in Int
       /\ Charge(h[x], price) <= price * x.rate - 100 * N[x] + half
ChargedAtMost(charges, price, limit) ==
  LET total == MapThenSumSet(LAMBDA pc : Charge(pc, price), charges)
  IN  total \in Int /\ total <= limit
Limit(price, pct, netting, over) ==
  price * (PercentageRates(cost) + pct) - 100 * netting + over
CommissionNetting(pct) ==
  Nearest(pct * NettedRevenueBaseAmount(cost.commissionBase, cost))
Over(half, P) == half * Cardinality(P) + 50

LEMMA ChargesBound ==
  ASSUME InputsInv, NEW price \in Int, NEW pct \in Nat,
         NEW N, NEW n, IntSums(n, N, cost.percentageCosts),
         NEW half, NEW h, StandsFor(h, price, half, N, cost.percentageCosts)
  PROVE  ChargedAtMost({h[x] : x \in cost.percentageCosts} \cup {Commission(pct)}, price,
                       Limit(price, pct, n[cost.percentageCosts] + CommissionNetting(pct),
                             Over(half, cost.percentageCosts)))
<1> DEFINE P == cost.percentageCosts
           lines == {h[x] : x \in P}
           line == Commission(pct)
           Q == lines \cup {line}
           F == Charged(Q, price)
           G == Rates(P)
           netted == NettedRevenueBaseAmount(cost.commissionBase, cost)
<1>0. /\ half \in Int
      /\ h = [x \in P |-> h[x]] /\ \A x, y \in P : h[x] = h[y] => x = y
      /\ \A x \in P :
           /\ h[x].concept # "owner_commission"
           /\ Charge(h[x], price) \in Int
           /\ Charge(h[x], price) <= price * x.rate - 100 * N[x] + half
  BY DEF StandsFor
<1>1. line \notin lines
  BY <1>0 DEF Commission
<1>2. netted \in Int
  <2>1. cost \in CostRecord /\ cost.commissionBase \in RevenueBases
    BY DEF InputsInv, CostRecord
  <2> QED
    BY <2>1, NettedAmounts
<1>3. Charge(line, price) = pct * (price - netted)
  BY DEF Charge, Commission
<1>4. IsFiniteSet(P) /\ IsFiniteSet(Q)
  <2>1. IsFiniteSet(P)
    BY DEF InputsInv
  <2>2. h \in Surjection(P, lines)
    <3>1. h \in [P -> lines]
      BY <1>0
    <3> QED
      BY <3>1 DEF Surjection
  <2>3. IsFiniteSet(lines)
    <3> HIDE DEF P, lines
    <3> QED
      BY <2>1, <2>2, FS_Surjection
  <2>4. IsFiniteSet(lines \cup {line})
    <3> HIDE DEF lines, line
    <3> QED
      BY <2>3, FS_AddElement
  <2> QED
    BY <2>1, <2>4
<1>5. F \in [Q -> Int]
  <2>1. \A pc \in lines : Charge(pc, price) \in Int
    BY <1>0
  <2>2. Charge(line, price) \in Int
    <3> HIDE DEF netted, line
    <3> QED
      BY <1>2, <1>3
  <2> HIDE DEF lines, line
  <2> QED
    BY <2>1, <2>2 DEF Charged
<1>6. PICK f : IntSums(f, F, Q)
  <2> HIDE DEF Q, F
  <2> QED
    BY <1>4, <1>5, SumsExist
<1>7. PICK g : IntSums(g, G, P) /\ PercentageRates(cost) = g[P]
  BY RatesAddUp
<1>8. MapThenSumSet(LAMBDA pc : Charge(pc, price), Q) = f[Q]
  <2>1. Sums(f, F, Q)
    BY <1>6 DEF IntSums
  <2> HIDE DEF Q
  <2> QED
    BY <1>4, <2>1, ChargesAdd
<1>9. f[Q] = F[line] + f[lines]
  <2>1. Removes(f, F, Q)
    <3> HIDE DEF Q, F
    <3> QED
      BY <1>6, SumsAdd
  <2>2. Q \ {line} = lines /\ line \in Q
    BY <1>1
  <2> HIDE DEF Q, F, line, lines
  <2> QED
    BY <2>1, <2>2 DEF Removes
<1>10. SumDominates(price, half, g, n, P, f, h)
  <2>1. \A x \in P : F[h[x]] = Charge(h[x], price)
    BY DEF Charged
  <2>2. \A x \in P : G[x] = x.rate
    BY DEF Rates
  <2>3. \A x \in P : F[h[x]] <= price * G[x] - 100 * N[x] + half
    BY <1>0, <2>1, <2>2
  <2>4. h \in [P -> Q]
    BY <1>0
  <2>5. Dominates(price, half, G, N, P, F, h, Q)
    <3> HIDE DEF F, G, Q, P
    <3> QED
      BY <1>0, <2>3, <2>4 DEF Dominates
  <2>6. IntSums(n, N, P) /\ IntSums(g, G, P)
    BY <1>7
  <2> HIDE DEF P, F, G, Q
  <2> QED
    BY ONLY <1>6, <2>5, <2>6, SumsBound
<1>11. F[line] = pct * (price - netted)
  BY <1>3 DEF Charged
<1>12. f[lines] \in Int /\ g[P] \in Int /\ n[P] \in Int /\ f[Q] \in Int
  <2>1. f \in [SUBSET Q -> Int] /\ g \in [SUBSET P -> Int] /\ n \in [SUBSET P -> Int]
    BY <1>6, <1>7 DEF IntSums
  <2>2. lines \in SUBSET Q /\ Q \in SUBSET Q /\ P \in SUBSET P
    OBVIOUS
  <2> HIDE DEF Q, P, lines
  <2> QED
    BY <2>1, <2>2
<1> DEFINE a == f[lines]
           b == g[P]
           c == n[P]
           share == Nearest(pct * netted)
           over == half * Cardinality(P)
<1>13. /\ a \in Int /\ b \in Int /\ c \in Int /\ share \in Int /\ over \in Int
       /\ a <= price * b - 100 * c + over
       /\ 100 * share <= pct * netted + 50
  <2>1. pct * netted \in Int
    BY <1>2
  <2>2. share \in Int /\ 100 * share <= pct * netted + 50
    <3> HIDE DEF netted
    <3> QED
      BY <2>1, NearestBounds
  <2>3. over \in Int
    <3>1. Cardinality(P) \in Nat
      BY <1>4, FS_CardinalityType
    <3> HIDE DEF P
    <3> QED
      BY <1>0, <3>1
  <2>4. a <= price * b - 100 * c + over
    BY <1>10 DEF SumDominates
  <2> HIDE DEF netted, share, over, a, b, c
  <2> QED
    BY <1>12, <2>2, <2>3, <2>4 DEF a, b, c
<1>14. pct * (price - netted) + a <= price * (b + pct) - 100 * (c + share) + (over + 50)
  <2> HIDE DEF a, b, c, share, netted, over
  <2>1. price * (b + pct) = price * b + price * pct
    BY <1>13, Distribute
  <2>2. pct * (price - netted) = price * pct - pct * netted
    BY <1>2
  <2>3. price * b \in Int /\ price * pct \in Int /\ pct * netted \in Int
    BY <1>2, <1>13
  <2> QED
    BY <1>13, <2>1, <2>2, <2>3
<1>15. f[Q] <= price * (PercentageRates(cost) + pct) - 100 * (n[P] + share) + (over + 50)
  <2>1. f[Q] = pct * (price - netted) + a
    <3>1. pct * (price - netted) \in Int
      BY <1>2
    <3> QED
      BY <1>9, <1>11, <1>12, <3>1
  <2>2. PercentageRates(cost) = b
    BY <1>7
  <2> HIDE DEF a, netted, Q, b, share, over
  <2> QED
    BY <1>14, <2>1, <2>2
<1> QED
  <2>1. CommissionNetting(pct) = share /\ Over(half, P) = over + 50
    BY DEF CommissionNetting, Over
  <2> HIDE DEF share, P, Q, over
  <2> QED
    BY <1>8, <1>12, <1>15, <2>1 DEF ChargedAtMost, Limit, P, Q

-----------------------------------------------------------------------------
(* The margin *)

LEMMA SuggestedCoversFloor ==
  ASSUME NEW q, Priceable(q), NEW n \in Nat \ {0}
  PROVE  /\ DecidePrice(q, n).suggested \in Int
         /\ DecidePrice(q, n).suggested >= Floor(q, n)
         /\ DecidePrice(q, n).suggested >= MarketRef(q)
<1> DEFINE floor == Floor(q, n)
           market == MarketRef(q)
           price == DecidePrice(q, n).suggested
<1>1. floor \in Int /\ market \in Int
  BY FloorTypes, LayerTypes
<1>2. price = IF floor <= market THEN market ELSE floor
  BY DecisionParts
<1> HIDE DEF floor, market, price
<1>3. price \in Int /\ price >= floor /\ price >= market
  BY <1>1, <1>2
<1> QED
  BY <1>3 DEF floor, market, price

\* The floor is the least price, to the cent, that leaves the margin.
LEMMA FloorEarns ==
  ASSUME NEW q, Priceable(q), NEW n \in Nat \ {0}, q.p + q.margin < 100,
         NEW price \in Int, Floor(q, n) <= price
  PROVE  /\ Denominator(q) \in 1 .. 100
         /\ 100 * Numerator(q, n) - 100 <= price * Denominator(q)
<1> DEFINE d == Denominator(q)
           x == 100 * Numerator(q, n)
<1>1. d \in 1 .. 100
  <2> DEFINE p == q.p
             margin == q.margin
  <2>1. p \in Nat /\ margin \in Nat /\ p + margin < 100 /\ d = 100 - p - margin
    BY DEF Denominator, Priceable
  <2> HIDE DEF p, margin, d
  <2> QED
    BY <2>1
<1>2. x \in Int
  BY FloorTypes
<1>3. Floor(q, n) = x \div d
  <2>1. d # 0 /\ d > 0
    BY <1>1
  <2> QED
    BY <2>1 DEF Floor, Quotient
<1> DEFINE m == x \div d
<1>4. m \in Int /\ x < d * m + d
  <2> HIDE DEF x, d
  <2> QED
    BY <1>1, <1>2, DivisionBounds
<1>5. m <= price
  BY <1>3
<1>6. x - 100 <= price * d
  <2> HIDE DEF x, d, m
  <2>1. m * d <= price * d
    BY <1>1, <1>4, <1>5, ProductMonotone
  <2>2. m * d = d * m /\ m * d \in Int /\ price * d \in Int
    BY <1>1, <1>4
  <2> QED
    BY <1>1, <1>2, <1>4, <2>1, <2>2
<1> QED
  BY <1>1, <1>6

\* A price above the floor of an input earns the margin of what the input says is
\* charged, at least.
LEMMA PriceEarns ==
  ASSUME NEW q, Priceable(q), NEW n \in Nat \ {0}, q.p + q.margin < 100,
         q.costs = cost.costs, q.perBooking = cost.perBooking, q.margin = cost.margin,
         NEW price \in Int, Floor(q, n) <= price, NEW charges, NEW netted \in Nat,
         MapThenSumSet(LAMBDA pc : Charge(pc, price), charges) \in Int,
         MapThenSumSet(LAMBDA pc : Charge(pc, price), charges)
           <= price * q.p - 100 * q.netting + 50 * netted
  PROVE  EarnsMargin(price, n, charges, netted)
<1> DEFINE total == MapThenSumSet(LAMBDA pc : Charge(pc, price), charges)
           d == Denominator(q)
           share == q.perBooking \div n
           earned == 100 * price - total - 100 * q.costs - 100 * share - q.margin * price
<1>1. d = 100 - q.p - q.margin /\ 100 * Numerator(q, n) - 100 <= price * d
  BY FloorEarns DEF Denominator
<1>2. Numerator(q, n) = q.costs + share - q.netting
  BY DEF Numerator
<1>3. total \in Int /\ total <= price * q.p - 100 * q.netting + 50 * netted
  OBVIOUS
<1>4. /\ q.costs \in Int /\ q.netting \in Int /\ q.p \in Int /\ q.margin \in Int
      /\ share \in Int
  <2>1. q.costs \in Int /\ q.netting \in Int /\ q.p \in Int /\ q.margin \in Int
    BY DEF Priceable
  <2>2. q.perBooking \in Int
    BY DEF Priceable
  <2>3. share \in Int
    BY <2>2, DivisionBounds
  <2> QED
    BY <2>1, <2>3
<1>5. earned >= -(100 + 50 * netted)
  <2> DEFINE costs == q.costs
             netting == q.netting
             p == q.p
             margin == q.margin
             rated == price * p
             kept == price * margin
  <2>1. /\ costs \in Int /\ netting \in Int /\ p \in Int /\ margin \in Int
        /\ 100 * (costs + share - netting) - 100 <= price * (100 - p - margin)
        /\ total \in Int /\ total <= price * p - 100 * netting + 50 * netted
        /\ earned = 100 * price - total - 100 * costs - 100 * share - margin * price
    BY <1>1, <1>2, <1>3, <1>4
  <2> HIDE DEF costs, netting, p, margin, share, total, earned, d
  <2>2. price * (100 - p - margin) = 100 * price - rated - kept
    BY <2>1
  <2>3. rated \in Int /\ kept \in Int /\ margin * price = kept
    BY <2>1
  <2>4. /\ 100 * (costs + share - netting) - 100 <= 100 * price - rated - kept
        /\ total <= rated - 100 * netting + 50 * netted
        /\ earned = 100 * price - total - 100 * costs - 100 * share - kept
    BY <2>1, <2>2, <2>3
  <2> HIDE DEF rated, kept
  <2> QED
    BY <1>4, <2>1, <2>3, <2>4
<1>6. 100 * price - total - 100 * cost.costs - 100 * (cost.perBooking \div n)
        - cost.margin * price >= -(100 + 50 * netted)
  BY <1>5
<1> QED
  BY <1>6 DEF EarnsMargin, Rounding

LEMMA InputIsPriceable ==
  ASSUME InputsInv
  PROVE  /\ Priceable(Input)
         /\ Input.costs = cost.costs /\ Input.perBooking = cost.perBooking
         /\ Input.margin = cost.margin /\ Input.netting = Netting(cost)
         /\ Input.p = PercentageRates(cost) + cost.commissionPct
         /\ Input.rate = rate /\ Input.factor = cost.factor
         /\ Input.discount = cost.discount /\ Input.days = days
         /\ PercentageRates(cost) \in Nat /\ cost.commissionPct \in Nat
<1>1. PercentageRates(cost) \in Nat
  BY RatesAddUp
<1>2. Netting(cost) \in Int
  <2> DEFINE pct == cost.commissionPct
             netted == NettedRevenueBaseAmount(cost.commissionBase, cost)
  <2>1. PICK n : /\ IntSums(n, Netted(cost.percentageCosts, cost), cost.percentageCosts)
                 /\ Netting(cost) = n[cost.percentageCosts] + Nearest(pct * netted)
    BY NettingAddsUp
  <2>2. cost \in CostRecord /\ cost.commissionBase \in RevenueBases /\ pct \in Int
    BY DEF InputsInv, CostRecord
  <2>3. netted \in Int
    BY <2>2, NettedAmounts
  <2>4. n[cost.percentageCosts] \in Int
    <3>1. n \in [SUBSET cost.percentageCosts -> Int]
      BY <2>1 DEF IntSums
    <3> QED
      BY <3>1
  <2> HIDE DEF pct, netted
  <2>5. Nearest(pct * netted) \in Int
    <3>1. pct * netted \in Int
      BY <2>2, <2>3
    <3> QED
      BY <3>1, NearestBounds
  <2> QED
    BY <2>1, <2>4, <2>5
<1>3. /\ cost.costs \in Nat /\ cost.perBooking \in Nat /\ cost.margin \in 0 .. 99
      /\ cost.factor \in 50 .. 200 /\ cost.discount \in 0 .. 99
      /\ cost.commissionPct \in Nat /\ rate \in Nat /\ days \in Int
  BY DEF InputsInv, CostRecord
<1>4. /\ Input.costs = cost.costs /\ Input.perBooking = cost.perBooking
      /\ Input.margin = cost.margin /\ Input.netting = Netting(cost)
      /\ Input.p = PercentageRates(cost) + cost.commissionPct
      /\ Input.rate = rate /\ Input.factor = cost.factor
      /\ Input.discount = cost.discount /\ Input.days = days
  BY DEF Input, PricingInput
<1>5. PercentageRates(cost) + cost.commissionPct \in Nat
  BY <1>1, <1>3
<1>r. Input.remainder \in Int
  <2>1. Input.remainder =
          RemainderOf(PercentageRates(cost) + cost.commissionPct, 0, cost.margin)
    BY DEF Input, PricingInput
  <2>2. cost.margin \in Nat
    BY <1>3
  <2> QED
    BY <1>5, <2>1, <2>2, RemainderTypes
<1>6. Priceable(Input)
  <2> HIDE DEF Input
  <2> QED
    BY <1>2, <1>3, <1>4, <1>5, <1>r DEF Priceable
<1> QED
  BY <1>1, <1>3, <1>4, <1>6

LEMMA StaysEarn == InputsInv => SuggestedPriceEarnsMargin
<1> SUFFICES ASSUME InputsInv, HasFloor(PercentageRates(cost) + cost.commissionPct),
                    NEW k \in LosCandidates
             PROVE  EarnsMargin(LosMatrix[k].suggested, k,
                                cost.percentageCosts \cup {Commission(cost.commissionPct)},
                                Cardinality(cost.percentageCosts) + 1)
  BY DEF SuggestedPriceEarnsMargin
<1> DEFINE P == cost.percentageCosts
           pct == cost.commissionPct
           price == DecidePrice(Input, k).suggested
           netted == NettedRevenueBaseAmount(cost.commissionBase, cost)
           h == [x \in P |-> x]
           N == Netted(P, cost)
           charges == P \cup {Commission(pct)}
           lines == Cardinality(P) + 1
           total == MapThenSumSet(LAMBDA pc : Charge(pc, price), charges)
<1>1. k \in Nat \ {0} /\ LosMatrix[k].suggested = price
  BY DEF LosCandidates, LosMatrix, DecidePriceLosMatrix
<1>2. price \in Int /\ Floor(Input, k) <= price
  <2>1. price \in Int /\ Floor(Input, k) \in Int /\ price >= Floor(Input, k)
    BY <1>1, InputIsPriceable, SuggestedCoversFloor, FloorTypes
  <2> HIDE DEF price
  <2> QED
    BY <2>1
<1>3. PICK n : IntSums(n, N, P) /\ Netting(cost) = n[P] + Nearest(pct * netted)
  BY NettingAddsUp
<1>4. /\ h \in [P -> P] /\ \A x, y \in P : h[x] = h[y] => x = y
      /\ {h[x] : x \in P} = P
  OBVIOUS
<1>5. ASSUME NEW x \in P
      PROVE  /\ h[x].concept # "owner_commission"
             /\ Charge(h[x], price) \in Int
             /\ Charge(h[x], price) <= price * x.rate - 100 * N[x] + 50
  <2>1. x.concept # "owner_commission"
    BY RatesAreInts DEF PercentageCost
  <2> DEFINE r == x.rate
             b == NettedRevenueBaseAmount(x.base, cost)
  <2>2. r \in Nat /\ b \in Int
    BY RatesAreInts
  <2>3. Charge(x, price) = r * (price - b) /\ N[x] = Nearest(r * b)
    BY DEF Charge, Netted
  <2>4. /\ r * (price - b) \in Int
        /\ r * (price - b) <= price * r - 100 * Nearest(r * b) + 50
    <3> HIDE DEF r, b, price
    <3>1. r * (price - b) = price * r - r * b /\ r * b \in Int /\ price * r \in Int
      BY <1>2, <2>2
    <3>2. 100 * Nearest(r * b) <= r * b + 50 /\ Nearest(r * b) \in Int
      BY <3>1, NearestBounds
    <3> QED
      BY <3>1, <3>2
  <2>5. h[x] = x /\ x.rate = r
    OBVIOUS
  <2> HIDE DEF price, r, b, N, h
  <2> QED
    BY <2>1, <2>3, <2>4, <2>5
<1>6. ChargedAtMost(charges, price, Limit(price, pct, Netting(cost), Over(50, P)))
  <2>1. pct \in Nat
    BY InputIsPriceable
  <2>2. StandsFor(h, price, 50, N, P)
    <3>1. h = [x \in P |-> h[x]] /\ DOMAIN h = P
      OBVIOUS
    <3> HIDE DEF h, price, N, P
    <3> QED
      BY <1>4, <1>5, <3>1 DEF StandsFor
  <2>3. ChargedAtMost({h[x] : x \in P} \cup {Commission(pct)}, price,
                      Limit(price, pct, n[P] + CommissionNetting(pct), Over(50, P)))
    <3> HIDE DEF price, h, N, pct
    <3> QED
      BY <1>2, <1>3, <2>1, <2>2, ChargesBound
  <2>4. Netting(cost) = n[P] + CommissionNetting(pct)
    BY <1>3 DEF CommissionNetting
  <2> HIDE DEF price, h
  <2> QED
    BY <1>4, <2>3, <2>4
<1>n. lines \in Nat /\ Over(50, P) = 50 * lines
  <2>1. Cardinality(P) \in Nat
    BY FS_CardinalityType DEF InputsInv
  <2> HIDE DEF P
  <2> QED
    BY <2>1 DEF Over
<1>7. /\ Input.p + Input.margin < 100
      /\ total \in Int /\ total <= price * Input.p - 100 * Input.netting + 50 * lines
  <2>1. Input.p + Input.margin < 100
    BY InputIsPriceable DEF HasFloor
  <2>2. Limit(price, pct, Netting(cost), Over(50, P))
        = price * Input.p - 100 * Input.netting + 50 * lines
    BY <1>n, InputIsPriceable DEF Limit
  <2>3. total \in Int /\ total <= Limit(price, pct, Netting(cost), Over(50, P))
    BY <1>6 DEF ChargedAtMost
  <2> HIDE DEF price, total, lines
  <2> QED
    BY <2>1, <2>2, <2>3
<1>8. EarnsMargin(price, k, charges, lines)
  <2> HIDE DEF price, charges, lines
  <2> QED
    BY <1>1, <1>2, <1>n, <1>7, InputIsPriceable, PriceEarns DEF charges
<1> QED
  BY <1>1, <1>8

\* The input of a channel's candidate.
ChannelInput(ch) ==
  [Input EXCEPT !.rate = channelRates[ch],
                !.p = PercentageRates(cost) + ChannelCommissionPct[ch],
                !.remainder = RemainderOf(PercentageRates(cost),
                                          ChannelCommissionPct[ch], Input.margin),
                !.netting = CommissionNetting(ChannelCommissionPct[ch])]

LEMMA ChannelInputIsPriceable ==
  ASSUME InputsInv, NEW ch \in DOMAIN channelRates
  PROVE  /\ Priceable(ChannelInput(ch))
         /\ ChannelInput(ch).costs = cost.costs
         /\ ChannelInput(ch).perBooking = cost.perBooking
         /\ ChannelInput(ch).margin = cost.margin
         /\ ChannelInput(ch).netting = CommissionNetting(ChannelCommissionPct[ch])
         /\ ChannelInput(ch).p = PercentageRates(cost) + ChannelCommissionPct[ch]
         /\ ChannelCommissionPct[ch] \in Nat
         /\ ChannelCandidates[ch] = DecidePrice(ChannelInput(ch), 1)
<1> DEFINE pct == ChannelCommissionPct[ch]
           netted == NettedRevenueBaseAmount(cost.commissionBase, cost)
<1>1. pct \in Nat /\ channelRates[ch] \in Nat
  <2>1. ch \in DOMAIN ChannelCommissionPct /\ channelRates[ch] \in Nat
    BY DEF InputsInv
  <2> QED
    BY <2>1 DEF ChannelCommissionPct
<1>2. CommissionNetting(pct) \in Int
  <2>1. cost \in CostRecord /\ cost.commissionBase \in RevenueBases
    BY DEF InputsInv, CostRecord
  <2>2. netted \in Int
    BY <2>1, NettedAmounts
  <2> HIDE DEF netted, pct
  <2>3. Nearest(pct * netted) \in Int
    <3>1. pct * netted \in Int
      BY <1>1, <2>2
    <3> QED
      BY <3>1, NearestBounds
  <2> QED
    BY <2>3 DEF CommissionNetting, netted
<1>3. /\ ChannelInput(ch).costs = Input.costs /\ ChannelInput(ch).perBooking = Input.perBooking
      /\ ChannelInput(ch).margin = Input.margin /\ ChannelInput(ch).factor = Input.factor
      /\ ChannelInput(ch).days = Input.days /\ ChannelInput(ch).discount = Input.discount
      /\ ChannelInput(ch).rate = channelRates[ch]
      /\ ChannelInput(ch).p = PercentageRates(cost) + pct
      /\ ChannelInput(ch).netting = CommissionNetting(pct)
      /\ ChannelInput(ch).remainder = RemainderOf(PercentageRates(cost), pct, Input.margin)
  BY DEF ChannelInput, Input, PricingInput
<1>4. ChannelCandidates[ch] = DecidePrice(ChannelInput(ch), 1)
  BY DEF ChannelCandidates, DecidePriceByChannel, ChannelInput, CommissionNetting
<1>5. PercentageRates(cost) + pct \in Nat
  <2> HIDE DEF pct
  <2> QED
    BY <1>1, InputIsPriceable
<1>r. ChannelInput(ch).remainder \in Int
  <2>1. PercentageRates(cost) \in Nat /\ Input.margin \in Nat
    BY InputIsPriceable DEF Priceable
  <2> HIDE DEF pct
  <2> QED
    BY <1>1, <1>3, <2>1, RemainderTypes
<1>6. Priceable(ChannelInput(ch))
  <2> HIDE DEF pct
  <2> QED
    BY <1>1, <1>2, <1>3, <1>5, <1>r, InputIsPriceable DEF Priceable
<1> QED
  BY <1>1, <1>3, <1>4, <1>6, InputIsPriceable

LEMMA ChannelsEarn == InputsInv => ChannelPriceEarnsMargin
<1> SUFFICES ASSUME InputsInv, NEW ch \in DOMAIN channelRates,
                    HasFloor(PercentageRates(cost) + ChannelCommissionPct[ch])
             PROVE  EarnsMargin(ChannelCandidates[ch].suggested, 1,
                                {[pc EXCEPT !.base = "total_revenue"] :
                                   pc \in cost.percentageCosts}
                                \cup {Commission(ChannelCommissionPct[ch])}, 1)
  BY DEF ChannelPriceEarnsMargin
<1> DEFINE P == cost.percentageCosts
           pct == ChannelCommissionPct[ch]
           q == ChannelInput(ch)
           price == DecidePrice(q, 1).suggested
           h == [x \in P |-> [x EXCEPT !.base = "total_revenue"]]
           N == [x \in P |-> 0]
           n == [s \in SUBSET P |-> 0]
           charges == {h[x] : x \in P} \cup {Commission(pct)}
           total == MapThenSumSet(LAMBDA pc : Charge(pc, price), charges)
<1>1. 1 \in Nat \ {0} /\ ChannelCandidates[ch].suggested = price
  BY ChannelInputIsPriceable
<1>2. price \in Int /\ Floor(q, 1) <= price
  <2>1. price \in Int /\ Floor(q, 1) \in Int /\ price >= Floor(q, 1)
    BY <1>1, ChannelInputIsPriceable, SuggestedCoversFloor, FloorTypes
  <2> HIDE DEF price
  <2> QED
    BY <2>1
<1>3. IntSums(n, N, P)
  BY ZeroSums DEF InputsInv
<1>4. P \subseteq PercentageCost /\ OnePerConcept(P)
  BY RatesAreInts DEF InputsInv
<1>5. ASSUME NEW x \in P
      PROVE  /\ h[x].concept = x.concept /\ h[x].concept # "owner_commission"
             /\ h[x].rate = x.rate /\ h[x].base = "total_revenue"
  BY <1>4 DEF PercentageCost
<1>6. \A x, y \in P : h[x] = h[y] => x = y
  <2> HIDE DEF h
  <2> QED
    BY <1>4, <1>5 DEF OnePerConcept
<1>7. ASSUME NEW x \in P
      PROVE  /\ Charge(h[x], price) \in Int
             /\ Charge(h[x], price) <= price * x.rate - 100 * N[x] + 0
  <2> DEFINE r == x.rate
  <2>1. r \in Nat /\ N[x] = 0
    BY RatesAreInts
  <2>2. Charge(h[x], price) = r * (price - 0)
    <3> HIDE DEF h
    <3> QED
      BY <1>5 DEF Charge, NettedRevenueBaseAmount
  <2>3. r * (price - 0) \in Int /\ r * (price - 0) <= price * r - 100 * 0 + 0
    <3> HIDE DEF r, price
    <3> QED
      BY <1>2, <2>1
  <2>4. x.rate = r
    OBVIOUS
  <2> HIDE DEF price, r, N, h
  <2> QED
    BY <2>1, <2>2, <2>3, <2>4
<1>8. StandsFor(h, price, 0, N, P)
  <2>1. h = [x \in P |-> h[x]] /\ DOMAIN h = P
    OBVIOUS
  <2>2. \A x \in P : h[x].concept # "owner_commission"
    BY <1>5
  <2> HIDE DEF h, price, N, P
  <2> QED
    BY <1>6, <1>7, <2>1, <2>2 DEF StandsFor
<1>9. ChargedAtMost(charges, price, Limit(price, pct, CommissionNetting(pct), Over(0, P)))
  <2>1. pct \in Nat /\ CommissionNetting(pct) \in Int
    BY ChannelInputIsPriceable DEF Priceable
  <2>2. ChargedAtMost(charges, price,
                      Limit(price, pct, n[P] + CommissionNetting(pct), Over(0, P)))
    <3> HIDE DEF price, h, N, n, pct
    <3> QED
      BY <1>2, <1>3, <1>8, <2>1, ChargesBound
  <2>3. n[P] = 0
    OBVIOUS
  <2>4. n[P] + CommissionNetting(pct) = CommissionNetting(pct)
    <3> HIDE DEF n
    <3> QED
      BY <2>1, <2>3
  <2> HIDE DEF price, h, n, charges
  <2> QED
    BY <2>2, <2>4
<1>n. Over(0, P) = 50 * 1
  <2>1. Cardinality(P) \in Nat
    BY FS_CardinalityType DEF InputsInv
  <2> HIDE DEF P
  <2> QED
    BY <2>1 DEF Over
<1>10. /\ q.p + q.margin < 100
       /\ total \in Int /\ total <= price * q.p - 100 * q.netting + 50 * 1
  <2>1. q.p + q.margin < 100
    BY ChannelInputIsPriceable DEF HasFloor
  <2>2. Limit(price, pct, CommissionNetting(pct), Over(0, P))
        = price * q.p - 100 * q.netting + 50 * 1
    BY <1>n, ChannelInputIsPriceable DEF Limit
  <2>3. total \in Int /\ total <= Limit(price, pct, CommissionNetting(pct), Over(0, P))
    BY <1>9 DEF ChargedAtMost
  <2> HIDE DEF price, total, q
  <2> QED
    BY <2>1, <2>2, <2>3
<1>11. EarnsMargin(price, 1, charges, 1)
  <2> HIDE DEF price, charges, q
  <2> QED
    BY <1>1, <1>2, <1>10, ChannelInputIsPriceable, PriceEarns DEF charges, q
<1>12. {[pc EXCEPT !.base = "total_revenue"] : pc \in P} = {h[x] : x \in P}
  OBVIOUS
<1> QED
  BY <1>1, <1>11, <1>12

\* Whatever an apartment is sold as, for any stay and on any channel, with any
\* number of percentage costs on any bases: as long as the percentages leave
\* room for a floor, the price covers every charge and the margin (ADR-0013),
\* but for a cent and half a cent of every amount that is netted and rounded.
THEOREM MarginIsEarned == Spec => []PricesEarnMargin
<1>1. InputsInv => PricesEarnMargin
  BY StaysEarn, ChannelsEarn DEF PricesEarnMargin
<1> QED
  BY <1>1, InputsStay, PTL

-----------------------------------------------------------------------------
(* The recommended stay *)

\* A longer stay has the smaller share of the booking's costs, so the lower floor.
LEMMA FloorFalls ==
  ASSUME NEW q, Priceable(q), q.p + q.margin < 100,
         NEW n \in Nat \ {0}, NEW m \in Nat \ {0}, n <= m
  PROVE  Floor(q, m) <= Floor(q, n)
<1> DEFINE x == 100 * Numerator(q, n)
           y == 100 * Numerator(q, m)
           d == Denominator(q)
<1>1. d \in Nat \ {0}
  BY DEF Denominator, Priceable
<1>2. x \in Int /\ y \in Int /\ y <= x
  <2> DEFINE a == q.perBooking \div n
             b == q.perBooking \div m
  <2>1. a \in Int /\ b \in Int /\ b <= a
    <3>1. q.perBooking \in Nat
      BY DEF Priceable
    <3>2. b <= a
      BY <3>1, DivisionAntitone
    <3> QED
      BY <3>1, <3>2, DivisionBounds
  <2>2. /\ Numerator(q, n) = q.costs + a - q.netting
        /\ Numerator(q, m) = q.costs + b - q.netting
    BY DEF Numerator
  <2>3. q.costs \in Int /\ q.netting \in Int
    BY DEF Priceable
  <2> HIDE DEF a, b
  <2> QED
    BY <2>1, <2>2, <2>3
<1>3. Floor(q, n) = x \div d /\ Floor(q, m) = y \div d
  BY <1>1 DEF Floor, Quotient
<1> HIDE DEF x, y, d
<1> QED
  BY <1>1, <1>2, <1>3, DivisionMonotone

LEMMA LeastCandidate ==
  ASSUME NEW S \in SUBSET LosCandidates, S # {}
  PROVE  Min(S) \in S /\ \A n \in S : Min(S) <= n
<1>1. \E m \in S : \A n \in S : m <= n
  <2>1. CASE 1 \in S
    BY <2>1 DEF LosCandidates
  <2>2. CASE 1 \notin S /\ 2 \in S
    BY <2>2 DEF LosCandidates
  <2>3. CASE 1 \notin S /\ 2 \notin S /\ 3 \in S
    BY <2>3 DEF LosCandidates
  <2>4. CASE 1 \notin S /\ 2 \notin S /\ 3 \notin S /\ 7 \in S
    BY <2>4 DEF LosCandidates
  <2>5. CASE 1 \notin S /\ 2 \notin S /\ 3 \notin S /\ 7 \notin S
    <3>1. S = {14}
      BY <2>5 DEF LosCandidates
    <3> QED
      BY <3>1
  <2> QED
    BY <2>1, <2>2, <2>3, <2>4, <2>5
<1> QED
  BY <1>1 DEF Min

\* The stays whose floor is within the property reference, and the least of them.
WithinReference(q) == {n \in LosCandidates : Floor(q, n) <= PropertyRef(q)}

LEMMA RulesOfStays ==
  ASSUME NEW q, Priceable(q)
  PROVE  /\ \A n \in LosCandidates :
              DecidePriceLosMatrix(q)[n].rule = "minimum_profitable_price"
                <=> n \notin WithinReference(q)
         /\ RecommendMinimumStay(DecidePriceLosMatrix(q)) =
              IF WithinReference(q) = {} THEN None ELSE Min(WithinReference(q))
<1> DEFINE matrix == DecidePriceLosMatrix(q)
<1>1. ASSUME NEW n \in LosCandidates
      PROVE  matrix[n].rule = "minimum_profitable_price" <=> n \notin WithinReference(q)
  <2> DEFINE floor == Floor(q, n)
             market == MarketRef(q)
             reference == PropertyRef(q)
             rule == DecidePrice(q, n).rule
  <2>1. matrix[n].rule = rule
    BY DEF DecidePriceLosMatrix
  <2>2. floor \in Int /\ market \in Int /\ reference \in Int /\ market <= reference
    <3>1. n \in Nat \ {0}
      BY DEF LosCandidates
    <3> QED
      BY <3>1, FloorTypes, LayerTypes
  <2>3. rule = IF floor <= market THEN "market_competitive"
               ELSE IF floor <= reference THEN "minimum_floor"
               ELSE "minimum_profitable_price"
    BY DecisionParts
  <2>4. n \in WithinReference(q) <=> floor <= reference
    BY DEF WithinReference
  <2> HIDE DEF matrix, floor, market, reference, rule
  <2>5. rule = "minimum_profitable_price" <=> ~ (floor <= reference)
    BY <2>2, <2>3
  <2> QED
    BY <2>1, <2>4, <2>5
<1>2. DOMAIN matrix = LosCandidates
  BY DEF DecidePriceLosMatrix
<1> HIDE DEF matrix
<1>3. {n \in DOMAIN matrix : matrix[n].rule # "minimum_profitable_price"} = WithinReference(q)
  BY <1>1, <1>2 DEF WithinReference
<1> QED
  BY <1>1, <1>3 DEF RecommendMinimumStay, matrix

LEMMA RecommendedStay ==
  ASSUME NEW q, Priceable(q)
  PROVE  LET stay == RecommendMinimumStay(DecidePriceLosMatrix(q))
         IN  /\ stay = None <=> WithinReference(q) = {}
             /\ stay # None => /\ stay \in WithinReference(q)
                              /\ \A n \in WithinReference(q) : stay <= n
<1> DEFINE S == WithinReference(q)
           stay == RecommendMinimumStay(DecidePriceLosMatrix(q))
<1>1. stay = IF S = {} THEN None ELSE Min(S)
  BY RulesOfStays
<1>2. S \in SUBSET LosCandidates
  BY DEF WithinReference
<1> HIDE DEF S, stay
<1>3. S # {} => Min(S) \in S /\ \A n \in S : Min(S) <= n
  BY <1>2, LeastCandidate
<1>4. S # {} => Min(S) # None
  <2>1. None \notin LosCandidates
    BY QuoteAssumption DEF LosCandidates
  <2> QED
    BY <1>2, <1>3, <2>1
<1>5. /\ stay = None <=> S = {}
      /\ stay # None => stay \in S /\ \A n \in S : stay <= n
  BY <1>1, <1>3, <1>4
<1> QED
  BY <1>5 DEF S, stay

LEMMA StayThreshold == InputsInv => MinimumStayIsTheThreshold
<1> SUFFICES ASSUME InputsInv, HasFloor(PercentageRates(cost) + cost.commissionPct),
                    NEW n \in LosCandidates
             PROVE  LosMatrix[n].rule = "minimum_profitable_price"
                      <=> MinimumStay = None \/ (MinimumStay # None /\ n < MinimumStay)
  BY DEF MinimumStayIsTheThreshold
<1> DEFINE S == WithinReference(Input)
<1>1. Priceable(Input) /\ Input.p + Input.margin < 100
  BY InputIsPriceable DEF HasFloor
<1>2. LosMatrix[n].rule = "minimum_profitable_price" <=> n \notin S
  BY <1>1, RulesOfStays DEF LosMatrix
<1>3. /\ MinimumStay = None <=> S = {}
      /\ MinimumStay # None => /\ MinimumStay \in S
                               /\ \A m \in S : MinimumStay <= m
  BY <1>1, RecommendedStay DEF MinimumStay, LosMatrix
<1>4. S \subseteq Nat \ {0} /\ n \in Nat \ {0}
  BY DEF WithinReference, LosCandidates
<1>5. ASSUME NEW m \in S, m <= n
      PROVE  n \in S
  <2> DEFINE longer == Floor(Input, n)
             shorter == Floor(Input, m)
             reference == PropertyRef(Input)
  <2>1. longer <= shorter
    BY <1>1, <1>4, <1>5, FloorFalls
  <2>2. shorter <= reference
    BY DEF WithinReference
  <2>3. longer \in Int /\ shorter \in Int /\ reference \in Int
    BY <1>1, <1>4, FloorTypes, LayerTypes
  <2>4. longer <= reference
    <3> HIDE DEF longer, shorter, reference
    <3> QED
      BY <2>1, <2>2, <2>3
  <2> QED
    BY <2>4 DEF WithinReference
<1> DEFINE stay == MinimumStay
<1> HIDE DEF S
<1>6. CASE stay = None
  BY <1>2, <1>3, <1>6
<1>7. CASE stay # None
  <2>1. stay \in S /\ stay \in Nat
    BY <1>3, <1>4, <1>7
  <2>2. n \in S => stay <= n
    BY <1>3, <1>7
  <2>3. stay <= n => n \in S
    BY <1>5, <2>1
  <2> HIDE DEF stay
  <2>4. n \notin S <=> n < stay
    BY <1>4, <2>1, <2>2, <2>3
  <2> QED
    BY <1>2, <1>7, <2>4 DEF stay
<1> QED
  BY <1>6, <1>7

\* engine.py l.222-230: the stays priced out of the property reference are the
\* ones shorter than the recommended stay, and every one of them when none is
\* recommended.
THEOREM StayIsTheThreshold == Spec => []MinimumStayIsTheThreshold
BY StayThreshold, InputsStay, PTL

-----------------------------------------------------------------------------
(* The levers *)

\* The rule of a candidate says whether its floor is within its market reference.
LEMMA CompetitiveRules ==
  ASSUME NEW q, NEW n
  PROVE  DecidePrice(q, n).rule = "market_competitive"
           <=> DecidePrice(q, n).minimumPrice <= DecidePrice(q, n).marketReference
<1>1. /\ "minimum_floor" # "market_competitive"
      /\ "minimum_profitable_price" # "market_competitive"
  OBVIOUS
<1> QED
  BY <1>1, DecisionParts

\* What a status means of the arguments it is classified from.
LEMMA StatusMeans ==
  ASSUME NEW rule, NEW below, NEW minStay, NEW anyChannel \in BOOLEAN, NEW streak
  PROVE  LET status == ClassifyViability(rule, below, minStay, anyChannel, FALSE, streak)
             pulled == minStay # None /\ minStay > 1
         IN  /\ status = "min_stay_lever_available" =>
                    rule # "market_competitive" /\ pulled
             /\ status = "channel_lever_available" =>
                    rule # "market_competitive" /\ anyChannel
             /\ status = "floor_binding" =>
                    rule # "market_competitive" /\ ~pulled /\ ~anyChannel
             /\ status \in {"ok", "demand_upside"} => rule = "market_competitive"
             /\ status # "persistent_floor_breach" =>
                    ~ (streak >= PersistentBreachThresholdDays)
<1> DEFINE status == ClassifyViability(rule, below, minStay, anyChannel, FALSE, streak)
           late == streak >= PersistentBreachThresholdDays
           pulled == minStay # None /\ minStay > 1
           upside == below <= 0
<1>1. status = IF late THEN "persistent_floor_breach"
               ELSE IF rule = "market_competitive"
               THEN IF upside THEN "demand_upside" ELSE "ok"
               ELSE IF pulled THEN "min_stay_lever_available"
               ELSE IF anyChannel THEN "channel_lever_available"
               ELSE "floor_binding"
  BY DEF ClassifyViability
<1> HIDE DEF status, late, pulled, upside
<1>2. CASE late
  BY <1>1, <1>2 DEF status, late, pulled
<1>3. CASE ~late /\ rule = "market_competitive"
  BY <1>1, <1>3 DEF status, late, pulled
<1>4. CASE ~late /\ rule # "market_competitive" /\ pulled
  BY <1>1, <1>4 DEF status, late, pulled
<1>5. CASE ~late /\ rule # "market_competitive" /\ ~pulled
  BY <1>1, <1>5 DEF status, late, pulled
<1> QED
  BY <1>2, <1>3, <1>4, <1>5

LEMMA LeversFound == InputsInv => LeversWork
<1> SUFFICES ASSUME InputsInv
             PROVE  LeversWork
  OBVIOUS
<1> DEFINE onFloor == Calculation.minimumPrice > Calculation.marketReference
           stay == \E n \in LosCandidates :
                       LosMatrix[n].minimumPrice <= Calculation.propertyReference
           oneNight == Calculation.minimumPrice <= Calculation.propertyReference
           channel == \E ch \in DOMAIN channelRates :
                          ChannelCandidates[ch].minimumPrice
                              <= ChannelCandidates[ch].marketReference
           anyChannel == \E ch \in DOMAIN ChannelCandidates :
                             ChannelCandidates[ch].rule = "market_competitive"
           S == WithinReference(Input)
<1>1. Priceable(Input)
  BY InputIsPriceable
<1>2. /\ Calculation.minimumPrice = Floor(Input, 1)
      /\ Calculation.propertyReference = PropertyRef(Input)
      /\ Calculation.marketReference = MarketRef(Input)
  BY DecisionParts DEF Calculation
<1>3. Calculation.rule = "market_competitive" <=> ~onFloor
  <2> DEFINE floor == Calculation.minimumPrice
             market == Calculation.marketReference
  <2>1. floor \in Int /\ market \in Int
    BY <1>1, <1>2, FloorTypes, LayerTypes
  <2>2. Calculation.rule = "market_competitive" <=> floor <= market
    BY CompetitiveRules DEF Calculation
  <2> HIDE DEF floor, market
  <2>3. floor <= market <=> ~ (floor > market)
    BY <2>1
  <2> QED
    BY <2>2, <2>3 DEF floor, market
<1>4. stay <=> S # {}
  <2>1. \A n \in LosCandidates : LosMatrix[n].minimumPrice = Floor(Input, n)
    BY DecisionParts DEF LosMatrix, DecidePriceLosMatrix
  <2> QED
    BY <1>2, <2>1 DEF WithinReference
<1>5. oneNight <=> 1 \in S
  BY <1>2 DEF WithinReference, LosCandidates
<1>6. /\ MinimumStay = None <=> S = {}
      /\ MinimumStay # None => MinimumStay \in S /\ \A n \in S : MinimumStay <= n
  BY <1>1, RecommendedStay DEF MinimumStay, LosMatrix
<1>7. channel <=> anyChannel
  <2>1. DOMAIN ChannelCandidates = DOMAIN channelRates
    BY DEF ChannelCandidates, DecidePriceByChannel
  <2>2. ASSUME NEW ch \in DOMAIN channelRates
        PROVE  ChannelCandidates[ch].rule = "market_competitive"
                 <=> ChannelCandidates[ch].minimumPrice
                        <= ChannelCandidates[ch].marketReference
    BY CompetitiveRules DEF ChannelCandidates, DecidePriceByChannel
  <2> QED
    BY <2>1, <2>2
<1>8. Status = ClassifyViability(Calculation.rule, Calculation.belowMarketBy,
                                 MinimumStay, anyChannel, FALSE, breachDays)
  BY DEF Status, Viability, Calculation, MinimumStay, LosMatrix, ChannelCandidates
<1> DEFINE pulled == MinimumStay # None /\ MinimumStay > 1
<1>9. /\ pulled => stay /\ ~oneNight
      /\ ~pulled => oneNight \/ ~stay
  <2> DEFINE least == MinimumStay
  <2>1. S \subseteq {1, 2, 3, 7, 14}
    BY DEF WithinReference, LosCandidates
  <2> HIDE DEF S, stay, oneNight
  <2>2. CASE least = None
    BY <1>4, <1>6, <2>2
  <2>3. CASE least # None
    <3>1. least \in S /\ \A n \in S : least <= n
      BY <1>6, <2>3
    <3>2. S # {} /\ least \in {1, 2, 3, 7, 14}
      BY <2>1, <3>1
    <3> HIDE DEF least
    <3>3. least > 1 => 1 \notin S
      BY <3>1, <3>2
    <3>4. ~ (least > 1) => 1 \in S
      BY <3>1, <3>2
    <3> QED
      BY <1>4, <1>5, <2>3, <3>2, <3>3, <3>4 DEF least
  <2> QED
    BY <2>2, <2>3
<1>10. /\ Status = "min_stay_lever_available" =>
              Calculation.rule # "market_competitive" /\ pulled
       /\ Status = "channel_lever_available" =>
              Calculation.rule # "market_competitive" /\ anyChannel
       /\ Status = "floor_binding" =>
              Calculation.rule # "market_competitive" /\ ~pulled /\ ~anyChannel
       /\ Status \in {"ok", "demand_upside"} => Calculation.rule = "market_competitive"
       /\ Status # "persistent_floor_breach" =>
              ~ (breachDays >= PersistentBreachThresholdDays)
  <2>1. anyChannel \in BOOLEAN
    OBVIOUS
  <2> HIDE DEF anyChannel
  <2> QED
    BY <1>8, <2>1, StatusMeans
<1>11. ~ (breachDays >= PersistentBreachThresholdDays)
         => breachDays < PersistentBreachThresholdDays
  BY ThresholdAssumption DEF InputsInv
<1> HIDE DEF S, pulled, anyChannel
<1> QED
  BY <1>3, <1>7, <1>9, <1>10, <1>11 DEF LeversWork

\* Spec 23: a lever is named only when pulling it works, and none is named only
\* when there is none to pull.
THEOREM LeversAreReal == Spec => []LeversWork
BY LeversFound, InputsStay, PTL

-----------------------------------------------------------------------------
(* From one decision to the next *)

\* The sums of a contract depend on the contract alone.
LEMMA ContractSums ==
  ASSUME NEW c \in CostRecord, NEW d \in CostRecord, IsFiniteSet(c.percentageCosts),
         SameContract(d, c)
  PROVE  PercentageRates(d) = PercentageRates(c) /\ Netting(d) = Netting(c)
<1> DEFINE S == c.percentageCosts
           N == Netted(S, c)
<1>1. d.percentageCosts = S /\ IsFiniteSet(S)
  BY DEF SameContract
<1>2. Rates(S) \in [S -> Int] /\ N \in [S -> Int]
  BY RatesOf
<1>3. \A base \in RevenueBases :
        NettedRevenueBaseAmount(base, d) = NettedRevenueBaseAmount(base, c)
  BY DEF SameContract, NettedRevenueBaseAmount, RevenueBases
<1>4. Netted(S, d) = N
  <2>1. \A pc \in S : pc.base \in RevenueBases
    BY RatesOf
  <2> QED
    BY <1>3, <2>1 DEF Netted
<1>5. PercentageRates(d) = PercentageRates(c)
  <2>1. PICK f : IntSums(f, Rates(S), S)
    <3> HIDE DEF S
    <3> QED
      BY <1>1, <1>2, SumsExist
  <2>2. Sums(f, Rates(S), S)
    BY <2>1 DEF IntSums
  <2>3. PercentageRates(c) = f[S]
    BY <1>1, <2>2, PercentageRatesAdd
  <2>4. PercentageRates(d) = f[S]
    <3> HIDE DEF S
    <3> QED
      BY <1>1, <2>2, PercentageRatesAdd
  <2> QED
    BY <2>3, <2>4
<1>6. Netting(d) = Netting(c)
  <2>1. PICK f : IntSums(f, N, S)
    <3> HIDE DEF S, N
    <3> QED
      BY <1>1, <1>2, SumsExist
  <2>2. Sums(f, N, S)
    BY <2>1 DEF IntSums
  <2> DEFINE Commissioned(x) ==
               Nearest(x.commissionPct * NettedRevenueBaseAmount(x.commissionBase, x))
  <2>3. Netting(c) = f[S] + Commissioned(c)
    BY <1>1, <2>2, NettingAdds
  <2>4. Netting(d) = f[S] + Commissioned(d)
    <3>1. Sums(f, Netted(S, d), S)
      BY <1>4, <2>2
    <3> HIDE DEF S
    <3> QED
      BY <1>1, <3>1, NettingAdds
  <2>5. Commissioned(d) = Commissioned(c)
    <3>1. d.commissionBase = c.commissionBase /\ d.commissionPct = c.commissionPct
      BY DEF SameContract
    <3>2. c.commissionBase \in RevenueBases
      BY DEF CostRecord
    <3> QED
      BY <1>3, <3>1, <3>2
  <2> HIDE DEF Commissioned
  <2> QED
    BY <2>3, <2>4, <2>5
<1> QED
  BY <1>5, <1>6

\* Input r is nowhere below q: its costs and margin are as high, its market and
\* its property as good, under the same contract and lead time.
AsHigh(q, r) ==
  /\ r.days = q.days /\ r.p = q.p /\ r.netting = q.netting
  /\ r.costs >= q.costs /\ r.perBooking >= q.perBooking /\ r.margin >= q.margin
  /\ r.rate >= q.rate /\ r.factor >= q.factor /\ r.discount <= q.discount

LEMMA ReferencesFollow ==
  ASSUME NEW q, NEW r, Priceable(q), Priceable(r), AsHigh(q, r)
  PROVE  PropertyRef(q) <= PropertyRef(r) /\ MarketRef(q) <= MarketRef(r)
<1> DEFINE window == BookingWindowFactor(q.days)
           low == PropertyReferencePrice(q.rate, q.factor)
           high == PropertyReferencePrice(r.rate, r.factor)
           before == PropertyRef(q)
           after == PropertyRef(r)
<1>1. window \in Nat /\ BookingWindowFactor(r.days) = window
  BY WindowFactors DEF Priceable, AsHigh
<1>2. low \in Nat /\ high \in Nat /\ low <= high
  <2>1. /\ q.rate \in Nat /\ r.rate \in Nat /\ q.rate <= r.rate
        /\ q.factor \in Nat /\ r.factor \in Nat /\ q.factor <= r.factor
    BY DEF Priceable, AsHigh
  <2> DEFINE x == q.rate * q.factor
             y == r.rate * r.factor
  <2>2. x <= y /\ x \in Nat /\ y \in Nat
    <3>1. q.rate * q.factor <= r.rate * q.factor
      BY <2>1, ProductMonotone
    <3>2. q.factor * r.rate <= r.factor * r.rate
      BY <2>1, ProductMonotone
    <3>3. x \in Nat /\ y \in Nat /\ r.rate * q.factor \in Nat
      BY <2>1, NaturalProducts
    <3>4. q.factor * r.rate = r.rate * q.factor /\ r.factor * r.rate = y
      BY <2>1
    <3> QED
      BY <3>1, <3>2, <3>3, <3>4
  <2>3. low = x \div 100 /\ high = y \div 100
    BY DEF PropertyReferencePrice
  <2> HIDE DEF x, y, low, high
  <2> QED
    BY <2>2, <2>3
<1>3. before \in Nat /\ after \in Nat /\ before <= after
  <2>1. before = (low * window) \div 100 /\ after = (high * window) \div 100
    BY <1>1 DEF PropertyRef
  <2>2. before \in Nat /\ after \in Nat
    BY LayerTypes
  <2> HIDE DEF window, low, high, before, after
  <2>3. low * window <= high * window /\ low * window \in Nat /\ high * window \in Nat
    BY <1>1, <1>2, ProductMonotone, NaturalProducts
  <2>4. (low * window) \div 100 <= (high * window) \div 100
    BY <2>3, DivisionMonotone
  <2> QED
    BY <2>1, <2>2, <2>4
<1>4. MarketRef(q) <= MarketRef(r)
  <2> DEFINE less == 100 - q.discount
             more == 100 - r.discount
  <2>1. MarketRef(q) = (before * less) \div 100 /\ MarketRef(r) = (after * more) \div 100
    BY DEF MarketRef, MarketReferencePrice
  <2>2. less \in Nat /\ more \in Nat /\ less <= more
    <3> DEFINE was == q.discount
               is == r.discount
    <3>1. was \in 0 .. 99 /\ is \in 0 .. 99 /\ is <= was
      BY DEF Priceable, AsHigh
    <3>2. less = 100 - was /\ more = 100 - is
      OBVIOUS
    <3> HIDE DEF was, is, less, more
    <3> QED
      BY <3>1, <3>2
  <2> HIDE DEF less, more, before, after
  <2>3. before * less <= after * less
    BY <1>3, <2>2, ProductMonotone
  <2>4. less * after <= more * after
    BY <1>3, <2>2, ProductMonotone
  <2>5. /\ before * less \in Int /\ after * less \in Int /\ after * more \in Int
        /\ less * after = after * less /\ more * after = after * more
    BY <1>3, <2>2
  <2>6. before * less <= after * more
    BY <2>3, <2>4, <2>5
  <2>7. (before * less) \div 100 <= (after * more) \div 100
    BY <2>5, <2>6, DivisionMonotone
  <2> QED
    BY <2>1, <2>7
<1> QED
  BY <1>3, <1>4

LEMMA FloorFollows ==
  ASSUME NEW q, NEW r, Priceable(q), Priceable(r), AsHigh(q, r),
         r.p + r.margin < 100, q.costs >= q.netting, NEW n \in Nat \ {0}
  PROVE  Floor(q, n) <= Floor(r, n)
<1> DEFINE a == q.perBooking \div n
           b == r.perBooking \div n
           x == 100 * Numerator(q, n)
           y == 100 * Numerator(r, n)
           d == Denominator(q)
           e == Denominator(r)
<1>1. a \in Nat /\ b \in Nat /\ a <= b
  <2>1. q.perBooking \in Nat /\ r.perBooking \in Nat /\ q.perBooking <= r.perBooking
    BY DEF Priceable, AsHigh
  <2>2. a <= b
    BY <2>1, DivisionMonotone
  <2>3. \A k \in Nat : k \div n \in Nat
    OBVIOUS
  <2> QED
    BY <2>1, <2>2, <2>3
<1>2. x \in Nat /\ y \in Nat /\ x <= y
  <2>1. Numerator(q, n) = q.costs + a - q.netting /\ Numerator(r, n) = r.costs + b - r.netting
    BY DEF Numerator
  <2>2. /\ q.costs \in Nat /\ r.costs \in Nat /\ q.netting \in Int
        /\ r.netting = q.netting /\ q.costs <= r.costs
    BY DEF Priceable, AsHigh
  <2> HIDE DEF a, b
  <2> QED
    BY <1>1, <2>1, <2>2
<1>3. d \in Nat \ {0} /\ e \in Nat \ {0} /\ e <= d
  <2> DEFINE p == q.p
             was == q.margin
             is == r.margin
  <2>1. p \in Nat /\ was \in 0 .. 99 /\ is \in 0 .. 99 /\ was <= is /\ p + is < 100
    BY DEF Priceable, AsHigh
  <2>2. d = 100 - p - was /\ e = 100 - p - is
    BY DEF Denominator, AsHigh
  <2> HIDE DEF p, was, is, d, e
  <2> QED
    BY <2>1, <2>2
<1>4. Floor(q, n) = x \div d /\ Floor(r, n) = y \div e
  BY <1>3 DEF Floor, Quotient
<1> HIDE DEF x, y, d, e
<1>5. x \div d <= x \div e /\ x \div e <= y \div e
  <2>1. x \div d <= x \div e
    BY <1>2, <1>3, DivisionAntitone
  <2>2. x \div e <= y \div e
    <3>1. x \in Int /\ y \in Int
      BY <1>2
    <3> QED
      BY <1>2, <1>3, <3>1, DivisionMonotone
  <2> QED
    BY <2>1, <2>2
<1>6. x \div d \in Int /\ x \div e \in Int /\ y \div e \in Int
  BY <1>2, <1>3, DivisionBounds
<1> QED
  BY <1>4, <1>5, <1>6

LEMMA PricesFollow ==
  ASSUME NEW q, NEW r, Priceable(q), Priceable(r), AsHigh(q, r),
         r.p + r.margin < 100, q.costs >= q.netting, NEW n \in Nat \ {0}
  PROVE  DecidePrice(r, n).suggested >= DecidePrice(q, n).suggested
<1> DEFINE old == DecidePrice(q, n).suggested
           new == DecidePrice(r, n).suggested
           floor == Floor(q, n)
           market == MarketRef(q)
<1>1. old = IF floor <= market THEN market ELSE floor
  BY DecisionParts
<1>2. /\ new \in Int /\ Floor(r, n) <= new /\ MarketRef(r) <= new
      /\ Floor(r, n) \in Int /\ MarketRef(r) \in Int
  <2>1. /\ new \in Int /\ new >= Floor(r, n) /\ new >= MarketRef(r)
        /\ Floor(r, n) \in Int /\ MarketRef(r) \in Int
    BY SuggestedCoversFloor, FloorTypes, LayerTypes
  <2> HIDE DEF new
  <2> QED
    BY <2>1
<1>3. floor <= Floor(r, n) /\ market <= MarketRef(r) /\ floor \in Int /\ market \in Int
  BY FloorFollows, ReferencesFollow, FloorTypes, LayerTypes
<1>4. new >= old
  <2> HIDE DEF old, new, floor, market
  <2> QED
    BY <1>1, <1>2, <1>3
<1> QED
  BY <1>4

\* What the engine is given in a state of the inputs.
InputFacts ==
  /\ Priceable(Input)
  /\ Input.costs = cost.costs /\ Input.perBooking = cost.perBooking
  /\ Input.margin = cost.margin /\ Input.netting = Netting(cost)
  /\ Input.p = PercentageRates(cost) + cost.commissionPct
  /\ Input.rate = rate /\ Input.factor = cost.factor
  /\ Input.discount = cost.discount /\ Input.days = days

LEMMA InputIsKnown == InputsInv => InputFacts
BY InputIsPriceable DEF InputFacts

\* Costs, a strategy, a market or a property that do not get worse for the price
\* of a night never lower it, for a stay of any length.
THEOREM PricesFollowInputs == Spec => PriceFollowsItsInputs
<1> DEFINE Rises ==
             /\ days' = days
             /\ cost'.costs >= cost.costs /\ cost'.perBooking >= cost.perBooking
             /\ cost'.margin >= cost.margin /\ cost'.discount <= cost.discount
             /\ cost'.factor >= cost.factor /\ rate' >= rate
             /\ (HasFloor(PercentageRates(cost) + cost.commissionPct))'
             /\ cost.costs >= Netting(cost)
           Follows == \A n \in LosCandidates :
             DecidePrice(Input', n).suggested >= DecidePrice(Input, n).suggested
<1>1. InputsInv' => InputFacts'
  BY InputIsKnown, PTL
<1>2. InputsInv /\ [Next]_vars => [Rises => Follows]_vars
  <2> SUFFICES ASSUME InputsInv, [Next]_vars, Rises, NEW n \in LosCandidates
               PROVE  DecidePrice(Input', n).suggested >= DecidePrice(Input, n).suggested
    OBVIOUS
  <2>1. InputsInv' /\ SameContract(cost', cost)
    BY StepInputs
  <2>2. InputFacts /\ InputFacts'
    BY <1>1, <2>1, InputIsKnown
  <2>3. /\ cost \in CostRecord /\ cost' \in CostRecord
        /\ IsFiniteSet(cost.percentageCosts)
    BY <2>1 DEF InputsInv
  <2>4. PercentageRates(cost') = PercentageRates(cost) /\ Netting(cost') = Netting(cost)
    BY <2>1, <2>3, ContractSums
  <2>5. Priceable(Input) /\ Priceable(Input')
    BY <2>2 DEF InputFacts
  <2>6. AsHigh(Input, Input') /\ Input.costs >= Input.netting
    BY <2>1, <2>2, <2>4 DEF InputFacts, AsHigh, SameContract
  <2>7. (Input').p + (Input').margin < 100
    BY <2>2 DEF InputFacts, HasFloor
  <2>8. n \in Nat \ {0}
    BY DEF LosCandidates
  <2> QED
    BY <2>5, <2>6, <2>7, <2>8, PricesFollow
<1> QED
  BY <1>2, InputsStay, PTL DEF Spec, PriceFollowsItsInputs

-----------------------------------------------------------------------------
(* A margin out of reach *)

LEMMA NoFloorAtAll ==
  ASSUME NEW q, Priceable(q), q.p + q.margin > 100, q.costs >= q.netting,
         NEW n \in Nat \ {0}
  PROVE  Floor(q, n) \in Int /\ Floor(q, n) <= 0
<1> DEFINE a == q.perBooking \div n
           x == 100 * Numerator(q, n)
           y == Denominator(q)
<1>1. a \in Nat
  <2>1. q.perBooking \in Nat
    BY DEF Priceable
  <2>2. \A k \in Nat : k \div n \in Nat
    OBVIOUS
  <2> QED
    BY <2>1, <2>2
<1>2. x \in Nat
  <2>1. q.costs \in Nat /\ q.netting \in Int /\ q.netting <= q.costs
    BY DEF Priceable
  <2>2. Numerator(q, n) = q.costs + a - q.netting
    BY DEF Numerator
  <2> HIDE DEF a
  <2> QED
    BY <1>1, <2>1, <2>2
<1>3. y \in Int /\ y < 0
  <2> DEFINE p == q.p
             margin == q.margin
  <2>1. p \in Nat /\ margin \in 0 .. 99 /\ p + margin > 100
    BY DEF Priceable
  <2>2. y = 100 - p - margin
    BY DEF Denominator
  <2> HIDE DEF p, margin, y
  <2> QED
    BY <2>1, <2>2
<1>4. Floor(q, n) = Quotient(x, y)
  BY <1>3 DEF Floor
<1> HIDE DEF x, y
<1>5. Floor(q, n) = (-x) \div (-y)
  BY <1>3, <1>4 DEF Quotient
<1>6. -x \in Int /\ -x <= 0 /\ -y \in Nat \ {0}
  BY <1>2, <1>3
<1>7. (-x) \div (-y) \in Int /\ (-x) \div (-y) <= 0 \div (-y)
  BY <1>6, DivisionMonotone, DivisionBounds
<1>8. \A d \in Nat \ {0} : 0 \div d = 0
  OBVIOUS
<1> QED
  BY <1>5, <1>6, <1>7, <1>8

\* The market's price is accepted for every stay.
MarketDecides ==
  /\ PercentageRates(cost) + cost.commissionPct + cost.margin > 100
  /\ cost.costs >= Netting(cost)
  => \A n \in LosCandidates :
         /\ LosMatrix[n].minimumPrice <= 0
         /\ LosMatrix[n].rule = "market_competitive"
         /\ LosMatrix[n].suggested = LosMatrix[n].marketReference

\* ADR-0013 leaves p + target_margin >= 1 unguarded: beyond the whole price no
\* price is refused, and every stay is offered at the market reference, whatever
\* it costs.  At exactly the whole price the floats decide, and nothing is said.
THEOREM UnreachableMarginIsNoFloor == Spec => []MarketDecides
<1>1. InputsInv => MarketDecides
  <2> SUFFICES ASSUME InputsInv, cost.costs >= Netting(cost), NEW n \in LosCandidates,
                      PercentageRates(cost) + cost.commissionPct + cost.margin > 100
               PROVE  /\ LosMatrix[n].minimumPrice <= 0
                      /\ LosMatrix[n].rule = "market_competitive"
                      /\ LosMatrix[n].suggested = LosMatrix[n].marketReference
    BY DEF MarketDecides
  <2> DEFINE floor == Floor(Input, n)
             market == MarketRef(Input)
             calculation == DecidePrice(Input, n)
  <2>1. n \in Nat \ {0} /\ LosMatrix[n] = calculation
    BY DEF LosCandidates, LosMatrix, DecidePriceLosMatrix
  <2>2. Priceable(Input) /\ Input.p + Input.margin > 100 /\ Input.costs >= Input.netting
    BY InputIsPriceable
  <2>3. floor \in Int /\ floor <= 0
    BY <2>1, <2>2, NoFloorAtAll
  <2>4. market \in Nat
    BY <2>2, LayerTypes
  <2>5. /\ calculation.minimumPrice = floor /\ calculation.marketReference = market
        /\ calculation.rule = IF floor <= market THEN "market_competitive"
                              ELSE IF floor <= PropertyRef(Input) THEN "minimum_floor"
                              ELSE "minimum_profitable_price"
        /\ calculation.suggested = IF floor <= market THEN market ELSE floor
    BY DecisionParts
  <2> HIDE DEF floor, market, calculation
  <2>6. floor <= market
    BY <2>3, <2>4
  <2> QED
    BY <2>1, <2>3, <2>5, <2>6
<1> QED
  BY <1>1, InputsStay, PTL
=============================================================================
