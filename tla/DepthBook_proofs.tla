--------------------------- MODULE DepthBook_proofs ---------------------------
(***************************************************************************)
(* What the operators on order books do, for all finite sets of prices and *)
(* all volumes: the facts about cutting a book that the proofs about both  *)
(* clients rest on.                                                        *)
(*                                                                         *)
(* The rank of a level is how many levels lie ahead of it.  Along a side   *)
(* the ranks of the levels that are there run through 0, 1, 2, ... without *)
(* a gap, which is what makes "the first n levels" n levels.               *)
(***************************************************************************)
EXTENDS DepthBook, Integers, FiniteSetTheorems, Functions, TLAPS

Present(q)   == {l \in Level : q[l] > 0}
Better(q, l) == {m \in Level : q[m] > 0 /\ Ahead(m, l)}
Rank(q, l)   == Cardinality(Better(q, l))

----------------------------------------------------------------------------
(* What holds of every quote.                                              *)

\* A cut quote is a quote.
LEMMA CutQuote == ASSUME NEW q \in Quote, NEW n PROVE Cut(q, n) \in Quote
BY VolAssumption DEF Cut, Quote

\* What a cut quote still shows, the quote shows.
LEMMA CutShows ==
  ASSUME NEW q, NEW n, NEW l \in Level, Cut(q, n)[l] > 0
  PROVE  Cut(q, n)[l] = q[l]
BY DEF Cut

\* The best levels of a quote are those of low rank.
LEMMA TopByRank ==
  ASSUME NEW q, NEW n
  PROVE  TopLevels(q, n) = {l \in Present(q) : Rank(q, l) < n}
BY DEF TopLevels, Present, Rank, Better

\* Along a side the levels are strictly ordered.
LEMMA AheadOrders ==
  ASSUME NEW k \in Level, NEW l \in Level, NEW m \in Level
  PROVE  /\ ~ Ahead(l, l)
         /\ Ahead(k, l) /\ Ahead(l, m) => Ahead(k, m)
         /\ k[1] = l[1] => k = l \/ Ahead(k, l) \/ Ahead(l, k)
<1>1. k[2] \in Nat /\ l[2] \in Nat /\ m[2] \in Nat
  BY PriceAssumption DEF Level
<1>2. k[1] = l[1] /\ k[2] = l[2] => k = l
  BY DEF Level
<1> QED BY <1>1, <1>2 DEF Ahead

----------------------------------------------------------------------------
(* Ranks, in a book with finitely many prices.                             *)

LEMMA FiniteLevels ==
  ASSUME IsFiniteSet(Price)
  PROVE  /\ IsFiniteSet(Level)
         /\ \A S : S \subseteq Level => IsFiniteSet(S) /\ Cardinality(S) \in Nat
<1>1. IsFiniteSet(Side)
  <2>1. IsFiniteSet({"ask"} \cup {"bid"})
    BY FS_Singleton, FS_Union
  <2>2. Side = {"ask"} \cup {"bid"}
    BY DEF Side
  <2> QED BY <2>1, <2>2
<1>2. IsFiniteSet(Level)
  BY <1>1, FS_Product DEF Level
<1>3. ASSUME NEW S, S \subseteq Level PROVE IsFiniteSet(S) /\ Cardinality(S) \in Nat
  BY <1>2, <1>3, FS_Subset, FS_CardinalityType
<1> QED BY <1>2, <1>3

\* A subset of a set of levels has no more elements.
LEMMA FewerLevels ==
  ASSUME IsFiniteSet(Price), NEW S, S \subseteq Level, NEW T, T \subseteq S
  PROVE  Cardinality(T) <= Cardinality(S)
BY FiniteLevels, FS_Subset

LEMMA RankType == ASSUME IsFiniteSet(Price), NEW q, NEW l PROVE Rank(q, l) \in Nat
<1>1. Better(q, l) \subseteq Level
  BY DEF Better
<1> QED BY <1>1, FiniteLevels DEF Rank

\* A level has no better rank than one ahead of it, and a worse one if that one
\* is there.
LEMMA RankGrows ==
  ASSUME IsFiniteSet(Price), NEW q, NEW m \in Level, NEW l \in Level, Ahead(m, l)
  PROVE  Rank(q, m) <= Rank(q, l) /\ (q[m] > 0 => Rank(q, m) < Rank(q, l))
<1>1. Better(q, m) \subseteq Better(q, l) /\ Better(q, l) \subseteq Level
  BY AheadOrders DEF Better
<1>2. Rank(q, m) <= Rank(q, l)
  BY <1>1, FewerLevels DEF Rank
<1>3. ASSUME q[m] > 0 PROVE Rank(q, m) < Rank(q, l)
  <2>1. m \in Better(q, l) /\ m \notin Better(q, m)
    BY <1>3, AheadOrders DEF Better
  <2>2. IsFiniteSet(Better(q, l))
    BY <1>1, FiniteLevels
  <2>3. Better(q, m) # Better(q, l)
    BY <2>1
  <2>4. Rank(q, m) # Rank(q, l)
    BY <1>1, <2>2, <2>3, FS_Subset DEF Rank
  <2> QED BY <1>2, <2>4, RankType
<1> QED BY <1>2, <1>3

\* Of two levels of a side the one of lower rank is ahead.
LEMMA LowerRankIsAhead ==
  ASSUME IsFiniteSet(Price), NEW q, NEW m \in Level, NEW l \in Level,
         m[1] = l[1], Rank(q, m) < Rank(q, l)
  PROVE  Ahead(m, l)
<1>1. m = l \/ Ahead(m, l) \/ Ahead(l, m)
  BY AheadOrders
<1>2. Rank(q, m) \in Nat /\ Rank(q, l) \in Nat
  BY RankType
<1>3. ~ (Rank(q, l) <= Rank(q, m))
  BY <1>2
<1>4. ~ Ahead(l, m)
  BY <1>3, RankGrows
<1> QED BY <1>1, <1>2, <1>4

\* The ranks of the levels of a side number them from 0.
LEMMA RanksNumberASide ==
  ASSUME IsFiniteSet(Price), NEW q, NEW side, NEW P, P = OfSide(Present(q), side)
  PROVE  [l \in P |-> Rank(q, l)] \in Bijection(P, 0 .. Cardinality(P) - 1)
<1> DEFINE f == [l \in P |-> Rank(q, l)]
           R == 0 .. Cardinality(P) - 1
<1>1. P \subseteq Level /\ IsFiniteSet(P) /\ Cardinality(P) \in Nat
  BY FiniteLevels DEF Present, OfSide
<1>2. ASSUME NEW l \in P PROVE Rank(q, l) \in R
  <2>1. Better(q, l) \subseteq P \ {l}
    BY <1>1, AheadOrders DEF Better, Present, OfSide, Ahead
  <2>2. Cardinality(P \ {l}) = Cardinality(P) - 1
    BY <1>1, FS_RemoveElement
  <2>3. Rank(q, l) <= Cardinality(P) - 1
    BY <1>1, <2>1, <2>2, FewerLevels DEF Rank
  <2> QED BY <1>1, <2>3, RankType
<1>3. ASSUME NEW l \in P, NEW m \in P, l # m PROVE f[l] # f[m]
  <2>1. l \in Level /\ m \in Level /\ l[1] = m[1] /\ q[l] > 0 /\ q[m] > 0
    BY DEF Present, OfSide
  <2>2. Ahead(l, m) \/ Ahead(m, l)
    BY <1>3, <2>1, AheadOrders
  <2>3. Rank(q, l) < Rank(q, m) \/ Rank(q, m) < Rank(q, l)
    BY <2>1, <2>2, RankGrows
  <2> QED BY <2>3, RankType
<1>4. f \in Injection(P, R)
  <2>1. f \in [P -> R]
    BY <1>2
  <2> HIDE DEF f, R
  <2> QED BY <1>3, <2>1 DEF Injection, IsInjective
<1>5. IsFiniteSet(R) /\ Cardinality(R) = Cardinality(P)
  BY <1>1, FS_Interval
<1>6. f \in Surjection(P, R)
  <2> HIDE DEF f, R
  <2> QED BY <1>4, <1>5, FS_Injection
<1>7. f \in Bijection(P, R)
  <2> HIDE DEF f, R
  <2> QED BY <1>4, <1>6 DEF Bijection
<1> QED BY <1>7
----------------------------------------------------------------------------
(* Cutting.                                                                *)

\* A cut leaves of each side as many levels as it is told to, or all there are
\* (the counting loops of mf_parse_depth_full).
THEOREM CutLeavesTheFirst ==
  ASSUME IsFiniteSet(Price), NEW q, NEW n \in Nat, NEW side
  PROVE  LET there == Cardinality(OfSide(Present(q), side))
         IN  Cardinality(OfSide(TopLevels(q, n), side)) = IF there <= n THEN there ELSE n
<1> DEFINE P == OfSide(Present(q), side)
           T == OfSide(TopLevels(q, n), side)
           f == [l \in P |-> Rank(q, l)]
           c == Cardinality(P)
           R == 0 .. c - 1
           k == IF c <= n THEN c ELSE n
           g == [l \in T |-> Rank(q, l)]
<1>1. P \subseteq Level /\ T \subseteq P /\ c \in Nat
      /\ \A l \in P : l \in T <=> Rank(q, l) < n
  <2>1. P \subseteq Level
    BY DEF Present, OfSide
  <2>2. T \subseteq P /\ \A l \in P : l \in T <=> Rank(q, l) < n
    BY TopByRank DEF OfSide
  <2> QED BY <2>1, <2>2, FiniteLevels
<1>2. f \in Bijection(P, R)
  BY RanksNumberASide
<1>3. /\ \A l \in P : f[l] \in R
      /\ \A l, m \in P : f[l] = f[m] => l = m
      /\ \A r \in R : \E l \in P : f[l] = r
  <2> HIDE DEF f, R
  <2> QED BY <1>2 DEF Bijection, Injection, Surjection, IsInjective
<1>4. k \in Nat /\ k <= c /\ k <= n /\ \A r \in R : r < n <=> r \in 0 .. k - 1
  <2>1. c \in Nat
    BY <1>1
  <2> HIDE DEF c
  <2> QED BY <2>1
<1>5. g \in [T -> 0 .. k - 1]
  <2>1. ASSUME NEW l \in T PROVE Rank(q, l) \in 0 .. k - 1
    <3>1. l \in P /\ Rank(q, l) < n /\ f[l] = Rank(q, l)
      BY <1>1
    <3>2. Rank(q, l) \in R
      BY <1>3, <3>1
    <3> HIDE DEF f, R, k
    <3> QED BY <1>4, <3>1, <3>2
  <2> HIDE DEF k
  <2> QED BY <2>1
<1>6. \A l, m \in T : g[l] = g[m] => l = m
  BY <1>1, <1>3
<1>7. ASSUME NEW r \in 0 .. k - 1 PROVE \E l \in T : g[l] = r
  <2>1. r \in R /\ r < n
    BY <1>1, <1>4
  <2>2. PICK l \in P : f[l] = r
    BY <1>3, <2>1
  <2>3. l \in T
    BY <1>1, <2>1, <2>2
  <2> QED BY <2>2, <2>3
<1>8. g \in Bijection(T, 0 .. k - 1)
  <2> HIDE DEF g, k
  <2> QED BY <1>5, <1>6, <1>7 DEF Bijection, Injection, Surjection, IsInjective
<1>9. IsFiniteSet(T)
  BY <1>1, FiniteLevels
<1>10. Cardinality(0 .. k - 1) = Cardinality(T)
  <2>1. ExistsBijection(T, 0 .. k - 1)
    <3> HIDE DEF g, k
    <3> QED BY <1>8 DEF ExistsBijection
  <2> HIDE DEF k
  <2> QED BY <1>9, <2>1, FS_Bijection
<1>11. Cardinality(0 .. k - 1) = k
  <2> HIDE DEF k
  <2>1. IF 0 > k - 1 THEN k = 0 ELSE (k - 1) - 0 + 1 = k
    BY <1>4
  <2> QED BY <1>4, <2>1, FS_Interval
<1> QED BY <1>10, <1>11

\* Ahead of a level of rank n or more lie the first n levels of its side.
LEMMA TopIsAhead ==
  ASSUME IsFiniteSet(Price), NEW q, NEW n \in Nat, NEW l \in Level, n <= Rank(q, l)
  PROVE  /\ Cardinality(OfSide(TopLevels(q, n), l[1])) = n
         /\ \A m \in OfSide(TopLevels(q, n), l[1]) : Ahead(m, l)
<1> DEFINE P == OfSide(Present(q), l[1])
           T == OfSide(TopLevels(q, n), l[1])
<1>1. Better(q, l) \subseteq P /\ P \subseteq Level
  BY DEF Better, Present, OfSide, Ahead
<1>2. n <= Cardinality(P)
  <2>1. Rank(q, l) <= Cardinality(P)
    BY <1>1, FewerLevels DEF Rank
  <2>2. Cardinality(P) \in Nat
    BY <1>1, FiniteLevels
  <2> HIDE DEF P
  <2> QED BY <2>1, <2>2, RankType
<1>3. Cardinality(T) = n
  <2>1. Cardinality(T) = IF Cardinality(P) <= n THEN Cardinality(P) ELSE n
    BY CutLeavesTheFirst
  <2>2. Cardinality(P) \in Nat
    BY <1>1, FiniteLevels
  <2> HIDE DEF P
  <2> QED BY <1>2, <2>1, <2>2
<1>4. ASSUME NEW m \in T PROVE Ahead(m, l)
  <2>1. m \in Level /\ m[1] = l[1] /\ Rank(q, m) < n
    BY TopByRank DEF Present, OfSide
  <2>2. Rank(q, m) < Rank(q, l)
    BY <2>1, RankType
  <2> QED BY <2>1, <2>2, LowerRankIsAhead
<1> QED BY <1>3, <1>4

\* With no more prices than Depth every level of a quote is among the first Depth.
LEMMA NothingIsCut ==
  ASSUME IsFiniteSet(Price), Cardinality(Price) <= Depth, NEW q, NEW l \in Level,
         q[l] > 0
  PROVE  l \in TopLevels(q, Depth)
<1> DEFINE Ones == Better(q, l)
           Others == Price \ {l[2]}
           f == [m \in Ones |-> m[2]]
<1>1. l[2] \in Price
  BY DEF Level
<1>2. \A m \in Ones : m[1] = l[1] /\ m[2] \in Others
  <2> SUFFICES ASSUME NEW m \in Ones PROVE m[1] = l[1] /\ m[2] \in Others
    OBVIOUS
  <2>1. m[2] \in Price /\ m[2] \in Nat /\ l[2] \in Nat
    BY <1>1, PriceAssumption DEF Level, Better
  <2>2. m[1] = l[1] /\ (m[2] < l[2] \/ m[2] > l[2])
    BY DEF Ahead, Better
  <2> QED BY <2>1, <2>2
<1>3. f \in Injection(Ones, Others)
  <2>1. f \in [Ones -> Others]
    BY <1>2
  <2>2. ASSUME NEW m \in Ones, NEW n \in Ones, f[m] = f[n] PROVE m = n
    <3>1. m \in Level /\ n \in Level /\ m[1] = n[1] /\ m[2] = n[2]
      BY <1>2, <2>2 DEF Better
    <3> QED BY <3>1 DEF Level
  <2> HIDE DEF Ones, Others
  <2> QED BY <2>1, <2>2 DEF Injection, IsInjective
<1>4. IsFiniteSet(Others) /\ Cardinality(Others) = Cardinality(Price) - 1
  BY <1>1, FS_RemoveElement
<1>5. IsFiniteSet(Ones) /\ Cardinality(Ones) <= Cardinality(Others)
  <2> HIDE DEF Ones, Others, f
  <2> QED BY <1>3, <1>4, FS_Injection
<1>6. Cardinality(Ones) < Depth
  <2>1. Cardinality(Ones) \in Nat /\ Cardinality(Price) \in Nat
    BY <1>5, FS_CardinalityType
  <2> HIDE DEF Ones
  <2> QED BY <1>4, <1>5, <2>1, DepthAssumption
<1> QED BY <1>6 DEF TopLevels, Better

\* A part of a book shows the same first n levels as the book when every level
\* it misses has n levels of the part ahead of it.
LEMMA SameFirstLevels ==
  ASSUME IsFiniteSet(Price), NEW q \in Quote, NEW part \in Quote, NEW n \in Nat,
         \A l \in Level : part[l] > 0 => part[l] = q[l],
         \A l \in Level : q[l] > 0 /\ part[l] = 0 => n <= Rank(part, l)
  PROVE  Cut(part, n) = Cut(q, n)
<1>1. \A l \in Level : q[l] \in Nat /\ part[l] \in Nat
  BY VolAssumption DEF Quote
<1>2. ASSUME NEW l \in Level PROVE Rank(part, l) <= Rank(q, l)
  <2>1. Better(part, l) \subseteq Better(q, l) /\ Better(q, l) \subseteq Level
    BY <1>1 DEF Better
  <2> QED BY <2>1, FewerLevels DEF Rank
<1>3. ASSUME NEW l \in Level, l \in TopLevels(q, n) PROVE l \in TopLevels(part, n)
  <2>1. q[l] > 0 /\ Rank(q, l) < n
    BY <1>3, TopByRank DEF Present
  <2>2. Rank(part, l) < n
    BY <1>2, <2>1, RankType
  <2>3. part[l] > 0
    BY <1>1, <2>1, <2>2, RankType
  <2> QED BY <2>2, <2>3, TopByRank DEF Present
<1>4. ASSUME NEW l \in Level, l \in TopLevels(part, n) PROVE l \in TopLevels(q, n)
  <2>1. part[l] > 0 /\ q[l] > 0 /\ Rank(part, l) < n
    BY <1>1, <1>4, TopByRank DEF Present
  <2>2. Rank(q, l) < n
    <3>1. ASSUME NEW m \in Better(q, l) PROVE m \in Better(part, l)
      <4>1. m \in Level /\ q[m] > 0 /\ Ahead(m, l)
        BY DEF Better
      <4>2. Rank(part, m) <= Rank(part, l)
        BY <4>1, RankGrows
      <4>3. Rank(part, m) < n
        BY <2>1, <4>1, <4>2, RankType
      <4>4. part[m] > 0
        BY <1>1, <4>1, <4>3, RankType
      <4> QED BY <4>1, <4>4 DEF Better
    <3>2. Better(part, l) \subseteq Level
      BY DEF Better
    <3>3. Rank(q, l) <= Rank(part, l)
      BY <3>1, <3>2, FewerLevels DEF Rank
    <3> QED BY <2>1, <3>3, RankType
  <2> QED BY <2>1, <2>2, TopByRank DEF Present
<1>5. ASSUME NEW l \in Level
      PROVE  (IF l \in TopLevels(part, n) THEN part[l] ELSE 0)
             = (IF l \in TopLevels(q, n) THEN q[l] ELSE 0)
  <2>1. l \in TopLevels(part, n) => part[l] > 0
    BY DEF TopLevels
  <2> QED BY <1>3, <1>4, <2>1
<1> QED BY <1>5 DEF Cut

\* What is cut off by a first cut does not matter to a second one that leaves no
\* more levels: an image of m levels is as good as the book for the first n.
THEOREM CutOfACut ==
  ASSUME IsFiniteSet(Price), NEW q \in Quote, NEW m \in Nat, NEW n \in Nat, n <= m
  PROVE  Cut(Cut(q, m), n) = Cut(q, n)
<1> DEFINE part == Cut(q, m)
<1>1. part \in Quote /\ \A l \in Level : part[l] > 0 => part[l] = q[l]
  BY CutQuote, CutShows
<1>2. ASSUME NEW l \in Level, q[l] > 0, part[l] = 0 PROVE n <= Rank(part, l)
  <2> DEFINE T == OfSide(TopLevels(q, m), l[1])
  <2>1. l \notin TopLevels(q, m)
    BY <1>2 DEF Cut
  <2>2. ~ (Rank(q, l) < m)
    BY <1>2, <2>1, TopByRank DEF Present
  <2>3. m <= Rank(q, l)
    BY <2>2, RankType
  <2>4. Cardinality(T) = m /\ \A k \in T : Ahead(k, l)
    BY <2>3, TopIsAhead
  <2>5. T \subseteq Better(part, l)
    BY <2>4 DEF Better, Cut, TopLevels, OfSide
  <2>6. Better(part, l) \subseteq Level
    BY DEF Better
  <2>7. m <= Rank(part, l)
    <3> HIDE DEF T, part
    <3> QED BY <2>4, <2>5, <2>6, FewerLevels DEF Rank
  <2> HIDE DEF part
  <2> QED BY <2>7, RankType
<1> HIDE DEF part
<1>3. Cut(part, n) = Cut(q, n)
  BY <1>1, <1>2, SameFirstLevels
<1> QED BY <1>3 DEF part
==============================================================================
