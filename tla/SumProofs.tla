------------------------------ MODULE SumProofs ------------------------------
(***************************************************************************)
(* What the balances are computed with: the sum of a function over a       *)
(* finite set, SumFunctionOnSet of the community modules.                  *)
(*                                                                         *)
(* It is defined by recursion on the set.  For amounts that are natural    *)
(* numbers there is a count that does without: lay out f[x] coins for each *)
(* x of the set, and count the coins.  A smallest set on which the two     *)
(* differed would lead to a smaller one, so they agree, and every fact     *)
(* about sums becomes one about the size of a set.                         *)
(***************************************************************************)
EXTENDS Integers, FiniteSets, FiniteSetTheorems, TLAPS

CoinsOf(f, S) == {c \in S \X Nat : c[2] < f[c[1]]}

NatOn(f, S) == \A x \in S : f[x] \in Nat

---------------------------------------------------------------------------
(* Coins laid out *)

\* The coins of one x.
LEMMA CoinsOfOne ==
  ASSUME NEW f, NEW x, f[x] \in Nat
  PROVE  /\ CoinsOf(f, {x}) = {x} \X (0 .. f[x] - 1)
         /\ IsFiniteSet(CoinsOf(f, {x}))
         /\ Cardinality(CoinsOf(f, {x})) = f[x]
<1>1. CoinsOf(f, {x}) = {x} \X (0 .. f[x] - 1)
  BY DEF CoinsOf
<1>2. IsFiniteSet({x}) /\ Cardinality({x}) = 1
  BY FS_Singleton, Zenon
<1>3. IsFiniteSet(0 .. f[x] - 1) /\ Cardinality(0 .. f[x] - 1) = f[x]
  BY FS_Interval
<1>4. /\ IsFiniteSet({x} \X (0 .. f[x] - 1))
      /\ Cardinality({x} \X (0 .. f[x] - 1)) = 1 * f[x]
  BY <1>2, <1>3, FS_Product
<1>5. Cardinality({x} \X (0 .. f[x] - 1)) = f[x]
  BY <1>4
<1> QED
  BY <1>1, <1>4, <1>5, Zenon

\* The coins of finitely many x are finitely many.
LEMMA CoinsFinite ==
  ASSUME NEW f, NEW S, IsFiniteSet(S), NatOn(f, S)
  PROVE  IsFiniteSet(CoinsOf(f, S))
<1> DEFINE Piles == {CoinsOf(f, {x}) : x \in S}
           pile == [x \in S |-> CoinsOf(f, {x})]
<1>1. pile \in Surjection(S, Piles)
  BY DEF Surjection
<1>2. IsFiniteSet(Piles)
  <2> HIDE DEF Piles, pile
  <2> QED BY <1>1, FS_Surjection
<1>3. \A P \in Piles : IsFiniteSet(P)
  BY CoinsOfOne DEF NatOn
<1>4. IsFiniteSet(UNION Piles)
  <2> HIDE DEF Piles
  <2> QED BY <1>2, <1>3, FS_UNION
<1>5. CoinsOf(f, S) = UNION Piles
  BY DEF CoinsOf
<1> QED
  BY <1>4, <1>5

\* The coins of S are those of x and those of the others.
LEMMA CoinsSplit ==
  ASSUME NEW f, NEW S, IsFiniteSet(S), NatOn(f, S), NEW x \in S
  PROVE  Cardinality(CoinsOf(f, S)) = f[x] + Cardinality(CoinsOf(f, S \ {x}))
<1>1. IsFiniteSet(S \ {x}) /\ NatOn(f, S \ {x}) /\ f[x] \in Nat
  BY FS_RemoveElement DEF NatOn
<1>2. IsFiniteSet(CoinsOf(f, S \ {x}))
  BY <1>1, CoinsFinite
<1>3. IsFiniteSet(CoinsOf(f, {x})) /\ Cardinality(CoinsOf(f, {x})) = f[x]
  BY <1>1, CoinsOfOne
<1>4. CoinsOf(f, S) = CoinsOf(f, {x}) \cup CoinsOf(f, S \ {x})
  BY DEF CoinsOf
<1>5. CoinsOf(f, {x}) \cap CoinsOf(f, S \ {x}) = {}
  BY DEF CoinsOf
<1>6. Cardinality(CoinsOf(f, S)) = Cardinality(CoinsOf(f, {x})) + Cardinality(CoinsOf(f, S \ {x})) - Cardinality({})
  BY <1>2, <1>3, <1>4, <1>5, FS_Union
<1>7. Cardinality({}) = 0 /\ Cardinality(CoinsOf(f, S \ {x})) \in Nat
  BY <1>2, FS_EmptySet, FS_CardinalityType
<1> QED
  BY <1>1, <1>3, <1>6, <1>7

LEMMA CoinsOfNone ==
  ASSUME NEW f
  PROVE  Cardinality(CoinsOf(f, {})) = 0
<1>1. CoinsOf(f, {}) = {}
  BY DEF CoinsOf
<1> QED
  BY <1>1, FS_EmptySet

---------------------------------------------------------------------------
(* The recursion counts the coins *)

Recursion(f, S, g) ==
  g = [s \in SUBSET S |-> IF s = {} THEN 0
                          ELSE f[CHOOSE x \in s : TRUE] + g[s \ {CHOOSE x \in s : TRUE}]]

\* Whatever satisfies the recursive equation counts the coins: a smallest set where it
\* does not is not empty, and without its chosen element is smaller.
LEMMA RecursionCounts ==
  ASSUME NEW f, NEW S, IsFiniteSet(S), NatOn(f, S), NEW g, Recursion(f, S, g)
  PROVE  g[S] = Cardinality(CoinsOf(f, S))
<1> DEFINE Bad == {T \in SUBSET S : g[T] # Cardinality(CoinsOf(f, T))}
<1> SUFFICES ASSUME Bad # {} PROVE FALSE
  OBVIOUS
<1>1. IsWellFoundedOn(StrictSubsetOrdering(S), SUBSET S)
  BY FS_StrictSubsetOrderingWellFounded, FS_FiniteSubsetsOfFinite
<1>2. PICK T \in Bad : \A U \in Bad : <<U, T>> \notin StrictSubsetOrdering(S)
  <2>1. Bad \subseteq SUBSET S
    OBVIOUS
  <2> HIDE DEF Bad
  <2> QED BY <1>1, <2>1, WFMin
<1>3. T \in SUBSET S /\ g[T] # Cardinality(CoinsOf(f, T))
  BY <1>2
<1>4. IsFiniteSet(T) /\ NatOn(f, T)
  BY <1>3, FS_Subset DEF NatOn
<1>5. T # {}
  BY <1>3, CoinsOfNone DEF Recursion
<1> DEFINE c == CHOOSE x \in T : TRUE
<1>6. c \in T
  BY <1>5
<1>7. g[T] = f[c] + g[T \ {c}]
  BY <1>3, <1>5 DEF Recursion
<1>8. T \ {c} \notin Bad
  <2>1. <<T \ {c}, T>> \in StrictSubsetOrdering(S)
    BY <1>3, <1>6 DEF StrictSubsetOrdering
  <2> QED BY <1>2, <2>1
<1>9. g[T \ {c}] = Cardinality(CoinsOf(f, T \ {c}))
  BY <1>3, <1>8
<1>10. Cardinality(CoinsOf(f, T)) = f[c] + Cardinality(CoinsOf(f, T \ {c}))
  <2> HIDE DEF c
  <2> QED BY <1>4, <1>6, CoinsSplit
<1> QED
  BY <1>3, <1>7, <1>9, <1>10

\* And the count of the coins satisfies it.
LEMMA CountRecurs ==
  ASSUME NEW f, NEW S, IsFiniteSet(S), NatOn(f, S)
  PROVE  Recursion(f, S, [s \in SUBSET S |-> Cardinality(CoinsOf(f, s))])
<1> DEFINE n == [s \in SUBSET S |-> Cardinality(CoinsOf(f, s))]
<1> SUFFICES ASSUME NEW s \in SUBSET S
             PROVE  n[s] = IF s = {} THEN 0
                           ELSE f[CHOOSE x \in s : TRUE] + n[s \ {CHOOSE x \in s : TRUE}]
  BY DEF Recursion
<1>1. CASE s = {}
  BY <1>1, CoinsOfNone
<1>2. CASE s # {}
  <2> DEFINE c == CHOOSE x \in s : TRUE
  <2>1. c \in s
    BY <1>2
  <2>2. IsFiniteSet(s) /\ NatOn(f, s)
    BY FS_Subset DEF NatOn
  <2>3. Cardinality(CoinsOf(f, s)) = f[c] + Cardinality(CoinsOf(f, s \ {c}))
    <3> HIDE DEF c
    <3> QED BY <2>1, <2>2, CoinsSplit
  <2> QED
    BY <1>2, <2>3
<1> QED
  BY <1>1, <1>2

\* The sum of the amounts is the number of coins: of getByProjection with its
\* Projections.sum, which every balance of the site is made of.
LEMMA SumCounts ==
  ASSUME NEW f, NEW S, IsFiniteSet(S), NatOn(f, S)
  PROVE  SumFunctionOnSet(f, S) = Cardinality(CoinsOf(f, S))
<1> DEFINE g == CHOOSE h : Recursion(f, S, h)
<1>1. SumFunctionOnSet(f, S) = g[S]
  BY DEF SumFunctionOnSet, FoldFunctionOnSet, MapThenFoldSet, Recursion
<1>2. Recursion(f, S, g)
  <2>1. \E h : Recursion(f, S, h)
    BY CountRecurs, Zenon
  <2> QED BY <2>1, Zenon
<1> HIDE DEF g
<1> QED
  BY <1>1, <1>2, RecursionCounts

---------------------------------------------------------------------------
(* Facts about sums *)

\* A sum of natural numbers is one.
LEMMA SumIsNat ==
  ASSUME NEW f, NEW S, IsFiniteSet(S), NatOn(f, S)
  PROVE  SumFunctionOnSet(f, S) \in Nat
BY SumCounts, CoinsFinite, FS_CardinalityType

\* A sum over nothing is zero.
LEMMA SumOfNone ==
  ASSUME NEW f
  PROVE  SumFunctionOnSet(f, {}) = 0
BY SumCounts, CoinsOfNone, FS_EmptySet DEF NatOn

LEMMA SumOfZeros ==
  ASSUME NEW f, NEW S, IsFiniteSet(S), \A x \in S : f[x] = 0
  PROVE  SumFunctionOnSet(f, S) = 0
<1>1. NatOn(f, S)
  BY DEF NatOn
<1>2. CoinsOf(f, S) = {}
  BY DEF CoinsOf
<1> QED
  BY <1>1, <1>2, SumCounts, FS_EmptySet

\* A sum is any one amount and the sum of the others.
LEMMA SumSplit ==
  ASSUME NEW f, NEW S, IsFiniteSet(S), NatOn(f, S), NEW x \in S
  PROVE  SumFunctionOnSet(f, S) = f[x] + SumFunctionOnSet(f, S \ {x})
<1>1. IsFiniteSet(S \ {x}) /\ NatOn(f, S \ {x})
  BY FS_RemoveElement DEF NatOn
<1> QED
  BY <1>1, SumCounts, CoinsSplit

LEMMA SumOfOne ==
  ASSUME NEW f, NEW x, f[x] \in Nat
  PROVE  SumFunctionOnSet(f, {x}) = f[x]
<1>1. IsFiniteSet({x}) /\ NatOn(f, {x})
  BY FS_Singleton DEF NatOn
<1> QED
  BY <1>1, SumCounts, CoinsOfOne

\* A sum depends on the amounts of its set only.
LEMMA SumSame ==
  ASSUME NEW f, NEW g, NEW S, IsFiniteSet(S), NatOn(f, S), \A x \in S : g[x] = f[x]
  PROVE  SumFunctionOnSet(g, S) = SumFunctionOnSet(f, S)
<1>1. NatOn(g, S)
  BY DEF NatOn
<1>2. CoinsOf(g, S) = CoinsOf(f, S)
  BY DEF CoinsOf
<1> QED
  BY <1>1, <1>2, SumCounts

\* More of what is no less sums up to no less.
LEMMA SumMonotone ==
  ASSUME NEW f, NEW g, NEW S, NEW T, IsFiniteSet(T), S \subseteq T,
         NatOn(f, S), NatOn(g, T), \A x \in S : f[x] <= g[x]
  PROVE  SumFunctionOnSet(f, S) <= SumFunctionOnSet(g, T)
<1>1. IsFiniteSet(S)
  BY FS_Subset
<1>2. CoinsOf(f, S) \subseteq CoinsOf(g, T)
  BY DEF CoinsOf, NatOn
<1>3. IsFiniteSet(CoinsOf(g, T))
  BY CoinsFinite
<1>4. Cardinality(CoinsOf(f, S)) <= Cardinality(CoinsOf(g, T))
  BY <1>2, <1>3, FS_Subset
<1> QED
  BY <1>1, <1>4, SumCounts

\* Where one amount changes, the sum changes by as much.
LEMMA SumChange ==
  ASSUME NEW f, NEW g, NEW S, IsFiniteSet(S), NatOn(f, S), NatOn(g, S),
         NEW x \in S, \A y \in S \ {x} : g[y] = f[y]
  PROVE  SumFunctionOnSet(g, S) = SumFunctionOnSet(f, S) - f[x] + g[x]
<1>1. IsFiniteSet(S \ {x}) /\ NatOn(f, S \ {x}) /\ f[x] \in Nat /\ g[x] \in Nat
  BY FS_RemoveElement DEF NatOn
<1>2. SumFunctionOnSet(g, S \ {x}) = SumFunctionOnSet(f, S \ {x})
  BY <1>1, SumSame
<1>3. SumFunctionOnSet(f, S \ {x}) \in Nat
  BY <1>1, SumIsNat
<1>4. /\ SumFunctionOnSet(f, S) = f[x] + SumFunctionOnSet(f, S \ {x})
      /\ SumFunctionOnSet(g, S) = g[x] + SumFunctionOnSet(g, S \ {x})
  BY SumSplit
<1> QED
  BY <1>1, <1>2, <1>3, <1>4

\* The same of an amount that may be outside the sum.
LEMMA SumMoves ==
  ASSUME NEW f, NEW g, NEW S, IsFiniteSet(S), NatOn(f, S), NatOn(g, S),
         NEW x, \A y \in S \ {x} : g[y] = f[y]
  PROVE  /\ SumFunctionOnSet(f, S) \in Nat
         /\ SumFunctionOnSet(g, S) = SumFunctionOnSet(f, S) + (IF x \in S THEN g[x] - f[x] ELSE 0)
<1>1. SumFunctionOnSet(f, S) \in Nat
  BY SumIsNat
<1>2. CASE x \in S
  <2>1. f[x] \in Nat /\ g[x] \in Nat
    BY <1>2 DEF NatOn
  <2> QED BY <1>1, <1>2, <2>1, SumChange
<1>3. CASE x \notin S
  <2>1. \A y \in S : g[y] = f[y]
    BY <1>3
  <2> QED BY <1>1, <1>3, <2>1, SumSame
<1> QED
  BY <1>2, <1>3

=============================================================================
