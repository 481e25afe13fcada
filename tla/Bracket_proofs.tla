---------------------------- MODULE Bracket_proofs ----------------------------
(***************************************************************************)
(* The key of a category, proved for any entries, tables, rules and keys.  *)
(*                                                                         *)
(*   BracketInv: the key is one that the progression builds; from it       *)
(*     WinnersAdvance follows, for published keys and seeded ones.         *)
(*   SeededInv, on top of it: of a seeded key all participants are known,  *)
(*     its first round is the seeding, and it waits for something or is    *)
(*     over.  SeededOnce, EndsWithTheFinal and NeverStuck follow.          *)
(*                                                                         *)
(* The progression is a function from category to category; its cases are  *)
(* FirstMade, NextMade, Ended and Waiting (ProgressCases), and each        *)
(* invariant is shown to pass through them, then through the actions.      *)
(***************************************************************************)
EXTENDS Bracket, FiniteSetTheorems, SequenceTheorems, TLAPS

-----------------------------------------------------------------------------
(* Numbers                                                                 *)

\* Induction, over a set of numbers in place of a predicate.
LEMMA NatSet ==
    ASSUME NEW S, 0 \in S, \A n \in Nat : n \in S => n + 1 \in S
    PROVE  \A n \in Nat : n \in S
  <1> DEFINE T == {n \in Nat : n \notin S}
  <1> SUFFICES ASSUME T # {} PROVE FALSE
    OBVIOUS
  <1>1. T \subseteq Nat
    OBVIOUS
  <1>2. PICK x \in T : \A y \in T : ~(<<y, x>> \in OpToRel(<, Nat))
    <2> HIDE DEF T
    <2> QED
      BY <1>1, NatLessThanWellFounded, WFMin
  <1>3. \A y \in T : ~(y < x)
    BY <1>1, <1>2 DEF OpToRel
  <1>4. x \in Nat /\ x # 0
    OBVIOUS
  <1>5. x - 1 \in Nat /\ x - 1 < x
    BY <1>4
  <1>6. x - 1 \in S
    BY <1>3, <1>5
  <1>7. (x - 1) + 1 \in S /\ (x - 1) + 1 = x
    BY <1>4, <1>5, <1>6
  <1> QED
    BY <1>7

LEMMA LeastExists ==
    ASSUME NEW T, T \subseteq Nat, T # {}
    PROVE  \E x \in T : \A y \in T : x <= y
  <1>1. PICK x \in T : \A y \in T : ~(<<y, x>> \in OpToRel(<, Nat))
    BY NatLessThanWellFounded, WFMin
  <1>2. \A y \in T : ~(y < x)
    BY <1>1 DEF OpToRel
  <1> QED
    BY <1>2

LEMMA GreatestExists ==
    ASSUME NEW T, T \subseteq Nat, T # {}, NEW n \in Nat, \A y \in T : y <= n
    PROVE  Max(T) \in T /\ \A y \in T : y <= Max(T)
  <1> DEFINE B == {m \in Nat : \A y \in T : y <= m}
  <1>1. B \subseteq Nat /\ n \in B
    OBVIOUS
  <1>2. PICK m \in B : \A k \in B : m <= k
    <2> HIDE DEF B
    <2> QED
      BY <1>1, LeastExists
  <1>3. m \in T
    <2> SUFFICES ASSUME m \notin T PROVE FALSE
      OBVIOUS
    <2>1. PICK y \in T : TRUE
      OBVIOUS
    <2>2. \A z \in T : z <= m - 1
      BY <1>2
    <2>3. m - 1 \in Nat
      BY <1>2, <2>1, <2>2
    <2>4. m - 1 \in B
      BY <2>2, <2>3
    <2> QED
      BY <1>2, <2>3, <2>4
  <1>4. \E x \in T : \A y \in T : x >= y
    BY <1>2, <1>3
  <1> QED
    BY <1>4 DEF Max

\* A set of numbers with a bound is finite.
LEMMA BoundedFinite ==
    ASSUME NEW S, S \subseteq Nat, NEW n \in Nat, \A x \in S : x <= n
    PROVE  IsFiniteSet(S) /\ Cardinality(S) \in Nat
  BY FS_BoundedSetOfNaturals, FS_CardinalityType

\* InOrder lists elements of its set ...
LEMMA InOrderLists ==
    ASSUME NEW S, S \subseteq Nat, IsFiniteSet(S)
    PROVE  \A i \in 1..Cardinality(S) : InOrder(S)[i] \in S
  <1> DEFINE below(x) == {y \in S : y < x}
             N == {k \in Nat : k < Cardinality(S) => \E x \in S : Cardinality(below(x)) = k}
  <1>0. Cardinality(S) \in Nat /\ \A x : IsFiniteSet(below(x)) /\ Cardinality(below(x)) \in Nat
    BY FS_Subset, FS_CardinalityType
  <1>1. 0 \in N
    <2> SUFFICES ASSUME 0 < Cardinality(S) PROVE \E x \in S : Cardinality(below(x)) = 0
      OBVIOUS
    <2>1. S # {}
      BY FS_EmptySet
    <2>2. PICK x \in S : \A y \in S : x <= y
      BY <2>1, LeastExists
    <2>3. below(x) = {}
      <3>1. \A y \in S : y \in Nat /\ x \in Nat /\ x <= y
        BY <2>2
      <3>2. \A y \in S : ~(y < x)
        BY <3>1
      <3> QED
        BY <3>2
    <2> QED
      BY <2>3, FS_EmptySet
  <1>2. ASSUME NEW k \in Nat, k \in N PROVE k + 1 \in N
    <2> SUFFICES ASSUME k + 1 < Cardinality(S)
                 PROVE  \E x \in S : Cardinality(below(x)) = k + 1
      OBVIOUS
    <2>1. PICK x \in S : Cardinality(below(x)) = k
      BY <1>0, <1>2
    <2> DEFINE above == {y \in S : x < y}
    <2>2. above # {}
      <3> SUFFICES ASSUME above = {} PROVE FALSE
        OBVIOUS
      <3>1. S = below(x) \cup {x}
        <4>1. \A y \in S : y \in Nat /\ x \in Nat /\ ~(x < y)
          OBVIOUS
        <4>2. \A y \in S : y < x \/ y = x
          BY <4>1
        <4> QED
          BY <4>2
      <3>2. x \notin below(x)
        OBVIOUS
      <3>3. Cardinality(below(x) \cup {x}) = k + 1
        <4>1. IsFiniteSet(below(x))
          BY <1>0
        <4> HIDE DEF below
        <4> QED
          BY <2>1, <3>2, <4>1, FS_AddElement
      <3> QED
        BY <1>0, <3>1, <3>3
    <2>3. PICK z \in above : \A y \in above : z <= y
      <3>1. above \subseteq Nat
        OBVIOUS
      <3> HIDE DEF above
      <3> QED
        BY <2>2, <3>1, LeastExists
    <2>4. below(z) = below(x) \cup {x}
      <3>1. \A y \in S : y \in Nat /\ x \in Nat /\ z \in Nat /\ x < z /\ (x < y => z <= y)
        BY <2>3
      <3>2. \A y \in S : y < z <=> y < x \/ y = x
        BY <3>1
      <3> QED
        BY <3>2
    <2>5. x \notin below(x)
      OBVIOUS
    <2>6. Cardinality(below(z)) = k + 1
      <3>1. IsFiniteSet(below(x))
        BY <1>0
      <3> HIDE DEF below
      <3> QED
        BY <2>1, <2>4, <2>5, <3>1, FS_AddElement
    <2> QED
      BY <2>3, <2>6
  <1> HIDE DEF N
  <1>3. \A k \in Nat : k \in N
    BY <1>1, <1>2, NatSet
  <1>4. ASSUME NEW i \in 1..Cardinality(S) PROVE InOrder(S)[i] \in S
    <2>1. i - 1 \in Nat /\ i - 1 < Cardinality(S)
      BY <1>0
    <2>2. \E x \in S : Cardinality({y \in S : y < x}) = i - 1
      BY <1>3, <2>1 DEF N
    <2>3. InOrder(S)[i] = CHOOSE x \in S : Cardinality({y \in S : y < x}) = i - 1
      BY DEF InOrder
    <2> QED
      BY <2>2, <2>3
  <1> QED
    BY <1>4

\* ... and the numbers from 1 on in their order.
LEMMA InOrderOfRow ==
    ASSUME NEW n \in Nat
    PROVE  /\ Cardinality(1..n) = n
           /\ \A i \in 1..n : InOrder(1..n)[i] = i
  <1>1. Cardinality(1..n) = n
    BY FS_Interval
  <1>2. ASSUME NEW i \in 1..n PROVE InOrder(1..n)[i] = i
    <2>1. \A x \in 1..n : Cardinality({y \in 1..n : y < x}) = x - 1
      <3> TAKE x \in 1..n
      <3>1. {y \in 1..n : y < x} = 1..(x - 1)
        OBVIOUS
      <3>2. Cardinality(1..(x - 1)) = x - 1
        BY FS_Interval
      <3> QED
        BY <3>1, <3>2
    <2>2. \A x \in 1..n : Cardinality({y \in 1..n : y < x}) = i - 1 => x = i
      BY <2>1
    <2>3. Cardinality({y \in 1..n : y < i}) = i - 1
      BY <2>1
    <2>4. InOrder(1..n)[i] = CHOOSE x \in 1..n : Cardinality({y \in 1..n : y < x}) = i - 1
      BY <1>1 DEF InOrder
    <2> QED
      BY <2>2, <2>3, <2>4
  <1> QED
    BY <1>1, <1>2

\* What a function over 1..n is as a sequence.
LEMMA ListOf ==
    ASSUME NEW S, NEW n \in Nat, NEW w \in [1..n -> S]
    PROVE  w \in Seq(S) /\ Len(w) = n
  <1>1. w \in Seq(S)
    BY SeqDef
  <1>2. Len(w) \in Nat /\ DOMAIN w = 1..Len(w)
    BY <1>1, LenProperties
  <1> QED
    BY <1>1, <1>2

-----------------------------------------------------------------------------
(* Powers of two                                                           *)

\* The powers up to the n-th.
Doubled(n, g) ==
    /\ g \in [0..n -> Nat]
    /\ g[0] = 1
    /\ \A i \in 1..n : g[i] = 2 * g[i - 1]

LEMMA DoubledExist == \A n \in Nat : \E g : Doubled(n, g)
  <1> DEFINE S == {n \in Nat : \E g : Doubled(n, g)}
  <1>1. 0 \in S
    <2> DEFINE g == [i \in 0..0 |-> 1]
    <2>1. Doubled(0, g)
      BY DEF Doubled
    <2> QED
      BY <2>1
  <1>2. ASSUME NEW n \in Nat, n \in S PROVE n + 1 \in S
    <2>1. PICK g : Doubled(n, g)
      BY <1>2
    <2> DEFINE h == [i \in 0..(n + 1) |-> IF i = n + 1 THEN 2 * g[n] ELSE g[i]]
    <2>2. \A i \in 0..n : g[i] \in Nat /\ i \in Nat /\ i # n + 1 /\ i \in 0..(n + 1)
      BY <2>1 DEF Doubled
    <2>3. g[n] \in Nat /\ 2 * g[n] \in Nat
      BY <2>2
    <2>4. h \in [0..(n + 1) -> Nat]
      <3>1. \A i \in 0..(n + 1) : (IF i = n + 1 THEN 2 * g[n] ELSE g[i]) \in Nat
        <4> TAKE i \in 0..(n + 1)
        <4>1. i = n + 1 \/ i \in 0..n
          OBVIOUS
        <4> QED
          BY <4>1, <2>2, <2>3
      <3> QED
        BY <3>1
    <2>5. h[0] = 1
      BY <2>1, <2>2 DEF Doubled
    <2>6. ASSUME NEW i \in 1..(n + 1) PROVE h[i] = 2 * h[i - 1]
      <3>1. CASE i = n + 1
        <4>1. h[n + 1] = 2 * g[n] /\ h[n] = g[n] /\ i - 1 = n
          BY <3>1, <2>2
        <4> HIDE DEF h
        <4> QED
          BY <3>1, <4>1
      <3>2. CASE i # n + 1
        <4>1. i \in 1..n /\ i \in 0..n /\ i - 1 \in 0..n
          BY <3>2
        <4>2. h[i] = g[i] /\ h[i - 1] = g[i - 1]
          BY <4>1, <2>2
        <4>3. g[i] = 2 * g[i - 1]
          BY <4>1, <2>1 DEF Doubled
        <4> HIDE DEF h
        <4> QED
          BY <4>2, <4>3
      <3> QED
        BY <3>1, <3>2
    <2>7. Doubled(n + 1, h)
      <3> HIDE DEF h
      <3> QED
        BY <2>4, <2>5, <2>6 DEF Doubled
    <2> QED
      BY <2>7
  <1> HIDE DEF S
  <1>3. \A n \in Nat : n \in S
    BY <1>1, <1>2, NatSet
  <1> QED
    BY <1>3 DEF S

LEMMA DoubledAgree ==
    ASSUME NEW m \in Nat, NEW n \in Nat, NEW g, NEW h, Doubled(m, g), Doubled(n, h),
           NEW k \in Nat, k <= m, k <= n
    PROVE  g[k] = h[k]
  <1> DEFINE S == {i \in Nat : i <= m /\ i <= n => g[i] = h[i]}
  <1>1. 0 \in S
    BY DEF Doubled
  <1>2. ASSUME NEW i \in Nat, i \in S PROVE i + 1 \in S
    <2> SUFFICES ASSUME i + 1 <= m, i + 1 <= n PROVE g[i + 1] = h[i + 1]
      OBVIOUS
    <2>1. g[i] = h[i]
      BY <1>2
    <2>2. i + 1 \in 1..m /\ i + 1 \in 1..n /\ (i + 1) - 1 = i
      OBVIOUS
    <2> QED
      BY <2>1, <2>2 DEF Doubled
  <1> HIDE DEF S
  <1>3. k \in S
    BY <1>1, <1>2, NatSet
  <1> QED
    BY <1>3 DEF S

\* The recursion of Power defines the powers of two, which outgrow any number.
LEMMA PowerIs ==
    /\ Power[0] = 1
    /\ \A n \in Nat : /\ Power[n] \in Nat
                      /\ Power[n] >= n + 1
                      /\ Power[n + 1] = 2 * Power[n]
  <1> DEFINE run(n) == CHOOSE g : Doubled(n, g)
             f == [n \in Nat |-> run(n)[n]]
             F(g) == [n \in Nat |-> IF n = 0 THEN 1 ELSE 2 * g[n - 1]]
  <1>1. \A n \in Nat : Doubled(n, run(n))
    BY DoubledExist
  <1> HIDE DEF run
  <1>2. \A n \in Nat : f[n] = run(n)[n] /\ f[n] \in Nat
    BY <1>1 DEF Doubled
  <1>3. f[0] = 1
    BY <1>1, <1>2 DEF Doubled
  <1>4. \A n \in Nat : f[n + 1] = 2 * f[n]
    <2> TAKE n \in Nat
    <2>1. n + 1 \in Nat /\ n + 1 \in 1..(n + 1) /\ (n + 1) - 1 = n /\ n <= n + 1
      OBVIOUS
    <2>2. run(n + 1)[n + 1] = 2 * run(n + 1)[n]
      BY <1>1, <2>1 DEF Doubled
    <2>3. run(n + 1)[n] = run(n)[n]
      BY <1>1, <2>1, DoubledAgree
    <2> HIDE DEF f
    <2> QED
      BY <1>2, <2>1, <2>2, <2>3
  <1>5. f = F(f)
    <2>1. \A n \in Nat : f[n] = IF n = 0 THEN 1 ELSE 2 * f[n - 1]
      <3> TAKE n \in Nat
      <3>1. CASE n = 0
        BY <3>1, <1>3
      <3>2. CASE n # 0
        <4>1. n - 1 \in Nat /\ (n - 1) + 1 = n
          BY <3>2
        <4> HIDE DEF f
        <4> QED
          BY <3>2, <4>1, <1>4
      <3> QED
        BY <3>1, <3>2
    <2>2. f = [n \in Nat |-> f[n]]
      OBVIOUS
    <2> HIDE DEF f
    <2> QED
      BY <2>1, <2>2, Zenon
  <1>6. Power = CHOOSE g : g = F(g)
    BY DEF Power
  <1>7. Power = F(Power)
    <2> HIDE DEF f, F
    <2> QED
      BY <1>5, <1>6
  <1>8. \A n \in Nat : Power[n] = IF n = 0 THEN 1 ELSE 2 * Power[n - 1]
    BY <1>7
  <1>9. Power[0] = 1
    BY <1>8
  <1>10. \A n \in Nat : Power[n + 1] = 2 * Power[n]
    <2> TAKE n \in Nat
    <2>1. n + 1 \in Nat /\ n + 1 # 0 /\ (n + 1) - 1 = n
      OBVIOUS
    <2> QED
      BY <1>8, <2>1
  <1>11. \A n \in Nat : Power[n] \in Nat /\ Power[n] >= n + 1
    <2> DEFINE S == {n \in Nat : Power[n] \in Nat /\ Power[n] >= n + 1}
    <2>1. 0 \in S
      BY <1>9
    <2>2. \A n \in Nat : n \in S => n + 1 \in S
      BY <1>10
    <2> HIDE DEF S
    <2>3. \A n \in Nat : n \in S
      BY <2>1, <2>2, NatSet
    <2> QED
      BY <2>3 DEF S
  <1> QED
    BY <1>9, <1>10, <1>11

\* Half the places of the seeding are fewer than the entries it seats.
LEMMA PowerAboveIs ==
    ASSUME NEW n \in Nat, n >= 2
    PROVE  \E half \in Nat : /\ PowerAbove(n) = 2 * half /\ PowerAbove(n) \div 2 = half
                             /\ 1 <= half /\ half < n /\ n <= 2 * half
  <1> DEFINE T == {k \in Nat : n <= Power[k]}
  <1>1. T \subseteq Nat /\ n \in T
    BY PowerIs
  <1>2. PICK k \in T : \A m \in T : k <= m
    <2> HIDE DEF T
    <2> QED
      BY <1>1, LeastExists
  <1>3. k \in Nat /\ n <= Power[k] /\ k <= n /\ k # 0
    BY <1>1, <1>2, PowerIs
  <1>4. k - 1 \in Nat /\ k \in 1..n /\ k - 1 \notin T
    BY <1>2, <1>3
  <1>5. Power[k - 1] < n
    BY <1>4, PowerIs
  <1>6. PICK j \in 1..n : j = (CHOOSE i \in 1..n : Power[i - 1] < n /\ n <= Power[i])
                          /\ Power[j - 1] < n /\ n <= Power[j]
    BY <1>3, <1>4, <1>5
  <1>7. PowerAbove(n) = Power[j]
    BY <1>6 DEF PowerAbove
  <1>8. j - 1 \in Nat /\ (j - 1) + 1 = j
    OBVIOUS
  <1> DEFINE half == Power[j - 1]
  <1>9. half \in Nat /\ 1 <= half /\ Power[j] = 2 * half
    BY <1>8, PowerIs
  <1>10. (2 * half) \div 2 = half
    <2> HIDE DEF half
    <2> QED
      BY <1>9
  <1> QED
    BY <1>6, <1>7, <1>9, <1>10
-----------------------------------------------------------------------------
(* Matches, byes and pairings                                              *)

ByeRow == [round: Nat \ {0}, slot: Nat \ {0}, entry: Entry]

Bounded(c) ==
    \E n \in Nat : /\ \A p \in DOMAIN c.matches : p[1] <= n /\ p[2] <= n
                   /\ \A bye \in c.byes : bye.slot <= n

\* What the progression needs to know of a category to be defined on it.
Typed(c) ==
    /\ DOMAIN c.matches \subseteq Place
    /\ \A p \in DOMAIN c.matches : c.matches[p] \in Match
    /\ c.byes \subseteq ByeRow
    /\ Bounded(c)

\* A pairing of entries in slots up to m.
Pairing(pairs, m) ==
    /\ DOMAIN pairs \subseteq 1..m
    /\ \A s \in DOMAIN pairs : pairs[s].a \in Entry /\ pairs[s].b \in Side

Draw(c, r) == SequentialPairs(Winners(c, r))

LEMMA PlaceIs ==
    \A p \in Place : /\ p = <<p[1], p[2]>> /\ p[1] \in Nat /\ p[2] \in Nat /\ p[2] # 0
                     /\ p = Third <=> p[1] = 0
  BY DEF Place, Third

LEMMA PlaceMade ==
    \A r, s \in Nat \ {0} : <<r, s>> \in Place /\ <<r, s>> # Third
  BY DEF Place, Third

LEMMA SlotsTyped ==
    ASSUME NEW c, Typed(c), NEW r
    PROVE  /\ Slots(c, r) \subseteq Nat \ {0}
           /\ IsFiniteSet(Slots(c, r)) /\ Cardinality(Slots(c, r)) \in Nat
  <1>1. \A p \in RoundOf(c.matches, r) : p[2] \in Nat \ {0}
    BY PlaceIs DEF RoundOf, Typed
  <1>2. \A bye \in ByesAt(c, r) : bye.slot \in Nat \ {0}
    BY DEF ByesAt, Typed, ByeRow
  <1>3. PICK n \in Nat : /\ \A p \in DOMAIN c.matches : p[1] <= n /\ p[2] <= n
                         /\ \A bye \in c.byes : bye.slot <= n
    BY DEF Typed, Bounded
  <1>4. Slots(c, r) \subseteq Nat /\ Slots(c, r) \subseteq Nat \ {0}
    BY <1>1, <1>2 DEF Slots
  <1>5. \A x \in Slots(c, r) : x <= n
    BY <1>3 DEF Slots, RoundOf, ByesAt
  <1> QED
    BY <1>4, <1>5, BoundedFinite

LEMMA PassingTyped ==
    ASSUME NEW c, Typed(c), NEW r, NEW s \in Slots(c, r)
    PROVE  Passing(c, r, s) \in Side
  <1>1. CASE <<r, s>> \in DOMAIN c.matches
    BY <1>1 DEF Passing, Typed, Match
  <1>2. CASE <<r, s>> \notin DOMAIN c.matches
    <2>1. \A p \in RoundOf(c.matches, r) : p[2] # s
      BY <1>2, PlaceIs DEF RoundOf, Typed
    <2>2. \E bye \in ByesAt(c, r) : bye.slot = s
      BY <2>1 DEF Slots
    <2>3. (CHOOSE bye \in ByesAt(c, r) : bye.slot = s) \in ByeRow
      BY <2>2 DEF ByesAt, Typed
    <2> QED
      BY <1>2, <2>3 DEF Passing, ByeRow, Side
  <1> QED
    BY <1>1, <1>2

LEMMA WinnersTyped ==
    ASSUME NEW c, Typed(c), NEW r
    PROVE  /\ Cardinality(Slots(c, r)) \in Nat
           /\ Winners(c, r) \in [1..Cardinality(Slots(c, r)) -> Side]
           /\ Winners(c, r) \in Seq(Side)
           /\ Len(Winners(c, r)) = Cardinality(Slots(c, r))
  <1>1. Slots(c, r) \subseteq Nat /\ IsFiniteSet(Slots(c, r)) /\ Cardinality(Slots(c, r)) \in Nat
    BY SlotsTyped
  <1>2. \A i \in 1..Cardinality(Slots(c, r)) : Passing(c, r, InOrder(Slots(c, r))[i]) \in Side
    BY <1>1, InOrderLists, PassingTyped
  <1>3. Winners(c, r) \in [1..Cardinality(Slots(c, r)) -> Side]
    BY <1>2 DEF Winners
  <1> QED
    BY <1>1, <1>3, ListOf

\* Nobody is missing among the winners of a round that is settled.
LEMMA SettledWinners ==
    ASSUME NEW c, Typed(c), NEW r, Settled(c, r)
    PROVE  Winners(c, r) \in [1..Len(Winners(c, r)) -> Entry]
  <1>1. \A i \in 1..Len(Winners(c, r)) : Winners(c, r)[i] # None /\ Winners(c, r)[i] \in Side
    BY WinnersTyped DEF Settled, Range
  <1>2. \A i \in 1..Len(Winners(c, r)) : Winners(c, r)[i] \in Entry
    BY <1>1 DEF Side
  <1> QED
    BY <1>2, WinnersTyped

LEMMA SequentialPairsAre ==
    ASSUME NEW n \in Nat, NEW S, NEW w \in [1..n -> S]
    PROVE  /\ (n + 1) \div 2 \in Nat
           /\ DOMAIN SequentialPairs(w) = 1..((n + 1) \div 2)
           /\ \A i \in 1..((n + 1) \div 2) :
                 /\ 2 * i - 1 \in 1..n
                 /\ 2 * i <= n <=> 2 * i \in 1..n
                 /\ SequentialPairs(w)[i] =
                      [a |-> w[2 * i - 1], b |-> IF 2 * i <= n THEN w[2 * i] ELSE None]
  <1>1. Len(w) = n
    BY ListOf
  <1> QED
    BY <1>1 DEF SequentialPairs

LEMMA SequentialPairing ==
    ASSUME NEW n \in Nat, NEW w \in [1..n -> Entry]
    PROVE  Pairing(SequentialPairs(w), (n + 1) \div 2)
  <1>1. \A i \in 1..((n + 1) \div 2) :
          SequentialPairs(w)[i].a \in Entry /\ SequentialPairs(w)[i].b \in Side
    <2> TAKE i \in 1..((n + 1) \div 2)
    <2>1. w[2 * i - 1] \in Entry /\ (2 * i <= n => w[2 * i] \in Entry)
      BY SequentialPairsAre
    <2>2. SequentialPairs(w)[i] =
            [a |-> w[2 * i - 1], b |-> IF 2 * i <= n THEN w[2 * i] ELSE None]
      BY SequentialPairsAre
    <2> QED
      BY <2>1, <2>2 DEF Side
  <1>2. DOMAIN SequentialPairs(w) = 1..((n + 1) \div 2)
    BY SequentialPairsAre
  <1> QED
    BY <1>1, <1>2 DEF Pairing

LEMMA ScheduledTyped ==
    \A a, b \in Side : /\ Scheduled(a, b, NoLabel) \in Match
                       /\ Scheduled(a, b, NoLabel).a = a /\ Scheduled(a, b, NoLabel).b = b
                       /\ Scheduled(a, b, NoLabel).winner = None
                       /\ Scheduled(a, b, NoLabel).label = NoLabel
                       /\ Scheduled(a, b, NoLabel).status = "SCHEDULED"
  BY DEF Scheduled, Match, MatchStatus, Side

\* The matches a pairing makes.
FullSlots(pairs) == {i \in DOMAIN pairs : pairs[i].b # None}

\* The places where round r gets a match, or the one of the agenda its sides.
Made(ms, r, pairs) ==
    {p \in {<<r, s>> : s \in FullSlots(pairs)} : p \in DOMAIN ms => ms[p].status = "SCHEDULED"}

LEMMA CreateRoundDomain ==
    ASSUME NEW ms, NEW r, NEW pairs
    PROVE  DOMAIN CreateRound(ms, r, pairs) = (DOMAIN ms) \cup {<<r, s>> : s \in FullSlots(pairs)}
  BY DEF CreateRound, FullSlots

LEMMA CreateRoundIs ==
    ASSUME NEW ms, NEW r, NEW pairs
    PROVE  CreateRound(ms, r, pairs) =
              [p \in (DOMAIN ms) \cup {<<r, s>> : s \in FullSlots(pairs)} |->
                  IF p \in {<<r, s>> : s \in FullSlots(pairs)} /\ (p \in DOMAIN ms => ms[p].status = "SCHEDULED")
                  THEN Scheduled(pairs[p[2]].a, pairs[p[2]].b, NoLabel)
                  ELSE ms[p]]
  BY DEF CreateRound, FullSlots

LEMMA CreateRoundMade ==
    ASSUME NEW ms, NEW r, NEW pairs, NEW p \in Made(ms, r, pairs)
    PROVE  CreateRound(ms, r, pairs)[p] = Scheduled(pairs[p[2]].a, pairs[p[2]].b, NoLabel)
  BY CreateRoundIs DEF Made

LEMMA CreateRoundKept ==
    ASSUME NEW ms, NEW r, NEW pairs, NEW p \in DOMAIN CreateRound(ms, r, pairs), p \notin Made(ms, r, pairs)
    PROVE  p \in DOMAIN ms /\ CreateRound(ms, r, pairs)[p] = ms[p]
  BY CreateRoundIs, CreateRoundDomain DEF Made

\* Those places are places of round r.
LEMMA FullPlaces ==
    ASSUME NEW pairs, NEW m \in Nat, Pairing(pairs, m), NEW r \in Nat \ {0}
    PROVE  \A s \in FullSlots(pairs) :
              /\ s \in 1..m /\ <<r, s>> \in Place /\ <<r, s>> # Third
              /\ <<r, s>>[1] = r /\ <<r, s>>[2] = s
              /\ pairs[s].a \in Entry /\ pairs[s].b \in Entry
  BY PlaceMade DEF FullSlots, Pairing, Side

LEMMA StoreByesTyped ==
    ASSUME NEW bs, bs \subseteq ByeRow, NEW pairs, NEW m \in Nat, Pairing(pairs, m), NEW r \in Nat \ {0}
    PROVE  /\ StoreByes(bs, r, pairs) \subseteq ByeRow
           /\ \A bye \in StoreByes(bs, r, pairs) : bye \in bs \/ bye.slot \in 1..m
  BY DEF StoreByes, ByesOf, ByeRow, Pairing

LEMMA CreateRoundTyped ==
    ASSUME NEW c, Typed(c), NEW pairs, NEW m \in Nat, Pairing(pairs, m), NEW r \in Nat \ {0},
           NEW d, d.matches = CreateRound(c.matches, r, pairs), d.byes = StoreByes(c.byes, r, pairs)
    PROVE  Typed(d)
  <1>1. \A p \in DOMAIN d.matches : p \in DOMAIN c.matches \/ \E s \in FullSlots(pairs) : p = <<r, s>>
    <2>1. DOMAIN CreateRound(c.matches, r, pairs)
            = (DOMAIN c.matches) \cup {<<r, s>> : s \in FullSlots(pairs)}
      BY CreateRoundDomain
    <2> QED
      BY <2>1
  <1>2. DOMAIN d.matches \subseteq Place
    BY <1>1, FullPlaces DEF Typed
  <1>3. ASSUME NEW p \in DOMAIN d.matches PROVE d.matches[p] \in Match
    <2>1. CASE p \in Made(c.matches, r, pairs)
      <3>1. CreateRound(c.matches, r, pairs)[p] = Scheduled(pairs[p[2]].a, pairs[p[2]].b, NoLabel)
        BY <2>1, CreateRoundMade
      <3>2. PICK s \in FullSlots(pairs) : p = <<r, s>>
        BY <2>1 DEF Made
      <3> QED
        BY <3>1, <3>2, FullPlaces, ScheduledTyped DEF Side
    <2>2. CASE p \notin Made(c.matches, r, pairs)
      <3>1. p \in DOMAIN c.matches /\ CreateRound(c.matches, r, pairs)[p] = c.matches[p]
        BY <2>2, CreateRoundKept
      <3> QED
        BY <3>1 DEF Typed
    <2> QED
      BY <2>1, <2>2
  <1>4. d.byes \subseteq ByeRow /\ \A bye \in d.byes : bye \in c.byes \/ bye.slot \in 1..m
    BY StoreByesTyped DEF Typed
  <1>5. Bounded(d)
    <2>1. PICK n \in Nat : /\ \A p \in DOMAIN c.matches : p[1] <= n /\ p[2] <= n
                           /\ \A bye \in c.byes : bye.slot <= n
      BY DEF Typed, Bounded
    <2>2. \A p \in DOMAIN c.matches : p[1] \in Nat /\ p[2] \in Nat
      BY PlaceIs DEF Typed
    <2>3. \A p \in DOMAIN d.matches : p[1] <= n + m + r /\ p[2] <= n + m + r
      <3> TAKE p \in DOMAIN d.matches
      <3>1. CASE p \in DOMAIN c.matches
        BY <3>1, <2>1, <2>2
      <3>2. CASE \E s \in FullSlots(pairs) : p = <<r, s>>
        BY <3>2, FullPlaces
      <3> QED
        BY <3>1, <3>2, <1>1
    <2>4. \A bye \in d.byes : bye.slot <= n + m + r
      <3>1. \A bye \in c.byes : bye.slot \in Nat
        BY DEF Typed, ByeRow
      <3> QED
        BY <3>1, <2>1, <1>4
    <2> QED
      BY <2>3, <2>4 DEF Bounded
  <1> QED
    BY <1>2, <1>3, <1>4, <1>5 DEF Typed

\* The slots of the matches of a round, in their order.
Semis(ms, r) == InOrder({p[2] : p \in RoundOf(ms, r)})
LoserOf(ms, r, i) == Loser(ms[<<r, Semis(ms, r)[i]>>])
\* The third place is not created nor changed: its participants are known.
Taken(ms) == Third \in DOMAIN ms /\ (ms[Third].status # "SCHEDULED" \/ Known(ms[Third]))

LEMMA ThirdPlaceKept ==
    ASSUME NEW ms, NEW r, Taken(ms)
    PROVE  ThirdPlace(ms, r) = ms
  BY DEF ThirdPlace, Taken

LEMMA ThirdPlaceIs ==
    ASSUME NEW ms, NEW r, ~Taken(ms)
    PROVE  ThirdPlace(ms, r) =
              [p \in (DOMAIN ms) \cup {Third} |->
                  IF p = Third THEN Scheduled(LoserOf(ms, r, 1), LoserOf(ms, r, 2), NoLabel) ELSE ms[p]]
  BY DEF ThirdPlace, Taken, LoserOf, Semis

\* The slots of the matches of a round are as many as its matches.
LEMMA MatchSlots ==
    ASSUME NEW c, Typed(c), NEW r
    PROVE  /\ IsFiniteSet({p[2] : p \in RoundOf(c.matches, r)})
           /\ Cardinality({p[2] : p \in RoundOf(c.matches, r)}) = Cardinality(RoundOf(c.matches, r))
  <1> DEFINE slots == {p[2] : p \in RoundOf(c.matches, r)}
  <1>1. slots \subseteq Nat /\ \A s \in slots : <<r, s>> \in RoundOf(c.matches, r)
    BY PlaceIs DEF RoundOf, Typed
  <1>2. PICK n \in Nat : \A p \in DOMAIN c.matches : p[1] <= n /\ p[2] <= n
    BY DEF Typed, Bounded
  <1>3. IsFiniteSet(slots)
    <2>1. \A s \in slots : s <= n
      BY <1>2 DEF RoundOf
    <2> HIDE DEF slots
    <2> QED
      BY <1>1, <2>1, BoundedFinite
  <1> DEFINE f == [s \in slots |-> <<r, s>>]
  <1>4. f \in Bijection(slots, RoundOf(c.matches, r))
    <2>1. f \in [slots -> RoundOf(c.matches, r)]
      BY <1>1
    <2>2. \A s, t \in slots : f[s] = f[t] => s = t
      OBVIOUS
    <2>3. \A p \in RoundOf(c.matches, r) : \E s \in slots : f[s] = p
      BY PlaceIs DEF RoundOf, Typed
    <2> HIDE DEF f, slots
    <2> QED
      BY <2>1, <2>2, <2>3 DEF Bijection, Injection, Surjection, IsInjective
  <1> HIDE DEF f, slots
  <1>5. Cardinality(slots) = Cardinality(RoundOf(c.matches, r))
    BY <1>3, <1>4, FS_Bijection DEF ExistsBijection
  <1> QED
    BY <1>3, <1>5 DEF slots
LEMMA ThirdPlaceTyped ==
    ASSUME NEW c, Typed(c), NEW r \in Nat \ {0}, Cardinality(RoundOf(c.matches, r)) = 2,
           NEW d, d.matches = ThirdPlace(c.matches, r), d.byes = c.byes
    PROVE  Typed(d)
  <1> DEFINE slots == {p[2] : p \in RoundOf(c.matches, r)}
             semis == InOrder(slots)
  <1>1. slots \subseteq Nat /\ \A s \in slots : <<r, s>> \in RoundOf(c.matches, r)
    BY PlaceIs DEF RoundOf, Typed
  <1>2. IsFiniteSet(slots) /\ Cardinality(slots) = 2
    BY MatchSlots
  <1>3. \A i \in 1..2 : <<r, semis[i]>> \in DOMAIN c.matches
    <2>1. \A i \in 1..2 : semis[i] \in slots
      <3> HIDE DEF slots
      <3> QED
        BY <1>1, <1>2, InOrderLists
    <2> QED
      BY <2>1, <1>1 DEF RoundOf
  <1>4. \A i \in 1..2 : Loser(c.matches[<<r, semis[i]>>]) \in Side
    <2>1. \A i \in 1..2 : c.matches[<<r, semis[i]>>] \in Match
      BY <1>3 DEF Typed
    <2> HIDE DEF semis
    <2> QED
      BY <2>1 DEF Match, Loser
  <1>5. Scheduled(LoserOf(c.matches, r, 1), LoserOf(c.matches, r, 2), NoLabel) \in Match
    BY <1>4, ScheduledTyped DEF LoserOf, Semis
  <1>6. Third \in Place /\ Third[1] = 0 /\ Third[2] = 1
    BY DEF Place, Third
  <1>7. CASE Taken(c.matches)
    <2>1. d.matches = c.matches
      BY <1>7, ThirdPlaceKept
    <2> QED
      BY <2>1 DEF Typed, Bounded
  <1>8. CASE ~Taken(c.matches)
    <2>0. d.matches = [p \in (DOMAIN c.matches) \cup {Third} |->
            IF p = Third THEN Scheduled(LoserOf(c.matches, r, 1), LoserOf(c.matches, r, 2), NoLabel)
            ELSE c.matches[p]]
      BY <1>8, ThirdPlaceIs, Zenon
    <2>a. DOMAIN d.matches = (DOMAIN c.matches) \cup {Third}
      BY <2>0
    <2>b. \A p \in DOMAIN c.matches : p # Third => d.matches[p] = c.matches[p]
      BY <2>0
    <2>c. d.matches[Third] = Scheduled(LoserOf(c.matches, r, 1), LoserOf(c.matches, r, 2), NoLabel)
      BY <2>0
    <2>1. \A p \in DOMAIN d.matches : d.matches[p] \in Match
      BY <2>a, <2>b, <2>c, <1>5 DEF Typed
    <2>2. PICK n \in Nat : /\ \A p \in DOMAIN c.matches : p[1] <= n /\ p[2] <= n
                           /\ \A bye \in c.byes : bye.slot <= n
      BY DEF Typed, Bounded
    <2>3. \A p \in DOMAIN c.matches : p[1] \in Nat /\ p[2] \in Nat
      BY PlaceIs DEF Typed
    <2>4. \A bye \in c.byes : bye.slot \in Nat
      BY DEF Typed, ByeRow
    <2>5. Bounded(d)
      <3>1. \A p \in DOMAIN d.matches : p[1] <= n + 1 /\ p[2] <= n + 1
        BY <1>6, <2>a, <2>2, <2>3
      <3>2. \A bye \in d.byes : bye.slot <= n + 1
        BY <2>2, <2>4
      <3> QED
        BY <3>1, <3>2 DEF Bounded
    <2> QED
      BY <1>6, <2>a, <2>1, <2>5 DEF Typed
  <1> QED
    BY <1>7, <1>8
-----------------------------------------------------------------------------
(* The pairs of the first round                                            *)

\* How many pairs the seeding makes of n entries.
Half(n) ==
    IF n < 2 THEN 0 ELSE IF rule.crossing = "sequencial" THEN (n + 1) \div 2 ELSE PowerAbove(n) \div 2

LEMMA HalfIs ==
    ASSUME NEW n \in Nat
    PROVE  Half(n) \in Nat /\ Half(n) <= n /\ (n >= 2 => Half(n) < n) /\ n <= 2 * Half(n) + 1
  BY PowerAboveIs DEF Half

LEMMA SeedPairsDomain ==
    ASSUME NEW n \in Nat, NEW w \in [1..n -> Entry]
    PROVE  DOMAIN SeedPairs(w) = 1..Half(n)
  <1>1. Len(w) = n
    BY ListOf
  <1>2. CASE n < 2
    BY <1>1, <1>2 DEF SeedPairs, Half
  <1>3. CASE n >= 2 /\ rule.crossing = "sequencial"
    <2>1. SeedPairs(w) = SequentialPairs(w) /\ Half(n) = (n + 1) \div 2
      BY <1>1, <1>3 DEF SeedPairs, Half
    <2> QED
      BY <2>1, SequentialPairsAre
  <1>4. CASE n >= 2 /\ rule.crossing # "sequencial"
    BY <1>1, <1>4 DEF SeedPairs, Half
  <1> QED
    BY <1>2, <1>3, <1>4

\* The i-th pair of the bracket by powers of two.
LEMMA SeedPairsMirror ==
    ASSUME NEW n \in Nat, n >= 2, NEW w \in [1..n -> Entry], rule.crossing # "sequencial",
           NEW i \in 1..Half(n)
    PROVE  SeedPairs(w)[i] = [a |-> w[i], b |-> IF PowerAbove(n) + 1 - i <= n
                                                THEN w[PowerAbove(n) + 1 - i] ELSE None]
  <1>1. Len(w) = n
    BY ListOf
  <1> QED
    BY <1>1 DEF SeedPairs, Half

LEMMA SeedPairing ==
    ASSUME NEW n \in Nat, NEW w \in [1..n -> Entry]
    PROVE  Pairing(SeedPairs(w), Half(n))
  <1>1. Len(w) = n
    BY ListOf
  <1>2. CASE n < 2
    <2>1. SeedPairs(w) = << >>
      BY <1>1, <1>2 DEF SeedPairs
    <2> QED
      BY <2>1 DEF Pairing
  <1>3. CASE n >= 2 /\ rule.crossing = "sequencial"
    <2>1. SeedPairs(w) = SequentialPairs(w) /\ Half(n) = (n + 1) \div 2
      BY <1>1, <1>3 DEF SeedPairs, Half
    <2> QED
      BY <2>1, SequentialPairing
  <1>4. CASE n >= 2 /\ rule.crossing # "sequencial"
    <2>1. \A i \in 1..Half(n) : SeedPairs(w)[i].a \in Entry /\ SeedPairs(w)[i].b \in Side
      <3> TAKE i \in 1..Half(n)
      <3>1. PICK half \in Nat : PowerAbove(n) = 2 * half /\ PowerAbove(n) \div 2 = half /\ half < n
        BY <1>4, PowerAboveIs
      <3>2. i \in 1..n /\ (PowerAbove(n) + 1 - i <= n => PowerAbove(n) + 1 - i \in 1..n)
        BY <1>4, <3>1 DEF Half
      <3>3. w[i] \in Entry /\ (PowerAbove(n) + 1 - i <= n => w[PowerAbove(n) + 1 - i] \in Entry)
        BY <3>2
      <3>4. SeedPairs(w)[i] = [a |-> w[i], b |-> IF PowerAbove(n) + 1 - i <= n
                                                 THEN w[PowerAbove(n) + 1 - i] ELSE None]
        BY <1>4, SeedPairsMirror
      <3> QED
        BY <3>3, <3>4 DEF Side
    <2> QED
      BY <2>1, SeedPairsDomain DEF Pairing
  <1> QED
    BY <1>2, <1>3, <1>4

\* Who has qualified, in the order of the table.
Seeds(c) == SubSeq(c.table, 1, rule.qualifiers)

LEMMA SeedsAre ==
    ASSUME NEW c, rule \in Rules, c.table \in Tables
    PROVE  /\ rule.qualifiers \in Nat
           /\ Seeds(c) \in [1..rule.qualifiers -> Entry]
           /\ \A i, j \in 1..rule.qualifiers : Seeds(c)[i] = Seeds(c)[j] => i = j
  <1>1. rule.qualifiers \in Nat /\ c.table \in Seq(Entry) /\ rule.qualifiers <= Len(c.table)
    BY RuleAssumption, TableAssumption
  <1>2. Seeds(c) = [i \in 1..rule.qualifiers |-> c.table[i]]
    BY <1>1 DEF Seeds
  <1>3. DOMAIN c.table = 1..Len(c.table) /\ \A i \in 1..rule.qualifiers : i \in 1..Len(c.table)
    BY <1>1
  <1>4. \A i \in 1..rule.qualifiers : c.table[i] \in Entry
    BY <1>1, <1>3
  <1>5. \A i, j \in DOMAIN c.table : c.table[i] = c.table[j] => i = j
    BY TableAssumption DEF IsInjective
  <1> QED
    BY <1>1, <1>2, <1>3, <1>4, <1>5

LEMMA PublishedPairing ==
    ASSUME NEW c, Typed(c), c.table \in Tables, Resolves(c),
           NEW m \in Nat, \A p \in DOMAIN c.matches : p[2] <= m
    PROVE  Pairing(PublishedPairs(c), m)
  <1> DEFINE slots == {p[2] : p \in RoundOf(c.matches, 1)}
  <1>1. \A s \in slots : s \in 1..m /\ <<1, s>> \in RoundOf(c.matches, 1)
    BY PlaceIs DEF RoundOf, Typed
  <1>2. DOMAIN PublishedPairs(c) = slots
    BY DEF PublishedPairs
  <1>3. ASSUME NEW s \in slots
        PROVE  /\ PublishedPairs(c)[s].a \in Entry
               /\ PublishedPairs(c)[s].b \in Entry
    <2> DEFINE label == c.matches[<<1, s>>].label
    <2>1. label \in Nat \X Nat
      BY <1>1 DEF Resolves, RoundOf, Typed, Match
    <2>2. Range(label) \subseteq DOMAIN c.table
      BY <1>1 DEF Resolves
    <2>3. label[1] \in Range(label) /\ label[2] \in Range(label)
      BY <2>1 DEF Range
    <2>4. PublishedPairs(c)[s] = [a |-> c.table[label[1]], b |-> c.table[label[2]]]
      BY DEF PublishedPairs
    <2>5. \A i \in DOMAIN c.table : c.table[i] \in Entry
      BY TableAssumption
    <2> HIDE DEF label
    <2> QED
      BY <2>2, <2>3, <2>4, <2>5
  <1> HIDE DEF slots
  <1> QED
    BY <1>1, <1>2, <1>3 DEF Pairing, Side

LEMMA FirstPairing ==
    ASSUME NEW c, Typed(c), rule \in Rules, c.table \in Tables
    PROVE  \E m \in Nat : Pairing(FirstPairs(c), m)
  <1>1. CASE Resolves(c)
    <2>1. PICK m \in Nat : \A p \in DOMAIN c.matches : p[2] <= m
      BY DEF Typed, Bounded
    <2>2. Pairing(PublishedPairs(c), m)
      BY <1>1, <2>1, PublishedPairing
    <2> QED
      BY <1>1, <2>2 DEF FirstPairs
  <1>2. CASE ~Resolves(c)
    <2>1. FirstPairs(c) = SeedPairs(Seeds(c))
      BY <1>2 DEF FirstPairs, Seeds
    <2>2. rule.qualifiers \in Nat /\ Seeds(c) \in [1..rule.qualifiers -> Entry]
      BY SeedsAre
    <2>3. Pairing(SeedPairs(Seeds(c)), Half(rule.qualifiers)) /\ Half(rule.qualifiers) \in Nat
      BY <2>2, SeedPairing, HalfIs
    <2> QED
      BY <2>1, <2>3
  <1> QED
    BY <1>1, <1>2

\* The pairs of a later round.
LEMMA DrawPairing ==
    ASSUME NEW c, Typed(c), NEW r, Settled(c, r)
    PROVE  /\ Len(Winners(c, r)) \in Nat
           /\ Pairing(Draw(c, r), (Len(Winners(c, r)) + 1) \div 2)
  <1>1. Len(Winners(c, r)) \in Nat /\ Winners(c, r) \in [1..Len(Winners(c, r)) -> Entry]
    BY WinnersTyped, SettledWinners
  <1> QED
    BY <1>1, SequentialPairing DEF Draw

-----------------------------------------------------------------------------
(* The progression, case by case                                           *)

IsCat(c) ==
    c = [matches |-> c.matches, byes |-> c.byes, table |-> c.table, played |-> c.played,
         status |-> c.status, byHand |-> c.byHand]

Kept(c, d) == d.matches = c.matches /\ d.byes = c.byes
AllByes(pairs) == \A s \in DOMAIN pairs : pairs[s].b = None

LastRound(c) == Max(Defined(c.matches))
CreatedNext(c, r) == CreateRound(c.matches, r + 1, Draw(c, r))
ThirdDue(c, r) ==
    rule.third /\ Len(Winners(c, r)) = 2 /\ Cardinality(RoundOf(c.matches, r)) = 2

\* The first round is made; the next one is; the category is over; nothing.
FirstMade(c, d) ==
    /\ Defined(c.matches) = {} /\ c.played = "all" /\ ~AllByes(FirstPairs(c))
    /\ d.matches = CreateRound(c.matches, 1, FirstPairs(c))
    /\ d.byes = StoreByes(c.byes, 1, FirstPairs(c)) /\ d.status = "ONGOING" /\ d.byHand = FALSE
NextMade(c, d) ==
    /\ Defined(c.matches) # {} /\ Settled(c, LastRound(c)) /\ Len(Winners(c, LastRound(c))) > 1
    /\ d.matches = IF ThirdDue(c, LastRound(c))
                   THEN ThirdPlace(CreatedNext(c, LastRound(c)), LastRound(c))
                   ELSE CreatedNext(c, LastRound(c))
    /\ d.byes = StoreByes(c.byes, LastRound(c) + 1, Draw(c, LastRound(c)))
    /\ d.status = "ONGOING" /\ d.byHand = FALSE
Ended(c, d) ==
    /\ Defined(c.matches) # {} /\ Settled(c, LastRound(c)) /\ ~(Len(Winners(c, LastRound(c))) > 1)
    /\ ~ThirdPending(c.matches)
    /\ Kept(c, d) /\ d.status = "FINISHED" /\ d.byHand = FALSE
Waiting(c, d) ==
    /\ \/ Defined(c.matches) = {} /\ (c.played # "all" \/ AllByes(FirstPairs(c)))
       \/ Defined(c.matches) # {} /\ ~Settled(c, LastRound(c))
       \/ /\ Defined(c.matches) # {} /\ Settled(c, LastRound(c))
          /\ ~(Len(Winners(c, LastRound(c))) > 1) /\ ThirdPending(c.matches)
    /\ d = c

LEMMA ProgressCases ==
    ASSUME NEW c, IsCat(c)
    PROVE  \/ FirstMade(c, ProgressKnockout(c)) \/ NextMade(c, ProgressKnockout(c))
           \/ Ended(c, ProgressKnockout(c)) \/ Waiting(c, ProgressKnockout(c))
  <1> DEFINE d == ProgressKnockout(c)
             r == LastRound(c)
  <1>1. CASE Defined(c.matches) = {}
    <2>1. d = CreateFirstRound(c)
      BY <1>1 DEF ProgressKnockout
    <2>2. CASE c.played # "all" \/ AllByes(FirstPairs(c))
      <3>1. d = c
        BY <2>1, <2>2 DEF CreateFirstRound, AllByes
      <3> QED
        BY <1>1, <2>2, <3>1 DEF Waiting
    <2>3. CASE ~(c.played # "all" \/ AllByes(FirstPairs(c)))
      <3>1. d = [c EXCEPT !.matches = CreateRound(c.matches, 1, FirstPairs(c)),
                          !.byes = StoreByes(c.byes, 1, FirstPairs(c)), !.status = "ONGOING",
                          !.byHand = FALSE]
        BY <2>1, <2>3 DEF CreateFirstRound, AllByes
      <3>2. /\ d.matches = CreateRound(c.matches, 1, FirstPairs(c))
            /\ d.byes = StoreByes(c.byes, 1, FirstPairs(c)) /\ d.status = "ONGOING" /\ d.byHand = FALSE
        <4> HIDE DEF d
        <4> QED
          BY <3>1 DEF IsCat
      <3> QED
        BY <1>1, <2>3, <3>2 DEF FirstMade
    <2> QED
      BY <2>2, <2>3
  <1>2. CASE Defined(c.matches) # {} /\ ~Settled(c, r)
    <2>1. d = c
      BY <1>2 DEF ProgressKnockout, LastRound
    <2> QED
      BY <1>2, <2>1 DEF Waiting
  <1>3. CASE Defined(c.matches) # {} /\ Settled(c, r) /\ Len(Winners(c, r)) > 1
    <2>1. d = NextRound(c, r)
      BY <1>3 DEF ProgressKnockout, LastRound
    <2>2. NextRound(c, r) =
            [c EXCEPT !.matches = IF ThirdDue(c, r) THEN ThirdPlace(CreatedNext(c, r), r)
                                                    ELSE CreatedNext(c, r),
                      !.byes = StoreByes(c.byes, r + 1, Draw(c, r)), !.status = "ONGOING",
                      !.byHand = FALSE]
      BY DEF NextRound, ThirdDue, CreatedNext, Draw
    <2>3. /\ d.matches = IF ThirdDue(c, r) THEN ThirdPlace(CreatedNext(c, r), r) ELSE CreatedNext(c, r)
          /\ d.byes = StoreByes(c.byes, r + 1, Draw(c, r)) /\ d.status = "ONGOING" /\ d.byHand = FALSE
      <3> HIDE DEF d, r
      <3> QED
        BY <2>1, <2>2 DEF IsCat
    <2> QED
      BY <1>3, <2>3 DEF NextMade
  <1>4. CASE Defined(c.matches) # {} /\ Settled(c, r) /\ ~(Len(Winners(c, r)) > 1)
    <2>1. CASE ThirdPending(c.matches)
      <3>1. d = c
        BY <1>4, <2>1 DEF ProgressKnockout, LastRound
      <3> QED
        BY <1>4, <2>1, <3>1 DEF Waiting
    <2>2. CASE ~ThirdPending(c.matches)
      <3>1. d = [c EXCEPT !.status = "FINISHED", !.byHand = FALSE]
        BY <1>4, <2>2 DEF ProgressKnockout, LastRound
      <3>2. Kept(c, d) /\ d.status = "FINISHED" /\ d.byHand = FALSE
        <4> HIDE DEF d
        <4> QED
          BY <3>1 DEF IsCat, Kept
      <3> QED
        BY <1>4, <2>2, <3>2 DEF Ended
    <2> QED
      BY <2>1, <2>2
  <1> QED
    BY <1>1, <1>2, <1>3, <1>4

\* The category before and after the progression of a recount.
Before(ms, bs, order, part) ==
    [matches |-> ms, byes |-> bs, table |-> order, played |-> part, status |-> status,
     byHand |-> byHand]

LEMMA RecomputeIs ==
    ASSUME NEW ms, NEW bs, NEW order, NEW part, RecomputeTournament(ms, bs, order, part),
           NEW c, c = Before(ms, bs, order, part), NEW d, d = ProgressKnockout(c)
    PROVE  /\ matches' = d.matches /\ byes' = d.byes
           /\ status' = IF d.status = "SCHEDULED" THEN "ONGOING" ELSE d.status
           /\ byHand' = d.byHand
           /\ table' = order /\ played' = part /\ rule' = rule
           /\ IsCat(c) /\ c.matches = ms /\ c.byes = bs /\ c.table = order /\ c.played = part
           /\ c.status = status /\ c.byHand = byHand
  <1>1. IsCat(c) /\ c.matches = ms /\ c.byes = bs /\ c.table = order /\ c.played = part
        /\ c.status = status /\ c.byHand = byHand
    BY DEF IsCat, Before
  <1>2. d.status = "SCHEDULED" => d = c
    BY <1>1, ProgressCases DEF FirstMade, NextMade, Ended, Waiting
  <1>3. /\ SyncStatus(d).matches = d.matches /\ SyncStatus(d).byes = d.byes
        /\ SyncStatus(d).status = IF d.status = "SCHEDULED" THEN "ONGOING" ELSE d.status
        /\ SyncStatus(d).byHand = d.byHand
    <2>1. CASE d.status = "SCHEDULED"
      BY <1>1, <1>2, <2>1 DEF SyncStatus, IsCat
    <2>2. CASE d.status # "SCHEDULED"
      BY <2>2 DEF SyncStatus
    <2> QED
      BY <2>1, <2>2
  <1>4. /\ matches' = SyncStatus(d).matches /\ byes' = SyncStatus(d).byes
        /\ status' = SyncStatus(d).status /\ byHand' = SyncStatus(d).byHand
        /\ table' = order /\ played' = part /\ rule' = rule
    BY DEF RecomputeTournament, Before
  <1> QED
    BY <1>1, <1>3, <1>4

-----------------------------------------------------------------------------
(* Type correctness                                                        *)

LEMMA TypedAlike ==
    ASSUME NEW c, Typed(c), NEW d, Kept(c, d)
    PROVE  Typed(d)
  BY DEF Typed, Bounded, Kept

LEMMA OtherRounds ==
    ASSUME NEW ms, NEW r, NEW pairs, NEW q, q # r
    PROVE  RoundOf(CreateRound(ms, r, pairs), q) = RoundOf(ms, q)
  <1>1. DOMAIN CreateRound(ms, r, pairs) = (DOMAIN ms) \cup {<<r, s>> : s \in FullSlots(pairs)}
    BY CreateRoundDomain
  <1>2. \A s : <<r, s>>[1] # q
    OBVIOUS
  <1> QED
    BY <1>1, <1>2 DEF RoundOf

\* The rounds of a category are numbers from 1 on, and there is a last one.
LEMMA RoundsTyped ==
    ASSUME NEW c, Typed(c)
    PROVE  RoundsOf(c.matches) \subseteq Nat \ {0}
  BY PlaceIs DEF RoundsOf, Typed

LEMMA LastRoundIs ==
    ASSUME NEW c, Typed(c), Defined(c.matches) # {}
    PROVE  LastRound(c) \in Defined(c.matches) /\ \A r \in Defined(c.matches) : r <= LastRound(c)
  <1>1. Defined(c.matches) \subseteq Nat
    BY RoundsTyped DEF Defined
  <1>2. PICK n \in Nat : \A p \in DOMAIN c.matches : p[1] <= n
    BY DEF Typed, Bounded
  <1>3. \A r \in Defined(c.matches) : r <= n
    BY <1>2 DEF Defined, RoundsOf
  <1> QED
    BY <1>1, <1>3, GreatestExists DEF LastRound

LEMMA ProgressTyped ==
    ASSUME NEW c, IsCat(c), Typed(c), rule \in Rules, c.table \in Tables
    PROVE  /\ Typed(ProgressKnockout(c))
           /\ ProgressKnockout(c).status \in {c.status, "ONGOING", "FINISHED"}
           /\ c.byHand \in BOOLEAN => ProgressKnockout(c).byHand \in BOOLEAN
  <1> DEFINE d == ProgressKnockout(c)
  <1>1. CASE FirstMade(c, d)
    <2>1. PICK m \in Nat : Pairing(FirstPairs(c), m)
      BY FirstPairing
    <2> HIDE DEF d
    <2>2. Typed(d)
      BY <1>1, <2>1, CreateRoundTyped DEF FirstMade
    <2> QED
      BY <1>1, <2>2 DEF FirstMade, d
  <1>2. CASE NextMade(c, d)
    <2> DEFINE r == LastRound(c)
    <2>1. r \in Nat \ {0} /\ r + 1 \in Nat \ {0} /\ r # r + 1
      <3>1. r \in Defined(c.matches)
        BY <1>2, LastRoundIs DEF NextMade
      <3>2. r \in Nat \ {0}
        BY <3>1, RoundsTyped DEF Defined
      <3> HIDE DEF r
      <3> QED
        BY <3>2
    <2>2. Settled(c, r)
      BY <1>2 DEF NextMade
    <2>3. PICK m \in Nat : Pairing(Draw(c, r), m)
      <3>1. Len(Winners(c, r)) \in Nat /\ (Len(Winners(c, r)) + 1) \div 2 \in Nat
        BY WinnersTyped
      <3> QED
        BY <2>2, <3>1, DrawPairing
    <2> DEFINE e == [matches |-> CreatedNext(c, r), byes |-> StoreByes(c.byes, r + 1, Draw(c, r))]
    <2>4. e.matches = CreateRound(c.matches, r + 1, Draw(c, r))
          /\ e.byes = StoreByes(c.byes, r + 1, Draw(c, r))
      BY DEF CreatedNext
    <2>5. Typed(e)
      <3> HIDE DEF e, r
      <3> QED
        BY <2>1, <2>3, <2>4, CreateRoundTyped
    <2>6. d.byes = e.byes /\ d.matches = IF ThirdDue(c, r) THEN ThirdPlace(e.matches, r) ELSE e.matches
      BY <1>2 DEF NextMade
    <2> HIDE DEF d, e
    <2>7. CASE ThirdDue(c, r)
      <3>1. RoundOf(e.matches, r) = RoundOf(c.matches, r)
        BY <2>1, <2>4, OtherRounds
      <3>2. Cardinality(RoundOf(e.matches, r)) = 2
        BY <2>7, <3>1 DEF ThirdDue
      <3> HIDE DEF r
      <3> QED
        BY <1>2, <2>1, <2>5, <2>6, <2>7, <3>2, ThirdPlaceTyped DEF NextMade, d
    <2>8. CASE ~ThirdDue(c, r)
      <3>1. Kept(e, d)
        BY <2>6, <2>8 DEF Kept
      <3> QED
        BY <1>2, <2>5, <3>1, TypedAlike DEF NextMade, d
    <2> QED
      BY <2>7, <2>8
  <1>3. CASE Ended(c, d)
    BY <1>3, TypedAlike DEF Ended
  <1>4. CASE Waiting(c, d)
    BY <1>4 DEF Waiting
  <1> QED
    BY <1>1, <1>2, <1>3, <1>4, ProgressCases

TypeInv == TypeOK /\ Bounded(Category)

LEMMA TypeInvTyped == TypeInv => Typed(Category) /\ rule \in Rules /\ table \in Tables
  BY DEF TypeInv, TypeOK, Typed, Bounded, Category, ByeRow

Cat(ms, bs) == [matches |-> ms, byes |-> bs]

LEMMA RecomputeTyped ==
    ASSUME TypeInv, NEW ms, Typed(Cat(ms, byes)), NEW order \in Tables,
           NEW part \in {"none", "some", "all"}, RecomputeTournament(ms, byes, order, part),
           published' \in Keys \cup {NoKey}, deleted' \in BOOLEAN
    PROVE  TypeInv'
  <1> DEFINE c == Before(ms, byes, order, part)
             d == ProgressKnockout(c)
  <1>1. IsCat(c) /\ c.matches = ms /\ c.byes = byes /\ c.table = order /\ c.status = status
        /\ c.byHand = byHand
    BY DEF IsCat, Before
  <1>2. Typed(c)
    BY <1>1, TypedAlike DEF Kept, Cat
  <1>3. rule \in Rules /\ status \in TournamentStatus /\ byHand \in BOOLEAN
    BY DEF TypeInv, TypeOK
  <1>4. Typed(d) /\ d.status \in TournamentStatus /\ d.byHand \in BOOLEAN
    <2> HIDE DEF c
    <2> QED
      BY <1>1, <1>2, <1>3, ProgressTyped DEF TournamentStatus
  <1>5. /\ matches' = d.matches /\ byes' = d.byes
        /\ status' = IF d.status = "SCHEDULED" THEN "ONGOING" ELSE d.status
        /\ byHand' = d.byHand
        /\ table' = order /\ played' = part /\ rule' = rule
    BY RecomputeIs
  <1> HIDE DEF c, d
  <1>6. Bounded(Category)'
    <2>1. Category'.matches = d.matches /\ Category'.byes = d.byes
      BY <1>5 DEF Category
    <2> QED
      BY <1>4, <2>1 DEF Typed, Bounded
  <1> QED
    BY <1>3, <1>4, <1>5, <1>6 DEF TypeInv, TypeOK, Typed, ByeRow, TournamentStatus

\* A match decided, or one whose status alone changes.
LEMMA DecidedElse ==
    ASSUME NEW ms, NEW p, NEW how, NEW winner
    PROVE  /\ DOMAIN [ms EXCEPT ![p].status = how, ![p].winner = winner] = DOMAIN ms
           /\ \A q \in DOMAIN ms : q # p =>
                 [ms EXCEPT ![p].status = how, ![p].winner = winner][q] = ms[q]
  OBVIOUS

LEMMA DecidedIs ==
    ASSUME NEW ms, NEW p \in DOMAIN ms, ms[p] \in Match, NEW how \in MatchStatus, NEW winner \in Side
    PROVE  /\ [ms EXCEPT ![p].status = how, ![p].winner = winner][p] \in Match
           /\ [ms EXCEPT ![p].status = how, ![p].winner = winner][p].status = how
           /\ [ms EXCEPT ![p].status = how, ![p].winner = winner][p].winner = winner
           /\ [ms EXCEPT ![p].status = how, ![p].winner = winner][p].a = ms[p].a
           /\ [ms EXCEPT ![p].status = how, ![p].winner = winner][p].b = ms[p].b
           /\ [ms EXCEPT ![p].status = how, ![p].winner = winner][p].label = ms[p].label
  <1> DEFINE m == ms[p]
             n == [m EXCEPT !.status = how, !.winner = winner]
  <1>1. [ms EXCEPT ![p].status = how, ![p].winner = winner][p] = n
    OBVIOUS
  <1> HIDE DEF m
  <1>2. n \in Match
    BY DEF Match, m
  <1>3. n.status = how /\ n.winner = winner /\ n.a = m.a /\ n.b = m.b /\ n.label = m.label
    BY DEF Match, m
  <1> QED
    BY <1>1, <1>2, <1>3 DEF m

LEMMA DecidedTyped ==
    ASSUME NEW ms, NEW bs, Typed(Cat(ms, bs)), NEW p \in DOMAIN ms, NEW how \in MatchStatus,
           NEW winner \in Side
    PROVE  Typed(Cat([ms EXCEPT ![p].status = how, ![p].winner = winner], bs))
  <1> DEFINE next == [ms EXCEPT ![p].status = how, ![p].winner = winner]
  <1>1. \A q \in DOMAIN ms : ms[q] \in Match
    BY DEF Typed, Cat
  <1>2. next[p] \in Match
    BY <1>1, DecidedIs
  <1>3. DOMAIN next = DOMAIN ms /\ \A q \in DOMAIN ms : q # p => next[q] = ms[q]
    OBVIOUS
  <1> HIDE DEF next
  <1>4. \A q \in DOMAIN ms : next[q] \in Match
    BY <1>1, <1>2, <1>3
  <1> QED
    BY <1>3, <1>4 DEF Typed, Bounded, Cat, next

LEMMA RestrictTyped ==
    ASSUME NEW ms, NEW bs, Typed(Cat(ms, bs)), NEW S, S \subseteq DOMAIN ms
    PROVE  Typed(Cat(Restrict(ms, S), bs))
  BY DEF Typed, Bounded, Cat, Restrict

\* Every match of the agenda is one of Match, on a place of the key.
LEMMA AgendaIs ==
    ASSUME NEW key \in Keys \cup {NoKey}, NEW withThird
    PROVE  /\ Len(key) \in Nat /\ DOMAIN key = 1..Len(key)
           /\ \A s \in DOMAIN key : key[s] \in Nat \X Nat
           /\ \A p \in DOMAIN Agenda(key, withThird) :
                 /\ p \in Place /\ p[1] <= Len(key) /\ p[2] <= Len(key)
                 /\ Agenda(key, withThird)[p] \in Match
  <1>1. key \in Seq(Nat \X Nat)
    BY KeyAssumption, EmptySeq DEF NoKey
  <1>2. Len(key) \in Nat /\ DOMAIN key = 1..Len(key) /\ \A s \in DOMAIN key : key[s] \in Nat \X Nat
    BY <1>1
  <1> DEFINE size == Len(key)
             first == {1} \X DOMAIN key
             later == {p \in (2..size) \X (1..size) : p[2] * Power[p[1] - 1] <= size}
             third == IF withThird /\ key # NoKey THEN {Third} ELSE {}
  <1>3. \A p \in first : p \in Place /\ p[1] <= size /\ p[2] <= size /\ p[2] \in DOMAIN key
    BY <1>2 DEF Place
  <1>4. \A p \in later : p \in Place /\ p[1] <= size /\ p[2] <= size
    BY <1>2 DEF Place
  <1>5. \A p \in third : p \in Place /\ p[1] <= size /\ p[2] <= size
    <2> SUFFICES ASSUME key # NoKey PROVE Third \in Place /\ Third[1] <= size /\ Third[2] <= size
      OBVIOUS
    <2>1. size # 0
      BY <1>1 DEF NoKey
    <2> QED
      BY <1>2, <2>1 DEF Place, Third
  <1>6. Agenda(key, withThird) =
          [p \in first \cup later \cup third |->
              Scheduled(None, None, IF p \in first THEN key[p[2]] ELSE NoLabel)]
    BY DEF Agenda
  <1>7. \A label \in (Nat \X Nat) \cup {NoLabel} : Scheduled(None, None, label) \in Match
    BY DEF Scheduled, Match, MatchStatus, Side
  <1> HIDE DEF first, later, third, size
  <1>8. \A p \in first \cup later \cup third :
          (IF p \in first THEN key[p[2]] ELSE NoLabel) \in (Nat \X Nat) \cup {NoLabel}
    BY <1>2, <1>3
  <1>9. \A p \in DOMAIN Agenda(key, withThird) :
          p \in first \cup later \cup third /\ Agenda(key, withThird)[p] \in Match
    BY <1>6, <1>7, <1>8
  <1>10. \A p \in DOMAIN Agenda(key, withThird) : p \in Place /\ p[1] <= size /\ p[2] <= size
    BY <1>3, <1>4, <1>5, <1>9
  <1> QED
    BY <1>2, <1>9, <1>10 DEF size

LEMMA TypeInit == Init => TypeInv
  <1> SUFFICES ASSUME Init PROVE TypeInv
    OBVIOUS
  <1>1. published \in Keys \cup {NoKey} /\ matches = Agenda(published, rule.third) /\ byes = {}
    BY DEF Init
  <1>2. \A p \in DOMAIN matches : /\ p \in Place /\ p[1] <= Len(published) /\ p[2] <= Len(published)
                                  /\ matches[p] \in Match
    BY <1>1, AgendaIs
  <1>3. Len(published) \in Nat
    BY <1>1, AgendaIs
  <1>4. Bounded(Category)
    BY <1>1, <1>2, <1>3 DEF Bounded, Category
  <1> QED
    BY <1>1, <1>2, <1>4 DEF TypeInv, TypeOK, Init

LEMMA TypeUpdate ==
    ASSUME TypeInv, NEW p \in DOMAIN matches, Update(p)
    PROVE  TypeInv'
  <1>1. PICK to \in MatchStatus : matches' = [matches EXCEPT ![p].status = to]
    BY DEF Update, MatchStatus
  <1>2. matches[p] \in Match
    BY DEF TypeInv, TypeOK
  <1>3. [matches[p] EXCEPT !.status = to] \in Match
    BY <1>2 DEF Match
  <1>4. matches' = [matches EXCEPT ![p] = [matches[p] EXCEPT !.status = to]]
    BY <1>1
  <1>5. DOMAIN matches' = DOMAIN matches /\ \A q \in DOMAIN matches : matches'[q] \in Match
    BY <1>3, <1>4 DEF TypeInv, TypeOK
  <1> QED
    BY <1>5 DEF TypeInv, TypeOK, Bounded, Category, Update

LEMMA TypeDelete ==
    ASSUME TypeInv, NEW p \in DOMAIN matches, Delete(p)
    PROVE  TypeInv'
  BY DEF TypeInv, TypeOK, Bounded, Category, Delete, Restrict

LEMMA TypeDecide ==
    ASSUME TypeInv, NEW ms, Typed(Cat(ms, byes)), NEW p \in DOMAIN ms,
           NEW how \in MatchStatus, NEW winner \in Side, Decide(p, ms, how, winner)
    PROVE  TypeInv'
  <1>1. RecomputeTournament([ms EXCEPT ![p].status = how, ![p].winner = winner], byes, table, played)
    BY DEF Decide
  <1>2. published' \in Keys \cup {NoKey} /\ deleted' \in BOOLEAN /\ table \in Tables
        /\ played \in {"none", "some", "all"}
    BY DEF Decide, TypeInv, TypeOK
  <1>3. Typed(Cat([ms EXCEPT ![p].status = how, ![p].winner = winner], byes))
    BY DecidedTyped
  <1> QED
    BY <1>1, <1>2, <1>3, RecomputeTyped

LEMMA TypeInvKey == TypeInv => Typed(Cat(matches, byes))
  BY DEF TypeInv, TypeOK, Typed, Bounded, Cat, Category, ByeRow

LEMMA TypeNext == TypeInv /\ [Next]_vars => TypeInv'
  <1> SUFFICES ASSUME TypeInv, [Next]_vars PROVE TypeInv'
    OBVIOUS
  <1> USE DEF MatchStatus
  <1>0. Typed(Cat(matches, byes)) /\ \A p \in DOMAIN matches : matches[p].a \in Side /\ matches[p].b \in Side
    BY TypeInvKey DEF TypeInv, TypeOK, Match
  <1>1. CASE ClassificationResult
    <2>1. PICK order \in Tables, part \in {"some", "all"} : RecomputeTournament(matches, byes, order, part)
      BY <1>1 DEF ClassificationResult
    <2>2. published' \in Keys \cup {NoKey} /\ deleted' \in BOOLEAN
      BY <1>1 DEF ClassificationResult, TypeInv, TypeOK
    <2> QED
      BY <1>0, <2>1, <2>2, RecomputeTyped
  <1>2. CASE CorrectClassification
    <2>1. PICK order \in Tables : RecomputeTournament(NoKey, byes, order, played)
      BY <1>2 DEF CorrectClassification
    <2>2. published' \in Keys \cup {NoKey} /\ deleted' \in BOOLEAN /\ played \in {"none", "some", "all"}
      BY <1>2 DEF CorrectClassification, TypeInv, TypeOK
    <2>3. Typed(Cat(NoKey, byes))
      BY <1>0 DEF Typed, Bounded, Cat, NoKey
    <2> QED
      BY <2>1, <2>2, <2>3, RecomputeTyped
  <1>3. ASSUME NEW p \in DOMAIN matches, Finish(p) PROVE TypeInv'
    <2>1. PICK winner \in {matches[p].a, matches[p].b} : Decide(p, matches, "FINISHED", winner)
      BY <1>3 DEF Finish
    <2> QED
      BY <1>0, <2>1, TypeDecide
  <1>4. ASSUME NEW p \in DOMAIN matches, WalkOver(p) PROVE TypeInv'
    <2>1. PICK winner \in {matches[p].a, matches[p].b} : Decide(p, matches, "WALKOVER", winner)
      BY <1>4 DEF WalkOver
    <2> QED
      BY <1>0, <2>1, TypeDecide
  <1>5. ASSUME NEW p \in DOMAIN matches, Correct(p) PROVE TypeInv'
    <2> DEFINE kept == (DOMAIN matches) \ Dependents(p)
    <2>1. PICK winner \in {matches[p].a, matches[p].b} :
             Decide(p, Restrict(matches, kept), "FINISHED", winner)
      BY <1>5 DEF Correct
    <2>2. p \in kept
      <3>1. p[1] \in Nat
        BY PlaceIs DEF TypeInv, TypeOK
      <3> QED
        BY <3>1, <1>5 DEF Dependents
    <2>3. Typed(Cat(Restrict(matches, kept), byes)) /\ p \in DOMAIN Restrict(matches, kept)
      BY <1>0, <2>2, RestrictTyped DEF Restrict
    <2> HIDE DEF kept
    <2> QED
      BY <1>0, <2>1, <2>3, TypeDecide
  <1>6. CASE GenerateMatches
    <2>1. matches' = << >> /\ byes' = {}
      BY <1>6 DEF GenerateMatches, NoKey
    <2>2. Bounded(Category)'
      BY <2>1 DEF Bounded, Category
    <2>3. DOMAIN matches' = {}
      BY <2>1
    <2>4. rule' = rule /\ table' = table /\ published' = NoKey /\ played' = "none" /\ deleted' = FALSE
          /\ status' \in TournamentStatus /\ byHand' = TRUE
      BY <1>6 DEF GenerateMatches
    <2>5. TypeOK'
      BY <2>1, <2>3, <2>4 DEF TypeInv, TypeOK
    <2> QED
      BY <2>2, <2>5 DEF TypeInv
  <1>7. CASE UNCHANGED vars
    BY <1>7 DEF vars, TypeInv, TypeOK, Bounded, Category
  <1>8. ASSUME NEW p \in DOMAIN matches, Update(p) \/ Delete(p) PROVE TypeInv'
    BY <1>8, TypeUpdate, TypeDelete
  <1>9. CASE CategoryUpdate
    BY <1>9 DEF CategoryUpdate, TypeInv, TypeOK, Bounded, Category
  <1> QED
    BY <1>1, <1>2, <1>3, <1>4, <1>5, <1>6, <1>7, <1>8, <1>9 DEF Next

\* Whatever the results, the corrections and the deletions, the key holds matches of places
\* of its rounds, between entries of the category, and byes of its entries; and it is finite.
THEOREM TypeCorrect == Spec => []TypeOK
  <1>1. Spec => []TypeInv
    BY TypeInit, TypeNext, PTL DEF Spec
  <1>2. TypeInv => TypeOK
    BY DEF TypeInv
  <1> QED
    BY <1>1, <1>2, PTL

-----------------------------------------------------------------------------
(* The key as it is built: the inductive invariant                         *)

InRow(S) == \E n \in Nat : S = 1..n

\* All matches of the round have their participants; some of them have.
Whole(c, r) == RoundOf(c.matches, r) # {} /\ \A p \in RoundOf(c.matches, r) : Known(c.matches[p])
Reached(c, r) ==
    /\ RoundOf(c.matches, r) # {}
    /\ (\E p \in RoundOf(c.matches, r) : Known(c.matches[p])) \/ ByesAt(c, r) # {}

\* The matches and the byes of a round are pairs of a pairing.
Drawn(c, r, pairs) ==
    /\ \A p \in RoundOf(c.matches, r) :
          Known(c.matches[p]) => pairs[p[2]] = [a |-> c.matches[p].a, b |-> c.matches[p].b]
    /\ \A bye \in ByesAt(c, r) : pairs[bye.slot] = [a |-> bye.entry, b |-> None]

\* Round r + 1 was made of the winners of round r, and they still are who won.
Built(c, r) ==
    /\ Whole(c, r) /\ Settled(c, r) /\ InRow(Slots(c, r))
    /\ Slots(c, r + 1) = DOMAIN Draw(c, r)
    /\ Drawn(c, r + 1, Draw(c, r))

\* Round r has two matches, the final after it, and the third place between its losers.
Semi(c, r) ==
    /\ Whole(c, r) /\ Settled(c, r)
    /\ RoundOf(c.matches, r) = {<<r, 1>>, <<r, 2>>} /\ Slots(c, r) = 1..2
    /\ {c.matches[Third].a, c.matches[Third].b} =
          {Loser(c.matches[<<r, 1>>]), Loser(c.matches[<<r, 2>>])}
    /\ RoundOf(c.matches, r + 1) = {<<r + 1, 1>>} /\ Slots(c, r + 1) = 1..1
    /\ RoundOf(c.matches, r + 2) = {}

Sound(m) ==
    /\ m.a = None <=> m.b = None
    /\ m.winner \in {None, m.a, m.b}
    /\ ~Official(m) => m.winner = None
    /\ Known(m) => m.label = NoLabel

KSound(c) == \A p \in DOMAIN c.matches : Sound(c.matches[p])

\* A match of a later round has two slots of the round before it to come from.
KTree(c) ==
    \A p \in DOMAIN c.matches : p[1] > 1 =>
        /\ RoundOf(c.matches, p[1] - 1) # {}
        /\ 2 * p[2] - 1 \in Slots(c, p[1] - 1) /\ 2 * p[2] \in Slots(c, p[1] - 1)

\* The slots of the first round are a row of at most h, those of a published one of matches.
Labelled(c) == \A p \in RoundOf(c.matches, 1) : c.matches[p].label # NoLabel
KOpening(c, h) ==
    RoundOf(c.matches, 1) # {} =>
        /\ InRow(Slots(c, 1)) /\ Slots(c, 1) \subseteq 1..h
        /\ Labelled(c) =>
              /\ InRow({p[2] : p \in RoundOf(c.matches, 1)})
              /\ \A p \in RoundOf(c.matches, 2) :
                    <<1, 2 * p[2] - 1>> \in DOMAIN c.matches /\ <<1, 2 * p[2]>> \in DOMAIN c.matches

KBuilt(c) == \A r \in Nat \ {0} : Reached(c, r + 1) => Built(c, r)
KThird(c) ==
    Third \in DOMAIN c.matches /\ Known(c.matches[Third]) => \E r \in Nat \ {0} : Semi(c, r)

KeyInv(c, h) == KSound(c) /\ KTree(c) /\ KOpening(c, h) /\ KBuilt(c) /\ KThird(c)

-----------------------------------------------------------------------------
(* What does not change between two states of the category                 *)

\* A round has the same places; between the same entries; with the same results.
SamePlaces(c, d, r) ==
    RoundOf(d.matches, r) = RoundOf(c.matches, r) /\ ByesAt(d, r) = ByesAt(c, r)
SameSides(c, d, r) ==
    /\ SamePlaces(c, d, r)
    /\ \A p \in RoundOf(c.matches, r) :
          d.matches[p].a = c.matches[p].a /\ d.matches[p].b = c.matches[p].b
SameResults(c, d, r) ==
    /\ SameSides(c, d, r)
    /\ \A p \in RoundOf(c.matches, r) : /\ d.matches[p].winner = c.matches[p].winner
                                        /\ Official(d.matches[p]) <=> Official(c.matches[p])

LEMMA SameSlots ==
    ASSUME NEW c, NEW d, NEW r, SamePlaces(c, d, r)
    PROVE  Slots(d, r) = Slots(c, r)
  BY DEF SamePlaces, Slots

LEMMA SamePassing ==
    ASSUME NEW c, NEW d, NEW r, SameResults(c, d, r), NEW s
    PROVE  Passing(d, r, s) = Passing(c, r, s)
  <1>1. ByesAt(d, r) = ByesAt(c, r) /\ RoundOf(d.matches, r) = RoundOf(c.matches, r)
    BY DEF SameResults, SameSides, SamePlaces
  <1>2. <<r, s>>[1] = r
    OBVIOUS
  <1>3. /\ <<r, s>> \in DOMAIN c.matches <=> <<r, s>> \in RoundOf(c.matches, r)
        /\ <<r, s>> \in DOMAIN d.matches <=> <<r, s>> \in RoundOf(d.matches, r)
    BY <1>2 DEF RoundOf
  <1>4. CASE <<r, s>> \in DOMAIN c.matches
    BY <1>1, <1>3, <1>4 DEF Passing, SameResults
  <1>5. CASE <<r, s>> \notin DOMAIN c.matches
    BY <1>1, <1>3, <1>5 DEF Passing
  <1> QED
    BY <1>4, <1>5

LEMMA SameWinners ==
    ASSUME NEW c, NEW d, NEW r, SameResults(c, d, r)
    PROVE  Winners(d, r) = Winners(c, r)
  <1>1. Slots(d, r) = Slots(c, r)
    BY SameSlots DEF SameResults, SameSides
  <1>2. \A s : Passing(d, r, s) = Passing(c, r, s)
    BY SamePassing
  <1> QED
    BY <1>1, <1>2 DEF Winners

LEMMA SameDraw ==
    ASSUME NEW c, NEW d, NEW r, SameResults(c, d, r)
    PROVE  Draw(d, r) = Draw(c, r)
  BY SameWinners DEF Draw

LEMMA SameSettled ==
    ASSUME NEW c, NEW d, NEW r, SameResults(c, d, r)
    PROVE  Settled(d, r) <=> Settled(c, r)
  <1>1. Winners(d, r) = Winners(c, r)
    BY SameWinners
  <1>2. RoundOf(d.matches, r) = RoundOf(c.matches, r)
    BY DEF SameResults, SameSides, SamePlaces
  <1> QED
    BY <1>1, <1>2 DEF Settled, SameResults

LEMMA SameWhole ==
    ASSUME NEW c, NEW d, NEW r, SameSides(c, d, r)
    PROVE  Whole(d, r) <=> Whole(c, r)
  BY DEF SameSides, SamePlaces, Whole, Known

LEMMA SameReached ==
    ASSUME NEW c, NEW d, NEW r, SameSides(c, d, r)
    PROVE  Reached(d, r) <=> Reached(c, r)
  BY DEF SameSides, SamePlaces, Reached, Known

LEMMA SameDrawn ==
    ASSUME NEW c, NEW d, NEW r, SameSides(c, d, r), NEW pairs, Drawn(c, r, pairs)
    PROVE  Drawn(d, r, pairs)
  BY DEF SameSides, SamePlaces, Drawn, Known

LEMMA SameBuilt ==
    ASSUME NEW c, NEW d, NEW r, SameResults(c, d, r), SameSides(c, d, r + 1), Built(c, r)
    PROVE  Built(d, r)
  <1>1. Whole(d, r) /\ Settled(d, r) /\ Slots(d, r) = Slots(c, r) /\ Draw(d, r) = Draw(c, r)
    BY SameWhole, SameSettled, SameSlots, SameDraw DEF Built, SameResults, SameSides
  <1>2. Slots(d, r + 1) = Slots(c, r + 1)
    BY SameSlots DEF SameSides
  <1>3. Drawn(d, r + 1, Draw(d, r))
    BY <1>1, SameDrawn DEF Built
  <1> QED
    BY <1>1, <1>2, <1>3 DEF Built

LEMMA SameSemi ==
    ASSUME NEW c, NEW d, NEW r, SameResults(c, d, r), SamePlaces(c, d, r + 1),
           SamePlaces(c, d, r + 2), Semi(c, r),
           d.matches[Third].a = c.matches[Third].a, d.matches[Third].b = c.matches[Third].b
    PROVE  Semi(d, r)
  <1>1. Whole(d, r) /\ Settled(d, r) /\ Slots(d, r) = Slots(c, r) /\ Slots(d, r + 1) = Slots(c, r + 1)
    BY SameWhole, SameSettled, SameSlots DEF Semi, SameResults, SameSides
  <1>2. /\ RoundOf(d.matches, r) = RoundOf(c.matches, r)
        /\ RoundOf(d.matches, r + 1) = RoundOf(c.matches, r + 1)
        /\ RoundOf(d.matches, r + 2) = RoundOf(c.matches, r + 2)
    BY DEF SameResults, SameSides, SamePlaces
  <1>3. \A p \in RoundOf(c.matches, r) : Loser(d.matches[p]) = Loser(c.matches[p])
    BY DEF SameResults, SameSides, Loser
  <1>4. <<r, 1>> \in RoundOf(c.matches, r) /\ <<r, 2>> \in RoundOf(c.matches, r)
    BY DEF Semi
  <1> QED
    BY <1>1, <1>2, <1>3, <1>4 DEF Semi

\* A category of the same matches and byes.
Alike(c, d) ==
    /\ d.byes = c.byes /\ DOMAIN d.matches = DOMAIN c.matches
    /\ \A p \in DOMAIN c.matches : d.matches[p] = c.matches[p]

LEMMA KeptAlike == ASSUME NEW c, NEW d, Kept(c, d) PROVE Alike(c, d)
  BY DEF Kept, Alike

LEMMA KeyAlike ==
    ASSUME NEW c, NEW d, Alike(c, d), NEW h, KeyInv(c, h)
    PROVE  KeyInv(d, h)
  <1>0. DOMAIN d.matches = DOMAIN c.matches /\ \A p \in DOMAIN c.matches : d.matches[p] = c.matches[p]
    BY DEF Alike
  <1>1. \A r : SameResults(c, d, r) /\ SameSides(c, d, r) /\ SamePlaces(c, d, r)
    BY DEF Alike, SameResults, SameSides, SamePlaces, ByesAt, RoundOf
  <1>2. \A r : Slots(d, r) = Slots(c, r) /\ RoundOf(d.matches, r) = RoundOf(c.matches, r)
    BY <1>1, SameSlots DEF SamePlaces
  <1>3. KSound(d)
    BY <1>0 DEF KeyInv, KSound
  <1>4. KTree(d)
    BY <1>0, <1>2 DEF KeyInv, KTree
  <1>5. KOpening(d, h)
    <2>1. Labelled(d) <=> Labelled(c)
      BY <1>0, <1>2 DEF Labelled, RoundOf
    <2> QED
      BY <1>0, <1>2, <2>1 DEF KeyInv, KOpening
  <1>6. KBuilt(d)
    <2>1. \A r \in Nat \ {0} : Reached(d, r + 1) => Reached(c, r + 1)
      BY <1>1, SameReached
    <2>2. \A r \in Nat \ {0} : Built(c, r) => Built(d, r)
      BY <1>1, SameBuilt
    <2> QED
      BY <2>1, <2>2 DEF KeyInv, KBuilt
  <1>7. KThird(d)
    <2>1. Third \in DOMAIN c.matches => \A r \in Nat \ {0} : Semi(c, r) => Semi(d, r)
      BY <1>0, <1>1, SameSemi
    <2> QED
      BY <1>0, <2>1 DEF KeyInv, KThird
  <1> QED
    BY <1>3, <1>4, <1>5, <1>6, <1>7 DEF KeyInv

-----------------------------------------------------------------------------
(* Rounds                                                                  *)

LEMMA RoundIn ==
    ASSUME NEW c, Typed(c), NEW r \in Nat \ {0}
    PROVE  r \in RoundsOf(c.matches) <=> RoundOf(c.matches, r) # {}
  <1>1. \A p \in DOMAIN c.matches : p[1] = r => p # Third
    BY DEF Third
  <1> QED
    BY <1>1 DEF RoundsOf, RoundOf

LEMMA DefinedIs ==
    ASSUME NEW c, Typed(c), NEW r \in Nat \ {0}
    PROVE  r \in Defined(c.matches) <=> Whole(c, r)
  BY RoundIn DEF Defined, Whole

LEMMA LastWhole ==
    ASSUME NEW c, Typed(c), Defined(c.matches) # {}
    PROVE  /\ LastRound(c) \in Nat \ {0} /\ Whole(c, LastRound(c))
           /\ \A r \in Nat \ {0} : Whole(c, r) => r <= LastRound(c)
  <1>1. LastRound(c) \in Defined(c.matches) /\ \A r \in Defined(c.matches) : r <= LastRound(c)
    BY LastRoundIs
  <1>2. LastRound(c) \in Nat \ {0}
    BY <1>1, RoundsTyped DEF Defined
  <1> QED
    BY <1>1, <1>2, DefinedIs

\* Rounds follow one another: none is above one that is missing.
LEMMA NoneAbove ==
    ASSUME NEW c, KTree(c), NEW k \in Nat \ {0}, RoundOf(c.matches, k) = {}, NEW j \in Nat, j >= k
    PROVE  RoundOf(c.matches, j) = {}
  <1> DEFINE S == {i \in Nat : RoundOf(c.matches, k + i) = {}}
  <1>1. 0 \in S
    BY SMT
  <1>2. ASSUME NEW i \in Nat, i \in S PROVE i + 1 \in S
    <2> SUFFICES ASSUME NEW p \in DOMAIN c.matches, p[1] = k + (i + 1) PROVE FALSE
      BY DEF RoundOf
    <2>1. p[1] > 1 /\ p[1] - 1 = k + i
      OBVIOUS
    <2>2. RoundOf(c.matches, p[1] - 1) # {}
      BY <2>1 DEF KTree
    <2> QED
      BY <1>2, <2>1, <2>2
  <1> HIDE DEF S
  <1>3. j - k \in S
    BY <1>1, <1>2, NatSet
  <1>4. k + (j - k) = j
    OBVIOUS
  <1> QED
    BY <1>3, <1>4 DEF S

\* The winners of a round whose slots are a row, slot by slot, and the pairs they make.
LEMMA RowWinners ==
    ASSUME NEW c, Typed(c), NEW r, NEW n \in Nat, Slots(c, r) = 1..n
    PROVE  /\ Len(Winners(c, r)) = n
           /\ DOMAIN Winners(c, r) = 1..n
           /\ \A i \in 1..n : Winners(c, r)[i] = Passing(c, r, i)
  <1>1. Cardinality(1..n) = n /\ \A i \in 1..n : InOrder(1..n)[i] = i
    BY InOrderOfRow
  <1>2. Winners(c, r) = [i \in 1..n |-> Passing(c, r, InOrder(1..n)[i])]
    BY <1>1 DEF Winners
  <1>3. Winners(c, r) = [i \in 1..n |-> Passing(c, r, i)]
    BY <1>1, <1>2
  <1>4. Len(Winners(c, r)) = n
    BY <1>1, WinnersTyped
  <1> QED
    BY <1>3, <1>4

LEMMA DrawDomain ==
    ASSUME NEW c, Typed(c), NEW r, NEW n \in Nat, Slots(c, r) = 1..n
    PROVE  DOMAIN Draw(c, r) = 1..((n + 1) \div 2)
  <1>1. Len(Winners(c, r)) = n
    BY RowWinners
  <1>2. Winners(c, r) \in [1..n -> Side]
    BY <1>1, WinnersTyped
  <1> QED
    BY <1>2, SequentialPairsAre DEF Draw

LEMMA DrawIs ==
    ASSUME NEW c, Typed(c), NEW r, NEW n \in Nat, Slots(c, r) = 1..n, NEW i \in 1..((n + 1) \div 2)
    PROVE  Draw(c, r)[i] = [a |-> Winners(c, r)[2 * i - 1],
                            b |-> IF 2 * i <= n THEN Winners(c, r)[2 * i] ELSE None]
  <1>1. Len(Winners(c, r)) = n
    BY RowWinners
  <1>2. Winners(c, r) \in [1..n -> Side]
    BY <1>1, WinnersTyped
  <1> QED
    BY <1>2, SequentialPairsAre DEF Draw

\* Which slots of a settled round in a row make a match of the next one.
LEMMA DrawFull ==
    ASSUME NEW c, Typed(c), NEW r, Settled(c, r), NEW n \in Nat, Slots(c, r) = 1..n
    PROVE  \A i \in DOMAIN Draw(c, r) : Draw(c, r)[i].b # None <=> 2 * i <= n
  <1>1. DOMAIN Draw(c, r) = 1..((n + 1) \div 2)
    BY DrawDomain
  <1>2. Winners(c, r) \in [1..n -> Entry]
    BY RowWinners, SettledWinners
  <1> TAKE i \in DOMAIN Draw(c, r)
  <1>3. i \in 1..((n + 1) \div 2)
    BY <1>1
  <1>4. Draw(c, r)[i] = [a |-> Winners(c, r)[2 * i - 1],
                         b |-> IF 2 * i <= n THEN Winners(c, r)[2 * i] ELSE None]
    BY <1>3, DrawIs
  <1>5. 2 * i <= n => Winners(c, r)[2 * i] # None
    <2>1. 2 * i <= n => 2 * i \in 1..n
      BY <1>3
    <2> QED
      BY <1>2, <2>1, EntryAssumption
  <1> QED
    BY <1>4, <1>5

\* The slots of a round that was reached are a row, those of the first one always.
LEMMA RowOfSlots ==
    ASSUME NEW c, Typed(c), NEW h, KeyInv(c, h), NEW r \in Nat \ {0}, Reached(c, r)
    PROVE  InRow(Slots(c, r))
  <1>1. CASE r = 1
    BY <1>1 DEF KeyInv, KOpening, Reached
  <1>2. CASE r # 1
    <2>1. r - 1 \in Nat \ {0} /\ (r - 1) + 1 = r
      BY <1>2
    <2>2. Built(c, r - 1)
      BY <2>1 DEF KeyInv, KBuilt
    <2>3. PICK n \in Nat : Slots(c, r - 1) = 1..n
      BY <2>2 DEF Built, InRow
    <2>4. DOMAIN Draw(c, r - 1) = 1..((n + 1) \div 2) /\ (n + 1) \div 2 \in Nat
      BY <2>3, DrawDomain
    <2> QED
      BY <2>1, <2>2, <2>4 DEF Built, InRow
  <1> QED
    BY <1>1, <1>2

LEMMA WholeReached ==
    ASSUME NEW c, NEW r, Whole(c, r)
    PROVE  Reached(c, r)
  BY DEF Whole, Reached

-----------------------------------------------------------------------------
(* A result, or the correction of one                                      *)

\* Nothing of the key depends on the result of the match q.
Open(c, q) == q = Third \/ (~Reached(c, q[1] + 1) /\ ~Semi(c, q[1]))

LEMMA UndecidedOpen ==
    ASSUME NEW c, Typed(c), NEW h, KeyInv(c, h), NEW q \in DOMAIN c.matches, ~Official(c.matches[q])
    PROVE  Open(c, q)
  <1> SUFFICES ASSUME q # Third, Reached(c, q[1] + 1) \/ Semi(c, q[1]) PROVE FALSE
    BY DEF Open
  <1>1. q[1] \in Nat \ {0}
    BY PlaceIs DEF Typed
  <1>2. Settled(c, q[1])
    BY <1>1 DEF KeyInv, KBuilt, Built, Semi
  <1> QED
    BY <1>2 DEF Settled, RoundOf

\* Another status or winner for a match nothing depends on.
LEMMA RewriteKey ==
    ASSUME NEW c, Typed(c), NEW h, KeyInv(c, h), NEW q \in DOMAIN c.matches, Open(c, q),
           NEW d, d.byes = c.byes, DOMAIN d.matches = DOMAIN c.matches,
           \A p \in DOMAIN c.matches : p # q => d.matches[p] = c.matches[p],
           Sound(d.matches[q]), d.matches[q].a = c.matches[q].a, d.matches[q].b = c.matches[q].b,
           d.matches[q].label = c.matches[q].label
    PROVE  KeyInv(d, h)
  <1>1. \A r : SameSides(c, d, r)
    <2>1. \A p \in DOMAIN c.matches : d.matches[p].a = c.matches[p].a /\ d.matches[p].b = c.matches[p].b
      OBVIOUS
    <2> QED
      BY <2>1 DEF SameSides, SamePlaces, RoundOf, ByesAt
  <1>2. ASSUME NEW r \in Nat \ {0}, q = Third \/ r # q[1]
        PROVE  SameResults(c, d, r)
    <2>1. \A p \in RoundOf(c.matches, r) : p \in DOMAIN c.matches /\ p # q
      BY <1>2 DEF RoundOf, Third
    <2> QED
      BY <1>1, <2>1 DEF SameResults
  <1>3. \A r : Slots(d, r) = Slots(c, r) /\ RoundOf(d.matches, r) = RoundOf(c.matches, r)
               /\ SamePlaces(c, d, r)
    BY <1>1, SameSlots DEF SameSides, SamePlaces
  <1>4. KSound(d)
    BY DEF KeyInv, KSound
  <1>5. KTree(d)
    BY <1>3 DEF KeyInv, KTree
  <1>6. KOpening(d, h)
    <2>1. \A p \in DOMAIN c.matches : d.matches[p].label = c.matches[p].label
      OBVIOUS
    <2>2. Labelled(d) <=> Labelled(c)
      BY <1>3, <2>1 DEF Labelled, RoundOf
    <2> QED
      BY <1>3, <2>2 DEF KeyInv, KOpening
  <1>7. KBuilt(d)
    <2> SUFFICES ASSUME NEW r \in Nat \ {0}, Reached(d, r + 1) PROVE Built(d, r)
      BY DEF KBuilt
    <2>1. Reached(c, r + 1)
      BY <1>1, SameReached
    <2>2. Built(c, r)
      BY <2>1 DEF KeyInv, KBuilt
    <2>3. q = Third \/ r # q[1]
      BY <2>1 DEF Open
    <2> QED
      BY <1>1, <1>2, <2>2, <2>3, SameBuilt
  <1>8. KThird(d)
    <2> SUFFICES ASSUME Third \in DOMAIN d.matches, Known(d.matches[Third])
                 PROVE  \E r \in Nat \ {0} : Semi(d, r)
      BY DEF KThird
    <2>1. d.matches[Third].a = c.matches[Third].a /\ d.matches[Third].b = c.matches[Third].b
      OBVIOUS
    <2>2. PICK r \in Nat \ {0} : Semi(c, r)
      BY <2>1 DEF KeyInv, KThird, Known
    <2>3. q = Third \/ r # q[1]
      BY <2>2 DEF Open
    <2>4. Semi(d, r)
      BY <1>2, <1>3, <2>1, <2>2, <2>3, SameSemi
    <2> QED
      BY <2>4
  <1> QED
    BY <1>4, <1>5, <1>6, <1>7, <1>8 DEF KeyInv

-----------------------------------------------------------------------------
(* A correction cuts the key back to the round of its match                *)

DependentsOf(ms, p) ==
    LET later == {q \in DOMAIN ms : q[1] > p[1]}
    IN  IF p = Third THEN {} ELSE later \cup (IF later = {} THEN {} ELSE {Third} \cap DOMAIN ms)

Cut(ms, q) == Restrict(ms, (DOMAIN ms) \ DependentsOf(ms, q))

LEMMA CutDomain ==
    ASSUME NEW ms, NEW q
    PROVE  DOMAIN Cut(ms, q) = (DOMAIN ms) \ DependentsOf(ms, q)
  BY DEF Cut, Restrict

LEMMA CutIs ==
    ASSUME NEW ms, NEW q, NEW p \in DOMAIN Cut(ms, q)
    PROVE  Cut(ms, q)[p] = ms[p]
  BY DEF Cut, Restrict

\* It keeps the rounds up to that of the match, and none above it.
LEMMA CutRounds ==
    ASSUME NEW c, Typed(c), NEW q \in DOMAIN c.matches, q # Third,
           NEW d, d.byes = c.byes, d.matches = Cut(c.matches, q)
    PROVE  /\ q[1] \in Nat \ {0}
           /\ \A r \in 1..q[1] : SameResults(c, d, r)
           /\ \A r \in Nat : r > q[1] => RoundOf(d.matches, r) = {}
  <1>1. q[1] \in Nat \ {0} /\ Third[1] = 0
    BY PlaceIs DEF Typed, Third
  <1>2. \A p \in DOMAIN c.matches : p[1] \in Nat
    BY PlaceIs DEF Typed
  <1>3. DOMAIN d.matches = (DOMAIN c.matches) \ DependentsOf(c.matches, q)
    BY CutDomain
  <1>4. \A p \in DOMAIN d.matches : d.matches[p] = c.matches[p]
    BY CutIs
  <1>5. \A p \in DOMAIN c.matches : /\ p[1] > q[1] => p \in DependentsOf(c.matches, q)
                                    /\ p \in DependentsOf(c.matches, q) => p[1] > q[1] \/ p[1] = 0
    BY <1>1 DEF DependentsOf
  <1>6. ASSUME NEW r \in 1..q[1] PROVE SameResults(c, d, r)
    <2>1. RoundOf(d.matches, r) = RoundOf(c.matches, r)
      BY <1>1, <1>3, <1>5 DEF RoundOf
    <2>2. \A p \in RoundOf(c.matches, r) : d.matches[p] = c.matches[p]
      BY <2>1, <1>4 DEF RoundOf
    <2> QED
      BY <2>1, <2>2 DEF SameResults, SameSides, SamePlaces, ByesAt
  <1>7. ASSUME NEW r \in Nat, r > q[1] PROVE RoundOf(d.matches, r) = {}
    BY <1>1, <1>3, <1>5, <1>7 DEF RoundOf
  <1> QED
    BY <1>1, <1>6, <1>7

LEMMA CutOpen ==
    ASSUME NEW c, Typed(c), NEW q \in DOMAIN c.matches,
           NEW d, d.byes = c.byes, d.matches = Cut(c.matches, q)
    PROVE  Open(d, q)
  <1> SUFFICES ASSUME q # Third PROVE ~Reached(d, q[1] + 1) /\ ~Semi(d, q[1])
    BY DEF Open
  <1>1. q[1] \in Nat \ {0} /\ \A r \in Nat : r > q[1] => RoundOf(d.matches, r) = {}
    BY CutRounds
  <1>2. RoundOf(d.matches, q[1] + 1) = {}
    BY <1>1
  <1> QED
    BY <1>2 DEF Reached, Semi

LEMMA CutKey ==
    ASSUME NEW c, Typed(c), NEW h, KeyInv(c, h), NEW q \in DOMAIN c.matches,
           NEW d, d.byes = c.byes, d.matches = Cut(c.matches, q)
    PROVE  KeyInv(d, h)
  <1>1. CASE DependentsOf(c.matches, q) = {}
    <2>1. DOMAIN d.matches = (DOMAIN c.matches) \ DependentsOf(c.matches, q)
      BY CutDomain
    <2>2. \A p \in DOMAIN d.matches : d.matches[p] = c.matches[p]
      BY CutIs
    <2>3. Alike(c, d)
      BY <1>1, <2>1, <2>2 DEF Alike
    <2> QED
      BY <2>3, KeyAlike
  <1>2. CASE DependentsOf(c.matches, q) # {}
    <2>1. q # Third /\ Third \notin DOMAIN d.matches
      <3>1. q # Third /\ (Third \in DOMAIN c.matches => Third \in DependentsOf(c.matches, q))
        BY <1>2 DEF DependentsOf
      <3>2. DOMAIN d.matches = (DOMAIN c.matches) \ DependentsOf(c.matches, q)
        BY CutDomain
      <3> QED
        BY <3>1, <3>2
    <2>2. q[1] \in Nat \ {0}
      BY <2>1, CutRounds
    <2>3. \A r \in 1..q[1] : SameResults(c, d, r)
      BY <2>1, CutRounds
    <2>4. \A r \in Nat : r > q[1] => RoundOf(d.matches, r) = {}
      BY <2>1, CutRounds
    <2>5. \A r \in 1..q[1] : /\ SameSides(c, d, r) /\ Slots(d, r) = Slots(c, r)
                             /\ RoundOf(d.matches, r) = RoundOf(c.matches, r)
      BY <2>3, SameSlots DEF SameResults, SameSides, SamePlaces
    <2>6. \A p \in DOMAIN d.matches : p \in DOMAIN c.matches /\ d.matches[p] = c.matches[p]
      <3>1. DOMAIN d.matches = (DOMAIN c.matches) \ DependentsOf(c.matches, q)
        BY CutDomain
      <3>2. \A p \in DOMAIN d.matches : d.matches[p] = c.matches[p]
        BY CutIs
      <3> QED
        BY <3>1, <3>2
    <2>7. \A p \in DOMAIN d.matches : p[1] \in Nat /\ p[1] <= q[1]
      <3>1. \A p \in DOMAIN d.matches : p[1] \in Nat
        BY <2>6, PlaceIs DEF Typed
      <3>2. \A p \in DOMAIN d.matches : p \in RoundOf(d.matches, p[1])
        BY DEF RoundOf
      <3> QED
        BY <2>2, <2>4, <3>1, <3>2
    <2>8. KSound(d)
      BY <2>6 DEF KeyInv, KSound
    <2>9. KTree(d)
      <3> SUFFICES ASSUME NEW p \in DOMAIN d.matches, p[1] > 1
                   PROVE  /\ RoundOf(d.matches, p[1] - 1) # {}
                          /\ 2 * p[2] - 1 \in Slots(d, p[1] - 1) /\ 2 * p[2] \in Slots(d, p[1] - 1)
        BY DEF KTree
      <3>1. p[1] - 1 \in 1..q[1]
        BY <2>2, <2>7
      <3> QED
        BY <2>5, <2>6, <3>1 DEF KeyInv, KTree
    <2>10. KOpening(d, h)
      <3>1. 1 \in 1..q[1] /\ (2 \in 1..q[1] \/ RoundOf(d.matches, 2) = {})
        BY <2>2, <2>4
      <3>2. RoundOf(d.matches, 1) = RoundOf(c.matches, 1) /\ Slots(d, 1) = Slots(c, 1)
        BY <2>5, <3>1
      <3>3. Labelled(d) <=> Labelled(c)
        BY <2>6, <3>2 DEF Labelled, RoundOf
      <3>4. \A p : p \in DOMAIN c.matches /\ p[1] = 1 => p \in DOMAIN d.matches
        BY <3>2 DEF RoundOf
      <3>5. RoundOf(d.matches, 2) = {} \/ RoundOf(d.matches, 2) = RoundOf(c.matches, 2)
        BY <2>5, <3>1
      <3>6. \A s : <<1, s>>[1] = 1
        OBVIOUS
      <3> QED
        BY <3>2, <3>3, <3>4, <3>5, <3>6 DEF KeyInv, KOpening
    <2>11. KBuilt(d)
      <3> SUFFICES ASSUME NEW r \in Nat \ {0}, Reached(d, r + 1) PROVE Built(d, r)
        BY DEF KBuilt
      <3>1. ~(r + 1 > q[1])
        BY <2>4 DEF Reached
      <3>2. r \in 1..q[1] /\ r + 1 \in 1..q[1]
        BY <2>2, <3>1
      <3>3. Built(c, r)
        BY <2>5, <3>2, SameReached DEF KeyInv, KBuilt
      <3> QED
        BY <2>3, <2>5, <3>2, <3>3, SameBuilt
    <2>12. KThird(d)
      BY <2>1 DEF KThird
    <2> QED
      BY <2>8, <2>9, <2>10, <2>11, <2>12 DEF KeyInv
  <1> QED
    BY <1>1, <1>2

-----------------------------------------------------------------------------
(* A round is created                                                      *)

\* From c to d the round r is made of pairs; of the third place nothing is said.
Makes(c, d, r, pairs) ==
    /\ \A k \in Nat \ {0} : k # r => SamePlaces(c, d, k)
    /\ RoundOf(d.matches, r) = RoundOf(c.matches, r) \cup {<<r, s>> : s \in FullSlots(pairs)}
    /\ ByesAt(d, r) = ByesOf(r, pairs)
    /\ \A p \in Made(c.matches, r, pairs) :
          d.matches[p] = Scheduled(pairs[p[2]].a, pairs[p[2]].b, NoLabel)
    /\ \A p \in DOMAIN d.matches : p # Third /\ p \notin Made(c.matches, r, pairs) =>
          p \in DOMAIN c.matches /\ d.matches[p] = c.matches[p]

LEMMA CreateMakes ==
    ASSUME NEW c, NEW r \in Nat \ {0}, NEW pairs, NEW d,
           d.matches = CreateRound(c.matches, r, pairs), d.byes = StoreByes(c.byes, r, pairs)
    PROVE  Makes(c, d, r, pairs)
  <1>1. DOMAIN d.matches = (DOMAIN c.matches) \cup {<<r, s>> : s \in FullSlots(pairs)}
    <2>1. DOMAIN CreateRound(c.matches, r, pairs)
            = (DOMAIN c.matches) \cup {<<r, s>> : s \in FullSlots(pairs)}
      BY CreateRoundDomain
    <2> QED
      BY <2>1
  <1>2. \A k : ByesAt(d, k) = IF k = r THEN ByesOf(r, pairs) ELSE ByesAt(c, k)
    BY DEF ByesAt, StoreByes, ByesOf
  <1>3. \A k : k # r => RoundOf(d.matches, k) = RoundOf(c.matches, k)
    BY OtherRounds
  <1>4. RoundOf(d.matches, r) = RoundOf(c.matches, r) \cup {<<r, s>> : s \in FullSlots(pairs)}
    <2>1. \A s : <<r, s>>[1] = r
      OBVIOUS
    <2> QED
      BY <1>1, <2>1 DEF RoundOf
  <1>5. \A p \in Made(c.matches, r, pairs) :
          d.matches[p] = Scheduled(pairs[p[2]].a, pairs[p[2]].b, NoLabel)
    BY CreateRoundMade
  <1>6. \A p \in DOMAIN d.matches : p \notin Made(c.matches, r, pairs) =>
          p \in DOMAIN c.matches /\ d.matches[p] = c.matches[p]
    BY CreateRoundKept
  <1> QED
    BY <1>2, <1>3, <1>4, <1>5, <1>6 DEF Makes, SamePlaces

\* The places that get a match or its sides are of the round, and between entries.
LEMMA MadePlaces ==
    ASSUME NEW ms, NEW r \in Nat \ {0}, NEW pairs, NEW m \in Nat, Pairing(pairs, m),
           NEW p \in Made(ms, r, pairs)
    PROVE  /\ p[1] = r /\ p # Third /\ p[2] \in FullSlots(pairs) /\ p = <<r, p[2]>>
           /\ pairs[p[2]].a \in Entry /\ pairs[p[2]].b \in Entry
  <1>1. PICK s \in FullSlots(pairs) : p = <<r, s>>
    BY DEF Made
  <1> QED
    BY <1>1, FullPlaces

LEMMA MakesSame ==
    ASSUME NEW c, NEW d, NEW r \in Nat \ {0}, NEW pairs, NEW m \in Nat, Pairing(pairs, m),
           Makes(c, d, r, pairs), NEW k \in Nat \ {0}, k # r
    PROVE  SameResults(c, d, k)
  <1>1. SamePlaces(c, d, k)
    BY DEF Makes
  <1>2. \A p \in RoundOf(c.matches, k) : p \in DOMAIN d.matches /\ p[1] = k
    BY <1>1 DEF SamePlaces, RoundOf
  <1>3. \A p \in RoundOf(c.matches, k) : p # Third /\ p \notin Made(c.matches, r, pairs)
    BY <1>2, MadePlaces DEF Third
  <1>4. \A p \in RoundOf(c.matches, k) : d.matches[p] = c.matches[p]
    BY <1>2, <1>3 DEF Makes
  <1> QED
    BY <1>1, <1>4 DEF SameResults, SameSides

LEMMA MakesSlots ==
    ASSUME NEW c, NEW d, NEW r, NEW pairs, Makes(c, d, r, pairs)
    PROVE  Slots(d, r) = {p[2] : p \in RoundOf(c.matches, r)} \cup DOMAIN pairs
  <1>1. \A x : (\E p \in RoundOf(d.matches, r) : p[2] = x) <=>
               (\E p \in RoundOf(c.matches, r) : p[2] = x) \/ x \in FullSlots(pairs)
    <2>1. \A s : <<r, s>>[2] = s
      OBVIOUS
    <2>2. \A p : p \in RoundOf(d.matches, r) <=>
                 p \in RoundOf(c.matches, r) \/ \E s \in FullSlots(pairs) : p = <<r, s>>
      BY DEF Makes
    <2> TAKE x
    <2>3. ASSUME NEW p \in RoundOf(d.matches, r), p[2] = x
          PROVE  (\E q \in RoundOf(c.matches, r) : q[2] = x) \/ x \in FullSlots(pairs)
      BY <2>1, <2>2, <2>3
    <2>4. ASSUME x \in FullSlots(pairs) PROVE <<r, x>> \in RoundOf(d.matches, r) /\ <<r, x>>[2] = x
      BY <2>2, <2>4
    <2>5. \A q \in RoundOf(c.matches, r) : q \in RoundOf(d.matches, r)
      BY <2>2
    <2> QED
      BY <2>3, <2>4, <2>5
  <1>2. \A x : (\E bye \in ByesAt(d, r) : bye.slot = x) <=> x \in DOMAIN pairs /\ pairs[x].b = None
    <2>1. ByesAt(d, r) = ByesOf(r, pairs)
      BY DEF Makes
    <2>2. \A bye : bye \in ByesAt(d, r) <=>
             \E s \in DOMAIN pairs : /\ pairs[s].b = None
                                     /\ bye = [round |-> r, slot |-> s, entry |-> pairs[s].a]
      BY <2>1 DEF ByesOf
    <2>3. \A s : [round |-> r, slot |-> s, entry |-> pairs[s].a].slot = s
      OBVIOUS
    <2> TAKE x
    <2>4. ASSUME NEW bye \in ByesAt(d, r), bye.slot = x PROVE x \in DOMAIN pairs /\ pairs[x].b = None
      BY <2>2, <2>4
    <2>5. ASSUME x \in DOMAIN pairs, pairs[x].b = None
          PROVE  [round |-> r, slot |-> x, entry |-> pairs[x].a] \in ByesAt(d, r)
      BY <2>2, <2>5
    <2> QED
      BY <2>3, <2>4, <2>5
  <1>3. \A x : x \in Slots(d, r) <=>
               (\E p \in RoundOf(d.matches, r) : p[2] = x) \/ (\E bye \in ByesAt(d, r) : bye.slot = x)
    BY DEF Slots
  <1>4. \A x : x \in FullSlots(pairs) <=> x \in DOMAIN pairs /\ pairs[x].b # None
    BY DEF FullSlots
  <1>5. \A x : x \in Slots(d, r) <=> (\E p \in RoundOf(c.matches, r) : p[2] = x) \/ x \in DOMAIN pairs
    BY <1>1, <1>2, <1>3, <1>4
  <1> QED
    BY <1>5

\* Every match made is sound, and labels are lost only by matches made.
LEMMA MakesSound ==
    ASSUME NEW c, NEW d, NEW r \in Nat \ {0}, NEW pairs, NEW m \in Nat, Pairing(pairs, m),
           Makes(c, d, r, pairs), KSound(c)
    PROVE  \A p \in DOMAIN d.matches : p # Third => Sound(d.matches[p])
  <1> TAKE p \in DOMAIN d.matches
  <1>1. CASE p \in Made(c.matches, r, pairs)
    <2>1. pairs[p[2]].a \in Entry /\ pairs[p[2]].b \in Entry
      BY <1>1, MadePlaces
    <2>2. d.matches[p] = Scheduled(pairs[p[2]].a, pairs[p[2]].b, NoLabel)
      BY <1>1 DEF Makes
    <2> QED
      BY <2>1, <2>2, EntryAssumption DEF Sound, Scheduled, Official, Known
  <1>2. CASE p \notin Made(c.matches, r, pairs)
    BY <1>2 DEF Makes, KSound
  <1> QED
    BY <1>1, <1>2

-----------------------------------------------------------------------------
(* The first round                                                         *)

\* Nothing is known of a key no round of which is defined.
LEMMA NothingReached ==
    ASSUME NEW c, Typed(c), NEW h, KeyInv(c, h), Defined(c.matches) = {}
    PROVE  /\ \A r \in Nat \ {0} : ~Whole(c, r) /\ ~Reached(c, r + 1)
           /\ ~(Third \in DOMAIN c.matches /\ Known(c.matches[Third]))
  <1>1. \A r \in Nat \ {0} : ~Whole(c, r)
    BY DefinedIs
  <1> QED
    BY <1>1 DEF KeyInv, KBuilt, Built, KThird, Semi

\* The slots the pairs of the first round have.
LEMMA FirstSlots ==
    ASSUME NEW c, rule \in Rules, c.table \in Tables
    PROVE  /\ Resolves(c) => DOMAIN FirstPairs(c) = {p[2] : p \in RoundOf(c.matches, 1)}
           /\ ~Resolves(c) => DOMAIN FirstPairs(c) = 1..Half(rule.qualifiers)
           /\ Resolves(c) => Labelled(c) /\ RoundOf(c.matches, 1) # {}
  <1>1. CASE Resolves(c)
    <2>1. FirstPairs(c) = PublishedPairs(c)
      BY <1>1 DEF FirstPairs
    <2>2. DOMAIN PublishedPairs(c) = {p[2] : p \in RoundOf(c.matches, 1)}
      BY DEF PublishedPairs
    <2> QED
      BY <1>1, <2>1, <2>2 DEF Resolves, Labelled
  <1>2. CASE ~Resolves(c)
    <2>1. FirstPairs(c) = SeedPairs(Seeds(c))
      BY <1>2 DEF FirstPairs, Seeds
    <2>2. rule.qualifiers \in Nat /\ Seeds(c) \in [1..rule.qualifiers -> Entry]
      BY SeedsAre
    <2>3. DOMAIN SeedPairs(Seeds(c)) = 1..Half(rule.qualifiers)
      BY <2>2, SeedPairsDomain
    <2> QED
      BY <1>2, <2>1, <2>3
  <1> QED
    BY <1>1, <1>2

LEMMA FirstKey ==
    ASSUME NEW c, Typed(c), rule \in Rules, c.table \in Tables, NEW h \in Nat, h = Half(rule.qualifiers),
           KeyInv(c, h), NEW d, FirstMade(c, d)
    PROVE  KeyInv(d, h)
  <1> DEFINE pairs == FirstPairs(c)
             slots == {p[2] : p \in RoundOf(c.matches, 1)}
  <1>1. PICK m \in Nat : Pairing(pairs, m)
    BY FirstPairing
  <1>2. Makes(c, d, 1, pairs)
    BY CreateMakes DEF FirstMade
  <1>3. \A k \in Nat \ {0} : k # 1 => SameResults(c, d, k)
    BY <1>1, <1>2, MakesSame
  <1>4. \A k \in Nat \ {0} : k # 1 => /\ SameSides(c, d, k) /\ Slots(d, k) = Slots(c, k)
                                      /\ RoundOf(d.matches, k) = RoundOf(c.matches, k)
    BY <1>3, SameSlots DEF SameResults, SameSides, SamePlaces
  <1>5. Slots(d, 1) = slots \cup DOMAIN pairs
    BY <1>2, MakesSlots
  <1>6. Defined(c.matches) = {} /\ ~AllByes(pairs)
    BY DEF FirstMade
  <1>7. \A p \in Made(c.matches, 1, pairs) : p[1] = 1 /\ p # Third
    BY <1>1, MadePlaces
  <1>8. DOMAIN d.matches = (DOMAIN c.matches) \cup {<<1, s>> : s \in FullSlots(pairs)}
    <2>1. d.matches = CreateRound(c.matches, 1, pairs)
      BY DEF FirstMade
    <2>2. DOMAIN CreateRound(c.matches, 1, pairs)
            = (DOMAIN c.matches) \cup {<<1, s>> : s \in FullSlots(pairs)}
      BY CreateRoundDomain
    <2> QED
      BY <2>1, <2>2
  <1>9. Third \in DOMAIN d.matches => Third \in DOMAIN c.matches /\ d.matches[Third] = c.matches[Third]
    <2>1. Third \notin Made(c.matches, 1, pairs)
      BY <1>7
    <2>2. d.matches = CreateRound(c.matches, 1, pairs)
      BY DEF FirstMade
    <2> QED
      BY <2>1, <2>2, CreateRoundKept
  <1>10. slots \subseteq Slots(c, 1)
    BY DEF Slots
  <1>11. RoundOf(c.matches, 1) # {} => Slots(c, 1) \subseteq 1..h
    BY DEF KeyInv, KOpening
  <1>12. /\ Resolves(c) => DOMAIN pairs = slots /\ Labelled(c) /\ RoundOf(c.matches, 1) # {}
         /\ ~Resolves(c) => DOMAIN pairs = 1..h
    BY FirstSlots
  <1>13. \A p \in DOMAIN d.matches : p[1] # 1 => p \in DOMAIN c.matches
    <2>1. \A s : <<1, s>>[1] = 1
      OBVIOUS
    <2> QED
      BY <1>8, <2>1
  <1>14. RoundOf(d.matches, 1) # {}
    <2>1. PICK s \in FullSlots(pairs) : TRUE
      BY <1>6 DEF AllByes, FullSlots
    <2>2. <<1, s>> \in RoundOf(d.matches, 1)
      BY <1>2 DEF Makes
    <2> QED
      BY <2>2
  <1> HIDE DEF pairs
  <1>15. KSound(d)
    <2>1. \A p \in DOMAIN d.matches : p # Third => Sound(d.matches[p])
      <3>1. KSound(c) /\ 1 \in Nat \ {0}
        BY DEF KeyInv
      <3> QED
        BY <1>1, <1>2, <3>1, MakesSound, Zenon
    <2> QED
      BY <1>9, <2>1 DEF KSound, KeyInv
  <1>16. KTree(d)
    <2> SUFFICES ASSUME NEW p \in DOMAIN d.matches, p[1] > 1
                 PROVE  /\ RoundOf(d.matches, p[1] - 1) # {}
                        /\ 2 * p[2] - 1 \in Slots(d, p[1] - 1) /\ 2 * p[2] \in Slots(d, p[1] - 1)
      BY DEF KTree
    <2>1. p \in DOMAIN c.matches /\ p[1] \in Nat /\ p[2] \in Nat
      <3>1. p \in DOMAIN c.matches
        BY <1>13
      <3> QED
        BY <3>1, PlaceIs DEF Typed
    <2>2. /\ RoundOf(c.matches, p[1] - 1) # {}
          /\ 2 * p[2] - 1 \in Slots(c, p[1] - 1) /\ 2 * p[2] \in Slots(c, p[1] - 1)
      BY <2>1 DEF KeyInv, KTree
    <2>3. CASE p[1] = 2
      <3>1. p[1] - 1 = 1 /\ p \in RoundOf(c.matches, 2)
        BY <2>1, <2>3 DEF RoundOf
      <3>2. 2 * p[2] - 1 \in Slots(d, 1) /\ 2 * p[2] \in Slots(d, 1)
        <4>1. CASE Resolves(c)
          <5>1. <<1, 2 * p[2] - 1>> \in DOMAIN c.matches /\ <<1, 2 * p[2]>> \in DOMAIN c.matches
            BY <1>12, <3>1, <4>1 DEF KeyInv, KOpening
          <5>2. <<1, 2 * p[2] - 1>> \in RoundOf(c.matches, 1) /\ <<1, 2 * p[2]>> \in RoundOf(c.matches, 1)
            BY <5>1 DEF RoundOf
          <5>3. 2 * p[2] - 1 \in slots /\ 2 * p[2] \in slots
            BY <5>2
          <5> QED
            BY <1>5, <5>3
        <4>2. CASE ~Resolves(c)
          BY <1>5, <1>11, <1>12, <2>2, <3>1, <4>2
        <4> QED
          BY <4>1, <4>2
      <3> QED
        BY <1>14, <3>1, <3>2
    <2>4. CASE p[1] # 2
      <3>1. p[1] - 1 \in Nat \ {0} /\ p[1] - 1 # 1
        BY <2>1, <2>4
      <3> QED
        BY <1>4, <2>2, <3>1
    <2> QED
      BY <2>3, <2>4
  <1>17. KOpening(d, h)
    <2>1. InRow(Slots(d, 1)) /\ Slots(d, 1) \subseteq 1..h
      <3>1. CASE Resolves(c)
        <4>1. InRow(slots)
          BY <1>12, <3>1 DEF KeyInv, KOpening
        <4> QED
          BY <1>5, <1>10, <1>11, <1>12, <3>1, <4>1
      <3>2. CASE ~Resolves(c)
        <4>1. slots \subseteq 1..h
          BY <1>10, <1>11
        <4>2. Slots(d, 1) = 1..h
          BY <1>5, <1>12, <3>2, <4>1
        <4> QED
          BY <4>2 DEF InRow
      <3> QED
        BY <3>1, <3>2
    <2>2. ASSUME Labelled(d)
          PROVE  /\ InRow({p[2] : p \in RoundOf(d.matches, 1)})
                 /\ \A p \in RoundOf(d.matches, 2) :
                       <<1, 2 * p[2] - 1>> \in DOMAIN d.matches /\ <<1, 2 * p[2]>> \in DOMAIN d.matches
      <3>1. Made(c.matches, 1, pairs) = {}
        <4> SUFFICES ASSUME NEW p \in Made(c.matches, 1, pairs) PROVE FALSE
          OBVIOUS
        <4>1. p \in RoundOf(d.matches, 1)
          <5>1. p \in {<<1, s>> : s \in FullSlots(pairs)}
            BY DEF Made
          <5> QED
            BY <1>2, <5>1 DEF Makes
        <4>2. d.matches[p].label = NoLabel
          <5>1. d.matches[p] = Scheduled(pairs[p[2]].a, pairs[p[2]].b, NoLabel)
            BY <1>2 DEF Makes
          <5> QED
            BY <5>1 DEF Scheduled
        <4> QED
          BY <2>2, <4>1, <4>2 DEF Labelled
      <3>2. DOMAIN d.matches = DOMAIN c.matches
        <4>1. \A p \in {<<1, s>> : s \in FullSlots(pairs)} : p \in DOMAIN c.matches
          BY <3>1 DEF Made
        <4> QED
          BY <1>8, <4>1
      <3>3. RoundOf(d.matches, 1) = RoundOf(c.matches, 1) /\ RoundOf(d.matches, 2) = RoundOf(c.matches, 2)
        BY <3>2 DEF RoundOf
      <3>4. \A p \in RoundOf(c.matches, 1) : d.matches[p] = c.matches[p]
        <4>1. \A p \in RoundOf(c.matches, 1) : p \in DOMAIN d.matches /\ p # Third
          BY <3>2 DEF RoundOf, Third
        <4> QED
          BY <1>2, <3>1, <4>1 DEF Makes
      <3>5. Labelled(c)
        BY <2>2, <3>3, <3>4 DEF Labelled
      <3> QED
        BY <1>14, <3>2, <3>3, <3>5 DEF KeyInv, KOpening
    <2> QED
      BY <2>1, <2>2 DEF KOpening
  <1>18. KBuilt(d)
    <2> SUFFICES ASSUME NEW r \in Nat \ {0}, Reached(d, r + 1) PROVE FALSE
      BY DEF KBuilt
    <2>1. r + 1 \in Nat \ {0} /\ r + 1 # 1
      OBVIOUS
    <2>2. Reached(c, r + 1)
      BY <1>4, <2>1, SameReached
    <2> QED
      BY <1>6, <2>2, NothingReached
  <1>19. KThird(d)
    BY <1>6, <1>9, NothingReached DEF KThird
  <1> QED
    BY <1>15, <1>16, <1>17, <1>18, <1>19 DEF KeyInv

-----------------------------------------------------------------------------
(* The next round                                                          *)

LEMMA NextMakes ==
    ASSUME NEW c, Typed(c), NEW d, NextMade(c, d)
    PROVE  Makes(c, d, LastRound(c) + 1, Draw(c, LastRound(c)))
  <1> DEFINE r == LastRound(c)
             pairs == Draw(c, r)
             e == [matches |-> CreatedNext(c, r), byes |-> StoreByes(c.byes, r + 1, pairs)]
  <1>1. r \in Nat \ {0} /\ r + 1 \in Nat \ {0}
    <2>1. r \in Nat \ {0}
      BY LastWhole DEF NextMade
    <2> HIDE DEF r
    <2> QED
      BY <2>1
  <1>2. e.matches = CreateRound(c.matches, r + 1, pairs) /\ e.byes = StoreByes(c.byes, r + 1, pairs)
    BY DEF CreatedNext
  <1>3. d.byes = e.byes /\ d.matches = IF ThirdDue(c, r) THEN ThirdPlace(e.matches, r) ELSE e.matches
    BY DEF NextMade
  <1> HIDE DEF e, r, pairs
  <1>4. Makes(c, e, r + 1, pairs)
    BY <1>1, <1>2, CreateMakes
  <1>5. /\ \A p : p # Third => (p \in DOMAIN d.matches <=> p \in DOMAIN e.matches)
        /\ \A p \in DOMAIN e.matches : p # Third => d.matches[p] = e.matches[p]
    <2>1. CASE ThirdDue(c, r) /\ ~Taken(e.matches)
      <3>1. d.matches = [p \in (DOMAIN e.matches) \cup {Third} |->
                           IF p = Third THEN Scheduled(LoserOf(e.matches, r, 1), LoserOf(e.matches, r, 2), NoLabel)
                           ELSE e.matches[p]]
        BY <1>3, <2>1, ThirdPlaceIs, Zenon
      <3> QED
        BY <3>1
    <2>2. CASE ~ThirdDue(c, r) \/ Taken(e.matches)
      <3>1. d.matches = e.matches
        BY <1>3, <2>2, ThirdPlaceKept
      <3> QED
        BY <3>1
    <2> QED
      BY <2>1, <2>2
  <1>6. \A k \in Nat \ {0} : /\ RoundOf(d.matches, k) = RoundOf(e.matches, k)
                             /\ ByesAt(d, k) = ByesAt(e, k)
    <2> TAKE k \in Nat \ {0}
    <2>1. \A p : p[1] = k => p # Third
      BY DEF Third
    <2> QED
      BY <1>3, <1>5, <2>1 DEF RoundOf, ByesAt
  <1>7. \A k \in Nat \ {0} : k # r + 1 => SamePlaces(c, d, k)
    BY <1>4, <1>6 DEF Makes, SamePlaces
  <1>8. /\ RoundOf(d.matches, r + 1) = RoundOf(c.matches, r + 1) \cup {<<r + 1, s>> : s \in FullSlots(pairs)}
        /\ ByesAt(d, r + 1) = ByesOf(r + 1, pairs)
    BY <1>1, <1>4, <1>6 DEF Makes
  <1>9. ASSUME NEW p \in Made(c.matches, r + 1, pairs)
        PROVE  d.matches[p] = Scheduled(pairs[p[2]].a, pairs[p[2]].b, NoLabel)
    <2>1. p \in RoundOf(e.matches, r + 1)
      <3>1. p \in {<<r + 1, s>> : s \in FullSlots(pairs)}
        BY DEF Made
      <3> QED
        BY <1>4, <3>1 DEF Makes
    <2>2. p \in DOMAIN e.matches /\ p # Third
      BY <1>1, <2>1 DEF RoundOf, Third
    <2>3. e.matches[p] = Scheduled(pairs[p[2]].a, pairs[p[2]].b, NoLabel)
      BY <1>4 DEF Makes
    <2> QED
      BY <1>5, <2>2, <2>3
  <1>10. \A p \in DOMAIN d.matches : p # Third /\ p \notin Made(c.matches, r + 1, pairs) =>
            p \in DOMAIN c.matches /\ d.matches[p] = c.matches[p]
    BY <1>4, <1>5 DEF Makes
  <1>11. Makes(c, d, r + 1, pairs)
    BY <1>7, <1>8, <1>9, <1>10 DEF Makes
  <1> QED
    BY <1>11 DEF r, pairs

\* The third place is as it was, or made between the losers of the two matches of the round.
LEMMA NextThird ==
    ASSUME NEW c, Typed(c), NEW d, NextMade(c, d), Third \in DOMAIN d.matches
    PROVE  \/ Third \in DOMAIN c.matches /\ d.matches[Third] = c.matches[Third]
           \/ /\ ThirdDue(c, LastRound(c))
              /\ d.matches[Third] = Scheduled(LoserOf(c.matches, LastRound(c), 1),
                                              LoserOf(c.matches, LastRound(c), 2), NoLabel)
  <1> DEFINE r == LastRound(c)
             pairs == Draw(c, r)
             created == CreatedNext(c, r)
  <1>1. r \in Nat \ {0} /\ r + 1 \in Nat \ {0} /\ r # r + 1
    <2>1. r \in Nat \ {0}
      BY LastWhole DEF NextMade
    <2> HIDE DEF r
    <2> QED
      BY <2>1
  <1>2. created = CreateRound(c.matches, r + 1, pairs)
    BY DEF CreatedNext
  <1>3. d.matches = IF ThirdDue(c, r) THEN ThirdPlace(created, r) ELSE created
    BY DEF NextMade
  <1> HIDE DEF r, pairs, created
  <1>4. Third \notin Made(c.matches, r + 1, pairs)
    BY <1>1 DEF Made, Third
  <1>5. CASE ThirdDue(c, r) /\ ~Taken(created)
    <2>1. d.matches = [p \in (DOMAIN created) \cup {Third} |->
                         IF p = Third THEN Scheduled(LoserOf(created, r, 1), LoserOf(created, r, 2), NoLabel)
                         ELSE created[p]]
      BY <1>3, <1>5, ThirdPlaceIs, Zenon
    <2>2. d.matches[Third] = Scheduled(LoserOf(created, r, 1), LoserOf(created, r, 2), NoLabel)
      BY <2>1
    <2>3. RoundOf(created, r) = RoundOf(c.matches, r)
      BY <1>1, <1>2, OtherRounds
    <2> DEFINE slots == {p[2] : p \in RoundOf(c.matches, r)}
    <2>4. \A i \in 1..2 : LoserOf(created, r, i) = LoserOf(c.matches, r, i)
      <3> TAKE i \in 1..2
      <3>1. Semis(created, r) = Semis(c.matches, r)
        BY <2>3 DEF Semis
      <3>2. \A s : <<r, s>> \notin Made(c.matches, r + 1, pairs)
        <4>1. \A s, t : <<r, s>>[1] = r /\ <<r + 1, t>>[1] = r + 1
          OBVIOUS
        <4> QED
          BY <1>1, <4>1 DEF Made
      <3>3. <<r, Semis(c.matches, r)[i]>> \in RoundOf(created, r)
        <4>1. slots \subseteq Nat /\ \A s \in slots : <<r, s>> \in RoundOf(c.matches, r)
          BY PlaceIs DEF RoundOf, Typed
        <4>2. IsFiniteSet(slots) /\ Cardinality(slots) = 2
          BY <1>5, MatchSlots DEF ThirdDue
        <4>3. InOrder(slots)[i] \in slots
          <5> HIDE DEF slots
          <5> QED
            BY <4>1, <4>2, InOrderLists
        <4> QED
          BY <2>3, <4>1, <4>3 DEF Semis
      <3>4. <<r, Semis(c.matches, r)[i]>> \in DOMAIN created
        BY <3>3 DEF RoundOf
      <3>5. created[<<r, Semis(c.matches, r)[i]>>] = c.matches[<<r, Semis(c.matches, r)[i]>>]
        BY <1>2, <3>2, <3>4, CreateRoundKept
      <3> QED
        BY <3>1, <3>5 DEF LoserOf
    <2>5. d.matches[Third] = Scheduled(LoserOf(c.matches, r, 1), LoserOf(c.matches, r, 2), NoLabel)
      BY <2>2, <2>4
    <2> QED
      BY <1>5, <2>5 DEF r
  <1>6. CASE ~ThirdDue(c, r) \/ Taken(created)
    <2>1. d.matches = created
      BY <1>3, <1>6, ThirdPlaceKept
    <2>2. Third \in DOMAIN c.matches /\ created[Third] = c.matches[Third]
      BY <1>2, <1>4, <2>1, CreateRoundKept
    <2> QED
      BY <2>1, <2>2
  <1> QED
    BY <1>5, <1>6

\* Two slots in the last round that is defined: the next one is the final.
LEMMA TwoSlots ==
    ASSUME NEW c, Typed(c), NEW r \in Nat \ {0}, Whole(c, r), Slots(c, r) = 1..2, Cardinality(RoundOf(c.matches, r)) = 2
    PROVE  RoundOf(c.matches, r) = {<<r, 1>>, <<r, 2>>}
  <1> DEFINE S == {<<r, 1>>, <<r, 2>>}
  <1>1. RoundOf(c.matches, r) \subseteq S
    <2>1. \A p \in RoundOf(c.matches, r) : p = <<r, p[2]>> /\ p[2] \in 1..2
      BY PlaceIs DEF RoundOf, Typed, Slots
    <2> QED
      BY <2>1
  <1>2. IsFiniteSet(S) /\ Cardinality(S) = 2
    <2>1. <<r, 1>> # <<r, 2>>
      OBVIOUS
    <2> DEFINE T == {<<r, 1>>}
               x == <<r, 2>>
    <2>2. IsFiniteSet(T) /\ Cardinality(T) = 1
      BY FS_Singleton
    <2>3. x \notin T /\ S = T \cup {x}
      BY <2>1
    <2> HIDE DEF S, T, x
    <2>4. IsFiniteSet(T \cup {x}) /\ Cardinality(T \cup {x}) = Cardinality(T) + 1
      BY <2>2, <2>3, FS_AddElement
    <2> QED
      BY <2>2, <2>3, <2>4
  <1> HIDE DEF S
  <1>3. RoundOf(c.matches, r) = S
    BY <1>1, <1>2, FS_Subset
  <1> QED
    BY <1>3 DEF S

\* What there is to know of the last round r that is defined, and of round r + 1 made after it.
NextFacts(c, d, r, n) ==
    /\ r \in Nat \ {0} /\ Whole(c, r) /\ Settled(c, r) /\ \A k \in Nat \ {0} : Whole(c, k) => k <= r
    /\ n \in Nat /\ n > 1 /\ Slots(c, r) = 1..n /\ Len(Winners(c, r)) = n
    /\ Pairing(Draw(c, r), (n + 1) \div 2) /\ (n + 1) \div 2 \in Nat
    /\ DOMAIN Draw(c, r) = 1..((n + 1) \div 2)
    /\ \A s \in DOMAIN Draw(c, r) : Draw(c, r)[s].b # None <=> 2 * s <= n
    /\ Makes(c, d, r + 1, Draw(c, r))

LEMMA NextFactsAre ==
    ASSUME NEW c, Typed(c), NEW h, KeyInv(c, h), NEW d, NextMade(c, d)
    PROVE  \E n : NextFacts(c, d, LastRound(c), n)
  <1> DEFINE r == LastRound(c)
  <1>1. r \in Nat \ {0} /\ Whole(c, r) /\ \A k \in Nat \ {0} : Whole(c, k) => k <= r
    BY LastWhole DEF NextMade
  <1>2. Settled(c, r) /\ Len(Winners(c, r)) > 1
    BY DEF NextMade
  <1>3. Makes(c, d, r + 1, Draw(c, r))
    BY NextMakes
  <1> HIDE DEF r
  <1>4. PICK n \in Nat : Slots(c, r) = 1..n
    BY <1>1, WholeReached, RowOfSlots DEF InRow
  <1>5. Len(Winners(c, r)) = n /\ n > 1
    BY <1>2, <1>4, RowWinners
  <1>6. DOMAIN Draw(c, r) = 1..((n + 1) \div 2)
    BY <1>4, DrawDomain
  <1>7. \A s \in DOMAIN Draw(c, r) : Draw(c, r)[s].b # None <=> 2 * s <= n
    BY <1>2, <1>4, DrawFull
  <1>8. (n + 1) \div 2 \in Nat /\ Pairing(Draw(c, r), (n + 1) \div 2)
    BY <1>2, <1>5, DrawPairing
  <1>9. NextFacts(c, d, r, n)
    BY <1>1, <1>2, <1>3, <1>4, <1>5, <1>6, <1>7, <1>8 DEF NextFacts
  <1> QED
    BY <1>9 DEF r

\* The slots of the new round are those of its pairs.
LEMMA NextSlots ==
    ASSUME NEW c, Typed(c), NEW h, KeyInv(c, h), NEW d, NEW r, NEW n, NextFacts(c, d, r, n)
    PROVE  /\ Slots(d, r + 1) = 1..((n + 1) \div 2)
           /\ RoundOf(c.matches, r + 1) # {} => Slots(c, r + 1) \subseteq 1..((n + 1) \div 2)
           /\ <<r + 1, 1>> \in RoundOf(d.matches, r + 1)
           /\ \A p \in RoundOf(d.matches, r + 1) : p[2] \in Nat \ {0} /\ 2 * p[2] <= n
  <1> DEFINE slots == {p[2] : p \in RoundOf(c.matches, r + 1)}
             half == (n + 1) \div 2
             full == FullSlots(Draw(c, r))
  <1>1. r \in Nat \ {0} /\ n \in Nat /\ n > 1 /\ Slots(c, r) = 1..n /\ DOMAIN Draw(c, r) = 1..half
    BY DEF NextFacts
  <1>2. \A p \in RoundOf(c.matches, r + 1) : p[2] \in Nat \ {0} /\ 2 * p[2] <= n
    <2> TAKE p \in RoundOf(c.matches, r + 1)
    <2>1. p \in DOMAIN c.matches /\ p[1] > 1 /\ p[1] - 1 = r
      BY <1>1 DEF RoundOf
    <2>2. 2 * p[2] \in Slots(c, r)
      BY <2>1 DEF KeyInv, KTree
    <2>3. p[2] \in Nat \ {0}
      BY <1>1, <2>1, PlaceIs DEF Typed
    <2> QED
      BY <1>1, <2>2, <2>3
  <1>3. slots \subseteq 1..half
    BY <1>1, <1>2
  <1>4. Makes(c, d, r + 1, Draw(c, r))
    BY DEF NextFacts
  <1>5. Slots(d, r + 1) = slots \cup DOMAIN Draw(c, r)
    BY <1>4, MakesSlots
  <1>6. RoundOf(d.matches, r + 1) = RoundOf(c.matches, r + 1) \cup {<<r + 1, s>> : s \in full}
    BY <1>4 DEF Makes
  <1>7. \A s : s \in full <=> s \in 1..half /\ 2 * s <= n
    BY DEF NextFacts, FullSlots
  <1>8. 1 \in full
    BY <1>1, <1>7
  <1>9. ASSUME RoundOf(c.matches, r + 1) # {} PROVE Slots(c, r + 1) \subseteq 1..half
    <2>1. CASE ByesAt(c, r + 1) = {}
      BY <1>3, <2>1 DEF Slots
    <2>2. CASE ByesAt(c, r + 1) # {}
      <3>1. Reached(c, r + 1)
        BY <1>9, <2>2 DEF Reached
      <3>2. Slots(c, r + 1) = DOMAIN Draw(c, r)
        BY <1>1, <3>1 DEF KeyInv, KBuilt, Built
      <3> QED
        BY <1>1, <3>2
    <2> QED
      BY <2>1, <2>2
  <1>10. \A p \in RoundOf(d.matches, r + 1) : p[2] \in Nat \ {0} /\ 2 * p[2] <= n
    <2> TAKE p \in RoundOf(d.matches, r + 1)
    <2>1. CASE p \in RoundOf(c.matches, r + 1)
      BY <1>2, <2>1
    <2>2. CASE \E s \in full : p = <<r + 1, s>>
      <3>1. PICK s \in full : p = <<r + 1, s>>
        BY <2>2
      <3>2. p[2] = s /\ s \in 1..half /\ 2 * s <= n
        BY <1>7, <3>1
      <3> QED
        BY <3>2
    <2> QED
      BY <1>6, <2>1, <2>2
  <1>11. <<r + 1, 1>> \in RoundOf(d.matches, r + 1)
    BY <1>6, <1>8
  <1> QED
    BY <1>1, <1>3, <1>5, <1>9, <1>10, <1>11

\* Round r + 2 is not made yet when round r had two matches.
LEMMA NextKeyTree ==
    ASSUME NEW c, Typed(c), NEW h, KeyInv(c, h), NEW d, Typed(d), NEW r, NEW n, NextFacts(c, d, r, n)
    PROVE  KTree(d)
  <1>1. r \in Nat \ {0} /\ Whole(c, r) /\ n \in Nat /\ Slots(c, r) = 1..n
    BY DEF NextFacts
  <1>2. \A k \in Nat \ {0} : k # r + 1 => /\ RoundOf(d.matches, k) = RoundOf(c.matches, k)
                                          /\ Slots(d, k) = Slots(c, k)
    BY SameSlots DEF NextFacts, Makes, SamePlaces
  <1>3. /\ Slots(d, r + 1) = 1..((n + 1) \div 2)
        /\ RoundOf(c.matches, r + 1) # {} => Slots(c, r + 1) \subseteq 1..((n + 1) \div 2)
        /\ <<r + 1, 1>> \in RoundOf(d.matches, r + 1)
        /\ \A p \in RoundOf(d.matches, r + 1) : p[2] \in Nat \ {0} /\ 2 * p[2] <= n
    BY NextSlots
  <1> SUFFICES ASSUME NEW p \in DOMAIN d.matches, p[1] > 1
               PROVE  /\ RoundOf(d.matches, p[1] - 1) # {}
                      /\ 2 * p[2] - 1 \in Slots(d, p[1] - 1) /\ 2 * p[2] \in Slots(d, p[1] - 1)
    BY DEF KTree
  <1>4. p[1] \in Nat /\ p[2] \in Nat \ {0} /\ p \in RoundOf(d.matches, p[1])
    BY PlaceIs DEF Typed, RoundOf
  <1>5. CASE p[1] = r + 1
    <2>1. p[1] - 1 = r /\ r # r + 1 /\ 2 * p[2] <= n
      BY <1>1, <1>3, <1>4, <1>5
    <2>2. 2 * p[2] - 1 \in 1..n /\ 2 * p[2] \in 1..n
      BY <1>1, <1>4, <2>1
    <2>3. RoundOf(c.matches, r) # {}
      BY <1>1 DEF Whole
    <2> QED
      BY <1>1, <1>2, <2>1, <2>2, <2>3
  <1>6. CASE p[1] # r + 1
    <2>1. p \in DOMAIN c.matches
      BY <1>2, <1>4, <1>6 DEF RoundOf
    <2>2. /\ RoundOf(c.matches, p[1] - 1) # {}
          /\ 2 * p[2] - 1 \in Slots(c, p[1] - 1) /\ 2 * p[2] \in Slots(c, p[1] - 1)
      BY <2>1 DEF KeyInv, KTree
    <2>3. CASE p[1] - 1 = r + 1
      BY <1>3, <2>2, <2>3
    <2>4. CASE p[1] - 1 # r + 1
      <3>1. p[1] - 1 \in Nat \ {0}
        BY <1>4
      <3> QED
        BY <1>2, <2>2, <2>4, <3>1
    <2> QED
      BY <2>3, <2>4
  <1> QED
    BY <1>5, <1>6

\* The new round is the final when the last one had two slots.
LEMMA NextFinal ==
    ASSUME NEW c, Typed(c), NEW h, KeyInv(c, h), NEW d, Typed(d), NEW r, NextFacts(c, d, r, 2)
    PROVE  /\ RoundOf(d.matches, r + 1) = {<<r + 1, 1>>} /\ Slots(d, r + 1) = 1..1
           /\ RoundOf(d.matches, r + 2) = {}
  <1>1. r \in Nat \ {0} /\ (2 + 1) \div 2 = 1
    BY DEF NextFacts
  <1>2. /\ Slots(d, r + 1) = 1..1
        /\ <<r + 1, 1>> \in RoundOf(d.matches, r + 1)
        /\ \A p \in RoundOf(d.matches, r + 1) : p[2] \in Nat \ {0} /\ 2 * p[2] <= 2
    BY <1>1, NextSlots
  <1>3. \A p \in RoundOf(d.matches, r + 1) : p = <<r + 1, 1>>
    <2> TAKE p \in RoundOf(d.matches, r + 1)
    <2>1. p = <<p[1], p[2]>> /\ p[1] = r + 1
      BY PlaceIs DEF Typed, RoundOf
    <2>2. p[2] = 1
      BY <1>2
    <2> QED
      BY <2>1, <2>2
  <1>4. RoundOf(d.matches, r + 2) = {}
    <2> SUFFICES ASSUME NEW p \in DOMAIN d.matches, p[1] = r + 2 PROVE FALSE
      BY DEF RoundOf
    <2>1. p[1] > 1 /\ p[1] - 1 = r + 1 /\ p[2] \in Nat \ {0}
      BY <1>1, PlaceIs DEF Typed
    <2>2. 2 * p[2] \in Slots(d, r + 1)
      BY <2>1, NextKeyTree DEF KTree
    <2> QED
      BY <1>2, <2>1, <2>2
  <1> QED
    BY <1>2, <1>3, <1>4

\* The semifinals of c, if there are any, are its last round.
LEMMA SemiIsLast ==
    ASSUME NEW c, Typed(c), NEW h, KeyInv(c, h), NEW d, NEW r, NEW n, NextFacts(c, d, r, n),
           NEW k \in Nat \ {0}, Semi(c, k)
    PROVE  k = r /\ n = 2
  <1>1. r \in Nat \ {0} /\ Whole(c, r) /\ n \in Nat /\ n > 1 /\ Slots(c, r) = 1..n
    BY DEF NextFacts
  <1>2. k <= r
    BY DEF NextFacts, Semi
  <1>3. ~(r >= k + 2)
    <2> SUFFICES ASSUME r >= k + 2 PROVE FALSE
      OBVIOUS
    <2>1. k + 2 \in Nat \ {0} /\ RoundOf(c.matches, k + 2) = {}
      BY DEF Semi
    <2>2. RoundOf(c.matches, r) = {}
      BY <1>1, <2>1, NoneAbove DEF KeyInv
    <2> QED
      BY <1>1, <2>2 DEF Whole
  <1>4. n \in Slots(c, r)
    BY <1>1
  <1>5. r # k + 1
    <2> SUFFICES ASSUME r = k + 1 PROVE FALSE
      OBVIOUS
    <2>1. Slots(c, r) = 1..1
      BY DEF Semi
    <2>2. n \in 1..1
      BY <1>4, <2>1
    <2> QED
      BY <1>1, <2>2
  <1>6. k = r
    BY <1>1, <1>2, <1>3, <1>5
  <1>7. Slots(c, r) = 1..2
    BY <1>6 DEF Semi
  <1>8. n \in 1..2
    BY <1>4, <1>7
  <1> QED
    BY <1>1, <1>6, <1>8

LEMMA NextKeyBuilt ==
    ASSUME NEW c, Typed(c), NEW h, KeyInv(c, h), NEW d, Typed(d), NEW r, NEW n, NextFacts(c, d, r, n)
    PROVE  KBuilt(d)
  <1> DEFINE pairs == Draw(c, r)
  <1>1. /\ r \in Nat \ {0} /\ Whole(c, r) /\ Settled(c, r) /\ n \in Nat /\ Slots(c, r) = 1..n
        /\ DOMAIN pairs = 1..((n + 1) \div 2)
        /\ \A k \in Nat \ {0} : Whole(c, k) => k <= r
    BY DEF NextFacts
  <1>2. Makes(c, d, r + 1, pairs) /\ r + 1 \in Nat \ {0}
    BY <1>1 DEF NextFacts
  <1>3. \A k \in Nat \ {0} : k # r + 1 => SameResults(c, d, k)
    <2>1. Pairing(pairs, (n + 1) \div 2) /\ (n + 1) \div 2 \in Nat
      BY DEF NextFacts
    <2> HIDE DEF pairs
    <2> QED
      BY <1>2, <2>1, MakesSame
  <1>4. \A k \in Nat \ {0} : k # r + 1 => SameSides(c, d, k)
    BY <1>3 DEF SameResults
  <1>5. \A s \in DOMAIN pairs : pairs[s] = [a |-> pairs[s].a, b |-> pairs[s].b]
    <2> TAKE s \in DOMAIN pairs
    <2>1. pairs[s] = [a |-> Winners(c, r)[2 * s - 1],
                      b |-> IF 2 * s <= n THEN Winners(c, r)[2 * s] ELSE None]
      <3>1. s \in 1..((n + 1) \div 2)
        BY <1>1
      <3> QED
        BY <1>1, <3>1, DrawIs
    <2> HIDE DEF pairs
    <2> QED
      BY <2>1
  <1>6. Drawn(d, r + 1, pairs)
    <2>1. ASSUME NEW p \in RoundOf(d.matches, r + 1), Known(d.matches[p])
          PROVE  pairs[p[2]] = [a |-> d.matches[p].a, b |-> d.matches[p].b]
      <3>1. CASE p \in Made(c.matches, r + 1, pairs)
        <4>1. d.matches[p] = Scheduled(pairs[p[2]].a, pairs[p[2]].b, NoLabel)
          BY <1>2, <3>1 DEF Makes
        <4>2. d.matches[p].a = pairs[p[2]].a /\ d.matches[p].b = pairs[p[2]].b
          BY <4>1 DEF Scheduled
        <4>3. p[2] \in DOMAIN pairs
          <5>1. PICK s \in FullSlots(pairs) : p = <<r + 1, s>>
            BY <3>1 DEF Made
          <5> QED
            BY <5>1 DEF FullSlots
        <4> QED
          BY <1>5, <4>2, <4>3
      <3>2. CASE p \notin Made(c.matches, r + 1, pairs)
        <4>1. p \in DOMAIN d.matches /\ p[1] = r + 1
          BY DEF RoundOf
        <4>2. p # Third
          BY <1>1, <4>1 DEF Third
        <4>3. p \in DOMAIN c.matches /\ d.matches[p] = c.matches[p]
          BY <1>2, <3>2, <4>1, <4>2 DEF Makes
        <4>4. p \in RoundOf(c.matches, r + 1)
          BY <4>1, <4>3 DEF RoundOf
        <4>5. Reached(c, r + 1)
          BY <2>1, <4>3, <4>4 DEF Reached
        <4>6. Drawn(c, r + 1, pairs)
          BY <1>1, <4>5 DEF KeyInv, KBuilt, Built
        <4> HIDE DEF pairs
        <4> QED
          BY <2>1, <4>3, <4>4, <4>6 DEF Drawn
      <3> QED
        BY <3>1, <3>2
    <2>2. ASSUME NEW bye \in ByesAt(d, r + 1)
          PROVE  pairs[bye.slot] = [a |-> bye.entry, b |-> None]
      <3>1. ByesAt(d, r + 1) = ByesOf(r + 1, pairs)
        BY <1>2 DEF Makes
      <3>2. PICK s \in DOMAIN pairs : /\ pairs[s].b = None
                                      /\ bye = [round |-> r + 1, slot |-> s, entry |-> pairs[s].a]
        BY <3>1 DEF ByesOf
      <3>3. bye.slot = s /\ bye.entry = pairs[s].a
        BY <3>2
      <3> QED
        BY <1>5, <3>2, <3>3
    <2> HIDE DEF pairs
    <2> QED
      BY <2>1, <2>2 DEF Drawn
  <1>7. Built(d, r)
    <2>1. SameResults(c, d, r)
      BY <1>1, <1>3
    <2>2. Whole(d, r) /\ Settled(d, r) /\ Slots(d, r) = Slots(c, r) /\ Draw(d, r) = Draw(c, r)
      BY <1>1, <2>1, SameWhole, SameSettled, SameSlots, SameDraw DEF SameResults, SameSides
    <2>3. Slots(d, r + 1) = 1..((n + 1) \div 2)
      BY NextSlots
    <2> QED
      BY <1>1, <1>6, <2>2, <2>3 DEF Built, InRow
  <1> SUFFICES ASSUME NEW k \in Nat \ {0}, Reached(d, k + 1) PROVE Built(d, k)
    BY DEF KBuilt
  <1> HIDE DEF pairs
  <1>8. CASE k = r
    BY <1>7, <1>8
  <1>9. CASE k < r
    <2>1. k # r + 1 /\ k + 1 # r + 1 /\ k + 1 \in Nat \ {0}
      BY <1>1, <1>9
    <2>2. SameResults(c, d, k) /\ SameSides(c, d, k + 1)
      BY <1>3, <1>4, <2>1
    <2>3. Built(c, k)
      BY <2>2, SameReached DEF KeyInv, KBuilt
    <2> QED
      BY <2>2, <2>3, SameBuilt
  <1>10. CASE k > r
    <2>1. k + 1 # r + 1 /\ k + 1 \in Nat \ {0}
      BY <1>1, <1>10
    <2>2. Reached(c, k + 1)
      BY <1>4, <2>1, SameReached
    <2>3. Whole(c, k)
      BY <2>2 DEF KeyInv, KBuilt, Built
    <2> QED
      BY <1>1, <1>10, <2>3
  <1> QED
    BY <1>1, <1>8, <1>9, <1>10

LEMMA NextKeyOpening ==
    ASSUME NEW c, Typed(c), NEW h, KeyInv(c, h), NEW d, Typed(d), NEW r, NEW n, NextFacts(c, d, r, n)
    PROVE  KOpening(d, h)
  <1>1. r \in Nat \ {0} /\ Whole(c, r)
    BY DEF NextFacts
  <1>2. \A k \in Nat \ {0} : k # r + 1 => /\ RoundOf(d.matches, k) = RoundOf(c.matches, k)
                                          /\ Slots(d, k) = Slots(c, k)
    BY SameSlots DEF NextFacts, Makes, SamePlaces
  <1>3. 1 # r + 1 /\ (r # 1 => 2 # r + 1)
    BY <1>1
  <1>4. RoundOf(d.matches, 1) = RoundOf(c.matches, 1) /\ Slots(d, 1) = Slots(c, 1)
    BY <1>2, <1>3
  <1>5. \A p \in RoundOf(c.matches, 1) : d.matches[p] = c.matches[p]
    <2> TAKE p \in RoundOf(c.matches, 1)
    <2>1. p \in DOMAIN d.matches /\ p[1] = 1 /\ p # Third
      BY <1>4 DEF RoundOf, Third
    <2>2. p \notin Made(c.matches, r + 1, Draw(c, r))
      <3>1. \A s : <<r + 1, s>>[1] = r + 1
        OBVIOUS
      <3> QED
        BY <1>3, <2>1, <3>1 DEF Made
    <2> QED
      BY <2>1, <2>2 DEF NextFacts, Makes
  <1>6. Labelled(d) <=> Labelled(c)
    BY <1>4, <1>5 DEF Labelled
  <1>7. \A s : <<1, s>> \in DOMAIN c.matches => <<1, s>> \in DOMAIN d.matches
    <2> TAKE s
    <2>1. <<1, s>>[1] = 1
      OBVIOUS
    <2> QED
      BY <1>4, <2>1 DEF RoundOf
  <1>8. CASE r = 1
    <2>1. ~Labelled(c)
      <3>1. PICK p \in RoundOf(c.matches, 1) : Known(c.matches[p])
        BY <1>1, <1>8 DEF Whole
      <3>2. c.matches[p].label = NoLabel
        BY <3>1 DEF RoundOf, KeyInv, KSound, Sound
      <3> QED
        BY <3>2 DEF Labelled
    <2> QED
      BY <1>4, <1>6, <2>1 DEF KeyInv, KOpening
  <1>9. CASE r # 1
    <2>1. RoundOf(d.matches, 2) = RoundOf(c.matches, 2)
      BY <1>2, <1>3, <1>9
    <2> QED
      BY <1>4, <1>6, <1>7, <2>1 DEF KeyInv, KOpening
  <1> QED
    BY <1>8, <1>9

\* The losers of the two semifinals.
LEMMA LosersAre ==
    ASSUME NEW c, NEW r, RoundOf(c.matches, r) = {<<r, 1>>, <<r, 2>>}
    PROVE  /\ LoserOf(c.matches, r, 1) = Loser(c.matches[<<r, 1>>])
           /\ LoserOf(c.matches, r, 2) = Loser(c.matches[<<r, 2>>])
  <1>1. {p[2] : p \in RoundOf(c.matches, r)} = 1..2
    <2>1. {p[2] : p \in {<<r, 1>>, <<r, 2>>}} = {1, 2}
      OBVIOUS
    <2>2. 1..2 = {1, 2}
      OBVIOUS
    <2> QED
      BY <2>1, <2>2
  <1>2. InOrder(1..2)[1] = 1 /\ InOrder(1..2)[2] = 2
    <2>1. \A i \in 1..2 : InOrder(1..2)[i] = i
      BY InOrderOfRow
    <2> QED
      BY <2>1
  <1> QED
    BY <1>1, <1>2 DEF LoserOf, Semis

LEMMA NextKeySound ==
    ASSUME NEW c, Typed(c), NEW h, KeyInv(c, h), NEW d, NextMade(c, d), NEW n,
           NextFacts(c, d, LastRound(c), n)
    PROVE  /\ KSound(d)
           /\ Third \in DOMAIN d.matches /\ Known(d.matches[Third]) =>
                 \/ /\ Third \in DOMAIN c.matches /\ Known(c.matches[Third])
                    /\ d.matches[Third] = c.matches[Third]
                 \/ /\ n = 2 /\ RoundOf(c.matches, LastRound(c)) = {<<LastRound(c), 1>>, <<LastRound(c), 2>>}
                    /\ d.matches[Third].a = Loser(c.matches[<<LastRound(c), 1>>])
                    /\ d.matches[Third].b = Loser(c.matches[<<LastRound(c), 2>>])
  <1> DEFINE r == LastRound(c)
  <1>1. /\ r \in Nat \ {0} /\ Whole(c, r) /\ n \in Nat /\ Slots(c, r) = 1..n /\ Len(Winners(c, r)) = n
        /\ Pairing(Draw(c, r), (n + 1) \div 2) /\ (n + 1) \div 2 \in Nat
        /\ Makes(c, d, r + 1, Draw(c, r))
    BY DEF NextFacts
  <1>2. Third \in DOMAIN d.matches =>
           \/ Third \in DOMAIN c.matches /\ d.matches[Third] = c.matches[Third]
           \/ /\ ThirdDue(c, r)
              /\ d.matches[Third] = Scheduled(LoserOf(c.matches, r, 1), LoserOf(c.matches, r, 2), NoLabel)
    BY NextThird
  <1> HIDE DEF r
  <1>3. \A p \in DOMAIN d.matches : p # Third => Sound(d.matches[p])
    <2>1. r + 1 \in Nat \ {0} /\ KSound(c)
      BY <1>1 DEF KeyInv
    <2> QED
      BY <1>1, <2>1, MakesSound
  <1>4. ASSUME ThirdDue(c, r),
               d.matches[Third] = Scheduled(LoserOf(c.matches, r, 1), LoserOf(c.matches, r, 2), NoLabel)
        PROVE  /\ Sound(d.matches[Third])
               /\ n = 2 /\ RoundOf(c.matches, r) = {<<r, 1>>, <<r, 2>>}
               /\ d.matches[Third].a = Loser(c.matches[<<r, 1>>])
               /\ d.matches[Third].b = Loser(c.matches[<<r, 2>>])
    <2>1. n = 2 /\ Cardinality(RoundOf(c.matches, r)) = 2
      BY <1>1, <1>4 DEF ThirdDue
    <2>2. RoundOf(c.matches, r) = {<<r, 1>>, <<r, 2>>}
      BY <1>1, <2>1, TwoSlots
    <2> DEFINE l1 == Loser(c.matches[<<r, 1>>])
               l2 == Loser(c.matches[<<r, 2>>])
    <2>3. LoserOf(c.matches, r, 1) = l1 /\ LoserOf(c.matches, r, 2) = l2
      BY <2>2, LosersAre
    <2>4. l1 # None /\ l2 # None
      <3>1. Known(c.matches[<<r, 1>>]) /\ Known(c.matches[<<r, 2>>])
        BY <1>1, <2>2 DEF Whole
      <3> QED
        BY <3>1 DEF Known, Loser
    <2> HIDE DEF l1, l2
    <2>5. d.matches[Third] = Scheduled(l1, l2, NoLabel)
      BY <1>4, <2>3
    <2>6. Sound(d.matches[Third]) /\ d.matches[Third].a = l1 /\ d.matches[Third].b = l2
      BY <2>4, <2>5 DEF Sound, Scheduled, Official, Known
    <2> QED
      BY <2>1, <2>2, <2>6 DEF l1, l2
  <1>5. Third \in DOMAIN d.matches => Sound(d.matches[Third])
    <2>1. Third \in DOMAIN c.matches => Sound(c.matches[Third])
      BY DEF KeyInv, KSound
    <2> QED
      BY <1>2, <1>4, <2>1
  <1>6. KSound(d)
    BY <1>3, <1>5 DEF KSound
  <1>7. Third \in DOMAIN d.matches /\ Known(d.matches[Third]) =>
           \/ /\ Third \in DOMAIN c.matches /\ Known(c.matches[Third])
              /\ d.matches[Third] = c.matches[Third]
           \/ /\ n = 2 /\ RoundOf(c.matches, r) = {<<r, 1>>, <<r, 2>>}
              /\ d.matches[Third].a = Loser(c.matches[<<r, 1>>])
              /\ d.matches[Third].b = Loser(c.matches[<<r, 2>>])
    BY <1>2, <1>4
  <1> QED
    BY <1>6, <1>7 DEF r

LEMMA NextKey ==
    ASSUME NEW c, Typed(c), NEW h, KeyInv(c, h), NEW d, Typed(d), NextMade(c, d)
    PROVE  KeyInv(d, h)
  <1> DEFINE r == LastRound(c)
  <1>1. PICK n : NextFacts(c, d, r, n)
    BY NextFactsAre
  <1>2. KSound(d)
    BY <1>1, NextKeySound
  <1>3. Third \in DOMAIN d.matches /\ Known(d.matches[Third]) =>
           \/ /\ Third \in DOMAIN c.matches /\ Known(c.matches[Third])
              /\ d.matches[Third] = c.matches[Third]
           \/ /\ n = 2 /\ RoundOf(c.matches, r) = {<<r, 1>>, <<r, 2>>}
              /\ d.matches[Third].a = Loser(c.matches[<<r, 1>>])
              /\ d.matches[Third].b = Loser(c.matches[<<r, 2>>])
    BY <1>1, NextKeySound
  <1> HIDE DEF r
  <1>4. KTree(d) /\ KBuilt(d) /\ KOpening(d, h)
    BY <1>1, NextKeyTree, NextKeyBuilt, NextKeyOpening
  <1>5. KThird(d)
    <2> SUFFICES ASSUME Third \in DOMAIN d.matches, Known(d.matches[Third])
                 PROVE  \E k \in Nat \ {0} : Semi(d, k)
      BY DEF KThird
    <2>1. r \in Nat \ {0} /\ Whole(c, r) /\ Settled(c, r) /\ Slots(c, r) = 1..n /\ r # r + 1
      BY <1>1 DEF NextFacts
    <2>2. SameResults(c, d, r)
      <3>1. Pairing(Draw(c, r), (n + 1) \div 2) /\ (n + 1) \div 2 \in Nat /\ Makes(c, d, r + 1, Draw(c, r))
            /\ r + 1 \in Nat \ {0}
        BY <1>1, <2>1 DEF NextFacts
      <3> QED
        BY <2>1, <3>1, MakesSame
    <2>3. Whole(d, r) /\ Settled(d, r) /\ Slots(d, r) = 1..n
          /\ RoundOf(d.matches, r) = RoundOf(c.matches, r)
      BY <2>1, <2>2, SameWhole, SameSettled, SameSlots DEF SameResults, SameSides, SamePlaces
    <2>4. n = 2 /\ RoundOf(c.matches, r) = {<<r, 1>>, <<r, 2>>}
          /\ {d.matches[Third].a, d.matches[Third].b} =
                {Loser(c.matches[<<r, 1>>]), Loser(c.matches[<<r, 2>>])}
      <3>1. CASE /\ Third \in DOMAIN c.matches /\ Known(c.matches[Third])
                 /\ d.matches[Third] = c.matches[Third]
        <4>1. PICK k \in Nat \ {0} : Semi(c, k)
          BY <3>1 DEF KeyInv, KThird
        <4>2. k = r /\ n = 2
          BY <1>1, <4>1, SemiIsLast
        <4> QED
          BY <3>1, <4>1, <4>2 DEF Semi
      <3>2. CASE /\ n = 2 /\ RoundOf(c.matches, r) = {<<r, 1>>, <<r, 2>>}
                 /\ d.matches[Third].a = Loser(c.matches[<<r, 1>>])
                 /\ d.matches[Third].b = Loser(c.matches[<<r, 2>>])
        BY <3>2
      <3> QED
        BY <1>3, <3>1, <3>2
    <2>5. /\ Loser(d.matches[<<r, 1>>]) = Loser(c.matches[<<r, 1>>])
          /\ Loser(d.matches[<<r, 2>>]) = Loser(c.matches[<<r, 2>>])
      BY <2>2, <2>4 DEF SameResults, SameSides, Loser
    <2>6. /\ RoundOf(d.matches, r + 1) = {<<r + 1, 1>>} /\ Slots(d, r + 1) = 1..1
          /\ RoundOf(d.matches, r + 2) = {}
      BY <1>1, <2>4, NextFinal
    <2>7. Semi(d, r)
      BY <2>3, <2>4, <2>5, <2>6 DEF Semi
    <2> QED
      BY <2>1, <2>7
  <1> QED
    BY <1>2, <1>4, <1>5 DEF KeyInv

-----------------------------------------------------------------------------
(* The invariant of the key holds                                          *)

LEMMA ProgressKey ==
    ASSUME NEW c, IsCat(c), Typed(c), rule \in Rules, c.table \in Tables,
           NEW h \in Nat, h = Half(rule.qualifiers), KeyInv(c, h)
    PROVE  KeyInv(ProgressKnockout(c), h)
  <1> DEFINE d == ProgressKnockout(c)
  <1>1. Typed(d)
    BY ProgressTyped
  <1>2. FirstMade(c, d) \/ NextMade(c, d) \/ Ended(c, d) \/ Waiting(c, d)
    BY ProgressCases
  <1> HIDE DEF d
  <1>3. CASE FirstMade(c, d)
    BY <1>3, FirstKey DEF d
  <1>4. CASE NextMade(c, d)
    BY <1>1, <1>4, NextKey DEF d
  <1>5. CASE Ended(c, d) \/ Waiting(c, d)
    <2>1. Kept(c, d)
      BY <1>5 DEF Ended, Waiting, Kept
    <2> QED
      BY <2>1, KeptAlike, KeyAlike DEF d
  <1> QED
    BY <1>2, <1>3, <1>4, <1>5

KeyInvNow == KeyInv(Category, Half(rule.qualifiers))

LEMMA EmptyKey ==
    ASSUME NEW c, DOMAIN c.matches = {}, NEW h
    PROVE  KeyInv(c, h)
  <1>1. \A r : RoundOf(c.matches, r) = {}
    BY DEF RoundOf
  <1>2. \A r : ~Reached(c, r)
    BY <1>1 DEF Reached
  <1> QED
    BY <1>1, <1>2 DEF KeyInv, KSound, KTree, KOpening, KBuilt, KThird

LEMMA HalfNow == rule \in Rules => rule.qualifiers \in Nat /\ Half(rule.qualifiers) \in Nat
  BY RuleAssumption, HalfIs

LEMMA RecomputeKey ==
    ASSUME TypeInv, NEW ms, Typed(Cat(ms, byes)), NEW order \in Tables, NEW part,
           RecomputeTournament(ms, byes, order, part), KeyInv(Cat(ms, byes), Half(rule.qualifiers))
    PROVE  KeyInvNow'
  <1> DEFINE c == Before(ms, byes, order, part)
             d == ProgressKnockout(c)
             h == Half(rule.qualifiers)
             e == Cat(ms, byes)
  <1>1. IsCat(c) /\ c.matches = ms /\ c.byes = byes /\ c.table = order
    BY DEF IsCat, Before
  <1>2. e.matches = ms /\ e.byes = byes
    BY DEF Cat
  <1>3. Kept(e, c)
    BY <1>1, <1>2 DEF Kept
  <1>4. rule \in Rules /\ h \in Nat
    BY HalfNow DEF TypeInv, TypeOK
  <1>5. Typed(c)
    BY <1>3, TypedAlike
  <1>6. KeyInv(c, h)
    BY <1>3, KeptAlike, KeyAlike
  <1>7. KeyInv(d, h)
    <2> HIDE DEF c
    <2> QED
      BY <1>1, <1>4, <1>5, <1>6, ProgressKey
  <1>8. matches' = d.matches /\ byes' = d.byes /\ rule' = rule
    BY RecomputeIs
  <1>9. Kept(d, Category')
    BY <1>8 DEF Kept, Category
  <1>10. KeyInv(Category', h)
    <2> HIDE DEF d, h
    <2> QED
      BY <1>7, <1>9, KeptAlike, KeyAlike
  <1>11. h = Half(rule.qualifiers)'
    BY <1>8 DEF Half
  <1> HIDE DEF h
  <1> QED
    BY <1>10, <1>11 DEF KeyInvNow

-----------------------------------------------------------------------------
(* The agenda of a published key is a key of which nothing is built        *)

LEMMA LaterRound ==
    ASSUME NEW size \in Nat, NEW r \in 2..size, NEW s \in 1..size, s * Power[r - 1] <= size
    PROVE  /\ r = 2 => 2 * s - 1 \in 1..size /\ 2 * s \in 1..size
           /\ r > 2 => \A t \in {2 * s - 1, 2 * s} : /\ r - 1 \in 2..size /\ t \in 1..size
                                                     /\ t * Power[(r - 1) - 1] <= size
  <1> DEFINE k == r - 2
  <1>1. k \in Nat /\ k + 1 = r - 1 /\ (r - 1) - 1 = k
    OBVIOUS
  <1> HIDE DEF k
  <1>2. Power[k] \in Nat /\ Power[k] >= 1 /\ Power[r - 1] = 2 * Power[k]
    <2>1. Power[k] \in Nat /\ Power[k] >= k + 1 /\ Power[k + 1] = 2 * Power[k]
      BY <1>1, PowerIs
    <2> QED
      BY <1>1, <2>1
  <1> DEFINE q == Power[k]
  <1>3. s * (2 * q) <= size
    BY <1>2
  <1>4. q \in Nat /\ q >= 1
    BY <1>2
  <1> HIDE DEF q
  <1>5. (2 * s) * q <= size
    <2>1. s * (2 * q) = (2 * s) * q
      BY <1>4
    <2> QED
      BY <1>3, <2>1
  <1>6. 2 * s <= (2 * s) * q /\ (2 * s - 1) * q <= (2 * s) * q
    <2>1. \A x \in Nat : x <= x * q
      BY <1>4
    <2>2. \A x, y \in Nat : x <= y => x * q <= y * q
      BY <1>4
    <2>3. 2 * s \in Nat /\ 2 * s - 1 \in Nat /\ 2 * s - 1 <= 2 * s
      OBVIOUS
    <2> QED
      BY <2>1, <2>2, <2>3
  <1>7. (2 * s) * q \in Nat /\ (2 * s - 1) * q \in Nat
    BY <1>4
  <1>8. 2 * s <= size /\ (2 * s - 1) * q <= size
    BY <1>5, <1>6, <1>7
  <1> QED
    BY <1>1, <1>5, <1>8 DEF q

LEMMA AgendaKey ==
    ASSUME NEW key \in Keys \cup {NoKey}, NEW withThird, NEW c,
           c.matches = Agenda(key, withThird), c.byes = {}, NEW h \in Nat, Len(key) <= h
    PROVE  KeyInv(c, h)
  <1> DEFINE size == Len(key)
             later == {p \in (2..size) \X (1..size) : p[2] * Power[p[1] - 1] <= size}
             first == {1} \X DOMAIN key
             third == IF withThird /\ key # NoKey THEN {Third} ELSE {}
  <1>0. size \in Nat /\ DOMAIN key = 1..size
    BY KeyAssumption DEF NoKey
  <1>1. DOMAIN c.matches = first \cup later \cup third
    BY DEF Agenda
  <1>2. \A p \in DOMAIN c.matches :
          c.matches[p] = Scheduled(None, None, IF p \in first THEN key[p[2]] ELSE NoLabel)
    BY DEF Agenda
  <1>3. \A p \in DOMAIN c.matches : /\ c.matches[p].a = None /\ c.matches[p].b = None
                                    /\ c.matches[p].winner = None
    <2>1. \A label : /\ Scheduled(None, None, label).a = None /\ Scheduled(None, None, label).b = None
                     /\ Scheduled(None, None, label).winner = None
      BY DEF Scheduled
    <2> HIDE DEF first
    <2> QED
      BY <1>2, <2>1
  <1>4. KSound(c)
    BY <1>3 DEF KSound, Sound, Known
  <1>5. \A p \in DOMAIN c.matches : ~Known(c.matches[p])
    BY <1>3 DEF Known
  <1>6. \A r : ByesAt(c, r) = {}
    BY DEF ByesAt
  <1>7. \A r : Slots(c, r) = {p[2] : p \in RoundOf(c.matches, r)}
    BY <1>6 DEF Slots
  <1>8. \A r, s : <<r, s>> \in RoundOf(c.matches, r) => s \in Slots(c, r)
    BY <1>7
  <1>9. /\ \A p \in first : p = <<1, p[2]>> /\ p[2] \in 1..size
        /\ \A s \in 1..size : <<1, s>> \in first
    BY <1>0
  <1>10. \A p \in later : /\ p = <<p[1], p[2]>> /\ p[1] \in 2..size /\ p[2] \in 1..size
                          /\ p[2] * Power[p[1] - 1] <= size
    OBVIOUS
  <1>11. \A r \in 2..size, s \in 1..size : s * Power[r - 1] <= size => <<r, s>> \in later
    OBVIOUS
  <1>12. \A p \in third : p[1] = 0
    BY DEF Third
  <1> HIDE DEF first, later, third, size
  <1>13. RoundOf(c.matches, 1) = first
    BY <1>0, <1>1, <1>9, <1>10, <1>12 DEF RoundOf
  <1>14. Slots(c, 1) = 1..size
    <2>1. ASSUME NEW s \in Slots(c, 1) PROVE s \in 1..size
      <3>1. PICK p \in first : s = p[2]
        BY <1>7, <1>13
      <3> QED
        BY <1>9, <3>1
    <2>2. ASSUME NEW s \in 1..size PROVE s \in Slots(c, 1)
      BY <1>8, <1>9, <1>13
    <2> QED
      BY <2>1, <2>2
  <1>15. \A r \in 2..size, s \in 1..size :
           s * Power[r - 1] <= size => <<r, s>> \in RoundOf(c.matches, r)
    BY <1>1, <1>11 DEF RoundOf
  <1>16. \A p \in DOMAIN c.matches : p[1] > 1 => p \in later
    BY <1>1, <1>9, <1>12
  <1>17. KTree(c)
    <2> SUFFICES ASSUME NEW p \in DOMAIN c.matches, p[1] > 1
                 PROVE  /\ RoundOf(c.matches, p[1] - 1) # {}
                        /\ 2 * p[2] - 1 \in Slots(c, p[1] - 1) /\ 2 * p[2] \in Slots(c, p[1] - 1)
      BY DEF KTree
    <2> DEFINE r == p[1]
               s == p[2]
    <2>1. r \in 2..size /\ s \in 1..size /\ s * Power[r - 1] <= size
      BY <1>10, <1>16
    <2> HIDE DEF r, s
    <2>2. CASE r = 2
      <3>1. 2 * s - 1 \in 1..size /\ 2 * s \in 1..size
        BY <1>0, <2>1, <2>2, LaterRound
      <3>2. r - 1 = 1
        BY <2>2
      <3>3. RoundOf(c.matches, 1) # {}
        BY <1>9, <1>13, <3>1
      <3> QED
        BY <1>14, <3>1, <3>2, <3>3 DEF r, s
    <2>3. CASE r > 2
      <3>1. \A t \in {2 * s - 1, 2 * s} : /\ r - 1 \in 2..size /\ t \in 1..size
                                          /\ t * Power[(r - 1) - 1] <= size
        BY <1>0, <2>1, <2>3, LaterRound
      <3>2. \A t \in {2 * s - 1, 2 * s} : <<r - 1, t>> \in RoundOf(c.matches, r - 1)
        BY <1>15, <3>1
      <3>3. \A t \in {2 * s - 1, 2 * s} : t \in Slots(c, r - 1)
        BY <1>8, <3>2
      <3> QED
        BY <3>2, <3>3 DEF r, s
    <2> QED
      BY <2>1, <2>2, <2>3
  <1>18. KOpening(c, h)
    <2>1. InRow(Slots(c, 1)) /\ Slots(c, 1) \subseteq 1..h
      BY <1>0, <1>14 DEF InRow, size
    <2>2. InRow({p[2] : p \in RoundOf(c.matches, 1)})
      BY <1>7, <2>1
    <2>3. ASSUME NEW p \in RoundOf(c.matches, 2)
          PROVE  <<1, 2 * p[2] - 1>> \in DOMAIN c.matches /\ <<1, 2 * p[2]>> \in DOMAIN c.matches
      <3>1. p \in later /\ p[1] = 2
        BY <1>16 DEF RoundOf
      <3> DEFINE s == p[2]
      <3>2. 2 \in 2..size /\ s \in 1..size /\ s * Power[2 - 1] <= size
        BY <1>10, <3>1
      <3> HIDE DEF s
      <3>3. 2 * s - 1 \in 1..size /\ 2 * s \in 1..size
        BY <1>0, <3>2, LaterRound
      <3> QED
        BY <1>1, <1>9, <3>3 DEF s
    <2> QED
      BY <2>1, <2>2, <2>3 DEF KOpening
  <1>19. KBuilt(c)
    <2>1. \A r : ~Reached(c, r)
      BY <1>5, <1>6 DEF Reached, RoundOf
    <2> QED
      BY <2>1 DEF KBuilt
  <1>20. KThird(c)
    BY <1>5 DEF KThird
  <1> QED
    BY <1>4, <1>17, <1>18, <1>19, <1>20 DEF KeyInv

-----------------------------------------------------------------------------
(* The key of every state is one that the progression builds               *)

BracketInv == TypeInv /\ (~deleted => KeyInvNow)

LEMMA KeyInit == Init => BracketInv
  <1> SUFFICES ASSUME Init PROVE BracketInv
    OBVIOUS
  <1>1. TypeInv
    BY TypeInit
  <1>2. published \in Keys \cup {NoKey} /\ matches = Agenda(published, rule.third) /\ byes = {}
        /\ rule \in Rules
    BY DEF Init
  <1>3. 2 * Len(published) = rule.qualifiers \/ Len(published) = 0
    BY DEF Init, NoKey
  <1>4. rule.qualifiers \in Nat /\ Half(rule.qualifiers) \in Nat
        /\ rule.qualifiers <= 2 * Half(rule.qualifiers) + 1
    BY <1>2, RuleAssumption, HalfIs
  <1>5. Len(published) \in Nat
    BY <1>2, AgendaIs
  <1>6. Len(published) <= Half(rule.qualifiers)
    <2> DEFINE n == Len(published)
               h == Half(rule.qualifiers)
               q == rule.qualifiers
    <2>1. n \in Nat /\ h \in Nat /\ q \in Nat /\ q <= 2 * h + 1 /\ (2 * n = q \/ n = 0)
      BY <1>3, <1>4, <1>5
    <2> HIDE DEF n, h, q
    <2>2. n <= h
      BY <2>1
    <2> QED
      BY <2>2 DEF n, h
  <1>7. Category.matches = matches /\ Category.byes = byes
    BY DEF Category
  <1>8. KeyInvNow
    BY <1>2, <1>4, <1>6, <1>7, AgendaKey DEF KeyInvNow
  <1> QED
    BY <1>1, <1>8 DEF BracketInv

LEMMA CatKey == KeyInvNow => KeyInv(Cat(matches, byes), Half(rule.qualifiers))
  <1>1. Alike(Category, Cat(matches, byes))
    BY DEF Alike, Category, Cat
  <1> QED
    BY <1>1, KeyAlike DEF KeyInvNow

\* A result written on a match that nothing depends on leaves a key ...
LEMMA DecidedKey ==
    ASSUME NEW ms, NEW bs, Typed(Cat(ms, bs)), NEW h, KeyInv(Cat(ms, bs), h),
           NEW p \in DOMAIN ms, Open(Cat(ms, bs), p), NEW how \in {"FINISHED", "WALKOVER"},
           NEW winner \in {ms[p].a, ms[p].b}
    PROVE  /\ Typed(Cat([ms EXCEPT ![p].status = how, ![p].winner = winner], bs))
           /\ KeyInv(Cat([ms EXCEPT ![p].status = how, ![p].winner = winner], bs), h)
  <1> DEFINE next == [ms EXCEPT ![p].status = how, ![p].winner = winner]
  <1>1. how \in MatchStatus /\ ms[p] \in Match /\ winner \in Side
    BY DEF MatchStatus, Typed, Cat, Match
  <1>2. DOMAIN next = DOMAIN ms /\ \A q \in DOMAIN ms : q # p => next[q] = ms[q]
    BY DecidedElse
  <1>3. /\ next[p].status = how /\ next[p].winner = winner
        /\ next[p].a = ms[p].a /\ next[p].b = ms[p].b /\ next[p].label = ms[p].label
    <2>1. next[p] = [ms[p] EXCEPT !.status = how, !.winner = winner]
      OBVIOUS
    <2> DEFINE m == ms[p]
    <2> HIDE DEF next, m
    <2>2. m \in Match /\ next[p] = [m EXCEPT !.status = how, !.winner = winner]
      BY <1>1, <2>1 DEF m
    <2>3. /\ next[p].status = how /\ next[p].winner = winner
          /\ next[p].a = m.a /\ next[p].b = m.b /\ next[p].label = m.label
      BY <2>2 DEF Match
    <2> QED
      BY <2>3 DEF m
  <1>4. Typed(Cat(next, bs))
    BY <1>1, DecidedTyped
  <1> HIDE DEF next
  <1>5. Cat(ms, bs).matches = ms /\ Cat(ms, bs).byes = bs
        /\ Cat(next, bs).matches = next /\ Cat(next, bs).byes = bs
    BY DEF Cat
  <1>6. Sound(ms[p])
    BY <1>5 DEF KeyInv, KSound
  <1>7. Sound(next[p])
    BY <1>3, <1>6 DEF Sound, Official, Known
  <1>8. KeyInv(Cat(next, bs), h)
    <2> DEFINE c == Cat(ms, bs)
               d == Cat(next, bs)
    <2>1. Typed(c) /\ KeyInv(c, h) /\ p \in DOMAIN c.matches /\ Open(c, p)
      BY <1>5
    <2>2. d.byes = c.byes /\ DOMAIN d.matches = DOMAIN c.matches
      BY <1>2, <1>5
    <2>3. \A q \in DOMAIN c.matches : q # p => d.matches[q] = c.matches[q]
      BY <1>2, <1>5
    <2>4. /\ Sound(d.matches[p]) /\ d.matches[p].a = c.matches[p].a /\ d.matches[p].b = c.matches[p].b
          /\ d.matches[p].label = c.matches[p].label
      BY <1>3, <1>5, <1>7
    <2> HIDE DEF c, d
    <2>5. KeyInv(d, h)
      BY <2>1, <2>2, <2>3, <2>4, RewriteKey
    <2> QED
      BY <2>5 DEF d
  <1> QED
    BY <1>4, <1>8 DEF next

\* ... and so does the progression after it.
LEMMA DecideKey ==
    ASSUME TypeInv, NEW ms, Typed(Cat(ms, byes)), KeyInv(Cat(ms, byes), Half(rule.qualifiers)),
           NEW p \in DOMAIN ms, Open(Cat(ms, byes), p), NEW how \in {"FINISHED", "WALKOVER"},
           NEW winner \in {ms[p].a, ms[p].b}, Decide(p, ms, how, winner)
    PROVE  KeyInvNow'
  <1> DEFINE next == [ms EXCEPT ![p].status = how, ![p].winner = winner]
             h == Half(rule.qualifiers)
  <1>1. RecomputeTournament(next, byes, table, played)
    BY DEF Decide
  <1>2. Typed(Cat(next, byes)) /\ KeyInv(Cat(next, byes), h)
    BY DecidedKey
  <1>3. table \in Tables
    BY DEF TypeInv, TypeOK
  <1> HIDE DEF next, h
  <1> QED
    BY <1>1, <1>2, <1>3, RecomputeKey DEF h

LEMMA KeyNext == BracketInv /\ [Next]_vars => BracketInv'
  <1> SUFFICES ASSUME BracketInv, [Next]_vars PROVE BracketInv'
    OBVIOUS
  <1>0. TypeInv /\ TypeInv' /\ Typed(Cat(matches, byes)) /\ table \in Tables
        /\ Cat(matches, byes).matches = matches /\ Cat(matches, byes).byes = byes
    BY TypeNext, TypeInvKey DEF BracketInv, TypeInv, TypeOK, Cat
  <1>1. CASE ClassificationResult
    <2>1. PICK order \in Tables, part \in {"some", "all"} : RecomputeTournament(matches, byes, order, part)
      BY <1>1 DEF ClassificationResult
    <2>2. deleted' = deleted
      BY <1>1 DEF ClassificationResult
    <2>3. ~deleted => KeyInvNow'
      BY <1>0, <2>1, CatKey, RecomputeKey DEF BracketInv
    <2> QED
      BY <1>0, <2>2, <2>3 DEF BracketInv
  <1>2. CASE CorrectClassification
    <2>1. PICK order \in Tables : RecomputeTournament(NoKey, byes, order, played)
      BY <1>2 DEF CorrectClassification
    <2>2. Cat(NoKey, byes).matches = NoKey /\ DOMAIN NoKey = {}
      BY DEF Cat, NoKey
    <2>3. Typed(Cat(NoKey, byes))
      BY <1>0 DEF Typed, Bounded, Cat, NoKey
    <2>4. KeyInv(Cat(NoKey, byes), Half(rule.qualifiers))
      BY <2>2, EmptyKey
    <2>5. KeyInvNow'
      BY <1>0, <2>1, <2>3, <2>4, RecomputeKey
    <2> QED
      BY <1>0, <2>5 DEF BracketInv
  <1>3. ASSUME NEW p \in DOMAIN matches, Finish(p) PROVE BracketInv'
    <2>1. PICK winner \in {matches[p].a, matches[p].b} : Decide(p, matches, "FINISHED", winner)
      BY <1>3 DEF Finish
    <2>2. ~Official(matches[p]) /\ deleted' = deleted
      BY <1>3, <2>1 DEF Finish, Official, Decide
    <2>3. ASSUME ~deleted PROVE KeyInvNow'
      <3>1. KeyInv(Cat(matches, byes), Half(rule.qualifiers))
        BY <2>3, CatKey DEF BracketInv
      <3>2. Open(Cat(matches, byes), p)
        BY <1>0, <2>2, <3>1, UndecidedOpen
      <3> QED
        BY <1>0, <2>1, <3>1, <3>2, DecideKey
    <2> QED
      BY <1>0, <2>2, <2>3 DEF BracketInv
  <1>4. ASSUME NEW p \in DOMAIN matches, WalkOver(p) PROVE BracketInv'
    <2>1. PICK winner \in {matches[p].a, matches[p].b} : Decide(p, matches, "WALKOVER", winner)
      BY <1>4 DEF WalkOver
    <2>2. ~Official(matches[p]) /\ deleted' = deleted
      BY <1>4, <2>1 DEF WalkOver, Official, Decide
    <2>3. ASSUME ~deleted PROVE KeyInvNow'
      <3>1. KeyInv(Cat(matches, byes), Half(rule.qualifiers))
        BY <2>3, CatKey DEF BracketInv
      <3>2. Open(Cat(matches, byes), p)
        BY <1>0, <2>2, <3>1, UndecidedOpen
      <3> QED
        BY <1>0, <2>1, <3>1, <3>2, DecideKey
    <2> QED
      BY <1>0, <2>2, <2>3 DEF BracketInv
  <1>5. ASSUME NEW p \in DOMAIN matches, Correct(p) PROVE BracketInv'
    <2> DEFINE ms == Cut(matches, p)
    <2>1. PICK winner \in {matches[p].a, matches[p].b} : Decide(p, ms, "FINISHED", winner)
      BY <1>5 DEF Correct, Cut, Dependents, DependentsOf
    <2>2. p \in (DOMAIN matches) \ DependentsOf(matches, p)
      <3>1. p[1] \in Nat
        BY <1>0, PlaceIs DEF TypeInv, TypeOK
      <3> QED
        BY <3>1 DEF DependentsOf
    <2>3. Typed(Cat(ms, byes)) /\ p \in DOMAIN ms /\ ms[p] = matches[p]
      <3>1. p \in DOMAIN ms
        BY <2>2, CutDomain
      <3>2. ms[p] = matches[p]
        BY <3>1, CutIs
      <3>3. Typed(Cat(Restrict(matches, (DOMAIN matches) \ DependentsOf(matches, p)), byes))
        BY <1>0, RestrictTyped
      <3> QED
        BY <3>1, <3>2, <3>3 DEF Cut
    <2>4. deleted' = deleted
      BY <2>1 DEF Decide
    <2> DEFINE c == Cat(matches, byes)
               d == Cat(ms, byes)
    <2>5. d.matches = Cut(c.matches, p) /\ d.byes = c.byes /\ p \in DOMAIN c.matches /\ Typed(c)
      BY <1>0 DEF Cat
    <2> HIDE DEF ms
    <2>6. ASSUME ~deleted PROVE KeyInvNow'
      <3>1. KeyInv(c, Half(rule.qualifiers))
        BY <2>6, CatKey DEF BracketInv
      <3> HIDE DEF c, d
      <3>2. KeyInv(d, Half(rule.qualifiers))
        BY <2>5, <3>1, CutKey
      <3>3. Open(d, p)
        BY <2>5, CutOpen
      <3> QED
        BY <1>0, <2>1, <2>3, <3>2, <3>3, DecideKey DEF d
    <2> QED
      BY <1>0, <2>4, <2>6 DEF BracketInv
  <1>6. CASE GenerateMatches
    <2>1. matches' = NoKey
      BY <1>6 DEF GenerateMatches
    <2>2. Category'.matches = matches' /\ DOMAIN matches' = {}
      BY <2>1 DEF Category, NoKey
    <2>3. KeyInvNow'
      BY <2>2, EmptyKey DEF KeyInvNow
    <2> QED
      BY <1>0, <2>3 DEF BracketInv
  <1>7. CASE UNCHANGED vars
    BY <1>0, <1>7 DEF vars, BracketInv, KeyInvNow, Category, Half
  <1>8. ASSUME NEW p \in DOMAIN matches, Update(p) PROVE BracketInv'
    <2>1. PICK to \in {"LIVE", "POSTPONED", "CANCELLED", "FINISHED", "SCHEDULED"} :
             matches' = [matches EXCEPT ![p].status = to]
      BY <1>8 DEF Update
    <2>2. ~Official(matches[p]) /\ matches[p] \in Match
      <3>1. matches[p].status \notin {"SCHEDULED", "LIVE", "POSTPONED"} => FALSE
        BY <1>8 DEF Update
      <3> QED
        BY <1>0, <3>1 DEF Official, TypeInv, TypeOK
    <2>3. DOMAIN matches' = DOMAIN matches /\ \A q \in DOMAIN matches : q # p => matches'[q] = matches[q]
      BY <2>1
    <2>4. /\ matches'[p].a = matches[p].a /\ matches'[p].b = matches[p].b
          /\ matches'[p].winner = matches[p].winner /\ matches'[p].label = matches[p].label
      BY <2>1, <2>2 DEF Match
    <2>5. byes' = byes /\ rule' = rule /\ deleted' = deleted
      BY <1>8 DEF Update
    <2>6. ASSUME ~deleted PROVE KeyInvNow'
      <3> DEFINE c == Category
                 d == Category'
                 h == Half(rule.qualifiers)
      <3>1. c.matches = matches /\ c.byes = byes /\ d.matches = matches' /\ d.byes = byes'
        BY DEF Category
      <3>2. KeyInv(c, h) /\ Typed(c)
        BY <1>0, <2>6, TypeInvTyped DEF BracketInv, KeyInvNow
      <3>3. h = Half(rule.qualifiers)'
        BY <2>5 DEF Half
      <3>4. KeyInvNow' <=> KeyInv(d, h)
        BY <3>3 DEF KeyInvNow
      <3> HIDE DEF c, d, h
      <3>5. Open(c, p)
        BY <2>2, <3>1, <3>2, UndecidedOpen
      <3>6. Sound(c.matches[p])
        BY <3>1, <3>2 DEF KeyInv, KSound
      <3>7. Sound(d.matches[p])
        BY <2>2, <2>4, <3>1, <3>6 DEF Sound, Official, Known
      <3>8. d.byes = c.byes /\ DOMAIN d.matches = DOMAIN c.matches /\ p \in DOMAIN c.matches
        BY <2>3, <2>5, <3>1
      <3>9. \A q \in DOMAIN c.matches : q # p => d.matches[q] = c.matches[q]
        BY <2>3, <3>1
      <3>10. d.matches[p].a = c.matches[p].a /\ d.matches[p].b = c.matches[p].b
             /\ d.matches[p].label = c.matches[p].label
        BY <2>4, <3>1
      <3>11. KeyInv(d, h)
        BY <3>2, <3>5, <3>7, <3>8, <3>9, <3>10, RewriteKey
      <3> QED
        BY <3>4, <3>11
    <2> QED
      BY <1>0, <2>5, <2>6 DEF BracketInv
  <1>9. ASSUME NEW p \in DOMAIN matches, Delete(p) PROVE BracketInv'
    BY <1>0, <1>9 DEF BracketInv, Delete
  <1>10. CASE CategoryUpdate
    <2>1. matches' = matches /\ byes' = byes /\ rule' = rule /\ deleted' = deleted
      BY <1>10 DEF CategoryUpdate
    <2>2. Kept(Category, Category') /\ Half(rule.qualifiers)' = Half(rule.qualifiers)
      BY <2>1 DEF Kept, Category, Half
    <2>3. KeyInvNow => KeyInv(Category', Half(rule.qualifiers))
      BY <2>2, KeptAlike, KeyAlike DEF KeyInvNow
    <2> QED
      BY <1>0, <2>1, <2>2, <2>3 DEF BracketInv, KeyInvNow
  <1> QED
    BY <1>1, <1>2, <1>3, <1>4, <1>5, <1>6, <1>7, <1>8, <1>9, <1>10 DEF Next
LEMMA RoundsEnd ==
    ASSUME NEW c, Typed(c), KTree(c), NEW r \in Nat \ {0}, RoundOf(c.matches, r) # {},
           RoundOf(c.matches, r + 1) = {}
    PROVE  Max(RoundsOf(c.matches)) = r
  <1> DEFINE S == RoundsOf(c.matches)
  <1>1. S \subseteq Nat \ {0}
    BY RoundsTyped
  <1>2. r \in S
    BY RoundIn
  <1>3. \A j \in S : j <= r
    <2> SUFFICES ASSUME NEW j \in S, j > r PROVE FALSE
      BY <1>1
    <2>1. j \in Nat /\ j >= r + 1 /\ r + 1 \in Nat \ {0} /\ j \in Nat \ {0}
      BY <1>1
    <2>2. RoundOf(c.matches, j) = {}
      BY <2>1, NoneAbove
    <2>3. RoundOf(c.matches, j) # {}
      BY <2>1, RoundIn
    <2> QED
      BY <2>2, <2>3
  <1> HIDE DEF S
  <1>4. Max(S) \in S /\ \A j \in S : j <= Max(S)
    BY <1>1, <1>2, <1>3, GreatestExists
  <1> QED
    BY <1>1, <1>2, <1>3, <1>4 DEF S

LEMMA KeyAdvances == BracketInv => WinnersAdvance
  <1> SUFFICES ASSUME BracketInv, ~deleted PROVE WinnersAdvance
    BY DEF WinnersAdvance
  <1> DEFINE c == Category
             h == Half(rule.qualifiers)
  <1>1. Typed(c) /\ KeyInv(c, h)
    BY TypeInvTyped DEF BracketInv, KeyInvNow
  <1>2. c.matches = matches /\ c.byes = byes
    BY DEF Category
  <1>3. \A p \in DOMAIN matches : p[1] \in Nat
    BY <1>1, <1>2, PlaceIs DEF Typed
  <1> HIDE DEF c, h
  <1>4. ASSUME NEW p \in DOMAIN matches, p[1] > 1, Known(matches[p])
        PROVE  LET pairs == SequentialPairs(Winners(c, p[1] - 1))
               IN  p[2] \in DOMAIN pairs /\ pairs[p[2]] = [a |-> matches[p].a, b |-> matches[p].b]
    <2> DEFINE r == p[1] - 1
    <2>1. r \in Nat \ {0} /\ r + 1 = p[1]
      BY <1>3, <1>4
    <2> HIDE DEF r
    <2>2. p \in RoundOf(c.matches, r + 1)
      BY <1>2, <2>1 DEF RoundOf
    <2>3. Reached(c, r + 1)
      BY <1>2, <1>4, <2>2 DEF Reached
    <2>4. Built(c, r)
      BY <1>1, <2>1, <2>3 DEF KeyInv, KBuilt
    <2>5. p[2] \in DOMAIN Draw(c, r)
      BY <2>2, <2>4 DEF Built, Slots
    <2>6. Draw(c, r)[p[2]] = [a |-> matches[p].a, b |-> matches[p].b]
      BY <1>2, <1>4, <2>2, <2>4 DEF Built, Drawn
    <2> QED
      BY <2>5, <2>6 DEF Draw, r
  <1>5. ASSUME Third \in DOMAIN matches, Known(matches[Third])
        PROVE  {matches[Third].a, matches[Third].b} =
                  {Loser(matches[p]) : p \in RoundOf(matches, Max(Rounds) - 1)}
    <2>1. PICK r \in Nat \ {0} : Semi(c, r)
      BY <1>1, <1>2, <1>5 DEF KeyInv, KThird
    <2>2. RoundOf(c.matches, r + 1) # {} /\ RoundOf(c.matches, (r + 1) + 1) = {} /\ r + 1 \in Nat \ {0}
      <3>1. (r + 1) + 1 = r + 2 /\ r + 1 \in Nat \ {0}
        OBVIOUS
      <3> QED
        BY <2>1, <3>1 DEF Semi
    <2>3. Max(RoundsOf(c.matches)) = r + 1
      BY <1>1, <2>2, RoundsEnd DEF KeyInv
    <2>4. Max(Rounds) - 1 = r
      BY <1>2, <2>3 DEF Rounds
    <2>5. RoundOf(matches, r) = {<<r, 1>>, <<r, 2>>}
          /\ {matches[Third].a, matches[Third].b} =
                {Loser(matches[<<r, 1>>]), Loser(matches[<<r, 2>>])}
      BY <1>2, <2>1 DEF Semi
    <2> QED
      BY <2>4, <2>5
  <1> QED
    BY <1>4, <1>5 DEF WinnersAdvance, c

\* Corrections included, who plays in a later round are the winners of the round before it,
\* pair by pair, and the third place is between the losers of the semifinals.
THEOREM WinnersAdvanceHolds == Spec => []WinnersAdvance
  <1>1. Init => BracketInv
    BY KeyInit
  <1>2. BracketInv /\ [Next]_vars => BracketInv'
    BY KeyNext
  <1>3. BracketInv => WinnersAdvance
    BY KeyAdvances
  <1> QED
    BY <1>1, <1>2, <1>3, PTL DEF Spec
-----------------------------------------------------------------------------
(* A key that is seeded: everybody in it is known                          *)

AllKnown(c) == \A p \in DOMAIN c.matches : Known(c.matches[p])

LEMMA KnownDefined ==
    ASSUME NEW c, AllKnown(c)
    PROVE  Defined(c.matches) = RoundsOf(c.matches)
  BY DEF AllKnown, Defined, RoundOf

LEMMA KnownReached ==
    ASSUME NEW c, AllKnown(c), NEW r, RoundOf(c.matches, r) # {}
    PROVE  Reached(c, r) /\ Whole(c, r)
  BY DEF AllKnown, Reached, Whole, RoundOf

\* The progression leaves nobody unknown.
LEMMA ProgressKnown ==
    ASSUME NEW c, IsCat(c), Typed(c), rule \in Rules, c.table \in Tables,
           NEW h, KeyInv(c, h), AllKnown(c)
    PROVE  AllKnown(ProgressKnockout(c))
  <1> DEFINE d == ProgressKnockout(c)
  <1>1. FirstMade(c, d) \/ NextMade(c, d) \/ Ended(c, d) \/ Waiting(c, d)
    BY ProgressCases
  <1> SUFFICES AllKnown(d)
    OBVIOUS
  <1> HIDE DEF d
  <1>2. ASSUME NEW r \in Nat \ {0}, NEW pairs, NEW m \in Nat, Pairing(pairs, m), Makes(c, d, r, pairs),
               NEW p \in DOMAIN d.matches, p # Third
        PROVE  Known(d.matches[p])
    <2>1. CASE p \in Made(c.matches, r, pairs)
      <3>1. d.matches[p] = Scheduled(pairs[p[2]].a, pairs[p[2]].b, NoLabel)
        BY <1>2, <2>1 DEF Makes
      <3>2. pairs[p[2]].a \in Entry /\ pairs[p[2]].b \in Entry
        BY <1>2, <2>1, MadePlaces
      <3> QED
        BY <3>1, <3>2, EntryAssumption DEF Scheduled, Known
    <2>2. CASE p \notin Made(c.matches, r, pairs)
      BY <1>2, <2>2 DEF Makes, AllKnown
    <2> QED
      BY <2>1, <2>2
  <1>3. CASE FirstMade(c, d)
    <2>1. PICK m \in Nat : Pairing(FirstPairs(c), m)
      BY FirstPairing
    <2>2. Makes(c, d, 1, FirstPairs(c))
      BY <1>3, CreateMakes DEF FirstMade
    <2>3. Third \notin DOMAIN d.matches \/ Known(d.matches[Third])
      <3>1. /\ d.matches = CreateRound(c.matches, 1, FirstPairs(c))
            /\ \A p \in Made(c.matches, 1, FirstPairs(c)) : p # Third
        BY <1>3, <2>1, MadePlaces DEF FirstMade
      <3> QED
        BY <3>1, CreateRoundKept DEF AllKnown
    <2> QED
      BY <1>2, <2>1, <2>2, <2>3 DEF AllKnown
  <1>4. CASE NextMade(c, d)
    <2> DEFINE r == LastRound(c)
    <2>1. PICK n : NextFacts(c, d, r, n)
      BY <1>4, NextFactsAre
    <2>2. r \in Nat \ {0} /\ r + 1 \in Nat \ {0} /\ Whole(c, r)
      BY <2>1 DEF NextFacts
    <2>3. \A p \in DOMAIN d.matches : p # Third => Known(d.matches[p])
      BY <1>2, <2>1, <2>2 DEF NextFacts
    <2>4. ASSUME Third \in DOMAIN d.matches PROVE Known(d.matches[Third])
      <3>1. CASE Third \in DOMAIN c.matches /\ d.matches[Third] = c.matches[Third]
        BY <3>1 DEF AllKnown
      <3>2. CASE /\ ThirdDue(c, r)
                 /\ d.matches[Third] = Scheduled(LoserOf(c.matches, r, 1), LoserOf(c.matches, r, 2), NoLabel)
        <4>1. n = 2 /\ Cardinality(RoundOf(c.matches, r)) = 2 /\ Slots(c, r) = 1..2
          BY <2>1, <3>2 DEF NextFacts, ThirdDue
        <4>2. RoundOf(c.matches, r) = {<<r, 1>>, <<r, 2>>}
          BY <2>2, <4>1, TwoSlots
        <4>3. \A p \in {<<r, 1>>, <<r, 2>>} : Loser(c.matches[p]) # None
          BY <2>2, <4>2 DEF Whole, Known, Loser
        <4>4. LoserOf(c.matches, r, 1) # None /\ LoserOf(c.matches, r, 2) # None
          BY <4>2, <4>3, LosersAre
        <4> QED
          BY <3>2, <4>4 DEF Scheduled, Known
      <3> QED
        BY <1>4, <2>4, <3>1, <3>2, NextThird
    <2> QED
      BY <2>3, <2>4 DEF AllKnown
  <1>5. CASE Ended(c, d) \/ Waiting(c, d)
    BY <1>5 DEF Ended, Waiting, Kept, AllKnown
  <1> QED
    BY <1>1, <1>3, <1>4, <1>5

\* Whenever the progression makes a round, that round has something to play.
LEMMA MadeIsOpen ==
    ASSUME NEW c, Typed(c), KTree(c), AllKnown(c), NEW d, Typed(d), KTree(d),
           NEW r \in Nat \ {0}, RoundOf(c.matches, r) = {}, NEW pairs, Makes(c, d, r, pairs),
           FullSlots(pairs) # {}
    PROVE  Max(RoundsOf(d.matches)) = r /\ ~Settled(d, r)
  <1>1. PICK s \in FullSlots(pairs) : TRUE
    OBVIOUS
  <1>2. <<r, s>> \in RoundOf(d.matches, r)
    BY DEF Makes
  <1>3. <<r, s>> \notin DOMAIN c.matches
    <2>1. <<r, s>>[1] = r
      OBVIOUS
    <2> QED
      BY <2>1 DEF RoundOf
  <1>4. <<r, s>> \in Made(c.matches, r, pairs)
    BY <1>3 DEF Made
  <1>5. d.matches[<<r, s>>].status = "SCHEDULED"
    <2>1. d.matches[<<r, s>>] = Scheduled(pairs[<<r, s>>[2]].a, pairs[<<r, s>>[2]].b, NoLabel)
      BY <1>4 DEF Makes
    <2> QED
      BY <2>1 DEF Scheduled
  <1>6. ~Settled(d, r)
    BY <1>2, <1>5 DEF Settled, Official
  <1>7. RoundOf(d.matches, r + 1) = {}
    <2>1. r + 1 \in Nat \ {0} /\ r + 1 # r /\ r + 1 >= r /\ r + 1 \in Nat
      OBVIOUS
    <2>2. RoundOf(c.matches, r + 1) = {}
      BY <2>1, NoneAbove
    <2> QED
      BY <2>1, <2>2 DEF Makes, SamePlaces
  <1>8. Max(RoundsOf(d.matches)) = r
    BY <1>2, <1>7, RoundsEnd
  <1> QED
    BY <1>6, <1>8

\* The category is over: its last round has one winner, and the third place is decided.
Over(c) ==
    /\ RoundsOf(c.matches) # {} /\ Settled(c, Max(RoundsOf(c.matches)))
    /\ Len(Winners(c, Max(RoundsOf(c.matches)))) = 1 /\ ~ThirdPending(c.matches)

\* The progression ended it, and no setup has written the status since.
Closed(c) == c.status = "FINISHED" /\ ~c.byHand

NotStuck(c) ==
    RoundsOf(c.matches) # {} /\ Settled(c, Max(RoundsOf(c.matches))) =>
        c.status = "FINISHED" \/ c.byHand \/ (Third \in DOMAIN c.matches /\ c.matches[Third].winner = None)

LEMMA ProgressNotStuck ==
    ASSUME NEW c, IsCat(c), Typed(c), rule \in Rules, c.table \in Tables,
           NEW h \in Nat, h = Half(rule.qualifiers), KeyInv(c, h), AllKnown(c)
    PROVE  NotStuck(ProgressKnockout(c))
  <1> DEFINE d == ProgressKnockout(c)
  <1>1. FirstMade(c, d) \/ NextMade(c, d) \/ Ended(c, d) \/ Waiting(c, d)
    BY ProgressCases
  <1>2. Typed(d) /\ KeyInv(d, h)
    BY ProgressTyped, ProgressKey
  <1>3. Defined(c.matches) = RoundsOf(c.matches)
    BY KnownDefined
  <1> HIDE DEF d
  <1>4. CASE FirstMade(c, d)
    <2>1. Makes(c, d, 1, FirstPairs(c))
      BY <1>4, CreateMakes DEF FirstMade
    <2>2. FullSlots(FirstPairs(c)) # {}
      BY <1>4 DEF FirstMade, AllByes, FullSlots
    <2>3. RoundOf(c.matches, 1) = {}
      <3>1. 1 \notin RoundsOf(c.matches) /\ 1 \in Nat \ {0}
        BY <1>3, <1>4 DEF FirstMade
      <3> QED
        BY <3>1, RoundIn
    <2>4. Max(RoundsOf(d.matches)) = 1 /\ ~Settled(d, 1)
      BY <1>2, <2>1, <2>2, <2>3, MadeIsOpen DEF KeyInv
    <2> QED
      BY <2>4 DEF NotStuck, d
  <1>5. CASE NextMade(c, d)
    <2> DEFINE r == LastRound(c)
    <2>1. PICK n : NextFacts(c, d, r, n)
      BY <1>5, NextFactsAre
    <2>2. r \in Nat \ {0} /\ r + 1 \in Nat \ {0} /\ Makes(c, d, r + 1, Draw(c, r))
      BY <2>1 DEF NextFacts
    <2>3. RoundOf(c.matches, r + 1) = {}
      <3>1. Whole(c, r + 1) => r + 1 <= r
        BY <2>1, <2>2 DEF NextFacts
      <3> QED
        BY <2>2, <3>1, KnownReached
    <2>4. FullSlots(Draw(c, r)) # {}
      <3>1. n \in Nat /\ 2 <= n /\ 1 \in 1..((n + 1) \div 2)
        BY <2>1 DEF NextFacts
      <3>2. 1 \in DOMAIN Draw(c, r) /\ Draw(c, r)[1].b # None
        BY <2>1, <3>1 DEF NextFacts
      <3> QED
        BY <3>2 DEF FullSlots
    <2>5. Max(RoundsOf(d.matches)) = r + 1 /\ ~Settled(d, r + 1)
      <3> HIDE DEF r
      <3> QED
        BY <1>2, <2>2, <2>3, <2>4, MadeIsOpen DEF KeyInv
    <2> QED
      BY <2>5 DEF NotStuck, d
  <1>6. CASE Ended(c, d)
    BY <1>6 DEF Ended, NotStuck, d
  <1>7. CASE Waiting(c, d)
    <2>1. d = c
      BY <1>7 DEF Waiting
    <2>2. CASE ThirdPending(c.matches)
      <3>1. Third \in DOMAIN c.matches /\ c.matches[Third].winner = None
        BY <2>2 DEF ThirdPending, KeyInv, KSound, Sound
      <3> QED
        BY <2>1, <3>1 DEF NotStuck, d
    <2>3. CASE RoundsOf(c.matches) = {} \/ ~Settled(c, Max(RoundsOf(c.matches)))
      BY <2>1, <2>3 DEF NotStuck, d
    <2> QED
      BY <1>3, <1>7, <2>2, <2>3 DEF Waiting, LastRound
  <1> QED
    BY <1>1, <1>4, <1>5, <1>6, <1>7
\* When the progression ends the category, its last round has the one winner.
LEMMA EndedIsOver ==
    ASSUME NEW c, Typed(c), NEW h, KeyInv(c, h), AllKnown(c), NEW d, Ended(c, d)
    PROVE  Over(d)
  <1> DEFINE r == LastRound(c)
  <1>1. r \in Nat \ {0} /\ Whole(c, r)
    BY LastWhole DEF Ended
  <1>2. r = Max(RoundsOf(c.matches)) /\ RoundsOf(c.matches) # {}
    BY KnownDefined DEF LastRound, Ended
  <1> HIDE DEF r
  <1>3. Settled(c, r) /\ ~(Len(Winners(c, r)) > 1) /\ ~ThirdPending(c.matches) /\ Kept(c, d)
    BY DEF Ended, r
  <1>4. InRow(Slots(c, r))
    BY <1>1, WholeReached, RowOfSlots
  <1>5. PICK n \in Nat : Slots(c, r) = 1..n
    BY <1>4 DEF InRow
  <1>6. Slots(c, r) # {}
    BY <1>1 DEF Whole, Slots
  <1>7. Len(Winners(c, r)) = n
    BY <1>5, RowWinners
  <1>8. Len(Winners(c, r)) = 1
    BY <1>3, <1>5, <1>6, <1>7
  <1>9. SameResults(c, d, r) /\ d.matches = c.matches
    BY <1>3 DEF Kept, SameResults, SameSides, SamePlaces, ByesAt
  <1>10. Settled(d, r) /\ Winners(d, r) = Winners(c, r)
    BY <1>3, <1>9, SameSettled, SameWinners
  <1> QED
    BY <1>2, <1>3, <1>8, <1>9, <1>10 DEF Over

\* All of it is decided: the last round, and the third place if there is one.
Decided(c) ==
    RoundsOf(c.matches) # {} /\ Settled(c, Max(RoundsOf(c.matches))) /\ ~ThirdPending(c.matches)

LEMMA ProgressOver ==
    ASSUME NEW c, IsCat(c), Typed(c), NEW h, KeyInv(c, h), AllKnown(c),
           Closed(c) => Decided(c), Closed(ProgressKnockout(c))
    PROVE  Over(ProgressKnockout(c))
  <1> DEFINE d == ProgressKnockout(c)
  <1>1. FirstMade(c, d) \/ NextMade(c, d) \/ Ended(c, d) \/ Waiting(c, d)
    BY ProgressCases
  <1>2. Defined(c.matches) = RoundsOf(c.matches)
    BY KnownDefined
  <1>3. Closed(d)
    OBVIOUS
  <1> SUFFICES Over(d)
    OBVIOUS
  <1> HIDE DEF d
  <1>4. ~FirstMade(c, d) /\ ~NextMade(c, d)
    BY <1>3 DEF FirstMade, NextMade, Closed
  <1>5. CASE Waiting(c, d)
    <2>1. Decided(c)
      BY <1>3, <1>5 DEF Waiting
    <2> QED
      BY <1>2, <1>5, <2>1 DEF Waiting, Decided, LastRound
  <1> QED
    BY <1>1, <1>4, <1>5, EndedIsOver

-----------------------------------------------------------------------------
(* The first round of a seeded key                                         *)

\* The matches and the byes of the first round are these pairs, all of them.
Seeded(c, pairs) ==
    /\ RoundOf(c.matches, 1) = {<<1, s>> : s \in FullSlots(pairs)}
    /\ \A p \in RoundOf(c.matches, 1) : pairs[p[2]] = [a |-> c.matches[p].a, b |-> c.matches[p].b]
    /\ ByesAt(c, 1) = ByesOf(1, pairs)

SeededFirst(c) == RoundOf(c.matches, 1) # {} => Seeded(c, SeedPairs(Seeds(c)))

LEMMA SameSeeded ==
    ASSUME NEW c, NEW d, SameSides(c, d, 1), NEW pairs, Seeded(c, pairs)
    PROVE  Seeded(d, pairs)
  BY DEF SameSides, SamePlaces, Seeded

LEMMA PairIs ==
    ASSUME NEW n \in Nat, NEW w \in [1..n -> Entry], NEW i \in DOMAIN SeedPairs(w)
    PROVE  SeedPairs(w)[i] = [a |-> SeedPairs(w)[i].a, b |-> SeedPairs(w)[i].b]
  <1>1. Len(w) = n
    BY ListOf
  <1>2. n >= 2
    <2>1. n < 2 => SeedPairs(w) = << >>
      BY <1>1 DEF SeedPairs
    <2> QED
      BY <2>1
  <1>3. CASE rule.crossing = "sequencial"
    <2>1. SeedPairs(w) = SequentialPairs(w)
      BY <1>1, <1>2, <1>3 DEF SeedPairs
    <2> DEFINE x == SequentialPairs(w)[i]
    <2>2. i \in 1..((n + 1) \div 2)
      BY <2>1, SequentialPairsAre
    <2>3. x = [a |-> w[2 * i - 1], b |-> IF 2 * i <= n THEN w[2 * i] ELSE None]
      BY <2>2, SequentialPairsAre
    <2> HIDE DEF x
    <2>4. x = [a |-> x.a, b |-> x.b]
      BY <2>3
    <2> QED
      BY <2>1, <2>4 DEF x
  <1>4. CASE rule.crossing # "sequencial"
    <2>1. i \in 1..Half(n)
      BY SeedPairsDomain
    <2> DEFINE x == SeedPairs(w)[i]
    <2>2. x = [a |-> w[i], b |-> IF PowerAbove(n) + 1 - i <= n THEN w[PowerAbove(n) + 1 - i] ELSE None]
      BY <1>2, <1>4, <2>1, SeedPairsMirror
    <2> HIDE DEF x
    <2>3. x = [a |-> x.a, b |-> x.b]
      BY <2>2
    <2> QED
      BY <2>3 DEF x
  <1> QED
    BY <1>3, <1>4

\* The progression makes the first round of the seeding, or leaves it alone.
LEMMA ProgressSeeded ==
    ASSUME NEW c, IsCat(c), Typed(c), rule \in Rules, c.table \in Tables,
           NEW h, KeyInv(c, h), AllKnown(c), SeededFirst(c), RoundOf(ProgressKnockout(c).matches, 1) # {}
    PROVE  Seeded(ProgressKnockout(c), SeedPairs(Seeds(c)))
  <1> DEFINE d == ProgressKnockout(c)
  <1>1. FirstMade(c, d) \/ NextMade(c, d) \/ Ended(c, d) \/ Waiting(c, d)
    BY ProgressCases
  <1>2. RoundOf(d.matches, 1) # {}
    OBVIOUS
  <1> SUFFICES Seeded(d, SeedPairs(Seeds(c)))
    OBVIOUS
  <1> HIDE DEF d
  <1>3. CASE FirstMade(c, d)
    <2> DEFINE pairs == SeedPairs(Seeds(c))
               n == rule.qualifiers
    <2>1. 1 \notin RoundsOf(c.matches) /\ 1 \in Nat \ {0}
      BY <1>3, KnownDefined DEF FirstMade
    <2>2. RoundOf(c.matches, 1) = {}
      BY <2>1, RoundIn
    <2>3. ~Resolves(c)
      BY <2>2 DEF Resolves
    <2>4. FirstPairs(c) = pairs
      BY <2>3 DEF FirstPairs, Seeds
    <2>5. Makes(c, d, 1, pairs)
      BY <1>3, <2>4, CreateMakes DEF FirstMade
    <2>6. n \in Nat /\ Seeds(c) \in [1..n -> Entry]
      BY SeedsAre
    <2>7. \A i \in DOMAIN pairs : pairs[i] = [a |-> pairs[i].a, b |-> pairs[i].b]
      BY <2>6, PairIs
    <2> HIDE DEF pairs, n
    <2>8. RoundOf(d.matches, 1) = {<<1, s>> : s \in FullSlots(pairs)} /\ ByesAt(d, 1) = ByesOf(1, pairs)
      BY <2>2, <2>5 DEF Makes
    <2>9. ASSUME NEW p \in RoundOf(d.matches, 1)
          PROVE  pairs[p[2]] = [a |-> d.matches[p].a, b |-> d.matches[p].b]
      <3>1. PICK s \in FullSlots(pairs) : p = <<1, s>>
        BY <2>8
      <3>2. p \notin DOMAIN c.matches
        BY <2>2, <3>1 DEF RoundOf
      <3>3. p \in Made(c.matches, 1, pairs) /\ p[2] = s /\ s \in DOMAIN pairs
        BY <3>1, <3>2 DEF Made, FullSlots
      <3>4. d.matches[p] = Scheduled(pairs[s].a, pairs[s].b, NoLabel)
        BY <2>5, <3>3 DEF Makes
      <3> QED
        BY <2>7, <3>3, <3>4 DEF Scheduled
    <2>10. Seeded(d, pairs)
      BY <2>8, <2>9 DEF Seeded
    <2> QED
      BY <2>10 DEF pairs
  <1>4. CASE NextMade(c, d)
    <2> DEFINE r == LastRound(c)
    <2>1. PICK n : NextFacts(c, d, r, n)
      BY <1>4, NextFactsAre
    <2>2. r + 1 \in Nat \ {0} /\ 1 # r + 1 /\ 1 \in Nat \ {0} /\ (n + 1) \div 2 \in Nat
          /\ Pairing(Draw(c, r), (n + 1) \div 2) /\ Makes(c, d, r + 1, Draw(c, r))
      BY <2>1 DEF NextFacts
    <2>3. SameResults(c, d, 1)
      <3> HIDE DEF r
      <3> QED
        BY <2>2, MakesSame
    <2> QED
      BY <1>2, <2>3, SameSeeded DEF SameResults, SameSides, SamePlaces, SeededFirst
  <1>5. CASE Ended(c, d) \/ Waiting(c, d)
    <2>1. d.matches = c.matches /\ d.byes = c.byes
      BY <1>5 DEF Ended, Waiting, Kept
    <2>2. SameSides(c, d, 1)
      BY <2>1 DEF SameSides, SamePlaces, ByesAt
    <2> QED
      BY <1>2, <2>1, <2>2, SameSeeded DEF SeededFirst
  <1> QED
    BY <1>1, <1>3, <1>4, <1>5
-----------------------------------------------------------------------------
(* The invariant of a seeded key                                           *)

SeededKey ==
    /\ AllKnown(Category) /\ NotStuck(Category) /\ SeededFirst(Category)
    /\ Closed(Category) => Over(Category)

LEMMA AlikeRounds ==
    ASSUME NEW c, NEW d, Kept(c, d)
    PROVE  /\ \A r : SameResults(c, d, r) /\ SameSides(c, d, r)
           /\ Max(RoundsOf(d.matches)) = Max(RoundsOf(c.matches))
  BY DEF Kept, SameResults, SameSides, SamePlaces, ByesAt

LEMMA AlikeOver ==
    ASSUME NEW c, NEW d, Kept(c, d), Over(c)
    PROVE  Over(d)
  <1> DEFINE r == Max(RoundsOf(c.matches))
  <1>1. SameResults(c, d, r)
    BY AlikeRounds
  <1>2. Winners(d, r) = Winners(c, r)
    BY <1>1, SameWinners
  <1>3. Settled(d, r) <=> Settled(c, r)
    BY <1>1, SameSettled
  <1>4. d.matches = c.matches
    BY DEF Kept
  <1> QED
    BY <1>2, <1>3, <1>4 DEF Over

LEMMA AlikeDecided ==
    ASSUME NEW c, NEW d, Kept(c, d), Decided(c)
    PROVE  Decided(d)
  <1> DEFINE r == Max(RoundsOf(c.matches))
  <1>1. SameResults(c, d, r)
    BY AlikeRounds
  <1>2. Settled(d, r) <=> Settled(c, r)
    BY <1>1, SameSettled
  <1>3. d.matches = c.matches
    BY DEF Kept
  <1> QED
    BY <1>2, <1>3 DEF Decided

LEMMA AlikeNotStuck ==
    ASSUME NEW c, NEW d, Kept(c, d), NotStuck(c),
           c.status = "FINISHED" \/ c.byHand => d.status = "FINISHED" \/ d.byHand
    PROVE  NotStuck(d)
  <1> DEFINE r == Max(RoundsOf(c.matches))
  <1>1. SameResults(c, d, r)
    BY AlikeRounds
  <1>2. Settled(d, r) <=> Settled(c, r)
    BY <1>1, SameSettled
  <1>3. d.matches = c.matches
    BY DEF Kept
  <1> QED
    BY <1>2, <1>3 DEF NotStuck

\* A recount that starts from known matches and the round of the seeding, if there is one.
LEMMA RecountSeeded ==
    ASSUME rule \in Rules, NEW ms, NEW order \in Tables, NEW part,
           RecomputeTournament(ms, byes, order, part),
           NEW c, c = Before(ms, byes, order, part), Typed(c), KeyInv(c, Half(rule.qualifiers)),
           AllKnown(c), SeededFirst(c), Closed(c) => Decided(c)
    PROVE  SeededKey'
  <1> DEFINE d == ProgressKnockout(c)
             e == Category'
             h == Half(rule.qualifiers)
  <1>1. IsCat(c) /\ c.status = status /\ c.table = order
    BY RecomputeIs
  <1>2. matches' = d.matches /\ byes' = d.byes /\ table' = order /\ rule' = rule
        /\ byHand' = d.byHand /\ status' = IF d.status = "SCHEDULED" THEN "ONGOING" ELSE d.status
    BY RecomputeIs
  <1>3. h \in Nat
    BY HalfNow
  <1>4. AllKnown(d)
    BY <1>1, ProgressKnown
  <1>5. NotStuck(d)
    BY <1>1, <1>3, ProgressNotStuck
  <1>6. Closed(d) => Over(d)
    BY <1>1, ProgressOver
  <1>7. RoundOf(d.matches, 1) # {} => Seeded(d, SeedPairs(Seeds(c)))
    BY <1>1, ProgressSeeded
  <1>8. /\ Kept(d, e) /\ e.matches = d.matches /\ e.byHand = d.byHand
        /\ e.status = "FINISHED" <=> d.status = "FINISHED"
    BY <1>2 DEF Kept, Category
  <1>9. SeedPairs(Seeds(Category))' = SeedPairs(Seeds(c))
    BY <1>1, <1>2 DEF Seeds, SeedPairs, Category
  <1>10. SeededFirst(Category)' <=> (RoundOf(e.matches, 1) # {} => Seeded(e, SeedPairs(Seeds(c))))
    BY <1>9 DEF SeededFirst
  <1>11. /\ AllKnown(Category)' <=> AllKnown(e)
         /\ NotStuck(Category)' <=> NotStuck(e)
         /\ Over(Category)' <=> Over(e)
         /\ Closed(Category)' <=> Closed(e)
    BY DEF AllKnown, NotStuck, Over, Closed
  <1> HIDE DEF d, e
  <1>12. AllKnown(e)
    BY <1>4, <1>8 DEF AllKnown
  <1>13. NotStuck(e)
    BY <1>5, <1>8, AlikeNotStuck
  <1>14. Closed(e) => Over(e)
    BY <1>6, <1>8, AlikeOver DEF Closed
  <1>15. RoundOf(e.matches, 1) # {} => Seeded(e, SeedPairs(Seeds(c)))
    <2>1. SameSides(d, e, 1)
      BY <1>8, AlikeRounds
    <2> QED
      BY <1>7, <1>8, <2>1, SameSeeded
  <1> QED
    BY <1>10, <1>11, <1>12, <1>13, <1>14, <1>15 DEF SeededKey

\* ... and one of a key without matches.
LEMMA RecountEmpty ==
    ASSUME TypeInv, NEW order \in Tables, NEW part, NEW ms, DOMAIN ms = {}, ~Closed(Category),
           RecomputeTournament(ms, byes, order, part)
    PROVE  SeededKey'
  <1> DEFINE c == Before(ms, byes, order, part)
  <1>1. c.matches = ms /\ c.byes = byes /\ ~Closed(c)
    BY DEF Before, Closed, Category
  <1>2. byes \subseteq ByeRow /\ rule \in Rules
    BY DEF TypeInv, TypeOK, ByeRow
  <1>3. Bounded(Category)
    BY DEF TypeInv
  <1> HIDE DEF c
  <1>4. Typed(c)
    BY <1>1, <1>2, <1>3 DEF Typed, Bounded, Category
  <1>5. KeyInv(c, Half(rule.qualifiers))
    BY <1>1, EmptyKey
  <1>6. AllKnown(c) /\ SeededFirst(c)
    BY <1>1 DEF AllKnown, SeededFirst, RoundOf
  <1> QED
    BY <1>1, <1>2, <1>4, <1>5, <1>6, RecountSeeded DEF c
\* In a category that is over every round is settled, so every match is official.
LEMMA OverSettled ==
    ASSUME NEW c, Typed(c), NEW h, KeyInv(c, h), AllKnown(c), Over(c),
           NEW r \in Nat \ {0}, RoundOf(c.matches, r) # {}
    PROVE  Settled(c, r)
  <1> DEFINE S == RoundsOf(c.matches)
             m == Max(S)
  <1>1. S \subseteq Nat \ {0} /\ r \in S
    BY RoundsTyped, RoundIn
  <1>2. PICK n \in Nat : \A p \in DOMAIN c.matches : p[1] <= n
    BY DEF Typed, Bounded
  <1>3. \A k \in S : k <= n
    BY <1>2 DEF RoundsOf
  <1>4. m \in S /\ \A k \in S : k <= m
    <2> HIDE DEF S
    <2> QED
      BY <1>1, <1>3, GreatestExists
  <1>5. Settled(c, m)
    BY DEF Over
  <1>6. m \in Nat \ {0} /\ r <= m /\ RoundOf(c.matches, m) # {}
    BY <1>1, <1>4, RoundIn
  <1> HIDE DEF m
  <1>7. ASSUME r # m PROVE Settled(c, r)
    <2>1. r + 1 \in Nat \ {0} /\ m \in Nat /\ m >= r + 1
      BY <1>6, <1>7
    <2>2. RoundOf(c.matches, r + 1) # {}
      BY <1>6, <2>1, NoneAbove DEF KeyInv
    <2>3. Reached(c, r + 1)
      BY <2>2, KnownReached
    <2> QED
      BY <2>3 DEF KeyInv, KBuilt, Built
  <1> QED
    BY <1>5, <1>7

LEMMA OverOfficial ==
    ASSUME NEW c, Typed(c), NEW h, KeyInv(c, h), AllKnown(c), Over(c), NEW p \in DOMAIN c.matches
    PROVE  Official(c.matches[p])
  <1>1. CASE p = Third
    BY <1>1 DEF Over, ThirdPending
  <1>2. CASE p # Third
    <2>1. p[1] \in Nat \ {0} /\ p \in RoundOf(c.matches, p[1])
      BY <1>2, PlaceIs DEF Typed, RoundOf
    <2>2. Settled(c, p[1])
      BY <2>1, OverSettled
    <2> QED
      BY <2>1, <2>2 DEF Settled
  <1> QED
    BY <1>1, <1>2

\* A round is settled when its matches are official and nobody who passes is missing.
LEMMA RowSettled ==
    ASSUME NEW c, Typed(c), NEW r, NEW n \in Nat, Slots(c, r) = 1..n
    PROVE  Settled(c, r) <=> /\ \A p \in RoundOf(c.matches, r) : Official(c.matches[p])
                             /\ \A i \in 1..n : Passing(c, r, i) # None
  <1>1. DOMAIN Winners(c, r) = 1..n /\ \A i \in 1..n : Winners(c, r)[i] = Passing(c, r, i)
    BY RowWinners
  <1> QED
    BY <1>1 DEF Settled, Range

\* From c to d the match q gets a winner, and the rounds above it are gone (or q is the third place).
Corrected(c, d, q) ==
    /\ q \in DOMAIN d.matches /\ d.byes = c.byes /\ Official(d.matches[q]) /\ d.matches[q].winner # None
    /\ \A p \in DOMAIN d.matches : p \in DOMAIN c.matches /\ (p # q => d.matches[p] = c.matches[p])
    /\ q = Third => DOMAIN d.matches = DOMAIN c.matches
    /\ q # Third => /\ \A r \in 1..q[1] : RoundOf(d.matches, r) = RoundOf(c.matches, r)
                    /\ \A r \in Nat : r > q[1] => RoundOf(d.matches, r) = {}

\* The correction of a result in a category that is over leaves nothing to be played.
LEMMA CorrectedDecided ==
    ASSUME NEW c, Typed(c), NEW h, KeyInv(c, h), AllKnown(c), Over(c),
           NEW d, Typed(d), KeyInv(d, h), NEW q, Corrected(c, d, q)
    PROVE  Decided(d)
  <1>1. ~ThirdPending(d.matches)
    <2>1. Third \in DOMAIN d.matches => Official(d.matches[Third])
      BY DEF Corrected, Over, ThirdPending
    <2> QED
      BY <2>1 DEF ThirdPending
  <1>2. CASE q = Third
    <2> DEFINE r == Max(RoundsOf(c.matches))
    <2>1. RoundsOf(d.matches) = RoundsOf(c.matches)
      BY <1>2 DEF Corrected, RoundsOf
    <2>2. r \in Nat \ {0}
      <3>1. RoundsOf(c.matches) \subseteq Nat \ {0} /\ RoundsOf(c.matches) # {}
        BY RoundsTyped DEF Over
      <3>2. PICK n \in Nat : \A p \in DOMAIN c.matches : p[1] <= n
        BY DEF Typed, Bounded
      <3>3. \A k \in RoundsOf(c.matches) : k <= n
        BY <3>2 DEF RoundsOf
      <3> QED
        BY <3>1, <3>3, GreatestExists
    <2>3. RoundOf(d.matches, r) = RoundOf(c.matches, r)
      BY <1>2 DEF Corrected, RoundOf
    <2>4. \A p \in RoundOf(c.matches, r) : p # q
      BY <1>2, <2>2 DEF RoundOf, Third
    <2>5. \A p \in RoundOf(c.matches, r) : d.matches[p] = c.matches[p]
      BY <2>3, <2>4 DEF Corrected, RoundOf
    <2> HIDE DEF r
    <2>6. SameResults(c, d, r)
      BY <2>3, <2>5 DEF SameResults, SameSides, SamePlaces, Corrected, ByesAt
    <2>7. Settled(d, r)
      BY <2>6, SameSettled DEF Over, r
    <2> QED
      BY <1>1, <2>1, <2>7 DEF Decided, Over, r
  <1>3. CASE q # Third
    <2> DEFINE r == q[1]
    <2>1. q \in DOMAIN c.matches /\ q \in DOMAIN d.matches /\ r \in Nat \ {0}
      BY <1>3, PlaceIs DEF Corrected, Typed
    <2>2. RoundOf(d.matches, r) = RoundOf(c.matches, r) /\ RoundOf(d.matches, r + 1) = {}
          /\ q \in RoundOf(d.matches, r)
      <3>1. \A k \in 1..r : RoundOf(d.matches, k) = RoundOf(c.matches, k)
        BY <1>3 DEF Corrected
      <3>2. \A k \in Nat : k > r => RoundOf(d.matches, k) = {}
        BY <1>3 DEF Corrected
      <3>3. q \in RoundOf(d.matches, r)
        BY <2>1 DEF RoundOf
      <3> HIDE DEF r
      <3>4. r \in 1..r /\ r + 1 \in Nat /\ r + 1 > r
        BY <2>1
      <3> QED
        BY <3>1, <3>2, <3>3, <3>4
    <2> HIDE DEF r
    <2>3. Max(RoundsOf(d.matches)) = r
      BY <2>1, <2>2, RoundsEnd DEF KeyInv
    <2>4. Settled(c, r)
      BY <2>1, <2>2, OverSettled
    <2>5. InRow(Slots(c, r))
      BY <2>1, <2>2, KnownReached, RowOfSlots
    <2>6. PICK n \in Nat : Slots(c, r) = 1..n
      BY <2>5 DEF InRow
    <2>7. Slots(d, r) = 1..n /\ ByesAt(d, r) = ByesAt(c, r)
      BY <2>2, <2>6 DEF Slots, ByesAt, Corrected
    <2>8. \A p \in RoundOf(d.matches, r) : Official(d.matches[p])
      <3>1. \A p \in RoundOf(c.matches, r) : Official(c.matches[p])
        BY <2>4 DEF Settled
      <3> QED
        BY <2>2, <3>1 DEF Corrected, RoundOf
    <2>9. ASSUME NEW i \in 1..n PROVE Passing(d, r, i) # None
      <3>1. Passing(c, r, i) # None
        BY <2>4, <2>6, RowSettled
      <3>2. <<r, i>>[1] = r
        OBVIOUS
      <3>3. <<r, i>> \in DOMAIN d.matches <=> <<r, i>> \in DOMAIN c.matches
        BY <2>2, <3>2 DEF RoundOf
      <3>4. CASE <<r, i>> \in DOMAIN d.matches
        <4>1. d.matches[<<r, i>>].winner # None
          <5>1. CASE <<r, i>> = q
            BY <5>1 DEF Corrected
          <5>2. CASE <<r, i>> # q
            <6>1. d.matches[<<r, i>>] = c.matches[<<r, i>>]
              BY <3>4, <5>2 DEF Corrected
            <6> QED
              BY <3>1, <3>3, <3>4, <6>1 DEF Passing
          <5> QED
            BY <5>1, <5>2
        <4> QED
          BY <3>4, <4>1 DEF Passing
      <3>5. CASE <<r, i>> \notin DOMAIN d.matches
        BY <2>7, <3>1, <3>3, <3>5 DEF Passing
      <3> QED
        BY <3>4, <3>5
    <2>10. Settled(d, r)
      BY <2>7, <2>8, <2>9, RowSettled
    <2>11. RoundsOf(d.matches) # {}
      BY <2>1, <2>2, RoundIn
    <2> QED
      BY <1>1, <2>3, <2>10, <2>11 DEF Decided
  <1> QED
    BY <1>2, <1>3
\* A result written on a match of the key, in a category that is not over or leaves it decided.
LEMMA DecideSeeded ==
    ASSUME TypeInv, NEW ms, Typed(Cat(ms, byes)), KeyInv(Cat(ms, byes), Half(rule.qualifiers)),
           NEW p \in DOMAIN ms, Open(Cat(ms, byes), p), NEW how \in {"FINISHED", "WALKOVER"},
           NEW winner \in {ms[p].a, ms[p].b}, Decide(p, ms, how, winner),
           AllKnown(Cat(ms, byes)), SeededFirst(Category), SameSides(Category, Cat(ms, byes), 1),
           Closed(Category) =>
              Decided(Cat([ms EXCEPT ![p].status = how, ![p].winner = winner], byes))
    PROVE  SeededKey'
  <1> DEFINE next == [ms EXCEPT ![p].status = how, ![p].winner = winner]
             c == Before(next, byes, table, played)
             e == Cat(next, byes)
             g == Cat(ms, byes)
             h == Half(rule.qualifiers)
  <1>1. RecomputeTournament(next, byes, table, played)
    BY DEF Decide
  <1>2. Typed(e) /\ KeyInv(e, h)
    BY DecidedKey
  <1>3. table \in Tables /\ rule \in Rules
    BY DEF TypeInv, TypeOK
  <1>4. DOMAIN next = DOMAIN ms /\ \A q \in DOMAIN ms : q # p => next[q] = ms[q]
    BY DecidedElse
  <1>5. next[p].a = ms[p].a /\ next[p].b = ms[p].b
    <2>1. next[p] = [ms[p] EXCEPT !.status = how, !.winner = winner]
      OBVIOUS
    <2> DEFINE m == ms[p]
    <2> HIDE DEF next, m
    <2>2. m \in Match /\ next[p] = [m EXCEPT !.status = how, !.winner = winner]
      BY <2>1 DEF m, Typed, Cat
    <2>3. next[p].a = m.a /\ next[p].b = m.b
      BY <2>2 DEF Match
    <2> QED
      BY <2>3 DEF m
  <1>6. Closed(Category) => Decided(e)
    OBVIOUS
  <1> HIDE DEF next
  <1>7. c.matches = next /\ c.byes = byes /\ c.table = table /\ e.matches = next /\ e.byes = byes
        /\ g.matches = ms /\ g.byes = byes /\ Category.table = table
        /\ c.status = Category.status /\ c.byHand = Category.byHand
    BY DEF Before, Cat, Category
  <1>8. AllKnown(g) /\ SameSides(Category, g, 1)
    OBVIOUS
  <1> HIDE DEF c, e, g
  <1>9. Kept(e, c)
    BY <1>7 DEF Kept
  <1>10. Typed(c) /\ KeyInv(c, h)
    BY <1>2, <1>9, TypedAlike, KeptAlike, KeyAlike
  <1>11. \A q \in DOMAIN ms : next[q].a = ms[q].a /\ next[q].b = ms[q].b
    BY <1>4, <1>5
  <1>12. AllKnown(c)
    BY <1>4, <1>7, <1>8, <1>11 DEF AllKnown, Known
  <1>13. SameSides(g, c, 1)
    BY <1>4, <1>7, <1>11 DEF SameSides, SamePlaces, RoundOf, ByesAt
  <1>14. SameSides(Category, c, 1)
    BY <1>8, <1>13 DEF SameSides, SamePlaces
  <1>15. SeededFirst(c)
    <2>1. Seeds(c) = Seeds(Category)
      BY <1>7 DEF Seeds
    <2>2. RoundOf(c.matches, 1) = RoundOf(Category.matches, 1)
      BY <1>14 DEF SameSides, SamePlaces
    <2> QED
      BY <1>14, <2>1, <2>2, SameSeeded DEF SeededFirst
  <1>16. Closed(c) => Decided(c)
    BY <1>6, <1>7, <1>9, AlikeDecided DEF Closed
  <1> HIDE DEF h
  <1> QED
    BY <1>1, <1>3, <1>10, <1>12, <1>15, <1>16, RecountSeeded DEF c, h

SeededInv ==
    /\ published = NoKey /\ played # "all" => DOMAIN matches = {}
    /\ Closed(Category) => \E p \in (DOMAIN matches) \ {Third} : Official(matches[p])
    /\ published = NoKey /\ ~deleted => SeededKey

\* Until the groups are over a recount makes no match of a seeded key.
LEMMA RecountNothing ==
    ASSUME NEW ms, NEW bs, NEW order, NEW part, part # "all", DOMAIN ms = {},
           RecomputeTournament(ms, bs, order, part)
    PROVE  DOMAIN matches' = {}
  <1> DEFINE c == Before(ms, bs, order, part)
             d == ProgressKnockout(c)
  <1>1. IsCat(c) /\ c.matches = ms /\ c.played = part
    BY DEF IsCat, Before
  <1>2. matches' = d.matches
    BY RecomputeIs
  <1> HIDE DEF c
  <1>3. FirstMade(c, d) \/ NextMade(c, d) \/ Ended(c, d) \/ Waiting(c, d)
    BY <1>1, ProgressCases
  <1>4. Defined(c.matches) = {}
    BY <1>1 DEF Defined, RoundsOf
  <1> HIDE DEF d
  <1>5. d.matches = ms
    BY <1>1, <1>3, <1>4 DEF FirstMade, NextMade, Ended, Waiting
  <1> QED
    BY <1>2, <1>5

\* A category that a recount leaves FINISHED has an official match outside the third place.
LEMMA RecountFinished ==
    ASSUME NEW ms, NEW bs, NEW order, NEW part, RecomputeTournament(ms, bs, order, part),
           Closed(Category) => \E p \in (DOMAIN ms) \ {Third} : Official(ms[p]),
           Closed(Category'), Typed(Cat(ms, bs))
    PROVE  \E p \in (DOMAIN matches') \ {Third} : Official(matches'[p])
  <1> DEFINE c == Before(ms, bs, order, part)
             d == ProgressKnockout(c)
  <1>1. IsCat(c) /\ c.matches = ms /\ c.byes = bs /\ (Closed(c) <=> Closed(Category))
    BY DEF IsCat, Before, Closed, Category
  <1>2. matches' = d.matches /\ (Closed(Category') <=> Closed(d))
    <2>1. matches' = d.matches /\ byHand' = d.byHand
          /\ status' = IF d.status = "SCHEDULED" THEN "ONGOING" ELSE d.status
      BY RecomputeIs
    <2>2. Category'.status = status' /\ Category'.byHand = byHand'
      BY DEF Category
    <2> HIDE DEF d
    <2> QED
      BY <2>1, <2>2 DEF Closed
  <1>3. Typed(c)
    <2>1. Kept(Cat(ms, bs), c)
      BY <1>1 DEF Kept, Cat
    <2> QED
      BY <2>1, TypedAlike
  <1> HIDE DEF c
  <1>4. FirstMade(c, d) \/ NextMade(c, d) \/ Ended(c, d) \/ Waiting(c, d)
    BY <1>1, ProgressCases
  <1> HIDE DEF d
  <1>5. Closed(d)
    BY <1>2
  <1>6. CASE Ended(c, d)
    <2> DEFINE r == LastRound(c)
    <2>1. r \in Nat \ {0} /\ Whole(c, r)
      BY <1>3, <1>6, LastWhole DEF Ended
    <2>2. Settled(c, r) /\ d.matches = ms
      BY <1>1, <1>6 DEF Ended, Kept
    <2> HIDE DEF r
    <2>3. PICK p \in RoundOf(c.matches, r) : Official(c.matches[p])
      BY <2>1, <2>2 DEF Whole, Settled
    <2>4. p \in (DOMAIN ms) \ {Third}
      BY <1>1, <2>1, <2>3 DEF RoundOf, Third
    <2> QED
      BY <1>1, <1>2, <2>2, <2>3, <2>4
  <1>7. CASE Waiting(c, d)
    <2>1. d.matches = ms /\ Closed(Category)
      BY <1>1, <1>5, <1>7 DEF Waiting
    <2> QED
      BY <1>2, <1>5, <2>1
  <1> QED
    BY <1>4, <1>5, <1>6, <1>7 DEF FirstMade, NextMade, Closed
LEMMA CategoryIs ==
    ASSUME TypeInv, NEW h, KeyInv(Category, h)
    PROVE  /\ Category.matches = matches /\ Category.byes = byes /\ Category.table = table
           /\ Category.status = status
           /\ Typed(Category) /\ Typed(Cat(matches, byes)) /\ KeyInv(Cat(matches, byes), h)
           /\ SameSides(Category, Cat(matches, byes), 1)
  <1>1. Category.matches = matches /\ Category.byes = byes /\ Category.table = table
        /\ Category.status = status
    BY DEF Category
  <1>2. Alike(Category, Cat(matches, byes)) /\ SameSides(Category, Cat(matches, byes), 1)
    BY DEF Alike, Category, Cat, SameSides, SamePlaces, ByesAt
  <1> QED
    BY <1>1, <1>2, TypeInvTyped, TypeInvKey, KeyAlike

\* Nobody plays on in a category that is over.
LEMMA OverIsOver ==
    ASSUME TypeInv, NEW h, KeyInv(Category, h), SeededKey, NEW p \in DOMAIN matches,
           ~Official(matches[p])
    PROVE  ~Closed(Category)
  BY CategoryIs, OverOfficial DEF SeededKey

\* A result of a match still to be decided.
LEMMA PlaySeeded ==
    ASSUME TypeInv, KeyInvNow, SeededKey, NEW p \in DOMAIN matches, ~Official(matches[p]),
           NEW how \in {"FINISHED", "WALKOVER"}, NEW winner \in {matches[p].a, matches[p].b},
           Decide(p, matches, how, winner)
    PROVE  SeededKey'
  <1> DEFINE h == Half(rule.qualifiers)
             c == Cat(matches, byes)
  <1>1. KeyInv(Category, h)
    BY DEF KeyInvNow
  <1>2. Typed(c) /\ KeyInv(c, h) /\ SameSides(Category, c, 1) /\ c.matches = matches
    BY <1>1, CategoryIs DEF Cat
  <1>3. ~Closed(Category)
    BY <1>1, OverIsOver
  <1>4. AllKnown(c) /\ SeededFirst(Category)
    BY <1>2 DEF SeededKey, AllKnown, Category
  <1> HIDE DEF c
  <1>5. Open(c, p)
    BY <1>2, UndecidedOpen
  <1> HIDE DEF h
  <1> QED
    BY <1>2, <1>3, <1>4, <1>5, DecideSeeded DEF c, h

\* The correction of a result.
LEMMA CorrectSeeded ==
    ASSUME TypeInv, KeyInvNow, SeededKey, NEW p \in DOMAIN matches,
           NEW winner \in {matches[p].a, matches[p].b},
           Decide(p, Cut(matches, p), "FINISHED", winner)
    PROVE  SeededKey'
  <1> DEFINE h == Half(rule.qualifiers)
             ms == Cut(matches, p)
             next == [ms EXCEPT ![p].status = "FINISHED", ![p].winner = winner]
             c == Category
             g == Cat(ms, byes)
             d == Cat(next, byes)
  <1>1. KeyInv(c, h) /\ Typed(c) /\ c.matches = matches /\ c.byes = byes
    BY CategoryIs DEF KeyInvNow
  <1>2. g.matches = Cut(c.matches, p) /\ g.byes = c.byes /\ g.matches = ms
        /\ d.matches = next /\ d.byes = byes
    BY <1>1 DEF Cat
  <1>3. DOMAIN ms = (DOMAIN matches) \ DependentsOf(matches, p)
    BY CutDomain
  <1>4. \A q \in DOMAIN ms : ms[q] = matches[q]
    BY CutIs
  <1>5. p[1] \in Nat /\ (p # Third => p[1] \in Nat \ {0})
    BY <1>1, PlaceIs DEF Typed
  <1>6. p \in DOMAIN ms
    BY <1>3, <1>5 DEF DependentsOf
  <1>7. Known(matches[p]) /\ winner # None
    BY <1>1 DEF SeededKey, AllKnown, Known
  <1>8. Typed(g)
    BY <1>1, <1>2, <1>3, <1>4 DEF Typed, Bounded
  <1> HIDE DEF g
  <1>9. KeyInv(g, h) /\ Open(g, p)
    <2> HIDE DEF ms, c
    <2> QED
      BY <1>1, <1>2, CutKey, CutOpen
  <1>10. Typed(d) /\ KeyInv(d, h)
    <2> HIDE DEF ms
    <2> QED
      BY <1>4, <1>6, <1>8, <1>9, DecidedKey DEF g
  <1>11. DOMAIN next = DOMAIN ms /\ \A q \in DOMAIN ms : q # p => next[q] = ms[q]
    BY DecidedElse
  <1>12. next[p].status = "FINISHED" /\ next[p].winner = winner
    <2>1. next[p] = [ms[p] EXCEPT !.status = "FINISHED", !.winner = winner]
      BY <1>6
    <2> DEFINE m == ms[p]
    <2> HIDE DEF next, m
    <2>2. m \in Match /\ next[p] = [m EXCEPT !.status = "FINISHED", !.winner = winner]
      BY <1>2, <1>6, <1>8, <2>1 DEF m, Typed
    <2> QED
      BY <2>2 DEF Match
  <1>13. p # Third => /\ \A r \in 1..p[1] : SameResults(c, g, r)
                      /\ \A r \in Nat : r > p[1] => RoundOf(g.matches, r) = {}
    <2> HIDE DEF ms, c
    <2> QED
      BY <1>1, <1>2, CutRounds
  <1>14. p = Third => DOMAIN ms = DOMAIN matches
    BY <1>3 DEF DependentsOf
  <1> HIDE DEF next, ms, d
  <1>15. \A r : RoundOf(d.matches, r) = RoundOf(g.matches, r)
    BY <1>2, <1>11 DEF RoundOf
  <1>16. Corrected(c, d, p)
    <2>1. /\ p \in DOMAIN d.matches /\ d.byes = c.byes /\ Official(d.matches[p])
          /\ d.matches[p].winner # None
      BY <1>1, <1>2, <1>6, <1>7, <1>11, <1>12 DEF Official
    <2>2. \A q \in DOMAIN d.matches : q \in DOMAIN c.matches /\ (q # p => d.matches[q] = c.matches[q])
      BY <1>1, <1>2, <1>3, <1>4, <1>11
    <2>3. p = Third => DOMAIN d.matches = DOMAIN c.matches
      BY <1>1, <1>2, <1>11, <1>14
    <2>4. p # Third => /\ \A r \in 1..p[1] : RoundOf(d.matches, r) = RoundOf(c.matches, r)
                       /\ \A r \in Nat : r > p[1] => RoundOf(d.matches, r) = {}
      BY <1>13, <1>15 DEF SameResults, SameSides, SamePlaces
    <2> QED
      BY <2>1, <2>2, <2>3, <2>4 DEF Corrected
  <1>17. Closed(c) => Decided(d)
    <2>1. AllKnown(c) /\ (Closed(c) => Over(c))
      BY DEF SeededKey
    <2> HIDE DEF c
    <2> QED
      BY <1>1, <1>10, <1>16, <2>1, CorrectedDecided
  <1>18. AllKnown(g)
    BY <1>1, <1>2, <1>3, <1>4 DEF SeededKey, AllKnown
  <1>19. SameSides(c, g, 1)
    <2>1. CASE p = Third
      <3>1. RoundOf(g.matches, 1) = RoundOf(c.matches, 1)
        BY <1>1, <1>2, <1>14, <2>1 DEF RoundOf
      <3>2. \A q \in RoundOf(c.matches, 1) : g.matches[q] = c.matches[q]
        BY <1>1, <1>2, <1>4, <1>14, <2>1 DEF RoundOf
      <3> QED
        BY <1>2, <3>1, <3>2 DEF SameSides, SamePlaces, ByesAt
    <2>2. CASE p # Third
      <3>1. 1 \in 1..p[1]
        BY <1>5, <2>2
      <3> QED
        BY <1>13, <2>2, <3>1 DEF SameResults
    <2> QED
      BY <2>1, <2>2
  <1>20. SeededFirst(c)
    BY DEF SeededKey
  <1>21. winner \in {ms[p].a, ms[p].b} /\ Decide(p, ms, "FINISHED", winner)
    BY <1>4, <1>6 DEF ms
  <1> HIDE DEF h, c
  <1> QED
    BY <1>6, <1>8, <1>9, <1>17, <1>18, <1>19, <1>20, <1>21, DecideSeeded DEF g, d, next, h, c
\* A change of status decides nothing: a match without a result still has no winner.
LEMMA UpdateSeeded ==
    ASSUME TypeInv, KeyInvNow, SeededKey, NEW p \in DOMAIN matches, Update(p),
           TypeInv', KeyInvNow'
    PROVE  SeededKey'
  <1> DEFINE c == Category
             d == Category'
             h == Half(rule.qualifiers)
             m == Max(RoundsOf(c.matches))
  <1>1. PICK to \in {"LIVE", "POSTPONED", "CANCELLED", "FINISHED", "SCHEDULED"} :
           matches' = [matches EXCEPT ![p].status = to]
    BY DEF Update
  <1>2. ~Official(matches[p]) /\ matches[p] \in Match
    <2>1. matches[p].status \notin {"SCHEDULED", "LIVE", "POSTPONED"} => FALSE
      BY DEF Update
    <2> QED
      BY <2>1 DEF Official, TypeInv, TypeOK
  <1>3. DOMAIN matches' = DOMAIN matches /\ \A q \in DOMAIN matches : q # p => matches'[q] = matches[q]
    BY <1>1
  <1>4. /\ matches'[p].a = matches[p].a /\ matches'[p].b = matches[p].b
        /\ matches'[p].winner = matches[p].winner
    BY <1>1, <1>2 DEF Match
  <1>5. byes' = byes /\ rule' = rule /\ status' = status /\ byHand' = byHand /\ table' = table
    BY DEF Update
  <1>6. KeyInv(c, h) /\ Typed(c) /\ c.matches = matches /\ c.byes = byes /\ c.table = table
        /\ d.matches = matches' /\ d.byes = byes' /\ d.table = table'
        /\ c.status = status /\ c.byHand = byHand /\ d.status = status' /\ d.byHand = byHand'
    BY CategoryIs DEF KeyInvNow, Category
  <1>7. KeyInv(d, h) /\ Typed(d)
    <2>1. KeyInv(d, h)
      BY <1>5 DEF KeyInvNow, Half
    <2>2. Typed(d)
      BY <1>6 DEF TypeInv, TypeOK, Typed, Bounded, ByeRow
    <2> QED
      BY <2>1, <2>2
  <1>8. SeedPairs(Seeds(Category))' = SeedPairs(Seeds(c))
    BY <1>5 DEF Seeds, SeedPairs, Category
  <1>9. ~Closed(c) /\ ~Closed(d)
    <2>1. ~Closed(c)
      BY <1>2, <1>6, OverIsOver
    <2> HIDE DEF c, d
    <2> QED
      BY <1>5, <1>6, <2>1 DEF Closed
  <1>10. /\ AllKnown(Category)' <=> AllKnown(d)
         /\ NotStuck(Category)' <=> NotStuck(d)
         /\ Closed(Category)' <=> Closed(d)
         /\ SeededFirst(Category)' <=> (RoundOf(d.matches, 1) # {} => Seeded(d, SeedPairs(Seeds(c))))
    BY <1>8 DEF AllKnown, NotStuck, SeededFirst, Closed
  <1>11. AllKnown(c) /\ NotStuck(c) /\ SeededFirst(c)
    BY DEF SeededKey
  <1> HIDE DEF c, d, h
  <1>12. \A q \in DOMAIN c.matches : /\ d.matches[q].a = c.matches[q].a
                                     /\ d.matches[q].b = c.matches[q].b
                                     /\ d.matches[q].winner = c.matches[q].winner
    BY <1>3, <1>4, <1>6
  <1>13. \A r : SameSides(c, d, r)
    BY <1>3, <1>5, <1>6, <1>12 DEF SameSides, SamePlaces, RoundOf, ByesAt
  <1>14. AllKnown(d)
    BY <1>3, <1>6, <1>11, <1>12 DEF AllKnown, Known
  <1>15. RoundOf(d.matches, 1) # {} => Seeded(d, SeedPairs(Seeds(c)))
    <2>1. SameSides(c, d, 1)
      BY <1>13
    <2> QED
      BY <1>11, <2>1, SameSeeded DEF SeededFirst, SameSides, SamePlaces
  <1>16. c.matches[p].winner = None
    BY <1>2, <1>6 DEF KeyInv, KSound, Sound
  <1>17. RoundsOf(d.matches) = RoundsOf(c.matches)
    BY <1>3, <1>6 DEF RoundsOf
  <1>18. NotStuck(d)
    <2> SUFFICES ASSUME RoundsOf(c.matches) # {}, Settled(d, m), d.status # "FINISHED", ~d.byHand
                 PROVE  Third \in DOMAIN d.matches /\ d.matches[Third].winner = None
      BY <1>17 DEF NotStuck
    <2>1. CASE p = Third
      BY <1>3, <1>6, <1>12, <1>16, <2>1
    <2>2. CASE p # Third /\ p[1] = m
      <3>1. m \in Nat \ {0} /\ p = <<m, p[2]>> /\ p \in RoundOf(d.matches, m)
        <4>1. p[1] \in Nat \ {0} /\ p = <<p[1], p[2]>>
          BY <1>6, <2>2, PlaceIs DEF Typed
        <4> HIDE DEF m
        <4> QED
          BY <1>3, <1>6, <2>2, <4>1 DEF RoundOf
      <3> HIDE DEF m
      <3>2. InRow(Slots(d, m))
        BY <1>7, <1>14, <3>1, KnownReached, RowOfSlots
      <3>3. PICK n \in Nat : Slots(d, m) = 1..n
        BY <3>2 DEF InRow
      <3>4. p[2] \in 1..n
        BY <3>1, <3>3 DEF Slots
      <3>5. Passing(d, m, p[2]) = None
        BY <1>3, <1>6, <1>12, <1>16, <3>1 DEF Passing
      <3> QED
        BY <1>7, <3>3, <3>4, <3>5, RowSettled
    <2>3. CASE p # Third /\ p[1] # m
      <3>1. \A q \in RoundOf(c.matches, m) : q \in DOMAIN c.matches /\ d.matches[q] = c.matches[q]
        BY <1>3, <1>6, <2>3 DEF RoundOf
      <3>2. SameResults(c, d, m)
        BY <1>13, <3>1 DEF SameResults
      <3>3. Settled(c, m)
        BY <3>2, SameSettled
      <3>4. Third \in DOMAIN c.matches /\ c.matches[Third].winner = None
        BY <1>5, <1>6, <1>11, <3>3 DEF NotStuck
      <3> QED
        BY <1>3, <1>6, <1>12, <3>4
    <2> QED
      BY <2>1, <2>2, <2>3
  <1> QED
    BY <1>5, <1>9, <1>10, <1>14, <1>15, <1>18 DEF SeededKey

LEMMA NoKeySeeded ==
    ASSUME DOMAIN matches = {}, ~Closed(Category)
    PROVE  SeededKey
  <1>1. Category.matches = matches
    BY DEF Category
  <1>2. RoundsOf(Category.matches) = {} /\ RoundOf(Category.matches, 1) = {}
    BY <1>1 DEF RoundsOf, RoundOf
  <1> QED
    BY <1>1, <1>2 DEF SeededKey, AllKnown, NotStuck, SeededFirst

LEMMA SeededInit == Init => SeededInv
  <1> SUFFICES ASSUME Init PROVE SeededInv
    OBVIOUS
  <1>1. ~Closed(Category)
    BY DEF Init, Category, Closed
  <1>2. ASSUME published = NoKey PROVE DOMAIN matches = {}
    <2>1. matches = Agenda(NoKey, rule.third) /\ Len(NoKey) = 0 /\ DOMAIN NoKey = {}
      BY <1>2 DEF Init, NoKey
    <2>2. DOMAIN matches = ({1} \X DOMAIN NoKey) \cup
                           {p \in (2..Len(NoKey)) \X (1..Len(NoKey)) : p[2] * Power[p[1] - 1] <= Len(NoKey)}
                           \cup {}
      BY <2>1 DEF Agenda
    <2>3. (2..Len(NoKey)) = {}
      BY <2>1
    <2> QED
      BY <2>1, <2>2, <2>3
  <1> QED
    BY <1>1, <1>2, NoKeySeeded DEF SeededInv

LEMMA SeededNext == BracketInv /\ SeededInv /\ [Next]_vars => SeededInv'
  <1> SUFFICES ASSUME BracketInv, SeededInv, [Next]_vars PROVE SeededInv'
    OBVIOUS
  <1> DEFINE One(ms) == \E p \in (DOMAIN ms) \ {Third} : Official(ms[p])
  <1>0. TypeInv /\ TypeInv' /\ BracketInv' /\ (~deleted => KeyInvNow) /\ (~deleted' => KeyInvNow')
        /\ Typed(Cat(matches, byes)) /\ table \in Tables
    BY KeyNext, TypeInvKey DEF BracketInv, TypeInv, TypeOK
  <1>1. CASE ClassificationResult
    <2>1. PICK order \in Tables, part \in {"some", "all"} : RecomputeTournament(matches, byes, order, part)
      BY <1>1 DEF ClassificationResult
    <2>2. published' = published /\ deleted' = deleted /\ played # "all" /\ played' = part
      BY <1>1, <2>1 DEF ClassificationResult, RecomputeTournament
    <2>3. Closed(Category)' => One(matches)'
      BY <1>0, <2>1, RecountFinished DEF SeededInv
    <2>4. ASSUME published = NoKey PROVE DOMAIN matches = {} /\ ~Closed(Category)
      BY <2>2, <2>4 DEF SeededInv
    <2>5. published = NoKey /\ part # "all" => DOMAIN matches' = {}
      BY <2>1, <2>4, RecountNothing
    <2>6. published = NoKey => SeededKey'
      BY <1>0, <2>1, <2>4, RecountEmpty
    <2> QED
      BY <2>2, <2>3, <2>5, <2>6 DEF SeededInv
  <1>2. CASE CorrectClassification
    <2>1. PICK order \in Tables : RecomputeTournament(NoKey, byes, order, played)
      BY <1>2 DEF CorrectClassification
    <2>2. published' = published /\ played' = played
      BY <1>2, <2>1 DEF CorrectClassification, RecomputeTournament
    <2>3. ~Closed(Category) /\ DOMAIN NoKey = {}
      BY <1>2 DEF CorrectClassification, SeededInv, Official, NoKey
    <2>4. Typed(Cat(NoKey, byes))
      BY <1>0, <2>3 DEF Typed, Bounded, Cat
    <2>5. Closed(Category)' => One(matches)'
      BY <2>1, <2>3, <2>4, RecountFinished
    <2>6. played # "all" => DOMAIN matches' = {}
      BY <2>1, <2>3, RecountNothing
    <2>7. SeededKey'
      BY <1>0, <2>1, <2>3, RecountEmpty
    <2> QED
      BY <2>2, <2>5, <2>6, <2>7 DEF SeededInv
  <1>3. ASSUME NEW p \in DOMAIN matches, Finish(p) \/ WalkOver(p) PROVE SeededInv'
    <2>1. PICK how \in {"FINISHED", "WALKOVER"}, winner \in {matches[p].a, matches[p].b} :
             Decide(p, matches, how, winner)
      BY <1>3 DEF Finish, WalkOver
    <2>2. ~Official(matches[p])
      BY <1>3 DEF Finish, WalkOver, Official
    <2> DEFINE next == [matches EXCEPT ![p].status = how, ![p].winner = winner]
    <2>3. RecomputeTournament(next, byes, table, played) /\ published' = published /\ deleted' = deleted
          /\ played' = played
      BY <2>1 DEF Decide, RecomputeTournament
    <2>4. how \in MatchStatus /\ winner \in Side
      BY <1>0 DEF MatchStatus, TypeInv, TypeOK, Match
    <2>5. Typed(Cat(next, byes))
      BY <1>0, <2>4, DecidedTyped
    <2>6. DOMAIN next = DOMAIN matches /\ \A q \in DOMAIN matches : q # p => next[q] = matches[q]
      BY DecidedElse
    <2> HIDE DEF next
    <2>7. One(matches) => One(next)
      BY <2>2, <2>6
    <2>8. Closed(Category)' => One(matches)'
      BY <2>3, <2>5, <2>7, RecountFinished DEF SeededInv
    <2>9. published = NoKey /\ played # "all" => FALSE
      BY DEF SeededInv
    <2>10. published = NoKey /\ ~deleted => SeededKey'
      BY <1>0, <2>1, <2>2, PlaySeeded DEF SeededInv
    <2> QED
      BY <2>3, <2>8, <2>9, <2>10 DEF SeededInv
  <1>4. ASSUME NEW p \in DOMAIN matches, Correct(p) PROVE SeededInv'
    <2> DEFINE ms == Cut(matches, p)
    <2>1. PICK winner \in {matches[p].a, matches[p].b} : Decide(p, ms, "FINISHED", winner)
      BY <1>4 DEF Correct, Cut, Dependents, DependentsOf
    <2> DEFINE next == [ms EXCEPT ![p].status = "FINISHED", ![p].winner = winner]
    <2>2. RecomputeTournament(next, byes, table, played) /\ published' = published /\ deleted' = deleted
          /\ played' = played
      BY <2>1 DEF Decide, RecomputeTournament
    <2>3. winner \in Side /\ "FINISHED" \in MatchStatus
      BY <1>0 DEF MatchStatus, TypeInv, TypeOK, Match
    <2>4. DOMAIN ms = (DOMAIN matches) \ DependentsOf(matches, p)
      BY CutDomain
    <2>5. p \in DOMAIN ms /\ (p = Third => DOMAIN ms = DOMAIN matches)
      <3>1. p[1] \in Nat
        BY <1>0, PlaceIs DEF TypeInv, TypeOK
      <3> QED
        BY <2>4, <3>1 DEF DependentsOf
    <2>6. \A q \in DOMAIN ms : ms[q] = matches[q]
      BY CutIs
    <2>7. Typed(Cat(ms, byes))
      BY <1>0, <2>4, <2>6 DEF Typed, Bounded, Cat
    <2>8. DOMAIN next = DOMAIN ms /\ \A q \in DOMAIN ms : q # p => next[q] = ms[q]
      BY DecidedElse
    <2>9. next[p].status = "FINISHED"
      <3>1. next[p] = [ms[p] EXCEPT !.status = "FINISHED", !.winner = winner]
        BY <2>5
      <3> DEFINE m == ms[p]
      <3> HIDE DEF next, m
      <3>2. m \in Match /\ next[p] = [m EXCEPT !.status = "FINISHED", !.winner = winner]
        BY <2>5, <2>7, <3>1 DEF m, Typed, Cat
      <3> QED
        BY <3>2 DEF Match
    <2>10. Typed(Cat(next, byes))
      <3> HIDE DEF ms
      <3> QED
        BY <2>3, <2>5, <2>7, DecidedTyped
    <2> HIDE DEF next, ms
    <2>11. One(matches) => One(next)
      BY <2>4, <2>5, <2>6, <2>8, <2>9 DEF Official
    <2>12. Closed(Category)' => One(matches)'
      BY <2>2, <2>10, <2>11, RecountFinished DEF SeededInv
    <2>13. published = NoKey /\ played # "all" => FALSE
      BY DEF SeededInv
    <2>14. published = NoKey /\ ~deleted => SeededKey'
      BY <1>0, <2>1, CorrectSeeded DEF SeededInv, ms
    <2> QED
      BY <2>2, <2>12, <2>13, <2>14 DEF SeededInv
  <1>5. CASE GenerateMatches
    <2>1. DOMAIN matches' = {} /\ ~Closed(Category)'
      BY <1>5 DEF GenerateMatches, NoKey, Closed, Category
    <2>2. SeededKey'
      <3>1. Category'.matches = matches'
        BY DEF Category
      <3>2. RoundsOf(Category'.matches) = {} /\ RoundOf(Category'.matches, 1) = {}
        BY <2>1, <3>1 DEF RoundsOf, RoundOf
      <3> QED
        BY <2>1, <3>1, <3>2 DEF SeededKey, AllKnown, NotStuck, SeededFirst
    <2> QED
      BY <2>1, <2>2 DEF SeededInv
  <1>6. CASE UNCHANGED vars
    <2>1. Category' = Category /\ SeedPairs(Seeds(Category))' = SeedPairs(Seeds(Category))
      BY <1>6 DEF vars, Category, Seeds, SeedPairs
    <2>2. SeededKey => SeededKey'
      BY <1>6, <2>1 DEF vars, SeededKey, AllKnown, NotStuck, SeededFirst, Over, Closed
    <2> QED
      BY <1>6, <2>1, <2>2 DEF vars, SeededInv, Closed
  <1>7. ASSUME NEW p \in DOMAIN matches, Update(p) PROVE SeededInv'
    <2>1. PICK to \in {"LIVE", "POSTPONED", "CANCELLED", "FINISHED", "SCHEDULED"} :
             matches' = [matches EXCEPT ![p].status = to]
      BY <1>7 DEF Update
    <2>2. published' = published /\ played' = played /\ deleted' = deleted
          /\ Closed(Category)' = Closed(Category)
          /\ DOMAIN matches' = DOMAIN matches /\ \A q \in DOMAIN matches : q # p => matches'[q] = matches[q]
      BY <1>7, <2>1 DEF Update, Closed, Category
    <2>3. ~Official(matches[p])
      BY <1>7 DEF Update, Official
    <2>4. One(matches) => One(matches)'
      BY <2>2, <2>3
    <2>5. published = NoKey /\ ~deleted => SeededKey'
      BY <1>0, <1>7, <2>2, UpdateSeeded DEF SeededInv
    <2> QED
      BY <2>2, <2>4, <2>5 DEF SeededInv
  <1>8. ASSUME NEW p \in DOMAIN matches, Delete(p) PROVE SeededInv'
    <2>1. /\ DOMAIN matches' = (DOMAIN matches) \ {p} /\ deleted' = TRUE
          /\ Closed(Category)' = Closed(Category)
          /\ \A q \in DOMAIN matches' : matches'[q] = matches[q]
          /\ published' = published /\ played' = played /\ ~Official(matches[p])
      BY <1>8 DEF Delete, Restrict, Official, Closed, Category
    <2> QED
      BY <2>1 DEF SeededInv
  <1>9. CASE CategoryUpdate
    <2> DEFINE c == Category
               d == Category'
    <2>1. /\ matches' = matches /\ byes' = byes /\ table' = table /\ rule' = rule /\ byHand' = TRUE
          /\ published' = published /\ played' = played /\ deleted' = deleted
      BY <1>9 DEF CategoryUpdate
    <2>2. Kept(c, d) /\ d.matches = c.matches /\ d.byHand = TRUE
      BY <2>1 DEF Kept, Category
    <2>3. /\ SeedPairs(Seeds(Category))' = SeedPairs(Seeds(c)) /\ ~Closed(Category)'
          /\ AllKnown(Category)' <=> AllKnown(d)
      BY <2>1 DEF Seeds, SeedPairs, Category, Closed, AllKnown
    <2>4. NotStuck(Category)'
      BY <2>1 DEF NotStuck, Category
    <2>5. SeededFirst(Category)' <=> (RoundOf(d.matches, 1) # {} => Seeded(d, SeedPairs(Seeds(c))))
      BY <2>3 DEF SeededFirst
    <2> HIDE DEF c, d
    <2>6. SameSides(c, d, 1)
      BY <2>2, AlikeRounds
    <2>7. SeededFirst(c) => SeededFirst(Category)'
      BY <2>2, <2>5, <2>6, SameSeeded DEF SeededFirst
    <2>8. AllKnown(c) => AllKnown(d)
      BY <2>2 DEF AllKnown
    <2>9. SeededKey => SeededKey'
      BY <2>3, <2>4, <2>7, <2>8 DEF SeededKey, c
    <2> QED
      BY <2>1, <2>3, <2>9 DEF SeededInv
  <1> QED
    BY <1>1, <1>2, <1>3, <1>4, <1>5, <1>6, <1>7, <1>8, <1>9 DEF Next

\* When the last round of a seeded key is settled the category is over, or the third place
\* still has no winner: no result is lost for the progression, the correction of one included.
THEOREM NeverStuckHolds == Spec => []NeverStuck
  <1>1. Init => BracketInv /\ SeededInv
    BY KeyInit, SeededInit
  <1>2. (BracketInv /\ SeededInv) /\ [Next]_vars => (BracketInv /\ SeededInv)'
    BY KeyNext, SeededNext
  <1>3. BracketInv /\ SeededInv => NeverStuck
    BY DEF SeededInv, SeededKey, NotStuck, NeverStuck, Rounds, Category
  <1> QED
    BY <1>1, <1>2, <1>3, PTL DEF Spec
-----------------------------------------------------------------------------
(* The seeding gives each qualified entry one seat                         *)

\* Who sits in the slots of a pairing: the entries of S, each in one slot, against another.
Seating(pairs, S) ==
    /\ \A s \in DOMAIN pairs : /\ pairs[s].a \in S /\ pairs[s].b \in S \cup {None}
                               /\ pairs[s].a # pairs[s].b
    /\ \A e \in S : \E s \in DOMAIN pairs : e \in {pairs[s].a, pairs[s].b}
    /\ \A e \in S : \A s, t \in DOMAIN pairs :
          e \in {pairs[s].a, pairs[s].b} /\ e \in {pairs[t].a, pairs[t].b} => s = t

\* Slot s of h pairs positions A[s] and B[s]: every position up to n is in one slot, on one side.
Positions(n, h, A, B) ==
    /\ \A s \in 1..h : A[s] \in 1..n
    /\ \A s, t \in 1..h : (A[s] = A[t] => s = t) /\ (B[s] = B[t] => s = t) /\ A[s] # B[t]
    /\ \A j \in 1..n : \E s \in 1..h : A[s] = j \/ B[s] = j

\* Who has those positions in w; a position above n is a bye.
Sides(pairs, w, n, h, A, B) ==
    /\ DOMAIN pairs = 1..h
    /\ \A s \in 1..h : pairs[s].a = w[A[s]]
    /\ \A s \in 1..h : B[s] \in 1..n => pairs[s].b = w[B[s]]
    /\ \A s \in 1..h : B[s] \notin 1..n => pairs[s].b = None

LEMMA PositionsSeat ==
    ASSUME NEW n \in Nat, NEW w \in [1..n -> Entry], IsInjective(w),
           NEW h \in Nat, NEW A, NEW B, Positions(n, h, A, B),
           NEW pairs, Sides(pairs, w, n, h, A, B)
    PROVE  Seating(pairs, Range(w))
  <1>0. Range(w) \subseteq Entry /\ None \notin Range(w) /\ \A i \in 1..n : w[i] \in Range(w)
    BY EntryAssumption DEF Range
  <1>1. \A e \in Range(w) : \E i \in 1..n : e = w[i]
    BY DEF Range
  <1>2. \A i, j \in 1..n : w[i] = w[j] => i = j
    BY DEF IsInjective
  <1>3. \A s \in 1..h : A[s] \in 1..n /\ pairs[s].a = w[A[s]]
    BY DEF Positions, Sides
  <1>4. ASSUME NEW s \in 1..h
        PROVE  /\ pairs[s].a \in Range(w) /\ pairs[s].b \in Range(w) \cup {None}
               /\ pairs[s].a # pairs[s].b
    <2>1. pairs[s].a \in Range(w) /\ A[s] # B[s]
      BY <1>0, <1>3 DEF Positions
    <2>2. CASE B[s] \in 1..n
      <3>1. pairs[s].b = w[B[s]]
        BY <2>2 DEF Sides
      <3> QED
        BY <1>0, <1>2, <1>3, <2>1, <2>2, <3>1
    <2>3. CASE B[s] \notin 1..n
      <3>1. pairs[s].b = None
        BY <2>3 DEF Sides
      <3> QED
        BY <1>0, <2>1, <3>1
    <2> QED
      BY <2>2, <2>3
  <1>5. ASSUME NEW e \in Range(w) PROVE \E s \in 1..h : e \in {pairs[s].a, pairs[s].b}
    <2>1. PICK j \in 1..n : e = w[j]
      BY <1>1
    <2>2. PICK s \in 1..h : A[s] = j \/ B[s] = j
      BY DEF Positions
    <2>3. pairs[s].a = e \/ pairs[s].b = e
      BY <2>1, <2>2 DEF Sides
    <2> QED
      BY <2>3
  <1>6. ASSUME NEW e \in Range(w), NEW s \in 1..h, e \in {pairs[s].a, pairs[s].b}
        PROVE  \E i \in 1..n : e = w[i] /\ (A[s] = i \/ B[s] = i)
    <2>1. CASE e = pairs[s].a
      BY <1>3, <2>1
    <2>2. CASE e = pairs[s].b
      <3>1. B[s] \in 1..n
        BY <1>0, <2>2 DEF Sides
      <3>2. e = w[B[s]]
        BY <2>2, <3>1 DEF Sides
      <3> QED
        BY <3>1, <3>2
    <2> QED
      BY <1>6, <2>1, <2>2
  <1>7. ASSUME NEW e \in Range(w), NEW s \in 1..h, NEW t \in 1..h,
               e \in {pairs[s].a, pairs[s].b}, e \in {pairs[t].a, pairs[t].b}
        PROVE  s = t
    <2>1. PICK i \in 1..n : e = w[i] /\ (A[s] = i \/ B[s] = i)
      BY <1>6, <1>7
    <2>2. PICK j \in 1..n : e = w[j] /\ (A[t] = j \/ B[t] = j)
      BY <1>6, <1>7
    <2>3. i = j
      BY <1>2, <2>1, <2>2
    <2> QED
      BY <2>1, <2>2, <2>3 DEF Positions
  <1>8. DOMAIN pairs = 1..h
    BY DEF Sides
  <1> QED
    BY <1>4, <1>5, <1>7, <1>8 DEF Seating

\* In the order of the table: the first against the second.
LEMMA SequentialSeats ==
    ASSUME NEW n \in Nat, NEW w \in [1..n -> Entry], IsInjective(w)
    PROVE  Seating(SequentialPairs(w), Range(w))
  <1> DEFINE h == (n + 1) \div 2
             pairs == SequentialPairs(w)
  <1>1. h \in Nat /\ DOMAIN pairs = 1..h
    BY SequentialPairsAre
  <1>2. \A s \in 1..h : pairs[s] = [a |-> w[2 * s - 1], b |-> IF 2 * s <= n THEN w[2 * s] ELSE None]
    BY SequentialPairsAre
  <1>3. \A s \in 1..h : 2 * s - 1 \in 1..n
    BY SequentialPairsAre
  <1>4. \A j \in 1..n : (j + 1) \div 2 \in 1..h
                      /\ (2 * ((j + 1) \div 2) - 1 = j \/ 2 * ((j + 1) \div 2) = j)
    OBVIOUS
  <1> HIDE DEF h, pairs
  <1> DEFINE A == [s \in 1..h |-> 2 * s - 1]
             B == [s \in 1..h |-> 2 * s]
  <1>5. \A s \in 1..h : A[s] = 2 * s - 1 /\ B[s] = 2 * s
    OBVIOUS
  <1> HIDE DEF A, B
  <1>6. Positions(n, h, A, B)
    <2>1. \A s \in 1..h : A[s] \in 1..n
      BY <1>3, <1>5
    <2>2. \A s, t \in 1..h : (A[s] = A[t] => s = t) /\ (B[s] = B[t] => s = t) /\ A[s] # B[t]
      BY <1>1, <1>5
    <2>3. \A j \in 1..n : \E s \in 1..h : A[s] = j \/ B[s] = j
      BY <1>4, <1>5
    <2> QED
      BY <2>1, <2>2, <2>3 DEF Positions
  <1>7. Sides(pairs, w, n, h, A, B)
    <2>1. ASSUME NEW s \in 1..h
          PROVE  /\ pairs[s].a = w[A[s]]
                 /\ B[s] \in 1..n => pairs[s].b = w[B[s]]
                 /\ B[s] \notin 1..n => pairs[s].b = None
      <3>1. pairs[s] = [a |-> w[A[s]], b |-> IF B[s] <= n THEN w[B[s]] ELSE None]
        BY <1>2, <1>5
      <3>2. B[s] \in Nat \ {0}
        BY <1>1, <1>5
      <3> QED
        BY <3>1, <3>2
    <2> QED
      BY <1>1, <2>1 DEF Sides
  <1> QED
    BY <1>1, <1>6, <1>7, PositionsSeat DEF pairs

\* The first against the last of a power of two.
LEMMA MirrorSeats ==
    ASSUME NEW n \in Nat, n >= 2, NEW w \in [1..n -> Entry], IsInjective(w), rule.crossing # "sequencial"
    PROVE  Seating(SeedPairs(w), Range(w))
  <1>1. PICK h \in Nat : PowerAbove(n) = 2 * h /\ PowerAbove(n) \div 2 = h /\ 1 <= h /\ h < n /\ n <= 2 * h
    BY PowerAboveIs
  <1> DEFINE pairs == SeedPairs(w)
  <1>2. Half(n) = h
    BY <1>1 DEF Half
  <1>3. \A s \in 1..Half(n) : pairs[s] = [a |-> w[s], b |-> IF PowerAbove(n) + 1 - s <= n
                                                          THEN w[PowerAbove(n) + 1 - s] ELSE None]
    BY SeedPairsMirror
  <1>4. DOMAIN pairs = 1..Half(n)
    BY SeedPairsDomain
  <1> HIDE DEF pairs
  <1> DEFINE A == [s \in 1..h |-> s]
             B == [s \in 1..h |-> 2 * h + 1 - s]
  <1>5. \A s \in 1..h : A[s] = s /\ B[s] = 2 * h + 1 - s
    OBVIOUS
  <1> HIDE DEF A, B
  <1>6. Positions(n, h, A, B)
    <2>1. \A s \in 1..h : A[s] \in 1..n
      BY <1>1, <1>5
    <2>2. \A s, t \in 1..h : (A[s] = A[t] => s = t) /\ (B[s] = B[t] => s = t) /\ A[s] # B[t]
      BY <1>5
    <2>3. ASSUME NEW j \in 1..n PROVE \E s \in 1..h : A[s] = j \/ B[s] = j
      <3>1. CASE j <= h
        <4>1. j \in 1..h
          BY <3>1
        <4> QED
          BY <1>5, <4>1
      <3>2. CASE j > h
        <4>1. 2 * h + 1 - j \in 1..h /\ 2 * h + 1 - (2 * h + 1 - j) = j
          BY <1>1, <3>2
        <4> QED
          BY <1>5, <4>1
      <3> QED
        BY <3>1, <3>2
    <2> QED
      BY <2>1, <2>2, <2>3 DEF Positions
  <1>7. Sides(pairs, w, n, h, A, B)
    <2>1. ASSUME NEW s \in 1..h
          PROVE  /\ pairs[s].a = w[A[s]]
                 /\ B[s] \in 1..n => pairs[s].b = w[B[s]]
                 /\ B[s] \notin 1..n => pairs[s].b = None
      <3>1. pairs[s] = [a |-> w[A[s]], b |-> IF B[s] <= n THEN w[B[s]] ELSE None]
        BY <1>1, <1>2, <1>3, <1>5
      <3>2. B[s] \in Nat \ {0}
        BY <1>5
      <3> QED
        BY <3>1, <3>2
    <2> QED
      BY <1>2, <1>4, <2>1 DEF Sides
  <1> QED
    BY <1>6, <1>7, PositionsSeat DEF pairs

LEMMA SeedingSeats ==
    ASSUME NEW n \in Nat, n >= 2, NEW w \in [1..n -> Entry], IsInjective(w)
    PROVE  Seating(SeedPairs(w), Range(w))
  <1>1. Len(w) = n
    BY ListOf
  <1>2. CASE rule.crossing = "sequencial"
    <2>1. SeedPairs(w) = SequentialPairs(w)
      BY <1>1, <1>2 DEF SeedPairs
    <2> QED
      BY <2>1, SequentialSeats
  <1>3. CASE rule.crossing # "sequencial"
    BY <1>3, MirrorSeats
  <1> QED
    BY <1>2, <1>3

\* The matches and the byes of a first round made of a seating.
LEMMA SeatsOfSeating ==
    ASSUME TypeInv, NEW pairs, NEW S, S \subseteq Entry, Seating(pairs, S), Seeded(Category, pairs),
           NEW e \in Entry
    PROVE  Cardinality(Seats(1, e)) = IF e \in S THEN 1 ELSE 0
  <1>1. /\ RoundOf(matches, 1) = {<<1, s>> : s \in FullSlots(pairs)}
        /\ \A p \in RoundOf(matches, 1) : pairs[p[2]] = [a |-> matches[p].a, b |-> matches[p].b]
        /\ {bye \in byes : bye.round = 1} =
              {[round |-> 1, slot |-> s, entry |-> pairs[s].a] : s \in {i \in DOMAIN pairs : pairs[i].b = None}}
    BY DEF Seeded, Category, ByesAt, ByesOf
  <1>2. \A s \in FullSlots(pairs) : /\ <<1, s>> \in RoundOf(matches, 1)
                                    /\ matches[<<1, s>>].a = pairs[s].a /\ matches[<<1, s>>].b = pairs[s].b
    <2> TAKE s \in FullSlots(pairs)
    <2>1. <<1, s>> \in RoundOf(matches, 1) /\ <<1, s>>[2] = s
      BY <1>1
    <2>2. pairs[s] = [a |-> matches[<<1, s>>].a, b |-> matches[<<1, s>>].b]
      BY <1>1, <2>1
    <2> QED
      BY <2>1, <2>2
  <1>3. e # None
    BY EntryAssumption
  <1> DEFINE seat(s) == IF pairs[s].b = None THEN [round |-> 1, slot |-> s, entry |-> pairs[s].a]
                        ELSE <<1, s>>
             in(s) == e \in {pairs[s].a, pairs[s].b}
  <1>4. \A s \in DOMAIN pairs : in(s) => seat(s) \in Seats(1, e)
    <2> SUFFICES ASSUME NEW s \in DOMAIN pairs, in(s) PROVE seat(s) \in Seats(1, e)
      OBVIOUS
    <2>1. CASE pairs[s].b = None
      <3>1. [round |-> 1, slot |-> s, entry |-> pairs[s].a] \in {bye \in byes : bye.round = 1}
        BY <1>1, <2>1
      <3>2. pairs[s].a = e
        BY <1>3, <2>1
      <3> QED
        BY <2>1, <3>1, <3>2 DEF Seats
    <2>2. CASE pairs[s].b # None
      BY <1>2, <2>2 DEF Seats, FullSlots
    <2> QED
      BY <2>1, <2>2
  <1>5. ASSUME NEW x \in Seats(1, e) PROVE \E s \in DOMAIN pairs : in(s) /\ x = seat(s)
    <2>1. CASE x \in {p \in RoundOf(matches, 1) : e \in {matches[p].a, matches[p].b}}
      <3>1. PICK s \in FullSlots(pairs) : x = <<1, s>>
        BY <1>1, <2>1
      <3>2. in(s) /\ s \in DOMAIN pairs /\ pairs[s].b # None
        BY <1>2, <2>1, <3>1 DEF FullSlots
      <3> QED
        BY <3>1, <3>2
    <2>2. CASE x \in {bye \in byes : bye.round = 1 /\ bye.entry = e}
      <3>1. x \in {bye \in byes : bye.round = 1} /\ x.entry = e
        BY <2>2
      <3>2. PICK s \in DOMAIN pairs : pairs[s].b = None /\ x = [round |-> 1, slot |-> s, entry |-> pairs[s].a]
        BY <1>1, <3>1
      <3>3. in(s)
        BY <3>1, <3>2
      <3> QED
        BY <3>2, <3>3
    <2> QED
      BY <2>1, <2>2 DEF Seats
  <1> HIDE DEF seat
  <1>6. CASE e \in S
    <2>1. PICK s \in DOMAIN pairs : in(s)
      BY <1>6 DEF Seating
    <2>2. \A t \in DOMAIN pairs : in(t) => t = s
      BY <1>6, <2>1 DEF Seating
    <2>3. Seats(1, e) = {seat(s)}
      BY <1>4, <1>5, <2>1, <2>2
    <2> QED
      BY <1>6, <2>3, FS_Singleton
  <1>7. CASE e \notin S
    <2>1. \A s \in DOMAIN pairs : ~in(s)
      BY <1>3, <1>7 DEF Seating
    <2>2. Seats(1, e) = {}
      BY <1>5, <2>1
    <2> QED
      BY <1>7, <2>2, FS_EmptySet
  <1> QED
    BY <1>6, <1>7

\* The seeding of the present table seats the entries it qualifies.
LEMMA QualifiedSeating ==
    ASSUME TypeInv, SeededFirst(Category), RoundOf(matches, 1) # {}
    PROVE  /\ Seeded(Category, SeedPairs(Seeds(Category)))
           /\ Seating(SeedPairs(Seeds(Category)), Qualified)
           /\ Qualified \subseteq Entry
  <1> DEFINE n == rule.qualifiers
             w == Seeds(Category)
             pairs == SeedPairs(w)
  <1>1. Category.matches = matches /\ Category.table = table
    BY DEF Category
  <1>2. Seeded(Category, pairs)
    BY <1>1 DEF SeededFirst
  <1>3. n \in Nat /\ w \in [1..n -> Entry] /\ \A i, j \in 1..n : w[i] = w[j] => i = j
    BY <1>1, SeedsAre DEF TypeInv, TypeOK
  <1>4. Range(w) = Qualified
    BY <1>1 DEF Qualified, Seeds
  <1> HIDE DEF n, w
  <1>5. DOMAIN pairs # {}
    BY <1>1, <1>2 DEF Seeded, FullSlots
  <1>6. n >= 2
    <2>1. Len(w) = n
      BY <1>3, ListOf
    <2>2. n < 2 => pairs = << >>
      BY <2>1 DEF SeedPairs
    <2> QED
      BY <1>3, <1>5, <2>2
  <1>7. Seating(pairs, Range(w))
    <2>1. IsInjective(w)
      BY <1>3 DEF IsInjective
    <2> QED
      BY <1>3, <1>6, <2>1, SeedingSeats
  <1>8. Range(w) \subseteq Entry
    BY <1>3 DEF Range
  <1> QED
    BY <1>2, <1>4, <1>7, <1>8 DEF w

LEMMA SeatedOnce == BracketInv /\ SeededInv => SeededOnce
  <1> SUFFICES ASSUME BracketInv, SeededInv, published = NoKey, 1 \in Rounds, ~deleted, NEW e \in Entry
               PROVE  Cardinality(Seats(1, e)) = IF e \in Qualified THEN 1 ELSE 0
    BY DEF SeededOnce
  <1>1. TypeInv /\ SeededFirst(Category)
    BY DEF BracketInv, SeededInv, SeededKey
  <1>2. RoundOf(matches, 1) # {}
    BY DEF Rounds, RoundsOf, RoundOf
  <1> QED
    BY <1>1, <1>2, QualifiedSeating, SeatsOfSeating

\* A seeded key seats every qualified entry exactly once in its first round, on a match or
\* on a bye, for any number of them and either crossing.
THEOREM SeededOnceHolds == Spec => []SeededOnce
  <1>1. Init => BracketInv /\ SeededInv
    BY KeyInit, SeededInit
  <1>2. (BracketInv /\ SeededInv) /\ [Next]_vars => (BracketInv /\ SeededInv)'
    BY KeyNext, SeededNext
  <1>3. BracketInv /\ SeededInv => SeededOnce
    BY SeatedOnce
  <1> QED
    BY <1>1, <1>2, <1>3, PTL DEF Spec
-----------------------------------------------------------------------------
(* Who plays in the rounds of a key                                        *)

\* e is of the slot s of round r; of some slot of it; passes from it to the next round.
Sits(c, r, s, e) ==
    IF <<r, s>> \in DOMAIN c.matches THEN e \in {c.matches[<<r, s>>].a, c.matches[<<r, s>>].b}
    ELSE e = (CHOOSE bye \in ByesAt(c, r) : bye.slot = s).entry
In(c, r, e) == \E s \in Slots(c, r) : Sits(c, r, s, e)
Goes(c, r, e) == \E s \in Slots(c, r) : e = Passing(c, r, s)

\* No entry has two seats in the round, neither in two slots nor in one match.
OneSeat(c, r) ==
    /\ \A e \in Entry : \A s, t \in Slots(c, r) : Sits(c, r, s, e) /\ Sits(c, r, t, e) => s = t
    /\ \A p \in RoundOf(c.matches, r) : c.matches[p].a # c.matches[p].b

\* What is known of the rounds of a category that is over.
Played(c, r, n) ==
    /\ Typed(c) /\ KSound(c) /\ AllKnown(c)
    /\ r \in Nat \ {0} /\ n \in Nat /\ Settled(c, r) /\ Slots(c, r) = 1..n

LEMMA PlaceOfRound ==
    ASSUME NEW c, Typed(c), NEW r, NEW p \in RoundOf(c.matches, r)
    PROVE  p = <<r, p[2]>> /\ p[2] \in Slots(c, r) /\ p \in DOMAIN c.matches /\ p[1] = r
  <1>1. p \in DOMAIN c.matches /\ p[1] = r /\ p \in Place
    BY DEF RoundOf, Typed
  <1>2. p = <<p[1], p[2]>>
    BY <1>1, PlaceIs
  <1> QED
    BY <1>1, <1>2 DEF Slots

LEMMA SlotOfRound ==
    ASSUME NEW c, Typed(c), NEW r, NEW s \in Slots(c, r), <<r, s>> \notin DOMAIN c.matches
    PROVE  \E bye \in ByesAt(c, r) : /\ bye = (CHOOSE x \in ByesAt(c, r) : x.slot = s)
                                     /\ bye.slot = s /\ bye.entry \in Entry
  <1>1. \A p \in RoundOf(c.matches, r) : p[2] # s
    BY PlaceOfRound
  <1>2. PICK bye \in ByesAt(c, r) : bye.slot = s
    BY <1>1 DEF Slots
  <1> DEFINE b == CHOOSE x \in ByesAt(c, r) : x.slot = s
  <1>3. b \in ByesAt(c, r) /\ b.slot = s
    BY <1>2
  <1> HIDE DEF b
  <1>4. b.entry \in Entry
    BY <1>3 DEF ByesAt, Typed, ByeRow
  <1> QED
    BY <1>3, <1>4 DEF b

LEMMA MatchOfRound ==
    ASSUME NEW c, NEW r, NEW n, Played(c, r, n), NEW p \in RoundOf(c.matches, r)
    PROVE  /\ c.matches[p].a \in Entry /\ c.matches[p].b \in Entry
           /\ c.matches[p].winner \in {c.matches[p].a, c.matches[p].b}
           /\ Official(c.matches[p]) /\ c.matches[p].winner # None
  <1>1. p \in DOMAIN c.matches /\ p = <<r, p[2]>> /\ p[2] \in 1..n
    BY PlaceOfRound DEF Played
  <1>2. Passing(c, r, p[2]) # None /\ Official(c.matches[p])
    BY <1>1, RowSettled DEF Played
  <1>3. c.matches[p].winner # None
    BY <1>1, <1>2 DEF Passing
  <1>4. c.matches[p] \in Match /\ Known(c.matches[p]) /\ Sound(c.matches[p])
    BY <1>1 DEF Played, Typed, AllKnown, KSound
  <1> QED
    BY <1>2, <1>3, <1>4 DEF Match, Side, Known, Sound

\* Who passes from a slot was in it.
LEMMA PassingSits ==
    ASSUME NEW c, NEW r, NEW n, Played(c, r, n), NEW s \in Slots(c, r)
    PROVE  Passing(c, r, s) \in Entry /\ Sits(c, r, s, Passing(c, r, s))
  <1>1. CASE <<r, s>> \in DOMAIN c.matches
    <2>1. <<r, s>> \in RoundOf(c.matches, r)
      BY <1>1 DEF RoundOf
    <2> QED
      BY <1>1, <2>1, MatchOfRound DEF Passing, Sits
  <1>2. CASE <<r, s>> \notin DOMAIN c.matches
    <2>1. Typed(c)
      BY DEF Played
    <2>2. PICK bye \in ByesAt(c, r) : /\ bye = (CHOOSE x \in ByesAt(c, r) : x.slot = s)
                                      /\ bye.slot = s /\ bye.entry \in Entry
      BY <1>2, <2>1, SlotOfRound
    <2> QED
      BY <1>2, <2>2 DEF Passing, Sits
  <1> QED
    BY <1>1, <1>2

\* Who sits in a round and does not pass from it lost a match of it ...
LEMMA StaysBeaten ==
    ASSUME NEW c, NEW r, NEW n, Played(c, r, n), NEW e \in Entry, In(c, r, e), ~Goes(c, r, e)
    PROVE  \E p \in RoundOf(c.matches, r) : e = Loser(c.matches[p])
  <1>1. PICK s \in Slots(c, r) : Sits(c, r, s, e)
    BY DEF In
  <1>2. e # Passing(c, r, s)
    BY DEF Goes
  <1>3. <<r, s>> \in DOMAIN c.matches
    BY <1>1, <1>2 DEF Sits, Passing
  <1>4. <<r, s>> \in RoundOf(c.matches, r)
    BY <1>3 DEF RoundOf
  <1>5. e = Loser(c.matches[<<r, s>>])
    <2>1. c.matches[<<r, s>>].winner \in {c.matches[<<r, s>>].a, c.matches[<<r, s>>].b}
      BY <1>4, MatchOfRound
    <2> QED
      BY <1>1, <1>2, <1>3, <2>1 DEF Sits, Passing, Loser
  <1> QED
    BY <1>4, <1>5

\* ... and who lost a match of it does not pass from it.
LEMMA BeatenStays ==
    ASSUME NEW c, NEW r, NEW n, Played(c, r, n), OneSeat(c, r), NEW p \in RoundOf(c.matches, r)
    PROVE  ~Goes(c, r, Loser(c.matches[p]))
  <1> DEFINE m == c.matches[p]
             e == Loser(m)
  <1>1. p = <<r, p[2]>> /\ p[2] \in Slots(c, r) /\ p \in DOMAIN c.matches
    BY PlaceOfRound DEF Played
  <1>2. m.a \in Entry /\ m.b \in Entry /\ m.winner \in {m.a, m.b}
    BY MatchOfRound
  <1>3. m.a # m.b
    BY DEF OneSeat
  <1> HIDE DEF m
  <1>4. e \in {m.a, m.b} /\ e \in Entry /\ e # m.winner
    BY <1>2, <1>3 DEF Loser
  <1> HIDE DEF e
  <1>5. Sits(c, r, p[2], e)
    BY <1>1, <1>4 DEF Sits, m
  <1>6. Passing(c, r, p[2]) = m.winner
    BY <1>1 DEF Passing, m
  <1>7. ASSUME NEW s \in Slots(c, r), e = Passing(c, r, s) PROVE FALSE
    <2>1. Sits(c, r, s, e)
      BY <1>7, PassingSits
    <2>2. s = p[2]
      BY <1>1, <1>4, <1>5, <2>1 DEF OneSeat
    <2> QED
      BY <1>4, <1>6, <1>7, <2>2
  <1> QED
    BY <1>7 DEF Goes, e, m

\* Who sits in a slot of the next round passed from one of its two slots.
LEMMA NextSits ==
    ASSUME NEW c, NEW r, NEW n, Played(c, r, n), Built(c, r), NEW s \in Slots(c, r + 1), NEW e \in Entry
    PROVE  /\ s \in 1..((n + 1) \div 2)
           /\ Sits(c, r + 1, s, e) <=> \E i \in {2 * s - 1, 2 * s} : i \in 1..n /\ e = Passing(c, r, i)
  <1> DEFINE w == Winners(c, r)
             x == Draw(c, r)[s]
  <1>1. s \in 1..((n + 1) \div 2)
    BY DrawDomain DEF Played, Built
  <1>2. x = [a |-> w[2 * s - 1], b |-> IF 2 * s <= n THEN w[2 * s] ELSE None]
    BY <1>1, DrawIs DEF Played
  <1>3. 2 * s - 1 \in 1..n /\ (2 * s <= n <=> 2 * s \in 1..n) /\ s \in Nat \ {0}
    BY <1>1 DEF Played
  <1>4. \A i \in 1..n : w[i] = Passing(c, r, i)
    BY RowWinners DEF Played
  <1>5. e # None
    BY EntryAssumption
  <1> HIDE DEF w
  <1>6. x.a = w[2 * s - 1] /\ (2 * s \in 1..n => x.b = w[2 * s]) /\ (2 * s \notin 1..n => x.b = None)
    <2> HIDE DEF x
    <2> QED
      BY <1>2, <1>3
  <1>7. e \in {x.a, x.b} <=> \E i \in {2 * s - 1, 2 * s} : i \in 1..n /\ e = Passing(c, r, i)
    <2> HIDE DEF x
    <2> QED
      BY <1>3, <1>4, <1>5, <1>6
  <1>8. Sits(c, r + 1, s, e) <=> e \in {x.a, x.b}
    <2>1. CASE <<r + 1, s>> \in DOMAIN c.matches
      <3> DEFINE p == <<r + 1, s>>
      <3>1. p \in RoundOf(c.matches, r + 1) /\ p[2] = s /\ Known(c.matches[p])
        BY <2>1 DEF RoundOf, Played, AllKnown
      <3>2. x = [a |-> c.matches[p].a, b |-> c.matches[p].b]
        BY <3>1 DEF Built, Drawn
      <3>3. x.a = c.matches[p].a /\ x.b = c.matches[p].b
        <4> HIDE DEF x
        <4> QED
          BY <3>2
      <3> QED
        BY <2>1, <3>3 DEF Sits
    <2>2. CASE <<r + 1, s>> \notin DOMAIN c.matches
      <3>1. PICK bye \in ByesAt(c, r + 1) : /\ bye = (CHOOSE y \in ByesAt(c, r + 1) : y.slot = s)
                                            /\ bye.slot = s /\ bye.entry \in Entry
        BY <2>2, SlotOfRound DEF Played
      <3>2. x = [a |-> bye.entry, b |-> None]
        BY <3>1 DEF Built, Drawn
      <3>3. x.a = bye.entry /\ x.b = None
        <4> HIDE DEF x
        <4> QED
          BY <3>2
      <3> QED
        BY <1>5, <2>2, <3>1, <3>3 DEF Sits
    <2> QED
      BY <2>1, <2>2
  <1> HIDE DEF x
  <1> QED
    BY <1>1, <1>7, <1>8

\* Who sits in the next round is who passes from this one.
LEMMA GoesIn ==
    ASSUME NEW c, NEW r, NEW n, Played(c, r, n), Built(c, r), NEW e \in Entry
    PROVE  In(c, r + 1, e) <=> Goes(c, r, e)
  <1>1. ASSUME In(c, r + 1, e) PROVE Goes(c, r, e)
    <2>1. PICK s \in Slots(c, r + 1) : Sits(c, r + 1, s, e)
      BY <1>1 DEF In
    <2>2. PICK i \in 1..n : e = Passing(c, r, i)
      BY <2>1, NextSits
    <2> QED
      BY <2>2 DEF Goes, Played
  <1>2. ASSUME Goes(c, r, e) PROVE In(c, r + 1, e)
    <2>1. PICK i \in 1..n : e = Passing(c, r, i)
      BY <1>2 DEF Goes, Played
    <2> DEFINE s == (i + 1) \div 2
    <2>2. s \in 1..((n + 1) \div 2) /\ i \in {2 * s - 1, 2 * s}
      BY DEF Played
    <2>3. s \in Slots(c, r + 1)
      BY <2>2, DrawDomain DEF Played, Built
    <2> HIDE DEF s
    <2>4. Sits(c, r + 1, s, e)
      BY <2>1, <2>2, <2>3, NextSits
    <2> QED
      BY <2>3, <2>4 DEF In
  <1> QED
    BY <1>1, <1>2

LEMMA NextOneSeat ==
    ASSUME NEW c, NEW r, NEW n, Played(c, r, n), Built(c, r), OneSeat(c, r)
    PROVE  OneSeat(c, r + 1)
  <1>0. n \in Nat /\ Slots(c, r) = 1..n
    BY DEF Played
  <1>1. ASSUME NEW i \in 1..n, NEW j \in 1..n, Passing(c, r, i) = Passing(c, r, j) PROVE i = j
    <2>1. Passing(c, r, i) \in Entry /\ Sits(c, r, i, Passing(c, r, i)) /\ Sits(c, r, j, Passing(c, r, j))
      BY <1>0, PassingSits
    <2> QED
      BY <1>0, <1>1, <2>1 DEF OneSeat
  <1>2. ASSUME NEW e \in Entry, NEW s \in Slots(c, r + 1), NEW t \in Slots(c, r + 1),
               Sits(c, r + 1, s, e), Sits(c, r + 1, t, e)
        PROVE  s = t
    <2>1. PICK i \in {2 * s - 1, 2 * s} : i \in 1..n /\ e = Passing(c, r, i)
      BY <1>2, NextSits
    <2>2. PICK j \in {2 * t - 1, 2 * t} : j \in 1..n /\ e = Passing(c, r, j)
      BY <1>2, NextSits
    <2>3. i = j
      BY <1>1, <2>1, <2>2
    <2>4. s \in 1..((n + 1) \div 2) /\ t \in 1..((n + 1) \div 2)
      BY NextSits
    <2>5. s \in Nat /\ t \in Nat
      BY <1>0, <2>4
    <2> QED
      BY <2>1, <2>2, <2>3, <2>5
  <1>3. ASSUME NEW p \in RoundOf(c.matches, r + 1) PROVE c.matches[p].a # c.matches[p].b
    <2> DEFINE s == p[2]
    <2>1. Typed(c)
      BY DEF Played
    <2>2. p = <<r + 1, s>> /\ s \in Slots(c, r + 1) /\ p \in DOMAIN c.matches
      BY <2>1, PlaceOfRound
    <2> HIDE DEF s
    <2>3. Known(c.matches[p])
      BY <2>2 DEF Played, AllKnown
    <2>4. s \in 1..((n + 1) \div 2) /\ s \in DOMAIN Draw(c, r)
      BY <1>0, <2>1, <2>2, DrawDomain DEF Built
    <2>5. Draw(c, r)[s] = [a |-> c.matches[p].a, b |-> c.matches[p].b]
      BY <2>2, <2>3 DEF Built, Drawn, s
    <2>6. Draw(c, r)[s] = [a |-> Winners(c, r)[2 * s - 1],
                           b |-> IF 2 * s <= n THEN Winners(c, r)[2 * s] ELSE None]
      BY <1>0, <2>1, <2>4, DrawIs
    <2>7. c.matches[p].a = Winners(c, r)[2 * s - 1]
          /\ c.matches[p].b = IF 2 * s <= n THEN Winners(c, r)[2 * s] ELSE None
      BY <2>5, <2>6
    <2>8. c.matches[p].b # None
      BY <2>3 DEF Known
    <2>9. 2 * s <= n /\ c.matches[p].b = Winners(c, r)[2 * s]
      BY <2>7, <2>8
    <2>10. 2 * s - 1 \in 1..n /\ 2 * s \in 1..n /\ 2 * s - 1 # 2 * s
      BY <1>0, <2>4, <2>9
    <2>11. \A i \in 1..n : Winners(c, r)[i] = Passing(c, r, i)
      BY <1>0, <2>1, RowWinners
    <2> QED
      BY <1>1, <2>7, <2>9, <2>10, <2>11
  <1> QED
    BY <1>2, <1>3 DEF OneSeat
-----------------------------------------------------------------------------
(* Who is left when a category is over                                     *)

\* The rounds 1 to m are all there is, each was played, and all but the first were built.
OverIn(c, m) ==
    /\ m \in Nat \ {0} /\ RoundOf(c.matches, 1) # {} /\ Slots(c, m) = 1..1
    /\ \A r \in 1..m : (\E n : Played(c, r, n)) /\ (r < m => Built(c, r))
    /\ \A p \in (DOMAIN c.matches) \ {Third} : p[1] \in 1..m /\ p \in RoundOf(c.matches, p[1])

LEMMA OverRounds ==
    ASSUME NEW c, Typed(c), NEW h, KeyInv(c, h), AllKnown(c), Over(c)
    PROVE  \E m : OverIn(c, m)
  <1> DEFINE S == RoundsOf(c.matches)
             m == Max(S)
  <1>1. S \subseteq Nat \ {0} /\ S # {}
    BY RoundsTyped DEF Over
  <1>2. PICK k \in Nat : \A p \in DOMAIN c.matches : p[1] <= k
    BY DEF Typed, Bounded
  <1>3. \A r \in S : r <= k
    BY <1>2 DEF RoundsOf
  <1>4. m \in S /\ \A r \in S : r <= m
    <2> HIDE DEF S
    <2> QED
      BY <1>1, <1>2, <1>3, GreatestExists
  <1>5. Settled(c, m) /\ Len(Winners(c, m)) = 1
    BY DEF Over
  <1> HIDE DEF m
  <1>6. m \in Nat \ {0} /\ RoundOf(c.matches, m) # {}
    BY <1>1, <1>4, RoundIn
  <1>7. ASSUME NEW r \in 1..m PROVE RoundOf(c.matches, r) # {}
    <2>1. r \in Nat \ {0} /\ m >= r
      BY <1>6
    <2> QED
      BY <1>6, <2>1, NoneAbove DEF KeyInv
  <1>8. ASSUME NEW r \in 1..m PROVE \E n : Played(c, r, n)
    <2>1. r \in Nat \ {0} /\ RoundOf(c.matches, r) # {}
      BY <1>6, <1>7
    <2>2. Settled(c, r)
      BY <2>1, OverSettled
    <2>3. InRow(Slots(c, r))
      BY <2>1, KnownReached, RowOfSlots
    <2> QED
      BY <2>1, <2>2, <2>3 DEF InRow, Played, KeyInv
  <1>9. ASSUME NEW r \in 1..m, r < m PROVE Built(c, r)
    <2>1. r \in Nat \ {0} /\ r + 1 \in 1..m
      BY <1>6, <1>9
    <2>2. Reached(c, r + 1)
      BY <1>7, <2>1, KnownReached
    <2> QED
      BY <2>1, <2>2 DEF KeyInv, KBuilt
  <1>10. Slots(c, m) = 1..1
    <2>1. m \in 1..m
      BY <1>6
    <2>2. PICK n : Played(c, m, n)
      BY <1>8, <2>1
    <2>3. n \in Nat /\ Slots(c, m) = 1..n
      BY <2>2 DEF Played
    <2>4. n = 1
      BY <1>5, <2>3, RowWinners
    <2> QED
      BY <2>3, <2>4
  <1>11. ASSUME NEW p \in (DOMAIN c.matches) \ {Third}
         PROVE  p[1] \in 1..m /\ p \in RoundOf(c.matches, p[1])
    <2>1. p[1] \in S
      BY DEF RoundsOf
    <2>2. p[1] \in Nat \ {0} /\ p[1] <= m
      BY <1>1, <1>4, <2>1
    <2> QED
      BY <1>6, <2>2 DEF RoundOf
  <1>12. RoundOf(c.matches, 1) # {}
    <2>1. 1 \in 1..m
      BY <1>6
    <2> QED
      BY <1>7, <2>1
  <1> QED
    BY <1>6, <1>8, <1>9, <1>10, <1>11, <1>12 DEF OverIn

\* Who passes from a round sat in it.
LEMMA GoesWasIn ==
    ASSUME NEW c, NEW r, NEW n, Played(c, r, n), NEW e, Goes(c, r, e)
    PROVE  e \in Entry /\ In(c, r, e)
  <1>1. PICK s \in Slots(c, r) : e = Passing(c, r, s)
    BY DEF Goes
  <1>2. Passing(c, r, s) \in Entry /\ Sits(c, r, s, Passing(c, r, s))
    BY <1>1, PassingSits
  <1> QED
    BY <1>1, <1>2 DEF In

LEMMA OneSeatAll ==
    ASSUME NEW c, NEW m, OverIn(c, m), OneSeat(c, 1)
    PROVE  \A r \in 1..m : OneSeat(c, r)
  <1> DEFINE T == {i \in Nat : i + 1 \in 1..m => OneSeat(c, i + 1)}
  <1>0. m \in Nat \ {0}
    BY DEF OverIn
  <1>1. 0 \in T
    OBVIOUS
  <1>2. ASSUME NEW i \in Nat, i \in T PROVE i + 1 \in T
    <2> SUFFICES ASSUME (i + 1) + 1 \in 1..m PROVE OneSeat(c, (i + 1) + 1)
      OBVIOUS
    <2>1. i + 1 \in 1..m /\ i + 1 < m
      BY <1>0
    <2>2. OneSeat(c, i + 1)
      BY <1>2, <2>1
    <2>3. PICK n : Played(c, i + 1, n)
      BY <2>1 DEF OverIn
    <2>4. Built(c, i + 1)
      BY <2>1 DEF OverIn
    <2> QED
      BY <2>2, <2>3, <2>4, NextOneSeat
  <1>3. \A i \in Nat : i \in T
    <2> HIDE DEF T
    <2> QED
      BY <1>1, <1>2, NatSet
  <1> SUFFICES ASSUME NEW r \in 1..m PROVE OneSeat(c, r)
    OBVIOUS
  <1>4. r - 1 \in Nat /\ (r - 1) + 1 = r
    BY <1>0
  <1> QED
    BY <1>3, <1>4

\* Who passes from a round passed from all before it.
LEMMA GoesDown ==
    ASSUME NEW c, NEW m, OverIn(c, m), NEW r \in 1..m, NEW e
    PROVE  \A k \in r..m : Goes(c, k, e) => Goes(c, r, e)
  <1> DEFINE T == {i \in Nat : r + i \in 1..m /\ Goes(c, r + i, e) => Goes(c, r, e)}
  <1>0. m \in Nat \ {0} /\ r \in Nat \ {0}
    BY DEF OverIn
  <1>1. 0 \in T
    <2>1. r + 0 = r
      BY <1>0
    <2> QED
      BY <2>1
  <1>2. ASSUME NEW i \in Nat, i \in T PROVE i + 1 \in T
    <2> DEFINE k == r + i
    <2> SUFFICES ASSUME k + 1 \in 1..m, Goes(c, k + 1, e) PROVE Goes(c, r, e)
      <3>1. r + (i + 1) = k + 1
        BY <1>0
      <3> QED
        BY <3>1
    <2>1. k \in 1..m /\ k < m
      BY <1>0
    <2> HIDE DEF k
    <2>2. PICK n : Played(c, k, n)
      BY <2>1 DEF OverIn
    <2>3. PICK j : Played(c, k + 1, j)
      BY DEF OverIn
    <2>4. Built(c, k)
      BY <2>1 DEF OverIn
    <2>5. e \in Entry /\ In(c, k + 1, e)
      BY <2>3, GoesWasIn
    <2>6. Goes(c, k, e)
      BY <2>2, <2>4, <2>5, GoesIn
    <2> QED
      BY <1>2, <2>1, <2>6 DEF k
  <1>3. \A i \in Nat : i \in T
    <2> HIDE DEF T
    <2> QED
      BY <1>1, <1>2, NatSet
  <1> SUFFICES ASSUME NEW k \in r..m, Goes(c, k, e) PROVE Goes(c, r, e)
    OBVIOUS
  <1>4. k - r \in Nat /\ r + (k - r) = k /\ k \in 1..m
    BY <1>0
  <1>5. k - r \in T
    BY <1>3, <1>4
  <1> QED
    BY <1>4, <1>5

\* p shows that e lost.
Lost(c, p, e) == Official(c.matches[p]) /\ c.matches[p].winner # None /\ e = Loser(c.matches[p])

\* Of the entries of the first round one has not lost a match: who won the last one.
LEMMA LastStanding ==
    ASSUME NEW c, NEW m, OverIn(c, m), OneSeat(c, 1), NEW S, S \subseteq Entry,
           \A e \in Entry : In(c, 1, e) <=> e \in S
    PROVE  \E x \in S : \A e \in S : e = x <=> ~(\E p \in (DOMAIN c.matches) \ {Third} : Lost(c, p, e))
  <1> DEFINE x == Passing(c, m, 1)
  <1>1. m \in Nat \ {0} /\ m \in 1..m /\ 1 \in 1..m /\ Slots(c, m) = 1..1
    BY DEF OverIn
  <1>2. \A e : Goes(c, m, e) <=> e = x
    BY <1>1 DEF Goes
  <1> HIDE DEF x
  <1>3. \A r \in 1..m : Goes(c, r, x)
    <2> TAKE r \in 1..m
    <2>1. m \in r..m
      BY <1>1
    <2> QED
      BY <1>2, <2>1, GoesDown
  <1>4. x \in S
    <2>1. PICK n : Played(c, 1, n)
      BY <1>1 DEF OverIn
    <2>2. Goes(c, 1, x)
      BY <1>1, <1>3
    <2>3. x \in Entry /\ In(c, 1, x)
      BY <2>1, <2>2, GoesWasIn
    <2> QED
      BY <2>3
  <1>5. ASSUME NEW p \in (DOMAIN c.matches) \ {Third}, Lost(c, p, x) PROVE FALSE
    <2> DEFINE r == p[1]
    <2>1. r \in 1..m /\ p \in RoundOf(c.matches, r)
      BY DEF OverIn
    <2> HIDE DEF r
    <2>2. PICK n : Played(c, r, n)
      BY <2>1 DEF OverIn
    <2>3. OneSeat(c, r)
      BY <2>1, OneSeatAll
    <2>4. ~Goes(c, r, Loser(c.matches[p]))
      BY <2>1, <2>2, <2>3, BeatenStays
    <2> QED
      BY <1>3, <1>5, <2>1, <2>4 DEF Lost
  <1>6. ASSUME NEW e \in S, e # x PROVE \E p \in (DOMAIN c.matches) \ {Third} : Lost(c, p, e)
    <2> DEFINE D == {r \in 1..m : ~Goes(c, r, e)}
    <2>1. m \in D /\ D \subseteq Nat
      BY <1>1, <1>2, <1>6
    <2>2. PICK r \in D : \A k \in D : r <= k
      <3> HIDE DEF D
      <3> QED
        BY <2>1, LeastExists
    <2>3. r \in 1..m /\ ~Goes(c, r, e) /\ e \in Entry /\ r \in Nat \ {0}
      BY <1>1, <2>2
    <2>4. In(c, r, e)
      <3>1. CASE r = 1
        BY <2>3, <3>1
      <3>2. CASE r # 1
        <4>1. r - 1 \in 1..m /\ r - 1 < m /\ (r - 1) + 1 = r /\ ~(r <= r - 1)
          BY <1>1, <2>3, <3>2
        <4>2. Goes(c, r - 1, e)
          BY <2>2, <4>1
        <4>3. PICK n : Played(c, r - 1, n)
          BY <4>1 DEF OverIn
        <4>4. Built(c, r - 1)
          BY <4>1 DEF OverIn
        <4>5. In(c, (r - 1) + 1, e)
          BY <2>3, <4>2, <4>3, <4>4, GoesIn
        <4> QED
          BY <4>1, <4>5
      <3> QED
        BY <3>1, <3>2
    <2>5. PICK n : Played(c, r, n)
      BY <2>3 DEF OverIn
    <2>6. PICK p \in RoundOf(c.matches, r) : e = Loser(c.matches[p])
      BY <2>3, <2>4, <2>5, StaysBeaten
    <2>7. Official(c.matches[p]) /\ c.matches[p].winner # None
      BY <2>5, MatchOfRound
    <2>8. p \in (DOMAIN c.matches) \ {Third}
      BY <2>3 DEF RoundOf, Third
    <2> QED
      BY <2>6, <2>7, <2>8 DEF Lost
  <1> QED
    BY <1>4, <1>5, <1>6

\* The seats of a first round made of a seating.
LEMMA FirstSits ==
    ASSUME NEW c, Typed(c), NEW pairs, Seeded(c, pairs)
    PROVE  /\ Slots(c, 1) = DOMAIN pairs
           /\ \A s \in DOMAIN pairs, e \in Entry : Sits(c, 1, s, e) <=> e \in {pairs[s].a, pairs[s].b}
           /\ \A p \in RoundOf(c.matches, 1) : /\ p[2] \in DOMAIN pairs
                                               /\ c.matches[p].a = pairs[p[2]].a
                                               /\ c.matches[p].b = pairs[p[2]].b
  <1>1. /\ RoundOf(c.matches, 1) = {<<1, s>> : s \in FullSlots(pairs)}
        /\ \A p \in RoundOf(c.matches, 1) : pairs[p[2]] = [a |-> c.matches[p].a, b |-> c.matches[p].b]
        /\ ByesAt(c, 1) = {[round |-> 1, slot |-> s, entry |-> pairs[s].a] :
                              s \in {i \in DOMAIN pairs : pairs[i].b = None}}
    BY DEF Seeded, ByesOf
  <1>2. ASSUME NEW p \in RoundOf(c.matches, 1)
        PROVE  /\ p[2] \in FullSlots(pairs) /\ p = <<1, p[2]>>
               /\ c.matches[p].a = pairs[p[2]].a /\ c.matches[p].b = pairs[p[2]].b
    <2>1. PICK s \in FullSlots(pairs) : p = <<1, s>>
      BY <1>1
    <2>2. pairs[p[2]] = [a |-> c.matches[p].a, b |-> c.matches[p].b]
      BY <1>1
    <2> QED
      BY <2>1, <2>2
  <1>3. ASSUME NEW bye \in ByesAt(c, 1)
        PROVE  /\ bye.slot \in DOMAIN pairs /\ pairs[bye.slot].b = None
               /\ bye.entry = pairs[bye.slot].a
    <2>1. PICK s \in {i \in DOMAIN pairs : pairs[i].b = None} :
              bye = [round |-> 1, slot |-> s, entry |-> pairs[s].a]
      BY <1>1
    <2> QED
      BY <2>1
  <1>4. ASSUME NEW s \in FullSlots(pairs) PROVE <<1, s>> \in RoundOf(c.matches, 1) /\ <<1, s>>[2] = s
    BY <1>1
  <1>5. ASSUME NEW s \in DOMAIN pairs, pairs[s].b = None
        PROVE  \E bye \in ByesAt(c, 1) : bye.slot = s
    <2>1. [round |-> 1, slot |-> s, entry |-> pairs[s].a] \in ByesAt(c, 1)
      BY <1>1, <1>5
    <2> QED
      BY <2>1
  <1>6. Slots(c, 1) = DOMAIN pairs
    <2>1. ASSUME NEW s \in Slots(c, 1) PROVE s \in DOMAIN pairs
      BY <1>2, <1>3 DEF Slots, FullSlots
    <2>2. ASSUME NEW s \in DOMAIN pairs PROVE s \in Slots(c, 1)
      <3>1. CASE pairs[s].b = None
        BY <1>5, <3>1 DEF Slots
      <3>2. CASE pairs[s].b # None
        BY <1>4, <3>2 DEF Slots, FullSlots
      <3> QED
        BY <3>1, <3>2
    <2> QED
      BY <2>1, <2>2
  <1>7. ASSUME NEW s \in DOMAIN pairs, NEW e \in Entry
        PROVE  Sits(c, 1, s, e) <=> e \in {pairs[s].a, pairs[s].b}
    <2>1. CASE pairs[s].b # None
      <3>1. <<1, s>> \in RoundOf(c.matches, 1) /\ <<1, s>>[2] = s
        BY <1>4, <2>1 DEF FullSlots
      <3>2. c.matches[<<1, s>>].a = pairs[s].a /\ c.matches[<<1, s>>].b = pairs[s].b
        BY <1>2, <3>1
      <3>3. <<1, s>> \in DOMAIN c.matches
        BY <3>1 DEF RoundOf
      <3> QED
        BY <3>2, <3>3 DEF Sits
    <2>2. CASE pairs[s].b = None
      <3>1. <<1, s>> \notin DOMAIN c.matches
        <4> SUFFICES ASSUME <<1, s>> \in DOMAIN c.matches PROVE FALSE
          OBVIOUS
        <4>1. <<1, s>> \in RoundOf(c.matches, 1)
          BY DEF RoundOf
        <4>2. <<1, s>>[2] \in FullSlots(pairs)
          BY <1>2, <4>1
        <4> QED
          BY <2>2, <4>2 DEF FullSlots
      <3>2. PICK bye \in ByesAt(c, 1) : /\ bye = (CHOOSE y \in ByesAt(c, 1) : y.slot = s)
                                        /\ bye.slot = s /\ bye.entry \in Entry
        BY <1>6, <3>1, SlotOfRound
      <3>3. bye.entry = pairs[s].a
        BY <1>3, <3>2
      <3>4. e # None
        BY EntryAssumption
      <3> QED
        BY <2>2, <3>1, <3>2, <3>3, <3>4 DEF Sits
    <2> QED
      BY <2>1, <2>2
  <1> QED
    BY <1>2, <1>6, <1>7 DEF FullSlots

LEMMA SeatingSits ==
    ASSUME NEW c, Typed(c), NEW pairs, NEW S, Seeded(c, pairs), Seating(pairs, S), S \subseteq Entry
    PROVE  OneSeat(c, 1) /\ \A e \in Entry : In(c, 1, e) <=> e \in S
  <1>1. /\ Slots(c, 1) = DOMAIN pairs
        /\ \A s \in DOMAIN pairs, e \in Entry : Sits(c, 1, s, e) <=> e \in {pairs[s].a, pairs[s].b}
        /\ \A p \in RoundOf(c.matches, 1) : /\ p[2] \in DOMAIN pairs
                                            /\ c.matches[p].a = pairs[p[2]].a
                                            /\ c.matches[p].b = pairs[p[2]].b
    BY FirstSits
  <1>2. \A e \in Entry : In(c, 1, e) <=> e \in S
    <2> TAKE e \in Entry
    <2>1. e # None
      BY EntryAssumption
    <2> QED
      BY <1>1, <2>1 DEF In, Seating
  <1>3. ASSUME NEW e \in Entry, NEW s \in Slots(c, 1), NEW t \in Slots(c, 1),
               Sits(c, 1, s, e), Sits(c, 1, t, e)
        PROVE  s = t
    <2>1. e \in S
      BY <1>2, <1>3 DEF In
    <2> QED
      BY <1>1, <1>3, <2>1 DEF Seating
  <1>4. \A p \in RoundOf(c.matches, 1) : c.matches[p].a # c.matches[p].b
    BY <1>1 DEF Seating
  <1> QED
    BY <1>2, <1>3, <1>4 DEF OneSeat

LEMMA OneUnbeaten == BracketInv /\ SeededInv => EndsWithTheFinal
  <1> SUFFICES ASSUME BracketInv, SeededInv, published = NoKey, status = "FINISHED",
                      ~byHand, ~deleted
               PROVE  Cardinality({e \in Qualified : ~Beaten(e)}) = 1 /\ ~ThirdPending(matches)
    BY DEF EndsWithTheFinal
  <1> DEFINE c == Category
             pairs == SeedPairs(Seeds(Category))
  <1>1. TypeInv /\ KeyInv(c, Half(rule.qualifiers)) /\ AllKnown(c) /\ SeededFirst(Category) /\ Over(c)
    BY DEF BracketInv, SeededInv, SeededKey, KeyInvNow, Closed, Category
  <1>2. Typed(c) /\ c.matches = matches
    BY <1>1, TypeInvTyped DEF Category
  <1> HIDE DEF c
  <1>3. PICK m : OverIn(c, m)
    BY <1>1, <1>2, OverRounds
  <1>4. RoundOf(matches, 1) # {}
    BY <1>2, <1>3 DEF OverIn
  <1>5. Seeded(Category, pairs) /\ Seating(pairs, Qualified) /\ Qualified \subseteq Entry
    BY <1>1, <1>4, QualifiedSeating
  <1> HIDE DEF pairs
  <1>6. Seeded(c, pairs)
    BY <1>5 DEF c
  <1>7. OneSeat(c, 1) /\ \A e \in Entry : In(c, 1, e) <=> e \in Qualified
    BY <1>2, <1>5, <1>6, SeatingSits
  <1>8. PICK x \in Qualified : \A e \in Qualified :
            e = x <=> ~(\E p \in (DOMAIN c.matches) \ {Third} : Lost(c, p, e))
    BY <1>3, <1>5, <1>7, LastStanding
  <1>9. \A e : Beaten(e) <=> \E p \in (DOMAIN c.matches) \ {Third} : Lost(c, p, e)
    BY <1>2 DEF Beaten, Lost
  <1>10. {e \in Qualified : ~Beaten(e)} = {x}
    BY <1>8, <1>9
  <1>11. ~ThirdPending(matches)
    BY <1>1, <1>2 DEF Over
  <1> QED
    BY <1>10, <1>11, FS_Singleton

\* When a seeded category ends, in whatever order its results and corrections came, one of the
\* qualified entries has not lost a match of the rounds, and the third place is decided.
THEOREM EndsWithTheFinalHolds == Spec => []EndsWithTheFinal
  <1>1. Init => BracketInv /\ SeededInv
    BY KeyInit, SeededInit
  <1>2. (BracketInv /\ SeededInv) /\ [Next]_vars => (BracketInv /\ SeededInv)'
    BY KeyNext, SeededNext
  <1>3. BracketInv /\ SeededInv => EndsWithTheFinal
    BY OneUnbeaten
  <1> QED
    BY <1>1, <1>2, <1>3, PTL DEF Spec
=============================================================================
