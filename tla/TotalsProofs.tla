---------------------------- MODULE TotalsProofs ----------------------------
(***************************************************************************)
(* The arithmetic of a budget, for any numbers: a recursive function is    *)
(* shown to satisfy its equation, and what it computes to have a property, *)
(* by way of the least argument for which that fails, since < on Nat is    *)
(* well-founded.                                                           *)
(***************************************************************************)
EXTENDS BudgetTotals, WellFoundedInduction, TLAPS

LEMMA LeastNat ==
  ASSUME NEW T, T \subseteq Nat, T # {}
  PROVE  \E n \in T : \A m \in T : n <= m
<1> DEFINE Less == OpToRel(<, Nat)
<1>1. PICK n \in T : \A m \in T : <<m, n>> \notin Less
  BY NatLessThanWellFounded, WFMin
<1>2. \A m \in T : ~(m < n)
  BY <1>1 DEF OpToRel
<1> QED
  BY <1>2

\* What holds of 0, and of i if of i - 1, holds up to n.
LEMMA UpTo ==
  ASSUME NEW n \in Nat, NEW P, 0 \in P, \A i \in 1..n : i - 1 \in P => i \in P
  PROVE  \A i \in 0..n : i \in P
<1> DEFINE T == {i \in 0..n : i \notin P}
<1> SUFFICES ASSUME T # {} PROVE FALSE
  OBVIOUS
<1>1. T \subseteq Nat
  OBVIOUS
<1>2. PICK i \in T : \A j \in T : i <= j
  <2> HIDE DEF T
  <2> QED
    BY <1>1, LeastNat
<1>3. i \in 1..n /\ i - 1 \in 0..n /\ i - 1 < i
  BY <1>2
<1>4. i - 1 \in P
  BY <1>2, <1>3
<1> QED
  BY <1>2, <1>3, <1>4

LEMMA Limits == SafeInteger \in Nat /\ Int4Max \in Nat /\ Int4Max < SafeInteger /\ SafeInteger >= 2
  BY TotalsAssumption

-----------------------------------------------------------------------------
(* The distance of two doubles.                                            *)

\* f is what Spacing looks its result up in.
Distances(f, n) ==
  f = [i \in 0..n |-> IF i <= SafeInteger THEN 1 ELSE 2 * f[(i + 1) \div 2]]

LEMMA DistancesExist == \A n \in Nat : \E f : Distances(f, n)
<1> DEFINE T == {n \in Nat : ~ \E f : Distances(f, n)}
<1> SUFFICES ASSUME T # {} PROVE FALSE
  OBVIOUS
<1>1. PICK n \in T : \A m \in T : n <= m
  BY LeastNat
<1>2. CASE n <= SafeInteger
  <2>1. Distances([i \in 0..n |-> 1], n)
    BY <1>2, Limits DEF Distances
  <2> QED
    BY <2>1
<1>3. CASE n > SafeInteger
  <2>1. n - 1 \in Nat /\ n - 1 \notin T
    BY <1>1, <1>3, Limits
  <2>2. PICK f : Distances(f, n - 1)
    BY <2>1
  <2>3. \A i \in 0..(n - 1) :
          f[i] = IF i <= SafeInteger THEN 1 ELSE 2 * f[(i + 1) \div 2]
    BY <2>2 DEF Distances
  <2> DEFINE g == [i \in 0..n |-> IF i < n THEN f[i] ELSE 2 * f[(n + 1) \div 2]]
  <2>4. ASSUME NEW i \in 0..n, i > SafeInteger
        PROVE  (i + 1) \div 2 \in 0..(n - 1) /\ (i + 1) \div 2 < i
    BY <2>4, Limits
  <2>5. ASSUME NEW i \in 0..n
        PROVE  g[i] = IF i <= SafeInteger THEN 1 ELSE 2 * g[(i + 1) \div 2]
    <3>1. CASE i < n /\ i <= SafeInteger
      BY <2>3, <3>1
    <3>2. CASE i < n /\ i > SafeInteger
      <4>1. (i + 1) \div 2 \in 0..n /\ (i + 1) \div 2 < n
        BY <2>4, <3>2
      <4>2. g[i] = f[i] /\ g[(i + 1) \div 2] = f[(i + 1) \div 2]
        BY <3>2, <4>1
      <4> QED
        BY <2>3, <3>2, <4>2
    <3>3. CASE i = n
      <4>1. (n + 1) \div 2 \in 0..n /\ (n + 1) \div 2 < n
        BY <1>3, <2>4
      <4>2. g[(n + 1) \div 2] = f[(n + 1) \div 2]
        BY <4>1
      <4>3. n \in 0..n /\ g[n] = 2 * f[(n + 1) \div 2]
        OBVIOUS
      <4>4. g[n] = 2 * g[(n + 1) \div 2]
        BY <4>2, <4>3
      <4> HIDE DEF g
      <4> QED
        BY <1>3, <3>3, <4>4, Limits
    <3> QED
      BY <3>1, <3>2, <3>3, Limits
  <2>6. Distances(g, n)
    BY <2>5 DEF Distances
  <2> QED
    BY <2>6
<1> QED
  BY <1>1, <1>2, <1>3, Limits

\* The distance is 1 up to SafeInteger; beyond, twice one that does not reach n.
LEMMA SpacingFacts ==
  ASSUME NEW n \in Nat
  PROVE  /\ n <= SafeInteger => Spacing(n) = 1
         /\ n > SafeInteger => \E half \in Nat \ {0} :
                                 Spacing(n) = 2 * half /\ n > half * SafeInteger
<1> DEFINE f == CHOOSE g : Distances(g, n)
<1>1. Distances(f, n)
  BY DistancesExist
<1>2. Spacing(n) = f[n]
  BY DEF Spacing, Distances
<1> HIDE DEF f
<1>3. \A i \in 0..n : f[i] = IF i <= SafeInteger THEN 1 ELSE 2 * f[(i + 1) \div 2]
  BY <1>1 DEF Distances
<1> DEFINE Doubled(i) == \E half \in Nat \ {0} : f[i] = 2 * half /\ i > half * SafeInteger
           T == {i \in 0..n : i > SafeInteger /\ ~Doubled(i)}
<1>4. T = {}
  <2> SUFFICES ASSUME T # {} PROVE FALSE
    OBVIOUS
  <2>1. PICK i \in T : \A j \in T : i <= j
    <3>1. T \subseteq Nat
      OBVIOUS
    <3> HIDE DEF T
    <3> QED
      BY <3>1, LeastNat
  <2> DEFINE j == (i + 1) \div 2
  <2>2. j \in 0..n /\ j < i /\ i >= 2 * j - 1 /\ j \in Nat
    BY <2>1, Limits
  <2>3. f[i] = 2 * f[j]
    BY <1>3, <2>1, Limits
  <2>4. CASE j <= SafeInteger
    <3>1. f[j] = 1
      BY <1>3, <2>2, <2>4
    <3> QED
      BY <2>1, <2>3, <3>1, Limits
  <2>5. CASE j > SafeInteger
    <3>1. j \notin T
      BY <2>1, <2>2
    <3>2. Doubled(j)
      BY <2>2, <2>5, <3>1
    <3>3. PICK half \in Nat \ {0} : f[j] = 2 * half /\ j > half * SafeInteger
      BY <3>2
    <3> HIDE DEF j
    <3>4. PICK m \in Nat : m = half * SafeInteger
      BY Limits
    <3>5. f[j] \in Nat \ {0} /\ f[j] * SafeInteger = 2 * m
      BY <3>3, <3>4, Limits
    <3>6. i > f[j] * SafeInteger
      BY <2>1, <2>2, <3>3, <3>4, <3>5
    <3> QED
      BY <2>1, <2>3, <3>5, <3>6
  <2> QED
    BY <2>2, <2>4, <2>5, Limits
<1> QED
  BY <1>2, <1>3, <1>4

-----------------------------------------------------------------------------
(* Doubles.                                                                *)

\* Up to SafeInteger a double is the number.
LEMMA DoubleIsExact ==
  ASSUME NEW n \in Nat, n <= SafeInteger
  PROVE  Double(n) = n
<1>1. Spacing(n) = 1
  BY SpacingFacts
<1>2. n \div 1 = n /\ n % 1 = 0 /\ n * 1 = n
  OBVIOUS
<1> QED
  BY <1>1, <1>2 DEF Double

\* From there on it may be another one, but not a smaller one than SafeInteger.
LEMMA DoubleIsLarge ==
  ASSUME NEW n \in Nat, n > SafeInteger
  PROVE  Double(n) \in Nat /\ Double(n) >= SafeInteger
<1>1. PICK half \in Nat \ {0} : Spacing(n) = 2 * half /\ n > half * SafeInteger
  BY SpacingFacts
<1>2. PICK p \in Nat : p = 2 * half /\ p >= 2
  BY <1>1
<1> DEFINE q == n \div p
           r == n % p
<1>3. q \in Int /\ q * p >= SafeInteger
  <2>1. PICK m \in Nat : m = half * SafeInteger
    BY Limits
  <2>2. m >= p /\ m >= SafeInteger /\ n > m
    BY <1>1, <1>2, <2>1, Limits
  <2> QED
    BY <1>2, <2>1, <2>2, Limits
<1>4. q % 2 \in {0, 1} /\ q + 0 = q
  BY <1>2
<1>5. \A k \in Int : (k + 1) * p = k * p + p /\ k * p \in Int
  BY <1>2
<1>6. Double(n) \in {q * p, (q + 1) * p, (q + (q % 2)) * p}
  BY <1>1, <1>2 DEF Double
<1> HIDE DEF q
<1> QED
  BY <1>2, <1>3, <1>4, <1>5, <1>6, Limits

LEMMA DoubleType ==
  ASSUME NEW n \in Nat
  PROVE  Double(n) \in Nat
<1>1. CASE n <= SafeInteger
  BY <1>1, DoubleIsExact
<1>2. CASE n > SafeInteger
  BY <1>2, DoubleIsLarge
<1> QED
  BY <1>1, <1>2, Limits

\* So what fits in a column was computed exactly.
LEMMA FitsIsExact ==
  ASSUME NEW n \in Nat, Fits(Double(n))
  PROVE  Double(n) = n
<1>1. CASE n <= SafeInteger
  BY <1>1, DoubleIsExact
<1>2. CASE n > SafeInteger
  BY <1>2, DoubleIsLarge, Limits DEF Fits
<1> QED
  BY <1>1, <1>2, Limits

LEMMA AmountFacts ==
  ASSUME NEW item \in Item
  PROVE  /\ ExactCents(item) \in Nat
         /\ AmountCents(item) \in Nat
         /\ Fits(AmountCents(item)) => AmountCents(item) = ExactCents(item)
<1>1. PICK quantity \in Quantities, unitAmountCents \in UnitAmounts :
        item.quantity = quantity /\ item.unitAmountCents = unitAmountCents
  BY DEF Item
<1>2. quantity \in Nat /\ unitAmountCents \in Nat
  BY TotalsAssumption
<1>3. ExactCents(item) \in Nat
  BY <1>1, <1>2 DEF ExactCents
<1>4. AmountCents(item) = Double(ExactCents(item))
  BY DEF AmountCents, ExactCents
<1> QED
  BY <1>3, <1>4, DoubleType, FitsIsExact

-----------------------------------------------------------------------------
(* Sums.                                                                   *)

\* A loop that starts from 0 and at i goes on from x to Body[i][x].
LEMMA LoopExists ==
  ASSUME NEW length \in Nat, NEW Body \in [1..length -> [Nat -> Nat]]
  PROVE  \E f \in [0..length -> Nat] :
           \A i \in 0..length : f[i] = IF i = 0 THEN 0 ELSE Body[i][f[i - 1]]
<1> DEFINE Runs(f, n) == \A i \in 0..n : f[i] = IF i = 0 THEN 0 ELSE Body[i][f[i - 1]]
           P == {n \in 0..length : \E f \in [0..n -> Nat] : Runs(f, n)}
<1>1. 0 \in P
  <2> DEFINE f == [i \in 0..0 |-> 0]
  <2>1. f[0] = 0 /\ f \in [0..0 -> Nat] /\ 0 \in 0..length /\ \A i \in 0..0 : i = 0
    OBVIOUS
  <2> HIDE DEF f
  <2>2. Runs(f, 0)
    BY <2>1
  <2> QED
    BY <2>1, <2>2
<1>2. ASSUME NEW n \in 1..length, n - 1 \in P PROVE n \in P
  <2>1. PICK f \in [0..(n - 1) -> Nat] : Runs(f, n - 1)
    BY <1>2
  <2> DEFINE x == Body[n][f[n - 1]]
             g == [i \in 0..n |-> IF i < n THEN f[i] ELSE x]
  <2>2. n - 1 \in 0..(n - 1) /\ f[n - 1] \in Nat
    OBVIOUS
  <2>3. x \in Nat
    BY <2>2
  <2> HIDE DEF x
  <2>4. \A i \in 0..n : i < n => i \in 0..(n - 1)
    OBVIOUS
  <2>5. g \in [0..n -> Nat]
    BY <2>3, <2>4
  <2>6. ASSUME NEW i \in 0..n PROVE g[i] = IF i = 0 THEN 0 ELSE Body[i][g[i - 1]]
    <3>1. CASE i < n
      <4>1. i # 0 => i - 1 \in 0..n /\ i - 1 < n
        OBVIOUS
      <4>2. g[i] = f[i] /\ (i # 0 => g[i - 1] = f[i - 1])
        BY <3>1, <4>1
      <4>3. f[i] = IF i = 0 THEN 0 ELSE Body[i][f[i - 1]]
        BY <2>1, <2>4, <3>1
      <4> HIDE DEF g
      <4> QED
        BY <4>2, <4>3
    <3>2. CASE i = n
      <4>1. n \in 0..n /\ n - 1 \in 0..n /\ n - 1 < n /\ n # 0
        OBVIOUS
      <4>2. g[n] = x /\ g[n - 1] = f[n - 1]
        BY <4>1
      <4> HIDE DEF g
      <4> QED
        BY <3>2, <4>1, <4>2 DEF x
    <3> QED
      BY <3>1, <3>2
  <2> HIDE DEF g
  <2>7. Runs(g, n)
    BY <2>6
  <2>8. n \in 0..length
    OBVIOUS
  <2> QED
    BY <2>5, <2>7, <2>8
<1>3. length \in P
  <2> HIDE DEF P
  <2>1. length \in 0..length
    OBVIOUS
  <2> QED
    BY <1>1, <1>2, <2>1, UpTo
<1> QED
  BY <1>3

\* What SubtotalCents and ExactSubtotal look their results up in.
Sums(f, items) ==
  f = [i \in 0..Len(items) |->
         IF i = 0 THEN 0 ELSE Double(f[i - 1] + AmountCents(items[i]))]

ExactSums(f, items) ==
  f = [i \in 0..Len(items) |->
         IF i = 0 THEN 0 ELSE f[i - 1] + ExactCents(items[i])]

LEMMA SubtotalFacts ==
  ASSUME NEW n \in Nat, NEW items \in [1..n -> Item]
  PROVE  \E f \in [0..n -> Nat] :
           /\ SubtotalCents(items) = f[n]
           /\ f[0] = 0
           /\ \A i \in 1..n : f[i] = Double(f[i - 1] + AmountCents(items[i]))
<1>1. Len(items) = n
  OBVIOUS
<1>2. \A i \in 1..n, x \in Nat : Double(x + AmountCents(items[i])) \in Nat
  <2> SUFFICES ASSUME NEW i \in 1..n, NEW x \in Nat
               PROVE  Double(x + AmountCents(items[i])) \in Nat
    OBVIOUS
  <2>1. x + AmountCents(items[i]) \in Nat
    BY AmountFacts
  <2> QED
    BY <2>1, DoubleType
<1>3. \E f : Sums(f, items)
  <2> DEFINE Body == [i \in 1..n |-> [x \in Nat |-> Double(x + AmountCents(items[i]))]]
  <2>1. Body \in [1..n -> [Nat -> Nat]]
    BY <1>2
  <2>2. \A i \in 1..n, x \in Nat : Body[i][x] = Double(x + AmountCents(items[i]))
    OBVIOUS
  <2> HIDE DEF Body
  <2>3. PICK f \in [0..n -> Nat] :
          \A i \in 0..n : f[i] = IF i = 0 THEN 0 ELSE Body[i][f[i - 1]]
    BY <2>1, LoopExists
  <2>4. \A i \in 0..n : i # 0 => i \in 1..n /\ f[i - 1] \in Nat
    OBVIOUS
  <2>5. \A i \in 0..n :
          f[i] = IF i = 0 THEN 0 ELSE Double(f[i - 1] + AmountCents(items[i]))
    BY <2>2, <2>3, <2>4
  <2> QED
    BY <1>1, <2>5 DEF Sums
<1> DEFINE f == CHOOSE g : Sums(g, items)
<1>4. Sums(f, items)
  BY <1>3
<1>5. SubtotalCents(items) = f[n]
  BY <1>1 DEF SubtotalCents, Sums
<1> HIDE DEF f
<1>6. /\ f = [i \in 0..n |-> f[i]]
      /\ \A i \in 0..n : f[i] = IF i = 0 THEN 0 ELSE Double(f[i - 1] + AmountCents(items[i]))
  BY <1>1, <1>4 DEF Sums
<1>7. f[0] = 0 /\ \A i \in 1..n : f[i] = Double(f[i - 1] + AmountCents(items[i]))
  <2>1. 0 \in 0..n /\ \A i \in 1..n : i \in 0..n /\ i # 0
    OBVIOUS
  <2> QED
    BY <1>6, <2>1
<1>8. \A i \in 0..n : f[i] \in Nat
  <2> DEFINE P == {i \in 0..n : f[i] \in Nat}
  <2>1. 0 \in P
    BY <1>7
  <2>2. ASSUME NEW i \in 1..n, i - 1 \in P PROVE i \in P
    <3>1. f[i - 1] \in Nat
      BY <2>2
    <3>2. Double(f[i - 1] + AmountCents(items[i])) \in Nat
      BY <1>2, <3>1
    <3>3. f[i] \in Nat
      BY <1>7, <3>2
    <3> QED
      BY <3>3
  <2> HIDE DEF P
  <2>3. \A i \in 0..n : i \in P
    BY <2>1, <2>2, UpTo
  <2> QED
    BY <2>3 DEF P
<1> QED
  BY <1>5, <1>6, <1>7, <1>8

LEMMA ExactSubtotalFacts ==
  ASSUME NEW n \in Nat, NEW items \in [1..n -> Item]
  PROVE  \E f \in [0..n -> Nat] :
           /\ ExactSubtotal(items) = f[n]
           /\ f[0] = 0
           /\ \A i \in 1..n : f[i] = f[i - 1] + ExactCents(items[i])
<1>1. Len(items) = n
  OBVIOUS
<1>2. \A i \in 1..n, x \in Nat : x + ExactCents(items[i]) \in Nat
  BY AmountFacts
<1>3. \E f : ExactSums(f, items)
  <2> DEFINE Body == [i \in 1..n |-> [x \in Nat |-> x + ExactCents(items[i])]]
  <2>1. Body \in [1..n -> [Nat -> Nat]]
    BY <1>2
  <2>2. \A i \in 1..n, x \in Nat : Body[i][x] = x + ExactCents(items[i])
    OBVIOUS
  <2> HIDE DEF Body
  <2>3. PICK f \in [0..n -> Nat] :
          \A i \in 0..n : f[i] = IF i = 0 THEN 0 ELSE Body[i][f[i - 1]]
    BY <2>1, LoopExists
  <2>4. \A i \in 0..n : i # 0 => i \in 1..n /\ f[i - 1] \in Nat
    OBVIOUS
  <2>5. \A i \in 0..n : f[i] = IF i = 0 THEN 0 ELSE f[i - 1] + ExactCents(items[i])
    BY <2>2, <2>3, <2>4
  <2> QED
    BY <1>1, <2>5 DEF ExactSums
<1> DEFINE f == CHOOSE g : ExactSums(g, items)
<1>4. ExactSums(f, items)
  BY <1>3
<1>5. ExactSubtotal(items) = f[n]
  BY <1>1 DEF ExactSubtotal, ExactSums
<1> HIDE DEF f
<1>6. /\ f = [i \in 0..n |-> f[i]]
      /\ \A i \in 0..n : f[i] = IF i = 0 THEN 0 ELSE f[i - 1] + ExactCents(items[i])
  BY <1>1, <1>4 DEF ExactSums
<1>7. f[0] = 0 /\ \A i \in 1..n : f[i] = f[i - 1] + ExactCents(items[i])
  <2>1. 0 \in 0..n /\ \A i \in 1..n : i \in 0..n /\ i # 0
    OBVIOUS
  <2> QED
    BY <1>6, <2>1
<1>8. \A i \in 0..n : f[i] \in Nat
  <2> DEFINE P == {i \in 0..n : f[i] \in Nat}
  <2>1. 0 \in P
    BY <1>7
  <2>2. ASSUME NEW i \in 1..n, i - 1 \in P PROVE i \in P
    <3>1. f[i - 1] \in Nat
      BY <2>2
    <3>2. f[i - 1] + ExactCents(items[i]) \in Nat
      BY <1>2, <3>1
    <3>3. f[i] \in Nat
      BY <1>7, <3>2
    <3> QED
      BY <3>3
  <2> HIDE DEF P
  <2>3. \A i \in 0..n : i \in P
    BY <2>1, <2>2, UpTo
  <2> QED
    BY <2>3 DEF P
<1> QED
  BY <1>5, <1>6, <1>7, <1>8

\* A sum of what fits, if it fits itself, was computed exactly: one that left
\* the exact numbers on its way stays beyond SafeInteger, as nothing is below 0.
LEMMA SubtotalFitsIsExact ==
  ASSUME NEW n \in Nat, NEW items \in [1..n -> Item], Storable(items)
  PROVE  SubtotalCents(items) = ExactSubtotal(items)
<1>1. PICK f \in [0..n -> Nat] :
        /\ SubtotalCents(items) = f[n]
        /\ f[0] = 0
        /\ \A i \in 1..n : f[i] = Double(f[i - 1] + AmountCents(items[i]))
  BY SubtotalFacts
<1>2. PICK g \in [0..n -> Nat] :
        /\ ExactSubtotal(items) = g[n]
        /\ g[0] = 0
        /\ \A i \in 1..n : g[i] = g[i - 1] + ExactCents(items[i])
  BY ExactSubtotalFacts
<1> DEFINE P == {i \in 0..n : f[i] = g[i] \/ f[i] >= SafeInteger}
<1>3. 0 \in P
  BY <1>1, <1>2
<1>4. ASSUME NEW i \in 1..n, i - 1 \in P PROVE i \in P
  <2>1. PICK x \in Nat, y \in Nat, amount \in Nat :
          /\ x = f[i - 1] /\ y = g[i - 1]
          /\ amount = AmountCents(items[i]) /\ amount = ExactCents(items[i])
    <3>1. items[i] \in Item /\ Fits(AmountCents(items[i]))
      BY DEF Storable
    <3>2. f[i - 1] \in Nat /\ g[i - 1] \in Nat
      OBVIOUS
    <3> QED
      BY <3>1, <3>2, AmountFacts
  <2>2. x = y \/ x >= SafeInteger
    BY <1>4, <2>1
  <2>3. f[i] = Double(x + amount) /\ g[i] = y + amount
    BY <1>1, <1>2, <2>1
  <2>4. CASE x + amount <= SafeInteger
    <3>1. f[i] = x + amount
      BY <2>3, <2>4, DoubleIsExact
    <3> QED
      BY <2>2, <2>3, <2>4, <3>1, Limits
  <2>5. CASE x + amount > SafeInteger
    <3>1. f[i] >= SafeInteger
      BY <2>3, <2>5, DoubleIsLarge
    <3> QED
      BY <3>1
  <2> QED
    BY <2>4, <2>5, Limits
<1>5. n \in P
  <2> HIDE DEF P
  <2>1. n \in 0..n
    OBVIOUS
  <2> QED
    BY <1>3, <1>4, <2>1, UpTo
<1>6. f[n] <= Int4Max
  BY <1>1 DEF Storable, Fits
<1> QED
  BY <1>1, <1>2, <1>5, <1>6, Limits
=============================================================================
