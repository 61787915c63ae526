--------------------------- MODULE MatchingProofs ---------------------------
(***************************************************************************)
(* Theorems about the auction, for every book.                             *)
(***************************************************************************)
EXTENDS Matching, LedgerSumsTheorems, TLAPS

LEMMA OrderFields ==
  ASSUME NEW orders \in Seq(Order)
  PROVE  /\ Len(orders) \in Nat /\ DOMAIN orders = 1..Len(orders)
         /\ \A i \in 1..Len(orders) : /\ orders[i].size \in Nat
                                       /\ orders[i].limit \in Nat
<1>1. \A i \in 1..Len(orders) : orders[i] \in Order
  OBVIOUS
<1>. QED BY <1>1 DEF Order

LEMMA VolumeType ==
  ASSUME NEW orders \in Seq(Order), NEW S
  PROVE  Volume(orders, S) \in Nat
<1>. DEFINE f == [i \in 1..Len(orders) |-> IF i \in S THEN orders[i].size ELSE 0]
<1>1. \A i \in 1..Len(orders) : orders[i].size \in Nat
  BY OrderFields
<1>2. Len(orders) \in Nat /\ f \in [1..Len(orders) -> Nat]
  BY <1>1
<1>. HIDE DEF f
<1>3. Total(Len(orders), f) \in Nat
  BY <1>2, TotalNat
<1>. QED BY <1>3 DEF Volume, f

\* More orders, more volume.
LEMMA VolumeMonotone ==
  ASSUME NEW orders \in Seq(Order), NEW S, NEW T, S \subseteq T
  PROVE  Volume(orders, S) <= Volume(orders, T)
<1>. DEFINE f == [i \in 1..Len(orders) |-> IF i \in S THEN orders[i].size ELSE 0]
            g == [i \in 1..Len(orders) |-> IF i \in T THEN orders[i].size ELSE 0]
<1>1. \A i \in 1..Len(orders) : orders[i].size \in Nat
  BY OrderFields
<1>2. /\ Len(orders) \in Nat
      /\ f \in [1..Len(orders) -> Int] /\ g \in [1..Len(orders) -> Int]
      /\ \A i \in 1..Len(orders) : f[i] <= g[i]
  BY <1>1
<1>. HIDE DEF f, g
<1>3. Total(Len(orders), f) <= Total(Len(orders), g)
  BY <1>2, TotalMonotone
<1>. QED BY <1>3 DEF Volume, f, g

LEMMA NoVolume ==
  ASSUME NEW orders \in Seq(Order)
  PROVE  Volume(orders, {}) = 0
<1>. DEFINE f == [i \in 1..Len(orders) |-> 0]
<1>1. Len(orders) \in Nat /\ f \in [1..Len(orders) -> Int]
      /\ \A i \in 1..Len(orders) : f[i] = 0
  OBVIOUS
<1>2. Volume(orders, {}) = Total(Len(orders), f)
  BY DEF Volume
<1>. HIDE DEF f
<1>. QED BY <1>1, <1>2, TotalZero

LEMMA DepthType ==
  ASSUME NEW orders \in Seq(Order), NEW p
  PROVE  /\ demandAt(orders, p) \in Nat /\ supplyAt(orders, p) \in Nat
         /\ matchedAt(orders, p) \in Nat /\ imbalanceAt(orders, p) \in Nat
<1>1. demandAt(orders, p) \in Nat /\ supplyAt(orders, p) \in Nat
  BY VolumeType DEF demandAt, supplyAt
<1>. QED BY <1>1 DEF matchedAt, imbalanceAt, Smaller, Distance

-----------------------------------------------------------------------------
\* better orders any two different prices, one way only, and is transitive:
\* whichever order the prices are tried in, the same one is left at the end,
\* so enclaves that hold the same book and were given the same reference price
\* choose the same clearing price (matching.go:61-63).
THEOREM BetterIsTotalOrder ==
  ASSUME NEW orders \in Seq(Order), NEW ref \in Nat,
         NEW p \in Nat, NEW q \in Nat, NEW r \in Nat
  PROVE  /\ ~better(orders, ref, p, p)
         /\ p # q => \/ better(orders, ref, p, q)
                     \/ better(orders, ref, q, p)
         /\ ~(better(orders, ref, p, q) /\ better(orders, ref, q, p))
         /\ better(orders, ref, p, q) /\ better(orders, ref, q, r)
              => better(orders, ref, p, r)
<1>. DEFINE d(x) == IF ref > 0 THEN Distance(x, ref) ELSE 0
<1>1. \A x \in Nat : matchedAt(orders, x) \in Nat /\ imbalanceAt(orders, x) \in Nat
  BY DepthType
<1>2. \A x \in Nat : d(x) \in Nat
  BY DEF Distance
<1>3. \A x, y \in Nat :
        better(orders, ref, x, y) <=>
          \/ matchedAt(orders, x) > matchedAt(orders, y)
          \/ /\ matchedAt(orders, x) = matchedAt(orders, y)
             /\ imbalanceAt(orders, x) < imbalanceAt(orders, y)
          \/ /\ matchedAt(orders, x) = matchedAt(orders, y)
             /\ imbalanceAt(orders, x) = imbalanceAt(orders, y)
             /\ d(x) < d(y)
          \/ /\ matchedAt(orders, x) = matchedAt(orders, y)
             /\ imbalanceAt(orders, x) = imbalanceAt(orders, y)
             /\ d(x) = d(y)
             /\ x < y
  BY DEF better
<1>. HIDE DEF d
<1>4. /\ matchedAt(orders, p) \in Nat /\ matchedAt(orders, q) \in Nat
      /\ matchedAt(orders, r) \in Nat
      /\ imbalanceAt(orders, p) \in Nat /\ imbalanceAt(orders, q) \in Nat
      /\ imbalanceAt(orders, r) \in Nat
      /\ d(p) \in Nat /\ d(q) \in Nat /\ d(r) \in Nat
  BY <1>1, <1>2
<1>5. ~better(orders, ref, p, p)
  BY <1>4, <1>3
<1>6. p # q => better(orders, ref, p, q) \/ better(orders, ref, q, p)
  BY SMTT(30), <1>4, <1>3
<1>7. ~(better(orders, ref, p, q) /\ better(orders, ref, q, p))
  BY <1>4, <1>3
<1>8. better(orders, ref, p, q) /\ better(orders, ref, q, r) => better(orders, ref, p, r)
  BY SMTT(30), <1>4, <1>3
<1>. QED BY <1>5, <1>6, <1>7, <1>8

\* The highest limit among the positions in S.
LEMMA HighestLimit ==
  ASSUME NEW orders \in Seq(Order), NEW p \in Nat, NEW S, S \subseteq DOMAIN orders, S # {},
         \A i \in S : orders[i].limit <= p
  PROVE  \E i \in S : \A j \in S : orders[j].limit <= orders[i].limit
<1>. DEFINE T == {p - orders[i].limit : i \in S}
<1>1. \A i \in S : orders[i].limit \in Nat
  BY OrderFields
<1>2. T \subseteq Nat /\ T # {}
  BY <1>1
<1>3. PICK k \in T : \A m \in T : k <= m
  <2>. HIDE DEF T
  <2>. QED BY <1>2, LeastElement
<1>4. PICK i \in S : k = p - orders[i].limit
  BY <1>3
<1>5. ASSUME NEW j \in S
      PROVE  orders[j].limit <= orders[i].limit
  <2>1. p - orders[j].limit \in T
    OBVIOUS
  <2>2. p - orders[i].limit <= p - orders[j].limit
    BY <1>3, <1>4, <2>1
  <2>. QED BY <1>1, <2>2
<1>. QED BY <1>5

\* Trying the limit prices is enough: whatever trades at some price, at least
\* as much trades at one of the limits in the book (matching.go:129-130).
THEOREM OptimumAtLimit ==
  ASSUME NEW orders \in Seq(Order), NEW p \in Nat, matchedAt(orders, p) > 0
  PROVE  \E q \in candidatePrices(orders) : matchedAt(orders, q) >= matchedAt(orders, p)
<1>. DEFINE S == eligible(orders, "sell", p)
<1>1. S \subseteq DOMAIN orders /\ \A i \in S : orders[i].limit <= p /\ orders[i].side = "sell"
  BY DEF eligible, Accepts
<1>2. S # {}
  <2>1. supplyAt(orders, p) > 0
    BY DepthType DEF matchedAt, Smaller
  <2>2. supplyAt(orders, p) = Volume(orders, S)
    BY DEF supplyAt
  <2>. HIDE DEF S
  <2>3. S = {} => Volume(orders, S) = 0
    BY NoVolume
  <2>. QED BY <2>1, <2>2, <2>3
<1>3. PICK k \in S : \A j \in S : orders[j].limit <= orders[k].limit
  <2>. HIDE DEF S
  <2>. QED BY <1>1, <1>2, HighestLimit
<1>. DEFINE q == orders[k].limit
<1>4. q \in candidatePrices(orders) /\ q \in Nat /\ q <= p
  BY <1>1, <1>3, OrderFields DEF candidatePrices
<1>5. supplyAt(orders, q) >= supplyAt(orders, p)
  <2>1. S \subseteq eligible(orders, "sell", q)
    BY <1>1, <1>3 DEF eligible, Accepts
  <2>. QED BY <2>1, VolumeMonotone, VolumeType DEF supplyAt
<1>6. demandAt(orders, q) >= demandAt(orders, p)
  <2>1. eligible(orders, "buy", p) \subseteq eligible(orders, "buy", q)
    <3>1. ASSUME NEW i \in DOMAIN orders, orders[i].side = "buy", orders[i].limit >= p
          PROVE  orders[i].limit >= q
      <4>1. orders[i].limit \in Nat
        BY <3>1, OrderFields
      <4>. QED BY <1>4, <3>1, <4>1
    <3>. QED BY <3>1 DEF eligible, Accepts
  <2>. QED BY <2>1, VolumeMonotone, VolumeType DEF demandAt
<1>7. matchedAt(orders, q) >= matchedAt(orders, p)
  BY <1>5, <1>6, DepthType DEF matchedAt, Smaller
<1>. QED BY <1>4, <1>7
-----------------------------------------------------------------------------
(* The order in which one side is filled *)

\* Before orders any two orders of one side, one way only, and is transitive:
\* the sort keys of allocate (price, then id) leave no tie for the sort to break
\* at will but between copies of one order (matching.go:169-181).
THEOREM BeforeIsTotalOrder ==
  ASSUME NEW orders \in Seq(Order),
         NEW i \in DOMAIN orders, NEW j \in DOMAIN orders, NEW k \in DOMAIN orders,
         orders[i].side = orders[j].side, orders[j].side = orders[k].side
  PROVE  /\ ~Before(orders, i, i)
         /\ i # j => Before(orders, i, j) \/ Before(orders, j, i)
         /\ ~(Before(orders, i, j) /\ Before(orders, j, i))
         /\ Before(orders, i, j) /\ Before(orders, j, k) => Before(orders, i, k)
<1>1. /\ i \in Nat /\ j \in Nat /\ k \in Nat
      /\ orders[i].limit \in Nat /\ orders[j].limit \in Nat /\ orders[k].limit \in Nat
      /\ orders[i].id \in Nat /\ orders[j].id \in Nat /\ orders[k].id \in Nat
  <2>1. orders[i] \in Order /\ orders[j] \in Order /\ orders[k] \in Order
    OBVIOUS
  <2>. QED BY SMTT(30), <2>1, OrderFields DEF Order
<1>2. ~Before(orders, i, i)
  BY <1>1 DEF Before
<1>3. i # j => Before(orders, i, j) \/ Before(orders, j, i)
  BY <1>1 DEF Before
<1>4. ~(Before(orders, i, j) /\ Before(orders, j, i))
  BY <1>1 DEF Before
<1>5. Before(orders, i, j) /\ Before(orders, j, k) => Before(orders, i, k)
  BY <1>1 DEF Before
<1>. QED BY <1>2, <1>3, <1>4, <1>5

\* Of the orders of one side at the positions in S, one is filled last.
LEMMA LastToFill ==
  ASSUME NEW orders \in Seq(Order), NEW S, S \subseteq DOMAIN orders, S # {},
         \A i, j \in S : orders[i].side = orders[j].side
  PROVE  \E i \in S : \A j \in S : j = i \/ Before(orders, j, i)
<1>. DEFINE n == Len(orders)
            upTo(m) == S \intersect (1..m)
            IsLast(T, i) == i \in T /\ \A j \in T : j = i \/ Before(orders, j, i)
            P(m) == upTo(m) # {} => \E i : IsLast(upTo(m), i)
            Q == {m \in 0..n : P(m)}
<1>0. n \in Nat /\ DOMAIN orders = 1..n
  OBVIOUS
<1>1. P(0)
  OBVIOUS
<1>2. ASSUME NEW m \in 1..n, P(m-1) PROVE P(m)
  <2>1. upTo(m) = IF m \in S THEN upTo(m-1) \union {m} ELSE upTo(m-1)
    OBVIOUS
  <2>2. CASE m \notin S
    <3>. HIDE DEF upTo, IsLast
    <3>. QED BY <1>2, <2>1, <2>2
  <2>3. CASE m \in S /\ upTo(m-1) = {}
    <3>1. IsLast(upTo(m), m)
      BY <2>1, <2>3
    <3>. QED BY <3>1
  <2>4. CASE m \in S /\ upTo(m-1) # {}
    <3>1. PICK i : IsLast(upTo(m-1), i)
      BY <1>2, <2>4
    <3>2. i \in S /\ m \in S /\ i # m
      BY <2>4, <3>1
    <3>3. CASE Before(orders, i, m)
      <4>1. ASSUME NEW j \in upTo(m) PROVE j = m \/ Before(orders, j, m)
        <5>1. CASE j = m
          BY <5>1
        <5>2. CASE j # m
          <6>1. j \in S /\ (j = i \/ Before(orders, j, i))
            BY <3>1, <5>2, <2>1, <2>4
          <6>. HIDE DEF upTo, IsLast
          <6>. QED BY <1>0, <3>2, <3>3, <6>1, BeforeIsTotalOrder
        <5>. QED BY <5>1, <5>2
      <4>2. m \in upTo(m)
        BY <2>4
      <4>. QED BY <4>1, <4>2
    <3>4. CASE Before(orders, m, i)
      <4>1. IsLast(upTo(m), i)
        BY <2>1, <2>4, <3>1, <3>4
      <4>. QED BY <4>1
    <3>5. Before(orders, i, m) \/ Before(orders, m, i)
      BY <1>0, <3>2, BeforeIsTotalOrder
    <3>. QED BY <3>3, <3>4, <3>5
  <2>. QED BY <2>2, <2>3, <2>4
<1>3. 0..n \subseteq Q
  <2>. HIDE DEF P
  <2>1. 0 \in Q /\ \A m \in 1..n : m-1 \in Q => m \in Q
    BY <1>0, <1>1, <1>2
  <2>. HIDE DEF Q, n
  <2>. QED BY <1>0, <2>1, BoundedInduction
<1>4. P(n)
  <2>. HIDE DEF P
  <2>. QED BY <1>0, <1>3
<1>5. upTo(n) = S
  BY <1>0
<1>. QED BY <1>4, <1>5
-----------------------------------------------------------------------------
(* What the orders of one side trade *)

SizesOf(orders) == [i \in 1..Len(orders) |-> orders[i].size]
Takes(orders, price, volume) == [i \in 1..Len(orders) |-> take(orders, price, volume, i)]

LEMMA VolumeIsOnly ==
  ASSUME NEW orders \in Seq(Order), NEW S
  PROVE  /\ SizesOf(orders) \in [1..Len(orders) -> Int]
         /\ Volume(orders, S) = Total(Len(orders), Only(Len(orders), SizesOf(orders), S))
<1>1. SizesOf(orders) \in [1..Len(orders) -> Int]
  BY OrderFields DEF SizesOf
<1>2. Only(Len(orders), SizesOf(orders), S)
        = [i \in 1..Len(orders) |-> IF i \in S THEN orders[i].size ELSE 0]
  BY DEF Only, SizesOf
<1>. QED BY <1>1, <1>2 DEF Volume

\* An order trades between nothing and its size.
LEMMA TakeType ==
  ASSUME NEW orders \in Seq(Order), NEW price, NEW volume \in Nat, NEW i \in 1..Len(orders)
  PROVE  take(orders, price, volume, i) \in Nat /\ take(orders, price, volume, i) <= orders[i].size
<1>. DEFINE ahead == Volume(orders, {j \in eligible(orders, orders[i].side, price) :
                                         Before(orders, j, i)})
<1>1. ahead \in Nat
  BY VolumeType
<1>2. orders[i].size \in Nat
  BY OrderFields
<1>. HIDE DEF ahead
<1>3. take(orders, price, volume, i)
        = IF i \notin eligible(orders, orders[i].side, price) \/ ahead >= volume THEN 0
          ELSE Smaller(volume - ahead, orders[i].size)
  BY DEF take, ahead
<1>. QED BY <1>1, <1>2, <1>3 DEF Smaller

LEMMA TakesType ==
  ASSUME NEW orders \in Seq(Order), NEW price, NEW volume \in Nat
  PROVE  /\ Takes(orders, price, volume) \in [1..Len(orders) -> Nat]
         /\ Takes(orders, price, volume) \in [1..Len(orders) -> Int]
BY TakeType DEF Takes

\* The orders at the positions in D come before all others that are eligible.
IsFront(orders, E, D) ==
  D \subseteq E /\ \A i \in D, j \in E : Before(orders, j, i) => j \in D

\* The front of a side trades its whole volume, up to the volume to be filled.
LEMMA FrontTrades ==
  ASSUME NEW orders \in Seq(Order), NEW side, NEW price, NEW volume \in Nat, NEW D,
         IsFront(orders, eligible(orders, side, price), D)
  PROVE  Total(Len(orders), Only(Len(orders), Takes(orders, price, volume), D))
           = Smaller(volume, Volume(orders, D))
<1>. DEFINE n == Len(orders)
            E == eligible(orders, side, price)
            f == Takes(orders, price, volume)
            Filled(T) == Total(n, Only(n, f, T))
            P(c) == \A T : IsFront(orders, E, T) /\ Cardinality(T) = c =>
                             Filled(T) = Smaller(volume, Volume(orders, T))
            Q == {c \in 0..n : P(c)}
<1>0. /\ n \in Nat /\ DOMAIN orders = 1..n /\ E \subseteq 1..n
      /\ \A i \in E : orders[i].side = side
  BY DEF eligible
<1>a. f \in [1..n -> Nat] /\ f \in [1..n -> Int]
  BY TakesType
<1>. HIDE DEF n, f, E, P, Q
<1>b. \A T \in SUBSET E : IsFiniteSet(T) /\ Cardinality(T) \in Nat
  BY <1>0, TotalCount, FS_CardinalityType
<1>1. P(0)
  <2>1. \A T \in SUBSET E : Cardinality(T) = 0 => T = {}
    BY <1>b, FS_EmptySet
  <2>2. Filled({}) = 0
    BY <1>0, <1>a, OnlyNone
  <2>3. Volume(orders, {}) = 0
    BY NoVolume
  <2>4. Smaller(volume, 0) = 0
    BY DEF Smaller
  <2>. QED BY <2>1, <2>2, <2>3, <2>4 DEF P, IsFront
<1>2. ASSUME NEW c \in 1..n, P(c-1) PROVE P(c)
  <2>1. SUFFICES ASSUME NEW T, IsFront(orders, E, T), Cardinality(T) = c
                 PROVE  Filled(T) = Smaller(volume, Volume(orders, T))
    BY DEF P
  <2>2. T \subseteq E /\ IsFiniteSet(T) /\ T # {} /\ T \subseteq DOMAIN orders
    BY <1>0, <1>b, <2>1, FS_EmptySet DEF IsFront
  <2>3. PICK x \in T : \A j \in T : j = x \/ Before(orders, j, x)
    BY <1>0, <2>2, LastToFill
  <2>. DEFINE R == T \ {x}
  <2>4. R = {j \in E : Before(orders, j, x)}
    <3>1. ~Before(orders, x, x)
      BY <1>0, <2>2, BeforeIsTotalOrder
    <3>. QED BY <2>1, <2>2, <2>3, <3>1 DEF IsFront
  <2>5. IsFront(orders, E, R)
    <3>1. ASSUME NEW i \in R, NEW j \in E, Before(orders, j, i) PROVE j \in R
      <4>1. j \in T
        BY <2>1, <3>1 DEF IsFront
      <4>2. i # x /\ Before(orders, i, x)
        BY <2>3
      <4>3. ~(Before(orders, i, x) /\ Before(orders, x, i))
        BY <1>0, <2>2, BeforeIsTotalOrder
      <4>. QED BY <3>1, <4>1, <4>2, <4>3
    <3>. QED BY <2>2, <3>1 DEF IsFront
  <2>6. Cardinality(R) = c - 1
    BY <2>1, <2>2, FS_RemoveElement
  <2>7. Filled(R) = Smaller(volume, Volume(orders, R))
    <3>. HIDE DEF R
    <3>. QED BY <1>2, <2>5, <2>6 DEF P
  <2>8. x \in 1..n /\ x \in E /\ orders[x].side = side /\ orders[x].size \in Nat
    BY <1>0, <2>2, OrderFields DEF n
  <2>9. Filled(T) = Filled(R) + f[x]
    BY <1>0, <1>a, <2>8, OnlyRemove
  <2>10. Volume(orders, T) = Volume(orders, R) + orders[x].size
    <3>1. SizesOf(orders) \in [1..n -> Int] /\ SizesOf(orders)[x] = orders[x].size
      BY <2>8, VolumeIsOnly DEF SizesOf, n
    <3>2. Total(n, Only(n, SizesOf(orders), T))
            = Total(n, Only(n, SizesOf(orders), R)) + SizesOf(orders)[x]
      BY SMTT(30), <1>0, <2>8, <3>1, OnlyRemove
    <3>. QED BY <3>1, <3>2, VolumeIsOnly DEF n
  <2>11. f[x] = IF Volume(orders, R) >= volume THEN 0
                ELSE Smaller(volume - Volume(orders, R), orders[x].size)
    <3>1. f[x] = take(orders, price, volume, x)
      BY <2>8 DEF f, Takes, n
    <3>. HIDE DEF R
    <3>. QED BY <2>4, <2>8, <3>1 DEF take, E
  <2>12. Volume(orders, R) \in Nat
    BY VolumeType
  <2>. HIDE DEF R, Filled
  <2>. QED BY <2>7, <2>8, <2>9, <2>10, <2>11, <2>12 DEF Smaller
<1>3. 0..n \subseteq Q
  <2>1. 0 \in Q /\ \A c \in 1..n : c-1 \in Q => c \in Q
    BY <1>0, <1>1, <1>2 DEF Q
  <2>. QED BY <1>0, <2>1, BoundedInduction
<1>4. D \subseteq E /\ Cardinality(D) \in 0..n
  <2>1. D \subseteq 1..n
    BY <1>0 DEF IsFront, E
  <2>2. Cardinality(D) <= Cardinality(1..n)
    BY <1>0, <2>1, FS_Subset, TotalCount
  <2>3. Cardinality(1..n) = n
    <3>1. \A k \in Nat : Cardinality(1..k) = IF 1 > k THEN 0 ELSE k - 1 + 1
      BY FS_Interval
    <3>. QED BY <1>0, <3>1
  <2>4. D \subseteq E
    BY DEF IsFront, E
  <2>. QED BY <1>0, <1>b, <2>2, <2>3, <2>4
<1>5. P(Cardinality(D))
  BY <1>3, <1>4 DEF Q
<1>. QED BY <1>5 DEF P, E, n, f

\* What the orders of one side trade at a price.
SideTakes(orders, side, price, volume) ==
  [i \in 1..Len(orders) |->
     IF orders[i].side = side THEN take(orders, price, volume, i) ELSE 0]

\* Each side trades exactly the volume that the two sides have in common.
LEMMA SideTradesMatched ==
  ASSUME NEW orders \in Seq(Order), NEW side \in {"buy", "sell"}, NEW price
  PROVE  Total(Len(orders), SideTakes(orders, side, price, matchedAt(orders, price)))
           = matchedAt(orders, price)
<1>. DEFINE n == Len(orders)
            v == matchedAt(orders, price)
            E == eligible(orders, side, price)
<1>1. v \in Nat /\ v <= Volume(orders, E)
  BY DepthType DEF matchedAt, demandAt, supplyAt, Smaller
<1>2. IsFront(orders, E, E)
  BY DEF IsFront
<1>. HIDE DEF v
<1>3. Total(n, Only(n, Takes(orders, price, v), E)) = Smaller(v, Volume(orders, E))
  BY <1>1, <1>2, FrontTrades
<1>4. ASSUME NEW i \in 1..n, i \notin E, orders[i].side = side
      PROVE  take(orders, price, v, i) = 0
  BY <1>4 DEF take
<1>5. Only(n, Takes(orders, price, v), E) = SideTakes(orders, side, price, v)
  <2>1. \A i \in E : orders[i].side = side /\ i \in 1..n
    BY DEF eligible
  <2>. HIDE DEF E
  <2>. QED BY <1>4, <2>1 DEF Only, Takes, SideTakes
<1>6. Volume(orders, E) \in Nat
  BY VolumeType
<1>. QED BY <1>1, <1>3, <1>5, <1>6 DEF Smaller, v

\* A worse-priced order trades only when every better-priced order of its side
\* has traded in full (matching.go:169-181, 203-223).
LEMMA BetterPricedFirst ==
  ASSUME NEW orders \in Seq(Order), NEW price \in Nat, NEW volume \in Nat,
         NEW i \in 1..Len(orders), NEW j \in 1..Len(orders),
         orders[i].side = orders[j].side,
         IF orders[i].side = "buy" THEN orders[i].limit > orders[j].limit
                                   ELSE orders[i].limit < orders[j].limit,
         take(orders, price, volume, j) > 0
  PROVE  take(orders, price, volume, i) = orders[i].size
<1>. DEFINE E == eligible(orders, orders[i].side, price)
            R == {k \in E : Before(orders, k, i)}
            D == {k \in E : Before(orders, k, j)}
<1>0. /\ orders[i].side \in {"buy", "sell"} /\ DOMAIN orders = 1..Len(orders)
      /\ orders[i].limit \in Nat /\ orders[j].limit \in Nat /\ orders[i].size \in Nat
  <2>1. orders[i] \in Order
    OBVIOUS
  <2>. QED BY <2>1, OrderFields DEF Order
<1>1. Before(orders, i, j)
  BY DEF Before
<1>2. j \in E /\ Volume(orders, D) < volume
  <2>1. Volume(orders, D) \in Nat
    BY VolumeType
  <2>2. take(orders, price, volume, j)
          = IF j \notin E \/ Volume(orders, D) >= volume THEN 0
            ELSE Smaller(volume - Volume(orders, D), orders[j].size)
    BY DEF take
  <2>. HIDE DEF E, D
  <2>. QED BY <2>1, <2>2
<1>3. i \in E
  BY <1>0, <1>2 DEF eligible, Accepts
<1>4. R \union {i} \subseteq D
  <2>1. ASSUME NEW k \in R PROVE k \in D
    <3>1. k \in DOMAIN orders /\ orders[k].side = orders[i].side
      BY DEF eligible
    <3>. QED BY <1>0, <1>1, <3>1, BeforeIsTotalOrder
  <2>. QED BY <1>1, <1>3, <2>1
<1>5. ~Before(orders, i, i)
  BY <1>0, BeforeIsTotalOrder
<1>6. Volume(orders, R \union {i}) = Volume(orders, R) + orders[i].size
  <2>1. (R \union {i}) \ {i} = R
    BY <1>5
  <2>2. SizesOf(orders) \in [1..Len(orders) -> Int] /\ SizesOf(orders)[i] = orders[i].size
    BY VolumeIsOnly DEF SizesOf
  <2>. DEFINE T == R \union {i}
  <2>3. i \in T /\ T \ {i} = R /\ Len(orders) \in Nat
    BY <2>1
  <2>. HIDE DEF R, T
  <2>4. Total(Len(orders), Only(Len(orders), SizesOf(orders), T))
          = Total(Len(orders), Only(Len(orders), SizesOf(orders), T \ {i})) + SizesOf(orders)[i]
    BY SMTT(30), <2>2, <2>3, OnlyRemove
  <2>. QED BY <2>2, <2>3, <2>4, VolumeIsOnly DEF T
<1>7. Volume(orders, R) + orders[i].size < volume
  <2>. HIDE DEF R, D
  <2>1. Volume(orders, R \union {i}) <= Volume(orders, D)
    BY <1>4, VolumeMonotone
  <2>2. Volume(orders, R) \in Nat /\ Volume(orders, D) \in Nat
    BY VolumeType
  <2>. QED BY <1>0, <1>2, <1>6, <2>1, <2>2
<1>8. Volume(orders, R) \in Nat
  BY VolumeType
<1>9. take(orders, price, volume, i)
        = IF i \notin E \/ Volume(orders, R) >= volume THEN 0
          ELSE Smaller(volume - Volume(orders, R), orders[i].size)
  BY DEF take
<1>. HIDE DEF E, R
<1>. QED BY <1>0, <1>3, <1>7, <1>8, <1>9 DEF Smaller
-----------------------------------------------------------------------------
(* The fills *)

\* What the orders trade, in quote at the clearing price, and what a side pays.
Quotes(orders, price, volume) ==
  [i \in 1..Len(orders) |-> QuoteFor(take(orders, price, volume, i), price)]
Minus(orders, f) == [i \in 1..Len(orders) |-> -f[i]]
BySide(orders, buys, sells) ==
  [i \in 1..Len(orders) |-> IF orders[i].side = "buy" THEN buys[i] ELSE sells[i]]

\* The traders that trade.
Touched(orders, price, volume) ==
  {orders[i].trader : i \in {j \in DOMAIN orders : take(orders, price, volume, j) > 0}}

LEMMA AllocateFills ==
  ASSUME NEW orders \in Seq(Order), NEW price, NEW volume
  PROVE  /\ DOMAIN allocate(orders, price, volume) = Touched(orders, price, volume)
         /\ \A t \in Touched(orders, price, volume) :
              /\ allocate(orders, price, volume)[t].base
                   = Net(orders, t, Takes(orders, price, volume),
                         Minus(orders, Takes(orders, price, volume)))
              /\ allocate(orders, price, volume)[t].quote
                   = Net(orders, t, Minus(orders, Quotes(orders, price, volume)),
                         Quotes(orders, price, volume))
<1>. DEFINE base  == [i \in DOMAIN orders |-> take(orders, price, volume, i)]
            quote == [i \in DOMAIN orders |-> QuoteFor(base[i], price)]
            minus(f) == [i \in DOMAIN orders |-> -f[i]]
            T == Touched(orders, price, volume)
            A == allocate(orders, price, volume)
<1>1. /\ base = Takes(orders, price, volume)
      /\ quote = Quotes(orders, price, volume)
      /\ minus(base) = Minus(orders, Takes(orders, price, volume))
      /\ minus(quote) = Minus(orders, Quotes(orders, price, volume))
  BY DEF Takes, Quotes, Minus
<1>2. {orders[i].trader : i \in {j \in DOMAIN orders : base[j] > 0}} = T
  BY DEF Touched
<1>3. /\ DOMAIN A = {orders[i].trader : i \in {j \in DOMAIN orders : base[j] > 0}}
      /\ \A t \in {orders[i].trader : i \in {j \in DOMAIN orders : base[j] > 0}} :
           /\ A[t].base = Net(orders, t, base, minus(base))
           /\ A[t].quote = Net(orders, t, minus(quote), quote)
  BY DEF allocate
<1>. HIDE DEF A, T, base, quote, minus
<1>. QED BY <1>1, <1>2, <1>3 DEF A, T

LEMMA NetType ==
  ASSUME NEW orders \in Seq(Order), NEW t,
         NEW buys \in [1..Len(orders) -> Int], NEW sells \in [1..Len(orders) -> Int]
  PROVE  Net(orders, t, buys, sells) \in Int
<1>. DEFINE f == [i \in 1..Len(orders) |->
                    IF orders[i].trader # t THEN 0
                    ELSE IF orders[i].side = "buy" THEN buys[i] ELSE sells[i]]
<1>1. Len(orders) \in Nat /\ f \in [1..Len(orders) -> Int]
  OBVIOUS
<1>. HIDE DEF f
<1>2. Total(Len(orders), f) \in Int
  BY <1>1, TotalType
<1>. QED BY <1>2 DEF Net, f

\* A trader none of whose orders trades has no position change.
LEMMA NetOfUntouched ==
  ASSUME NEW orders \in Seq(Order), NEW t,
         NEW buys \in [1..Len(orders) -> Int], NEW sells \in [1..Len(orders) -> Int],
         \A i \in 1..Len(orders) : orders[i].trader = t => buys[i] = 0 /\ sells[i] = 0
  PROVE  Net(orders, t, buys, sells) = 0
<1>. DEFINE f == [i \in 1..Len(orders) |->
                    IF orders[i].trader # t THEN 0
                    ELSE IF orders[i].side = "buy" THEN buys[i] ELSE sells[i]]
<1>1. /\ Len(orders) \in Nat /\ f \in [1..Len(orders) -> Int]
      /\ \A i \in 1..Len(orders) : f[i] = 0
  OBVIOUS
<1>. HIDE DEF f
<1>2. Total(Len(orders), f) = 0
  BY <1>1, TotalZero
<1>. QED BY <1>2 DEF Net, f

\* The position changes of all traders add up to those of all orders.
LEMMA NetTotal ==
  ASSUME NEW orders \in Seq(Order), NEW N \in Nat, Traders = 1..N,
         NEW buys \in [1..Len(orders) -> Int], NEW sells \in [1..Len(orders) -> Int]
  PROVE  Total(N, [t \in 1..N |-> Net(orders, t, buys, sells)])
           = Total(Len(orders), BySide(orders, buys, sells))
<1>. DEFINE n == Len(orders)
            b == BySide(orders, buys, sells)
            a == [t \in 1..N |-> [i \in 1..n |-> IF orders[i].trader = t THEN b[i] ELSE 0]]
            col(i) == [t \in 1..N |-> a[t][i]]
<1>1. n \in Nat /\ \A i \in 1..n : orders[i].trader \in 1..N
  <2>1. \A i \in 1..n : orders[i] \in Order
    OBVIOUS
  <2>. QED BY <2>1 DEF Order
<1>2. b \in [1..n -> Int]
  BY DEF BySide
<1>3. a \in [1..N -> [1..n -> Int]]
  <2>. HIDE DEF b
  <2>. QED BY <1>2
<1>4. \A t \in 1..N : Net(orders, t, buys, sells) = Total(n, a[t])
  <2>1. SUFFICES ASSUME NEW t \in 1..N PROVE Net(orders, t, buys, sells) = Total(n, a[t])
    OBVIOUS
  <2>2. a[t] = [i \in 1..n |-> IF orders[i].trader # t THEN 0
                               ELSE IF orders[i].side = "buy" THEN buys[i] ELSE sells[i]]
    BY DEF BySide
  <2>. HIDE DEF a
  <2>. QED BY <2>2 DEF Net
<1>5. \A i \in 1..n : Total(N, col(i)) = b[i]
  <2>1. SUFFICES ASSUME NEW i \in 1..n PROVE Total(N, col(i)) = b[i]
    OBVIOUS
  <2>2. \A t \in 1..N : col(i)[t] = IF t = orders[i].trader THEN b[i] ELSE 0
    BY DEF BySide
  <2>3. col(i) \in [1..N -> Int] /\ b[i] \in Int
    BY <1>2, <1>3
  <2>. HIDE DEF col, b
  <2>. QED BY <1>1, <2>2, <2>3, TotalSingle
<1>. HIDE DEF a, b, n
<1>6. [t \in 1..N |-> Net(orders, t, buys, sells)] = [t \in 1..N |-> Total(n, a[t])]
  BY <1>4
<1>7. Total(N, [t \in 1..N |-> Total(n, a[t])]) = Total(n, [i \in 1..n |-> Total(N, col(i))])
  BY <1>1, <1>3, TotalSwap
<1>8. [i \in 1..n |-> Total(N, col(i))] = b
  <2>. HIDE DEF col
  <2>. QED BY <1>2, <1>5
<1>. QED BY <1>6, <1>7, <1>8 DEF b, n

\* Truncation loses less than one unit of quote, and nothing of nothing.
LEMMA QuoteForType ==
  ASSUME NEW base \in Nat, NEW price \in Nat
  PROVE  /\ QuoteFor(base, price) \in Nat
         /\ PriceScale * QuoteFor(base, price) <= base * price
         /\ base * price < PriceScale * QuoteFor(base, price) + PriceScale
         /\ base = 0 => QuoteFor(base, price) = 0
<1>. DEFINE S == PriceScale
            a == base * price
            q == a \div S
<1>1. S \in Nat \ {0}
  BY PriceScaleAssumption
<1>2. a \in Nat /\ (base = 0 => a = 0)
  BY SMT
<1>. HIDE DEF S, a
<1>3. q \in Nat /\ S * q <= a /\ a < S * q + S
  BY <1>1, <1>2, SMT
<1>4. a = 0 => q = 0
  BY <1>1, <1>2, SMT
<1>. QED BY <1>2, <1>3, <1>4 DEF QuoteFor, S, a

LEMMA QuoteForMonotone ==
  ASSUME NEW base \in Nat, NEW p \in Nat, NEW q \in Nat, p <= q
  PROVE  QuoteFor(base, p) <= QuoteFor(base, q)
<1>. DEFINE S == PriceScale
            x == QuoteFor(base, p)
            y == QuoteFor(base, q)
<1>1. S \in Nat \ {0}
  BY PriceScaleAssumption
<1>2. x \in Nat /\ y \in Nat /\ S * x <= base * p /\ base * q < S * y + S
  BY QuoteForType
<1>3. base * p <= base * q /\ base * p \in Nat /\ base * q \in Nat
  BY SMT
<1>. HIDE DEF S, x, y
<1>4. S * x < S * y + S
  BY <1>1, <1>2, <1>3, SMT
<1>5. S * y + S = S * (y + 1)
  BY <1>1, <1>2, SMT
<1>6. x < y + 1
  BY <1>1, <1>2, <1>4, <1>5, SMT
<1>. QED BY <1>2, <1>6 DEF x, y

LEMMA QuotesType ==
  ASSUME NEW orders \in Seq(Order), NEW price \in Nat, NEW volume \in Nat
  PROVE  /\ Quotes(orders, price, volume) \in [1..Len(orders) -> Nat]
         /\ Quotes(orders, price, volume) \in [1..Len(orders) -> Int]
         /\ Minus(orders, Quotes(orders, price, volume)) \in [1..Len(orders) -> Int]
         /\ Minus(orders, Takes(orders, price, volume)) \in [1..Len(orders) -> Int]
<1>1. \A i \in 1..Len(orders) : take(orders, price, volume, i) \in Nat
  BY TakeType
<1>2. Quotes(orders, price, volume) \in [1..Len(orders) -> Nat]
  BY <1>1, QuoteForType DEF Quotes
<1>3. Takes(orders, price, volume) \in [1..Len(orders) -> Nat]
  BY TakesType
<1>. QED BY <1>2, <1>3 DEF Minus

\* The sums of the fills that NightjarAuction.settle takes.
BaseSum(N, fills) ==
  Total(N, [t \in 1..N |-> IF t \in DOMAIN fills THEN fills[t].base ELSE 0])
QuoteSum(N, fills) ==
  Total(N, [t \in 1..N |-> IF t \in DOMAIN fills THEN fills[t].quote ELSE 0])

\* The fills add up to what the orders trade.
LEMMA FillsTotal ==
  ASSUME NEW orders \in Seq(Order), NEW N \in Nat, Traders = 1..N,
         NEW price \in Nat, NEW volume \in Nat, NEW fills,
         fills = allocate(orders, price, volume)
  PROVE  /\ BaseSum(N, fills)
              = Total(Len(orders), BySide(orders, Takes(orders, price, volume),
                                          Minus(orders, Takes(orders, price, volume))))
         /\ QuoteSum(N, fills)
              = Total(Len(orders), BySide(orders, Minus(orders, Quotes(orders, price, volume)),
                                          Quotes(orders, price, volume)))
<1>. DEFINE n == Len(orders)
            b == Takes(orders, price, volume)
            q == Quotes(orders, price, volume)
            c == Minus(orders, b)
            r == Minus(orders, q)
<1>1. /\ b \in [1..n -> Int] /\ c \in [1..n -> Int]
      /\ q \in [1..n -> Int] /\ r \in [1..n -> Int]
  BY TakesType, QuotesType
<1>2. ASSUME NEW t, t \notin Touched(orders, price, volume), NEW i \in 1..n, orders[i].trader = t
      PROVE  b[i] = 0 /\ c[i] = 0 /\ q[i] = 0 /\ r[i] = 0
  <2>1. take(orders, price, volume, i) \in Nat
    BY TakeType
  <2>2. ~(take(orders, price, volume, i) > 0)
    BY <1>2 DEF Touched
  <2>3. take(orders, price, volume, i) = 0
    BY <2>1, <2>2
  <2>4. QuoteFor(0, price) = 0
    BY QuoteForType
  <2>5. i \in 1..Len(orders)
    OBVIOUS
  <2>6. b[i] = 0 /\ q[i] = 0
    BY <2>3, <2>4, <2>5 DEF Takes, Quotes
  <2>. HIDE DEF b, q
  <2>7. c[i] = -b[i] /\ r[i] = -q[i]
    BY <2>5 DEF Minus
  <2>. HIDE DEF c, r
  <2>8. b[i] \in Int /\ q[i] \in Int
    BY <2>6
  <2>9. \A k \in Int : -k = 0 - k
    OBVIOUS
  <2>10. c[i] = 0 - b[i] /\ r[i] = 0 - q[i]
    BY <2>7, <2>8, <2>9
  <2>. QED BY <2>6, <2>10
<1>3. /\ DOMAIN fills = Touched(orders, price, volume)
      /\ \A t \in DOMAIN fills : fills[t].base = Net(orders, t, b, c)
      /\ \A t \in DOMAIN fills : fills[t].quote = Net(orders, t, r, q)
  BY AllocateFills
<1>. HIDE DEF b, c, q, r, n
<1>4. ASSUME NEW t, t \notin DOMAIN fills
      PROVE  Net(orders, t, b, c) = 0 /\ Net(orders, t, r, q) = 0
  BY SMTT(30), <1>1, <1>2, <1>3, <1>4, NetOfUntouched DEF n
<1>5. [t \in 1..N |-> IF t \in DOMAIN fills THEN fills[t].base ELSE 0]
        = [t \in 1..N |-> Net(orders, t, b, c)]
  BY <1>3, <1>4
<1>6. [t \in 1..N |-> IF t \in DOMAIN fills THEN fills[t].quote ELSE 0]
        = [t \in 1..N |-> Net(orders, t, r, q)]
  BY <1>3, <1>4
<1>7. /\ Total(N, [t \in 1..N |-> Net(orders, t, b, c)]) = Total(n, BySide(orders, b, c))
      /\ Total(N, [t \in 1..N |-> Net(orders, t, r, q)]) = Total(n, BySide(orders, r, q))
  BY <1>1, NetTotal DEF n
<1>. QED BY <1>5, <1>6, <1>7 DEF b, c, q, r, n, BaseSum, QuoteSum

\* What the buyers gain in base the sellers give (settle would refuse anything
\* else).
LEMMA BaseBalances ==
  ASSUME NEW orders \in Seq(Order), NEW price
  PROVE  LET b == Takes(orders, price, matchedAt(orders, price))
         IN /\ Total(Len(orders), BySide(orders, b, Minus(orders, b))) = 0
            /\ Total(Len(orders), BySide(orders, Minus(orders, b), b)) = 0
<1>. DEFINE n == Len(orders)
            v == matchedAt(orders, price)
            b == Takes(orders, price, v)
            buy == SideTakes(orders, "buy", price, v)
            sell == SideTakes(orders, "sell", price, v)
            f == BySide(orders, b, Minus(orders, b))
            g == BySide(orders, Minus(orders, b), b)
<1>1. v \in Nat /\ n \in Nat
  BY DepthType
<1>2. Total(n, buy) = v /\ Total(n, sell) = v
  BY SideTradesMatched
<1>. HIDE DEF v
<1>3. b \in [1..n -> Nat] /\ \A i \in 1..n : b[i] = take(orders, price, v, i)
  BY <1>1, TakesType DEF Takes
<1>. HIDE DEF b
<1>4. \A i \in 1..n : orders[i].side \in {"buy", "sell"}
  <2>1. \A i \in 1..n : orders[i] \in Order
    OBVIOUS
  <2>. QED BY <2>1 DEF Order
<1>5. /\ buy \in [1..n -> Int] /\ sell \in [1..n -> Int]
      /\ f \in [1..n -> Int] /\ g \in [1..n -> Int]
      /\ \A i \in 1..n : buy[i] = f[i] + sell[i] /\ sell[i] = g[i] + buy[i]
  <2>1. buy \in [1..n -> Int] /\ sell \in [1..n -> Int]
    BY <1>3 DEF SideTakes
  <2>2. f \in [1..n -> Int] /\ g \in [1..n -> Int]
    BY <1>3 DEF BySide, Minus
  <2>3. ASSUME NEW i \in 1..n PROVE buy[i] = f[i] + sell[i] /\ sell[i] = g[i] + buy[i]
    BY <1>3, <1>4 DEF SideTakes, BySide, Minus
  <2>. QED BY <2>1, <2>2, <2>3
<1>. HIDE DEF f, g, buy, sell, n
<1>6. Total(n, buy) = Total(n, f) + Total(n, sell) /\ Total(n, sell) = Total(n, g) + Total(n, buy)
  BY <1>1, <1>5, TotalAdd
<1>7. Total(n, f) \in Int /\ Total(n, g) \in Int
  BY <1>1, <1>5, TotalType
<1>8. Total(n, f) = 0 /\ Total(n, g) = 0
  BY SMTT(30), <1>1, <1>2, <1>6, <1>7
<1>. QED BY <1>8 DEF f, g, b, v, n

\* What order i is worth at its own limit: what its trader accepts to pay, or
\* to receive, for the base that it trades.
AtOwnLimit(orders, price, volume, i) ==
  LET q == QuoteFor(take(orders, price, volume, i), orders[i].limit)
  IN IF orders[i].side = "buy" THEN -q ELSE q

\* A trader's fill is never worse than the limits of the trader's own orders
\* together, in whole units of quote: truncating each fill keeps the order of
\* the prices.
LEMMA FillWithinLimits ==
  ASSUME NEW orders \in Seq(Order), NEW price \in Nat, NEW volume \in Nat,
         NEW t \in Touched(orders, price, volume), NEW g,
         g = [i \in 1..Len(orders) |->
                IF orders[i].trader = t THEN AtOwnLimit(orders, price, volume, i) ELSE 0]
  PROVE  Total(Len(orders), g) <= allocate(orders, price, volume)[t].quote
<1>. DEFINE n == Len(orders)
            q == Quotes(orders, price, volume)
            f == [i \in 1..n |-> IF orders[i].trader # t THEN 0
                                 ELSE IF orders[i].side = "buy" THEN Minus(orders, q)[i]
                                 ELSE q[i]]
            own(i) == QuoteFor(take(orders, price, volume, i), orders[i].limit)
<1>1. allocate(orders, price, volume)[t].quote = Total(n, f)
  <2>1. allocate(orders, price, volume)[t].quote = Net(orders, t, Minus(orders, q), q)
    BY AllocateFills
  <2>. HIDE DEF q
  <2>. QED BY <2>1 DEF Net
<1>2. \A i \in 1..n : /\ orders[i].limit \in Nat /\ orders[i].side \in {"buy", "sell"}
                      /\ take(orders, price, volume, i) \in Nat
  <2>1. \A i \in 1..n : orders[i] \in Order
    OBVIOUS
  <2>. QED BY <2>1, TakeType, OrderFields DEF Order
<1>3. \A i \in 1..n : /\ q[i] \in Nat /\ own(i) \in Nat
                      /\ q[i] = QuoteFor(take(orders, price, volume, i), price)
  BY <1>2, QuotesType, QuoteForType DEF Quotes
<1>4. ASSUME NEW i \in 1..n
      PROVE  IF orders[i].side = "buy" THEN q[i] <= own(i) ELSE own(i) <= q[i]
  <2>1. CASE take(orders, price, volume, i) = 0
    <3>1. own(i) = 0 /\ q[i] = 0
      BY <1>2, <1>3, <2>1, QuoteForType
    <3>. QED BY <3>1
  <2>2. CASE take(orders, price, volume, i) # 0
    <3>1. i \in eligible(orders, orders[i].side, price)
      BY <2>2 DEF take
    <3>2. IF orders[i].side = "buy" THEN price <= orders[i].limit ELSE orders[i].limit <= price
      BY <1>2, <3>1 DEF eligible, Accepts
    <3>. QED BY <1>2, <1>3, <3>2, QuoteForMonotone
  <2>. QED BY <2>1, <2>2
<1>5. f \in [1..n -> Int] /\ g \in [1..n -> Int] /\ n \in Nat
  <2>1. g \in [1..n -> Int]
    <3>1. \A i \in 1..n : AtOwnLimit(orders, price, volume, i)
                            = IF orders[i].side = "buy" THEN -own(i) ELSE own(i)
      BY DEF AtOwnLimit
    <3>. HIDE DEF own
    <3>. QED BY <1>3, <3>1
  <2>2. f \in [1..n -> Int]
    <3>1. q \in [1..n -> Int] /\ Minus(orders, q) \in [1..n -> Int]
      BY QuotesType
    <3>. HIDE DEF q
    <3>. QED BY <3>1
  <2>. QED BY <2>1, <2>2
<1>6. \A i \in 1..n : g[i] <= f[i]
  <2>1. SUFFICES ASSUME NEW i \in 1..n PROVE g[i] <= f[i]
    OBVIOUS
  <2>2. g[i] = IF orders[i].trader = t
               THEN IF orders[i].side = "buy" THEN -own(i) ELSE own(i) ELSE 0
    BY DEF AtOwnLimit
  <2>3. f[i] = IF orders[i].trader = t
               THEN IF orders[i].side = "buy" THEN -q[i] ELSE q[i] ELSE 0
    BY DEF Minus
  <2>4. q[i] \in Nat /\ own(i) \in Nat
    BY <1>3
  <2>5. IF orders[i].side = "buy" THEN q[i] <= own(i) ELSE own(i) <= q[i]
    BY <1>4
  <2>. HIDE DEF own, q, f
  <2>. QED BY <2>2, <2>3, <2>4, <2>5
<1>. HIDE DEF f, n
<1>7. Total(n, g) <= Total(n, f)
  BY <1>5, <1>6, TotalMonotone DEF n
<1>. QED BY <1>1, <1>7 DEF n

\* When every part is off by at most s-1 in s, k parts are off by less than k.
LEMMA OffByLess ==
  ASSUME NEW s \in Nat \ {0}, NEW k \in Nat \ {0}, NEW off \in Int,
         s * off <= (s - 1) * k
  PROVE  off < k
<1>1. SUFFICES ASSUME off >= k PROVE FALSE
  OBVIOUS
<1>2. s * off >= s * k
  BY <1>1, SMT
<1>3. (s - 1) * k = s * k - k
  BY SMT
<1>. QED BY <1>2, <1>3, SMT

\* The orders that trade, and what truncation makes buyers and sellers disagree
\* on.
Traded(orders, price, volume) == {i \in DOMAIN orders : take(orders, price, volume, i) > 0}
Dust(orders, price, volume) ==
  Total(Len(orders), BySide(orders, Minus(orders, Quotes(orders, price, volume)),
                            Quotes(orders, price, volume)))

\* The dust is less than one unit of quote for each order that trades.
LEMMA DustBelowTrades ==
  ASSUME NEW orders \in Seq(Order), NEW price \in Nat, matchedAt(orders, price) > 0,
         NEW volume, volume = matchedAt(orders, price)
  PROVE  /\ Dust(orders, price, volume) \in Int
         /\ Cardinality(Traded(orders, price, volume)) \in Nat
         /\ Dust(orders, price, volume) < Cardinality(Traded(orders, price, volume))
         /\ -Dust(orders, price, volume) < Cardinality(Traded(orders, price, volume))
<1>. DEFINE n == Len(orders)
            v == matchedAt(orders, price)
            S == PriceScale
            b == Takes(orders, price, v)
            q == Quotes(orders, price, v)
            traded == {i \in DOMAIN orders : take(orders, price, v, i) > 0}
            moved == BySide(orders, Minus(orders, b), b)
            off == BySide(orders, Minus(orders, q), q)
            one == [i \in 1..n |-> IF i \in traded THEN 1 ELSE 0]
            most == [i \in 1..n |-> (S - 1) * one[i]]
            least == [i \in 1..n |-> (1 - S) * one[i]]
            paid == [i \in 1..n |-> price * moved[i]]
            scaled == [i \in 1..n |-> S * off[i]]
            dust == [i \in 1..n |-> scaled[i] - paid[i]]
<1>1. n \in Nat /\ v \in Nat /\ S \in Nat \ {0} /\ DOMAIN orders = 1..n
  BY DepthType, PriceScaleAssumption
<1>2. Total(n, moved) = 0
  BY BaseBalances
<1>3. Total(n, SideTakes(orders, "buy", price, v)) = v
  BY SideTradesMatched
<1>4. v > 0
  OBVIOUS
<1>. HIDE DEF v, n, S
<1>5. /\ \A i \in 1..n : b[i] \in Nat /\ q[i] \in Nat /\ S * q[i] <= b[i] * price
                         /\ b[i] * price < S * q[i] + S /\ (b[i] = 0 => q[i] = 0)
      /\ \A i \in 1..n : orders[i].side \in {"buy", "sell"}
      /\ \A i \in 1..n : i \in traded <=> b[i] > 0
  <2>1. \A i \in 1..n : take(orders, price, v, i) \in Nat
    BY <1>1, TakeType DEF n
  <2>2. \A i \in 1..n : orders[i] \in Order
    BY DEF n
  <2>3. \A i \in 1..n : b[i] = take(orders, price, v, i) /\ q[i] = QuoteFor(b[i], price)
    BY DEF Takes, Quotes, n
  <2>4. \A i \in 1..n : i \in traded <=> b[i] > 0
    BY <1>1, <2>3
  <2>5. \A i \in 1..n : orders[i].side \in {"buy", "sell"}
    BY <2>2 DEF Order
  <2>. HIDE DEF b, q, traded
  <2>. QED BY <2>1, <2>3, <2>4, <2>5, QuoteForType DEF S
<1>6. /\ \A i \in 1..n : moved[i] = IF orders[i].side = "buy" THEN -b[i] ELSE b[i]
      /\ \A i \in 1..n : off[i] = IF orders[i].side = "buy" THEN -q[i] ELSE q[i]
      /\ moved = [i \in 1..n |-> moved[i]] /\ off = [i \in 1..n |-> off[i]]
  BY DEF BySide, Minus, n
<1>. HIDE DEF b, q, moved, off, traded
<1>7. moved \in [1..n -> Int] /\ off \in [1..n -> Int] /\ one \in [1..n -> Int]
  <2>1. \A i \in 1..n : moved[i] \in Int /\ off[i] \in Int
    BY <1>5, <1>6
  <2>. QED BY <1>6, <2>1
<1>8. /\ most \in [1..n -> Int] /\ least \in [1..n -> Int]
      /\ paid \in [1..n -> Int] /\ scaled \in [1..n -> Int] /\ dust \in [1..n -> Int]
  <2>. HIDE DEF one
  <2>1. most \in [1..n -> Int] /\ least \in [1..n -> Int]
    BY SMTT(30), <1>1, <1>7
  <2>2. paid \in [1..n -> Int] /\ scaled \in [1..n -> Int]
    BY SMTT(30), <1>1, <1>7
  <2>3. dust \in [1..n -> Int]
    <3>. HIDE DEF paid, scaled
    <3>. QED BY <2>2
  <2>. QED BY <2>1, <2>2, <2>3
<1>9. \A i \in 1..n : least[i] <= dust[i] /\ dust[i] <= most[i]
  <2>1. SUFFICES ASSUME NEW i \in 1..n PROVE least[i] <= dust[i] /\ dust[i] <= most[i]
    OBVIOUS
  <2>. DEFINE x == b[i] * price
              y == S * q[i]
              d == x - y
  <2>2. /\ b[i] \in Nat /\ q[i] \in Nat /\ y <= x /\ x < y + S
        /\ (b[i] = 0 => q[i] = 0) /\ (i \in traded <=> b[i] > 0)
    BY <1>5
  <2>3. x \in Int /\ y \in Int /\ (b[i] = 0 => x = 0 /\ y = 0)
    BY <1>1, <2>2, SMT
  <2>4. dust[i] = IF orders[i].side = "buy" THEN x - y ELSE y - x
    <3>1. dust[i] = S * off[i] - price * moved[i]
      OBVIOUS
    <3>2. CASE orders[i].side = "buy"
      <4>1. off[i] = -q[i] /\ moved[i] = -b[i]
        BY <1>6, <3>2
      <4>2. S * (-q[i]) = -y /\ price * (-b[i]) = -x
        BY <1>1, <2>2, SMT
      <4>. HIDE DEF x, y, dust
      <4>3. dust[i] = (-y) - (-x)
        BY <3>1, <4>1, <4>2
      <4>. QED BY <2>3, <3>2, <4>3
    <3>3. CASE orders[i].side # "buy"
      <4>1. off[i] = q[i] /\ moved[i] = b[i]
        BY <1>6, <3>3
      <4>2. price * b[i] = x
        BY <1>1, <2>2, SMT
      <4>. HIDE DEF x, dust
      <4>. QED BY <3>1, <3>3, <4>1, <4>2
    <3>. QED BY <3>2, <3>3
  <2>5. most[i] = (S - 1) * one[i] /\ least[i] = (1 - S) * one[i]
    OBVIOUS
  <2>6. CASE b[i] = 0
    <3>1. dust[i] = 0 /\ one[i] = 0
      <4>. HIDE DEF x, y, dust
      <4>. QED BY <2>2, <2>3, <2>4, <2>6
    <3>2. most[i] = 0 /\ least[i] = 0
      <4>. HIDE DEF one, dust, most, least
      <4>. QED BY <1>1, <2>5, <3>1, SMT
    <3>. QED BY <3>1, <3>2
  <2>7. CASE b[i] > 0
    <3>1. one[i] = 1
      BY <2>2, <2>7
    <3>2. most[i] = S - 1 /\ least[i] = 1 - S
      <4>. HIDE DEF one, dust, most, least
      <4>. QED BY <1>1, <2>5, <3>1, SMT
    <3>. HIDE DEF x, y, dust, most, least
    <3>. QED BY <1>1, <2>2, <2>3, <2>4, <3>2
  <2>8. b[i] = 0 \/ b[i] > 0
    BY <2>2
  <2>. QED BY <2>6, <2>7, <2>8
<1>10. /\ \A i \in 1..n : paid[i] = price * moved[i] /\ scaled[i] = S * off[i]
       /\ \A i \in 1..n : most[i] = (S - 1) * one[i] /\ least[i] = (1 - S) * one[i]
       /\ \A i \in 1..n : scaled[i] = dust[i] + paid[i]
  <2>1. \A i \in 1..n : dust[i] = scaled[i] - paid[i]
    OBVIOUS
  <2>2. \A i \in 1..n : scaled[i] \in Int /\ paid[i] \in Int
    BY <1>8
  <2>3. \A i \in 1..n : scaled[i] = dust[i] + paid[i]
    <3>. HIDE DEF scaled, paid, dust
    <3>. QED BY <2>1, <2>2
  <2>. QED BY <2>3
<1>11. Total(n, one) = Cardinality(traded) /\ IsFiniteSet(traded) /\ Cardinality(traded) \in Nat
  <2>1. traded \subseteq 1..n
    BY <1>1 DEF traded
  <2>. QED BY <1>1, <2>1, TotalCount, FS_CardinalityType
<1>12. traded # {}
  <2>1. ASSUME traded = {} PROVE FALSE
    <3>. DEFINE z == SideTakes(orders, "buy", price, v)
    <3>1. \A i \in 1..n : z[i] = 0
      <4>1. \A i \in 1..n : take(orders, price, v, i) = b[i]
        BY DEF b, Takes, n
      <4>2. \A i \in 1..n : b[i] = 0
        BY <1>5, <2>1
      <4>. QED BY <4>1, <4>2 DEF SideTakes, n
    <3>2. z \in [1..n -> Int]
      <4>1. z = [i \in 1..n |-> z[i]]
        BY DEF SideTakes, n
      <4>. HIDE DEF z
      <4>. QED BY <3>1, <4>1
    <3>. HIDE DEF z
    <3>3. Total(n, z) = 0
      BY <1>1, <3>1, <3>2, TotalZero
    <3>. QED BY <1>3, <1>4, <3>3 DEF z
  <2>. QED BY <2>1
<1>. HIDE DEF one, most, least, paid, scaled, dust
<1>13. /\ Total(n, most) = (S - 1) * Total(n, one)
       /\ Total(n, least) = (1 - S) * Total(n, one)
       /\ Total(n, paid) = price * Total(n, moved)
       /\ Total(n, scaled) = S * Total(n, off)
  <2>1. S - 1 \in Int /\ 1 - S \in Int /\ S \in Int /\ price \in Int
    BY <1>1
  <2>. DEFINE c == S - 1
              d == 1 - S
  <2>2. c \in Int /\ d \in Int
    BY <2>1
  <2>3. /\ one \in [1..n -> Int] /\ moved \in [1..n -> Int] /\ off \in [1..n -> Int]
        /\ n \in Nat
    BY <1>1, <1>7
  <2>4. Total(n, most) = c * Total(n, one)
    <3>1. most \in [1..n -> Int] /\ \A i \in 1..n : most[i] = c * one[i]
      BY <1>8, <1>10
    <3>. HIDE DEF c
    <3>. QED BY <2>2, <2>3, <3>1, TotalScale
  <2>5. Total(n, least) = d * Total(n, one)
    <3>1. least \in [1..n -> Int] /\ \A i \in 1..n : least[i] = d * one[i]
      BY <1>8, <1>10
    <3>. HIDE DEF d
    <3>. QED BY <2>2, <2>3, <3>1, TotalScale
  <2>6. Total(n, paid) = price * Total(n, moved)
    <3>1. paid \in [1..n -> Int] /\ \A i \in 1..n : paid[i] = price * moved[i]
      BY <1>8, <1>10
    <3>. QED BY <2>1, <2>3, <3>1, TotalScale
  <2>7. Total(n, scaled) = S * Total(n, off)
    <3>1. scaled \in [1..n -> Int] /\ \A i \in 1..n : scaled[i] = S * off[i]
      BY <1>8, <1>10
    <3>. QED BY <2>1, <2>3, <3>1, TotalScale
  <2>. QED BY <2>4, <2>5, <2>6, <2>7 DEF c, d
<1>14. Total(n, scaled) = Total(n, dust) + Total(n, paid)
  BY <1>1, <1>8, <1>10, TotalAdd
<1>15. Total(n, least) <= Total(n, dust) /\ Total(n, dust) <= Total(n, most)
  BY <1>1, <1>8, <1>9, TotalMonotone
<1>16. /\ Total(n, off) \in Int /\ Total(n, dust) \in Int
       /\ Total(n, most) \in Int /\ Total(n, least) \in Int
  BY <1>1, <1>7, <1>8, TotalType
<1>. DEFINE k == Cardinality(traded)
            o == Total(n, off)
<1>17. k \in Nat \ {0}
  BY <1>11, <1>12, FS_EmptySet
<1>18. S * o = Total(n, dust)
  <2>1. Total(n, paid) = 0
    BY <1>2, <1>13
  <2>. QED BY <1>13, <1>14, <1>16, <2>1
<1>19. (1 - S) * k <= S * o /\ S * o <= (S - 1) * k
  BY <1>11, <1>13, <1>15, <1>18
<1>. HIDE DEF k, o
<1>20. o \in Int
  BY <1>16 DEF o
<1>21. o < k
  BY <1>1, <1>17, <1>19, <1>20, OffByLess
<1>22. -o < k
  <2>1. S * (-o) = -(S * o) /\ (S - 1) * k = -((1 - S) * k)
    BY <1>1, <1>17, <1>20, SMT
  <2>2. S * o \in Int /\ (1 - S) * k \in Int
    BY <1>1, <1>17, <1>20, SMT
  <2>3. S * (-o) <= (S - 1) * k
    BY <1>19, <2>1, <2>2
  <2>4. -o \in Int
    BY <1>20
  <2>. QED BY <1>1, <1>17, <2>3, <2>4, OffByLess
<1>23. Dust(orders, price, volume) = o /\ Cardinality(Traded(orders, price, volume)) = k
  BY DEF Dust, Traded, o, k, n, v, q, off, traded
<1>. QED BY <1>17, <1>20, <1>21, <1>22, <1>23
-----------------------------------------------------------------------------
(* The clearing price *)

\* A finite set has an element that comes before all others in a total order,
\* which is given as a set of pairs.
LEMMA FirstElement ==
  ASSUME NEW T, IsFiniteSet(T), T # {}, NEW R,
         \A x, y \in T : x = y \/ <<x, y>> \in R \/ <<y, x>> \in R,
         \A x, y, z \in T : <<x, y>> \in R /\ <<y, z>> \in R => <<x, z>> \in R
  PROVE  \E x \in T : \A y \in T : y = x \/ <<x, y>> \in R
<1>. DEFINE n == Cardinality(T)
            IsFirst(A, x) == x \in A /\ \A y \in A : y = x \/ <<x, y>> \in R
            P(c) == \A A \in SUBSET T : A # {} /\ Cardinality(A) = c => \E x : IsFirst(A, x)
            Q == {c \in 0..n : P(c)}
<1>. HIDE DEF n, P, Q
<1>0. n \in Nat /\ \A A \in SUBSET T : IsFiniteSet(A) /\ Cardinality(A) \in Nat
  BY FS_Subset, FS_CardinalityType DEF n
<1>1. P(0)
  BY <1>0, FS_EmptySet DEF P
<1>2. ASSUME NEW c \in 1..n, P(c-1) PROVE P(c)
  <2>1. SUFFICES ASSUME NEW A \in SUBSET T, A # {}, Cardinality(A) = c
                 PROVE  \E x : IsFirst(A, x)
    BY DEF P
  <2>2. PICK a \in A : TRUE
    BY <2>1
  <2>. DEFINE B == A \ {a}
  <2>3. B \in SUBSET T /\ Cardinality(B) = c - 1
    BY <1>0, <2>1, <2>2, FS_RemoveElement
  <2>4. CASE B = {}
    <3>1. IsFirst(A, a)
      BY <2>2, <2>4
    <3>. QED BY <3>1
  <2>5. CASE B # {}
    <3>1. PICK x : IsFirst(B, x)
      <4>. HIDE DEF B, IsFirst
      <4>. QED BY <1>2, <2>3, <2>5 DEF P
    <3>2. CASE <<x, a>> \in R
      <4>1. IsFirst(A, x)
        BY <3>1, <3>2
      <4>. QED BY <4>1
    <3>3. CASE <<a, x>> \in R
      <4>1. IsFirst(A, a)
        BY <2>2, <3>1, <3>3
      <4>. QED BY <4>1
    <3>4. <<x, a>> \in R \/ <<a, x>> \in R
      BY <2>2, <3>1
    <3>. QED BY <3>2, <3>3, <3>4
  <2>. QED BY <2>4, <2>5
<1>3. 0..n \subseteq Q
  <2>1. 0 \in Q /\ \A c \in 1..n : c-1 \in Q => c \in Q
    BY <1>0, <1>1, <1>2 DEF Q
  <2>. QED BY <1>0, <2>1, BoundedInduction
<1>4. P(n)
  BY <1>0, <1>3 DEF Q
<1>. QED BY <1>4 DEF P, n

LEMMA MaxIsGreatest ==
  ASSUME NEW T, IsFiniteSet(T), T # {}, T \subseteq Nat
  PROVE  Max(T) \in T /\ \A x \in T : x <= Max(T)
<1>. DEFINE R == {z \in T \X T : z[1] > z[2]}
<1>1. \A x, y \in T : <<x, y>> \in R <=> x > y
  OBVIOUS
<1>. HIDE DEF R
<1>2. /\ \A x, y \in T : x = y \/ <<x, y>> \in R \/ <<y, x>> \in R
      /\ \A x, y, z \in T : <<x, y>> \in R /\ <<y, z>> \in R => <<x, z>> \in R
  BY <1>1
<1>3. PICK m \in T : \A y \in T : y = m \/ <<m, y>> \in R
  BY <1>2, FirstElement
<1>4. ASSUME NEW y \in T PROVE m >= y /\ y <= m
  <2>1. y = m \/ m > y
    BY <1>1, <1>3
  <2>2. y \in Nat /\ m \in Nat
    OBVIOUS
  <2>. QED BY <2>1, <2>2
<1>5. Max(T) \in T /\ \A y \in T : Max(T) >= y
  BY <1>4 DEF Max
<1>6. Max(T) \in Nat
  BY <1>5
<1>. QED BY <1>5, <1>6

\* The prices that trade anything.
Trading(orders) == {p \in candidatePrices(orders) : matchedAt(orders, p) > 0}

\* p beats all other prices in T; 0 stands for no price.
Wins(orders, ref, T, p) ==
  IF T = {} THEN p = 0 ELSE p \in T /\ \A q \in T : q = p \/ better(orders, ref, p, q)

LEMMA TradingType ==
  ASSUME NEW orders \in Seq(Order)
  PROVE  Trading(orders) \subseteq Nat \ {0} /\ IsFiniteSet(Trading(orders))
<1>1. \A i \in DOMAIN orders : orders[i].limit \in Nat \ {0}
  <2>1. \A i \in DOMAIN orders : orders[i] \in Order
    OBVIOUS
  <2>. QED BY <2>1 DEF Order
<1>2. IsFiniteSet(candidatePrices(orders))
  <2>1. IsFiniteSet(DOMAIN orders)
    <3>1. Len(orders) \in Nat /\ DOMAIN orders = 1..Len(orders)
      BY OrderFields
    <3>. QED BY <3>1, TotalCount
  <2>. DEFINE f == [i \in DOMAIN orders |-> orders[i].limit]
  <2>2. candidatePrices(orders) = {f[i] : i \in DOMAIN orders}
    BY DEF candidatePrices
  <2>3. f \in Surjection(DOMAIN orders, {f[i] : i \in DOMAIN orders})
    BY DEF Surjection
  <2>. HIDE DEF f
  <2>. QED BY <2>1, <2>2, <2>3, FS_Surjection
<1>3. Trading(orders) \subseteq candidatePrices(orders)
  BY DEF Trading
<1>. QED BY <1>1, <1>2, <1>3, FS_Subset DEF candidatePrices

LEMMA WinnerExists ==
  ASSUME NEW orders \in Seq(Order), NEW ref \in Nat, NEW T, IsFiniteSet(T), T \subseteq Nat
  PROVE  \E p : Wins(orders, ref, T, p)
<1>1. CASE T = {}
  BY <1>1 DEF Wins
<1>2. CASE T # {}
  <2>. DEFINE R == {z \in T \X T : better(orders, ref, z[1], z[2])}
  <2>1. \A x, y \in T : <<x, y>> \in R <=> better(orders, ref, x, y)
    OBVIOUS
  <2>. HIDE DEF R
  <2>2. \A x, y \in T : x = y \/ <<x, y>> \in R \/ <<y, x>> \in R
    BY <2>1, BetterIsTotalOrder
  <2>3. \A x, y, z \in T : <<x, y>> \in R /\ <<y, z>> \in R => <<x, z>> \in R
    BY <2>1, BetterIsTotalOrder
  <2>4. PICK p \in T : \A y \in T : y = p \/ <<p, y>> \in R
    BY ZenonT(30), <1>2, <2>2, <2>3, FirstElement
  <2>5. Wins(orders, ref, T, p)
    BY <1>2, <2>1, <2>4 DEF Wins
  <2>. QED BY <2>5
<1>. QED BY <1>1, <1>2

LEMMA WinnerUnique ==
  ASSUME NEW orders \in Seq(Order), NEW ref \in Nat, NEW T, T \subseteq Nat,
         NEW p, NEW q, Wins(orders, ref, T, p), Wins(orders, ref, T, q)
  PROVE  p = q
<1>1. CASE T = {}
  BY <1>1 DEF Wins
<1>2. CASE T # {}
  <2>1. /\ p \in Nat /\ q \in Nat
        /\ q = p \/ better(orders, ref, p, q)
        /\ p = q \/ better(orders, ref, q, p)
    BY <1>2 DEF Wins
  <2>. QED BY <2>1, BetterIsTotalOrder
<1>. QED BY <1>1, <1>2

\* One more price: it replaces the incumbent when it beats it.
LEMMA WinnerStep ==
  ASSUME NEW orders \in Seq(Order), NEW ref \in Nat, NEW T, T \subseteq Nat \ {0},
         NEW x \in T, NEW p, Wins(orders, ref, T \ {x}, p)
  PROVE  Wins(orders, ref, T, IF p = 0 \/ better(orders, ref, x, p) THEN x ELSE p)
<1>1. CASE T \ {x} = {}
  BY <1>1 DEF Wins
<1>2. CASE T \ {x} # {}
  <2>1. /\ p \in T /\ p # x /\ p \in Nat /\ x \in Nat /\ p # 0
        /\ \A q \in T \ {x} : q = p \/ better(orders, ref, p, q)
    BY <1>2 DEF Wins
  <2>2. CASE better(orders, ref, x, p)
    <3>1. ASSUME NEW q \in T PROVE q = x \/ better(orders, ref, x, q)
      <4>1. q \in Nat
        OBVIOUS
      <4>2. q = x \/ q = p \/ better(orders, ref, p, q)
        BY <2>1
      <4>. QED BY <2>1, <2>2, <4>1, <4>2, BetterIsTotalOrder
    <3>. QED BY <2>2, <3>1 DEF Wins
  <2>3. CASE ~better(orders, ref, x, p)
    <3>1. better(orders, ref, p, x)
      BY <2>1, <2>3, BetterIsTotalOrder
    <3>2. \A q \in T : q = p \/ better(orders, ref, p, q)
      BY <2>1, <3>1
    <3>. QED BY <2>1, <2>3, <3>2 DEF Wins
  <2>. QED BY <2>2, <2>3
<1>. QED BY <1>1, <1>2

\* The search of bestPrice: g[T] is what it finds among the prices T.
IsSearch(orders, ref, g) ==
  g = [T \in SUBSET Trading(orders) |->
         IF T = {} THEN 0
         ELSE IF g[T \ {Max(T)}] = 0 \/ better(orders, ref, Max(T), g[T \ {Max(T)}])
              THEN Max(T) ELSE g[T \ {Max(T)}]]

LEMMA SearchExists ==
  ASSUME NEW orders \in Seq(Order), NEW ref \in Nat
  PROVE  \E g : IsSearch(orders, ref, g)
<1>. DEFINE S == Trading(orders)
            g == [T \in SUBSET S |-> CHOOSE p : Wins(orders, ref, T, p)]
<1>1. S \subseteq Nat \ {0} /\ IsFiniteSet(S)
  BY TradingType
<1>. HIDE DEF S
<1>2. \A T \in SUBSET S : IsFiniteSet(T) /\ T \subseteq Nat /\ T \subseteq Nat \ {0}
  BY <1>1, FS_Subset
<1>3. \A T \in SUBSET S : Wins(orders, ref, T, g[T])
  BY <1>2, WinnerExists
<1>. HIDE DEF g
<1>4. ASSUME NEW T \in SUBSET S
      PROVE  g[T] = IF T = {} THEN 0
                    ELSE IF g[T \ {Max(T)}] = 0 \/ better(orders, ref, Max(T), g[T \ {Max(T)}])
                         THEN Max(T) ELSE g[T \ {Max(T)}]
  <2>1. CASE T = {}
    BY <1>3, <2>1 DEF Wins
  <2>2. CASE T # {}
    <3>. DEFINE x == Max(T)
                p == g[T \ {x}]
    <3>1. x \in T
      BY <1>2, <2>2, MaxIsGreatest
    <3>2. Wins(orders, ref, T \ {x}, p)
      BY <1>3
    <3>. HIDE DEF x, p
    <3>3. Wins(orders, ref, T, IF p = 0 \/ better(orders, ref, x, p) THEN x ELSE p)
      BY <1>2, <3>1, <3>2, WinnerStep
    <3>4. g[T] = IF p = 0 \/ better(orders, ref, x, p) THEN x ELSE p
      BY <1>2, <1>3, <3>3, WinnerUnique
    <3>. QED BY <2>2, <3>4 DEF x, p
  <2>. QED BY <2>1, <2>2
<1>5. g = [T \in SUBSET S |-> g[T]]
  BY DEF g
<1>6. IsSearch(orders, ref, g)
  BY <1>4, <1>5 DEF IsSearch, S
<1>. QED BY <1>6

\* The price that Clear finds beats every other limit price that trades
\* anything (matching.go:48-74).
LEMMA BestPriceWins ==
  ASSUME NEW orders \in Seq(Order), NEW ref \in Nat
  PROVE  Wins(orders, ref, Trading(orders), bestPrice(orders, ref))
<1>. DEFINE S == Trading(orders)
            g == CHOOSE h : IsSearch(orders, ref, h)
            n == Cardinality(S)
            P(c) == \A T \in SUBSET S : Cardinality(T) = c => Wins(orders, ref, T, g[T])
            Q == {c \in 0..n : P(c)}
<1>1. bestPrice(orders, ref) = g[S]
  BY Zenon DEF bestPrice, MapThenFoldSet, IsSearch, Trading
<1>2. IsSearch(orders, ref, g)
  BY SearchExists
<1>3. S \subseteq Nat \ {0} /\ IsFiniteSet(S)
  BY TradingType
<1>. HIDE DEF g
<1>4. \A T \in SUBSET S :
        g[T] = IF T = {} THEN 0
               ELSE IF g[T \ {Max(T)}] = 0 \/ better(orders, ref, Max(T), g[T \ {Max(T)}])
                    THEN Max(T) ELSE g[T \ {Max(T)}]
  BY <1>2 DEF IsSearch
<1>. HIDE DEF S, n, P, Q
<1>5. /\ n \in Nat
      /\ \A T \in SUBSET S : /\ IsFiniteSet(T) /\ Cardinality(T) \in Nat
                             /\ T \subseteq Nat /\ T \subseteq Nat \ {0}
  BY <1>3, FS_Subset, FS_CardinalityType DEF n
<1>6. P(0)
  <2>1. \A T \in SUBSET S : Cardinality(T) = 0 => T = {}
    BY <1>5, FS_EmptySet
  <2>2. g[{}] = 0
    BY <1>4
  <2>. QED BY <2>1, <2>2 DEF P, Wins
<1>7. ASSUME NEW c \in 1..n, P(c-1) PROVE P(c)
  <2>1. SUFFICES ASSUME NEW T \in SUBSET S, Cardinality(T) = c
                 PROVE  Wins(orders, ref, T, g[T])
    BY DEF P
  <2>2. T # {}
    BY <1>5, <2>1, FS_EmptySet
  <2>. DEFINE x == Max(T)
              p == g[T \ {x}]
  <2>3. x \in T
    BY <1>5, <2>2, MaxIsGreatest
  <2>4. Wins(orders, ref, T \ {x}, p)
    <3>1. Cardinality(T \ {x}) = c - 1
      BY <1>5, <2>1, <2>3, FS_RemoveElement
    <3>2. T \ {x} \in SUBSET S
      OBVIOUS
    <3>. HIDE DEF x
    <3>. QED BY <1>7, <3>1, <3>2 DEF P
  <2>5. g[T] = IF p = 0 \/ better(orders, ref, x, p) THEN x ELSE p
    BY <1>4, <2>2
  <2>. HIDE DEF x, p
  <2>. QED BY <1>5, <2>3, <2>4, <2>5, WinnerStep
<1>8. 0..n \subseteq Q
  <2>1. 0 \in Q /\ \A c \in 1..n : c-1 \in Q => c \in Q
    BY <1>5, <1>6, <1>7 DEF Q
  <2>. QED BY <1>5, <2>1, BoundedInduction
<1>9. P(n)
  BY <1>5, <1>8 DEF Q
<1>. QED BY <1>1, <1>9 DEF P, n, S

\* An order counts in full in the volume of any set it belongs to.
LEMMA VolumeOfOne ==
  ASSUME NEW orders \in Seq(Order), NEW S, NEW i \in S, i \in 1..Len(orders)
  PROVE  orders[i].size <= Volume(orders, S)
<1>1. SizesOf(orders) \in [1..Len(orders) -> Int] /\ SizesOf(orders)[i] = orders[i].size
  BY VolumeIsOnly DEF SizesOf
<1>2. Total(Len(orders), Only(Len(orders), SizesOf(orders), S))
        = Total(Len(orders), Only(Len(orders), SizesOf(orders), S \ {i})) + SizesOf(orders)[i]
  <2>1. Len(orders) \in Nat
    OBVIOUS
  <2>. QED BY <1>1, <2>1, OnlyRemove
<1>3. Volume(orders, S \ {i}) \in Nat /\ orders[i].size \in Nat
  BY VolumeType, OrderFields
<1>4. Volume(orders, S) = Volume(orders, S \ {i}) + orders[i].size
  BY <1>1, <1>2, VolumeIsOnly
<1>. QED BY <1>3, <1>4

\* The clearing price trades as much as any price whatever would; when there
\* is none, no buy order meets any sell order (matching.go:48-77, 129-130).
THEOREM BestPriceTradesMost ==
  ASSUME NEW orders \in Seq(Order), NEW ref \in Nat
  PROVE  LET best == bestPrice(orders, ref) IN
         /\ best \in Nat
         /\ best # 0 => /\ best \in candidatePrices(orders)
                        /\ matchedAt(orders, best) > 0
                        /\ \A p \in Nat : matchedAt(orders, p) <= matchedAt(orders, best)
         /\ best = 0 => \A i, j \in DOMAIN orders :
                          orders[i].side = "buy" /\ orders[j].side = "sell"
                            => orders[i].limit < orders[j].limit
<1>. DEFINE best == bestPrice(orders, ref)
            T == Trading(orders)
<1>1. Wins(orders, ref, T, best)
  BY BestPriceWins
<1>2. T \subseteq Nat \ {0} /\ \A p \in T : p \in candidatePrices(orders)
                                           /\ matchedAt(orders, p) > 0
  BY TradingType DEF Trading
<1>. HIDE DEF best
<1>3. \A p \in Nat : matchedAt(orders, p) \in Nat
  BY DepthType
<1>4. \A p \in Nat : matchedAt(orders, p) > 0
                       => \E q \in T : matchedAt(orders, q) >= matchedAt(orders, p)
  <2>1. SUFFICES ASSUME NEW p \in Nat, matchedAt(orders, p) > 0
                 PROVE  \E q \in T : matchedAt(orders, q) >= matchedAt(orders, p)
    OBVIOUS
  <2>2. PICK q \in candidatePrices(orders) : matchedAt(orders, q) >= matchedAt(orders, p)
    BY <2>1, OptimumAtLimit
  <2>3. q \in Nat
    BY OrderFields DEF candidatePrices
  <2>4. matchedAt(orders, q) > 0
    BY <1>3, <2>1, <2>2, <2>3
  <2>. QED BY <2>2, <2>4 DEF Trading
<1>5. CASE T = {}
  <2>1. best = 0
    BY <1>1, <1>5 DEF Wins
  <2>2. ASSUME NEW i \in DOMAIN orders, NEW j \in DOMAIN orders,
               orders[i].side = "buy", orders[j].side = "sell",
               ~(orders[i].limit < orders[j].limit)
        PROVE  FALSE
    <3>. DEFINE p == orders[j].limit
                B == eligible(orders, "buy", p)
                S == eligible(orders, "sell", p)
    <3>1. /\ orders[i].limit \in Nat /\ p \in Nat /\ i \in 1..Len(orders) /\ j \in 1..Len(orders)
          /\ orders[i].size \in Nat \ {0} /\ orders[j].size \in Nat \ {0}
      <4>1. orders[i] \in Order /\ orders[j] \in Order
        OBVIOUS
      <4>. QED BY <4>1, OrderFields DEF Order
    <3>2. i \in B /\ j \in S
      BY <2>2, <3>1 DEF eligible, Accepts
    <3>. HIDE DEF B, S
    <3>3. orders[i].size <= Volume(orders, B) /\ orders[j].size <= Volume(orders, S)
      BY <3>1, <3>2, VolumeOfOne
    <3>4. Volume(orders, B) > 0 /\ Volume(orders, S) > 0
      BY <3>1, <3>3, VolumeType
    <3>5. matchedAt(orders, p) > 0
      BY <3>4, VolumeType DEF matchedAt, demandAt, supplyAt, Smaller, B, S
    <3>. QED BY <1>4, <1>5, <3>1, <3>5
  <2>. QED BY <2>1, <2>2 DEF best
<1>6. CASE T # {}
  <2>1. best \in T /\ \A q \in T : q = best \/ better(orders, ref, best, q)
    BY <1>1, <1>6 DEF Wins
  <2>2. best \in Nat /\ best # 0 /\ best \in candidatePrices(orders)
        /\ matchedAt(orders, best) > 0
    BY <1>2, <2>1
  <2>3. ASSUME NEW q \in T PROVE matchedAt(orders, q) <= matchedAt(orders, best)
    <3>1. q \in Nat /\ matchedAt(orders, q) \in Nat /\ matchedAt(orders, best) \in Nat
      BY <1>2, <1>3, <2>2
    <3>2. better(orders, ref, best, q) => \/ matchedAt(orders, best) > matchedAt(orders, q)
                                          \/ matchedAt(orders, best) = matchedAt(orders, q)
      BY DEF better
    <3>. QED BY <2>1, <3>1, <3>2
  <2>4. ASSUME NEW p \in Nat PROVE matchedAt(orders, p) <= matchedAt(orders, best)
    <3>1. matchedAt(orders, p) \in Nat /\ matchedAt(orders, best) \in Nat
      BY <1>3, <2>2
    <3>2. CASE matchedAt(orders, p) > 0
      <4>1. PICK q \in T : matchedAt(orders, q) >= matchedAt(orders, p)
        BY <1>4, <3>2
      <4>2. matchedAt(orders, q) <= matchedAt(orders, best) /\ matchedAt(orders, q) \in Nat
        BY <1>2, <1>3, <2>3
      <4>. QED BY <3>1, <4>1, <4>2
    <3>. QED BY <3>1, <3>2
  <2>. QED BY <2>2, <2>4 DEF best
<1>. QED BY <1>5, <1>6
-----------------------------------------------------------------------------
(* Two books with the same orders *)

\* An order id stands for one order.
IdsIdentify(orders) ==
  \A i, j \in 1..Len(orders) : orders[i].id = orders[j].id => orders[i] = orders[j]

\* b holds the orders of a, each at another place; copies of one order stay in
\* the order they had.
SameOrders(a, b, pi) ==
  /\ Places(pi, Len(b), Len(a)) /\ Onto(pi, Len(b), Len(a))
  /\ \A i \in 1..Len(b) : b[i] = a[pi[i]]
  /\ \A i, j \in 1..Len(b) : b[i] = b[j] => (i < j <=> pi[i] < pi[j])

LEMMA SamePlaces ==
  ASSUME NEW a \in Seq(Order), NEW b \in Seq(Order), NEW pi, SameOrders(a, b, pi)
  PROVE  /\ Len(a) \in Nat /\ Len(b) \in Nat /\ DOMAIN a = 1..Len(a) /\ DOMAIN b = 1..Len(b)
         /\ \A i \in 1..Len(b) : pi[i] \in 1..Len(a) /\ b[i] = a[pi[i]]
         /\ \A i, j \in 1..Len(b) : pi[i] = pi[j] => i = j
         /\ \A k \in 1..Len(a) : \E i \in 1..Len(b) : pi[i] = k
BY OrderFields DEF SameOrders, Places, Onto

LEMMA SameBefore ==
  ASSUME NEW a \in Seq(Order), NEW b \in Seq(Order), NEW pi, SameOrders(a, b, pi),
         IdsIdentify(b), NEW i \in 1..Len(b), NEW j \in 1..Len(b)
  PROVE  Before(b, i, j) <=> Before(a, pi[i], pi[j])
<1>1. b[i] = a[pi[i]] /\ b[j] = a[pi[j]]
  BY SamePlaces
<1>2. b[i].id = b[j].id => (i < j <=> pi[i] < pi[j])
  BY DEF IdsIdentify, SameOrders
<1>. QED BY <1>1, <1>2 DEF Before

LEMMA SameVolume ==
  ASSUME NEW a \in Seq(Order), NEW b \in Seq(Order), NEW pi, SameOrders(a, b, pi),
         NEW S, NEW T, \A i \in 1..Len(b) : i \in S <=> pi[i] \in T
  PROVE  Volume(b, S) = Volume(a, T)
<1>. DEFINE f == Only(Len(a), SizesOf(a), T)
            g == Only(Len(b), SizesOf(b), S)
<1>1. f \in [1..Len(a) -> Int] /\ g \in [1..Len(b) -> Int]
  BY VolumeIsOnly, OnlyType, SamePlaces
<1>2. \A i \in 1..Len(b) : g[i] = f[pi[i]]
  <2>1. SUFFICES ASSUME NEW i \in 1..Len(b) PROVE g[i] = f[pi[i]]
    OBVIOUS
  <2>2. pi[i] \in 1..Len(a) /\ b[i] = a[pi[i]]
    BY SamePlaces
  <2>. QED BY <2>2 DEF Only, SizesOf
<1>. HIDE DEF f, g
<1>3. Total(Len(b), g) = Total(Len(a), f)
  <2>1. Len(a) \in Nat /\ Len(b) \in Nat
    BY SamePlaces
  <2>2. Places(pi, Len(b), Len(a)) /\ Onto(pi, Len(b), Len(a))
    BY DEF SameOrders
  <2>. QED BY <1>1, <1>2, <2>1, <2>2, TotalPermute
<1>. QED BY <1>3, VolumeIsOnly DEF f, g

LEMMA SameEligible ==
  ASSUME NEW a \in Seq(Order), NEW b \in Seq(Order), NEW pi, SameOrders(a, b, pi),
         NEW side, NEW p, NEW i \in 1..Len(b)
  PROVE  i \in eligible(b, side, p) <=> pi[i] \in eligible(a, side, p)
<1>1. pi[i] \in 1..Len(a) /\ b[i] = a[pi[i]] /\ DOMAIN a = 1..Len(a) /\ DOMAIN b = 1..Len(b)
  BY SamePlaces
<1>. QED BY <1>1 DEF eligible

LEMMA SameDepth ==
  ASSUME NEW a \in Seq(Order), NEW b \in Seq(Order), NEW pi, SameOrders(a, b, pi), NEW p
  PROVE  /\ matchedAt(b, p) = matchedAt(a, p)
         /\ imbalanceAt(b, p) = imbalanceAt(a, p)
<1>1. ASSUME NEW side
      PROVE  Volume(b, eligible(b, side, p)) = Volume(a, eligible(a, side, p))
  BY SameVolume, SameEligible
<1>2. demandAt(b, p) = demandAt(a, p) /\ supplyAt(b, p) = supplyAt(a, p)
  BY <1>1 DEF demandAt, supplyAt
<1>. QED BY <1>2 DEF matchedAt, imbalanceAt

LEMMA SameBestPrice ==
  ASSUME NEW a \in Seq(Order), NEW b \in Seq(Order), NEW pi, SameOrders(a, b, pi),
         NEW ref \in Nat
  PROVE  bestPrice(b, ref) = bestPrice(a, ref)
<1>1. candidatePrices(b) = candidatePrices(a)
  <2>1. /\ candidatePrices(b) = {b[i].limit : i \in 1..Len(b)}
        /\ candidatePrices(a) = {a[i].limit : i \in 1..Len(a)}
    BY SamePlaces DEF candidatePrices
  <2>2. ASSUME NEW i \in 1..Len(b) PROVE b[i].limit \in candidatePrices(a)
    BY <2>1, SamePlaces
  <2>3. ASSUME NEW k \in 1..Len(a) PROVE a[k].limit \in candidatePrices(b)
    <3>1. PICK i \in 1..Len(b) : pi[i] = k
      BY SamePlaces
    <3>. QED BY <2>1, <3>1, SamePlaces
  <2>. QED BY <2>1, <2>2, <2>3
<1>2. Trading(b) = Trading(a)
  BY <1>1, SameDepth DEF Trading
<1>3. \A p, q : better(b, ref, p, q) <=> better(a, ref, p, q)
  <2>1. \A p : matchedAt(b, p) = matchedAt(a, p) /\ imbalanceAt(b, p) = imbalanceAt(a, p)
    BY SameDepth
  <2>. QED BY <2>1 DEF better
<1>4. Wins(b, ref, Trading(b), bestPrice(b, ref)) /\ Wins(a, ref, Trading(a), bestPrice(a, ref))
  BY BestPriceWins
<1>5. Wins(a, ref, Trading(a), bestPrice(b, ref))
  BY <1>2, <1>3, <1>4 DEF Wins
<1>6. Trading(a) \subseteq Nat
  BY TradingType
<1>. QED BY <1>4, <1>5, <1>6, WinnerUnique

LEMMA SameTake ==
  ASSUME NEW a \in Seq(Order), NEW b \in Seq(Order), NEW pi, SameOrders(a, b, pi),
         IdsIdentify(b), NEW price, NEW volume, NEW i \in 1..Len(b)
  PROVE  take(b, price, volume, i) = take(a, price, volume, pi[i])
<1>. DEFINE side == b[i].side
            S == {j \in eligible(b, side, price) : Before(b, j, i)}
            T == {j \in eligible(a, side, price) : Before(a, j, pi[i])}
<1>1. pi[i] \in 1..Len(a) /\ b[i] = a[pi[i]] /\ a[pi[i]].side = side
  BY SamePlaces
<1>2. i \in eligible(b, side, price) <=> pi[i] \in eligible(a, side, price)
  BY SameEligible
<1>3. \A j \in 1..Len(b) : j \in S <=> pi[j] \in T
  BY SameEligible, SameBefore
<1>4. /\ take(b, price, volume, i)
           = IF i \notin eligible(b, side, price) \/ Volume(b, S) >= volume THEN 0
             ELSE Smaller(volume - Volume(b, S), b[i].size)
      /\ take(a, price, volume, pi[i])
           = IF pi[i] \notin eligible(a, side, price) \/ Volume(a, T) >= volume THEN 0
             ELSE Smaller(volume - Volume(a, T), a[pi[i]].size)
  <2>1. take(b, price, volume, i)
           = IF i \notin eligible(b, side, price) \/ Volume(b, S) >= volume THEN 0
             ELSE Smaller(volume - Volume(b, S), b[i].size)
    BY DEF take
  <2>2. take(a, price, volume, pi[i])
           = IF pi[i] \notin eligible(a, a[pi[i]].side, price)
                \/ Volume(a, {j \in eligible(a, a[pi[i]].side, price) :
                                Before(a, j, pi[i])}) >= volume THEN 0
             ELSE Smaller(volume - Volume(a, {j \in eligible(a, a[pi[i]].side, price) :
                                                Before(a, j, pi[i])}), a[pi[i]].size)
    BY DEF take
  <2>. HIDE DEF side
  <2>. QED BY <1>1, <2>1, <2>2
<1>. HIDE DEF S, T
<1>5. Volume(b, S) = Volume(a, T)
  BY <1>3, SameVolume
<1>. QED BY <1>1, <1>2, <1>4, <1>5

\* g holds the entries of f that pi names.
Moved(f, g, pi, n) == \A i \in 1..n : g[i] = f[pi[i]]

Amounts(orders, f) == f \in [1..Len(orders) -> Int]

LEMMA SameNet ==
  ASSUME NEW a \in Seq(Order), NEW b \in Seq(Order), NEW pi, SameOrders(a, b, pi), NEW t,
         NEW buysA, NEW sellsA, NEW buysB, NEW sellsB,
         Amounts(a, buysA), Amounts(a, sellsA), Amounts(b, buysB), Amounts(b, sellsB),
         Moved(buysA, buysB, pi, Len(b)), Moved(sellsA, sellsB, pi, Len(b))
  PROVE  Net(b, t, buysB, sellsB) = Net(a, t, buysA, sellsA)
<1>0. \A i \in 1..Len(b) : pi[i] \in 1..Len(a) /\ b[i] = a[pi[i]]
  BY SamePlaces
<1>. DEFINE f == [i \in 1..Len(a) |-> IF a[i].trader # t THEN 0
                                      ELSE IF a[i].side = "buy" THEN buysA[i] ELSE sellsA[i]]
            g == [i \in 1..Len(b) |-> IF b[i].trader # t THEN 0
                                      ELSE IF b[i].side = "buy" THEN buysB[i] ELSE sellsB[i]]
<1>1. f \in [1..Len(a) -> Int] /\ g \in [1..Len(b) -> Int]
  BY DEF Amounts
<1>2. \A i \in 1..Len(b) : g[i] = f[pi[i]]
  <2>1. SUFFICES ASSUME NEW i \in 1..Len(b) PROVE g[i] = f[pi[i]]
    OBVIOUS
  <2>2. pi[i] \in 1..Len(a) /\ b[i] = a[pi[i]]
    BY <1>0
  <2>3. buysB[i] = buysA[pi[i]] /\ sellsB[i] = sellsA[pi[i]]
    BY DEF Moved
  <2>. QED BY <2>2, <2>3
<1>. HIDE DEF f, g
<1>3. Total(Len(b), g) = Total(Len(a), f)
  <2>1. Len(a) \in Nat /\ Len(b) \in Nat
    BY SamePlaces
  <2>2. Places(pi, Len(b), Len(a)) /\ Onto(pi, Len(b), Len(a))
    BY DEF SameOrders
  <2>. QED BY <1>1, <1>2, <2>1, <2>2, TotalPermute
<1>. QED BY <1>3 DEF Net, f, g

\* Trader t's orders that trade, and the place of t in the list of fills.
TradesOf(orders, price, volume, t) ==
  {i \in DOMAIN orders : take(orders, price, volume, i) > 0 /\ orders[i].trader = t}

VisitedFirst(orders, price, volume, s, t) ==
  \E i \in TradesOf(orders, price, volume, s) :
    \A j \in TradesOf(orders, price, volume, t) : VisitedBefore(orders, i, j)

Place(orders, price, volume, t) ==
  Cardinality({s \in Touched(orders, price, volume) :
                 VisitedFirst(orders, price, volume, s, t)})

LEMMA AllocateIs ==
  ASSUME NEW orders \in Seq(Order), NEW price, NEW volume
  PROVE  allocate(orders, price, volume)
           = [t \in Touched(orders, price, volume) |->
                [base  |-> Net(orders, t, Takes(orders, price, volume),
                               Minus(orders, Takes(orders, price, volume))),
                 quote |-> Net(orders, t, Minus(orders, Quotes(orders, price, volume)),
                               Quotes(orders, price, volume)),
                 place |-> Place(orders, price, volume, t)]]
<1>. DEFINE base  == [i \in DOMAIN orders |-> take(orders, price, volume, i)]
            quote == [i \in DOMAIN orders |-> QuoteFor(base[i], price)]
            minus(f) == [i \in DOMAIN orders |-> -f[i]]
            traded == {i \in DOMAIN orders : base[i] > 0}
            of(t) == {i \in traded : orders[i].trader = t}
            traders == {orders[i].trader : i \in traded}
            first(s, t) == \E i \in of(s) : \A j \in of(t) : VisitedBefore(orders, i, j)
<1>1. /\ base = Takes(orders, price, volume)
      /\ quote = Quotes(orders, price, volume)
      /\ minus(base) = Minus(orders, Takes(orders, price, volume))
      /\ minus(quote) = Minus(orders, Quotes(orders, price, volume))
  BY DEF Takes, Quotes, Minus
<1>2. traders = Touched(orders, price, volume)
  BY DEF Touched
<1>3. \A t : of(t) = TradesOf(orders, price, volume, t)
  BY DEF TradesOf
<1>4. allocate(orders, price, volume)
        = [t \in traders |->
             [base  |-> Net(orders, t, base, minus(base)),
              quote |-> Net(orders, t, minus(quote), quote),
              place |-> Cardinality({s \in traders : first(s, t)})]]
  BY DEF allocate
<1>. HIDE DEF base, quote, minus, traders, of
<1>5. \A s, t : first(s, t) <=> VisitedFirst(orders, price, volume, s, t)
  BY <1>3 DEF VisitedFirst
<1>. HIDE DEF first
<1>6. \A t : Cardinality({s \in traders : first(s, t)}) = Place(orders, price, volume, t)
  <2>1. SUFFICES ASSUME NEW t
                 PROVE  {s \in traders : first(s, t)}
                          = {s \in Touched(orders, price, volume) :
                               VisitedFirst(orders, price, volume, s, t)}
    BY DEF Place
  <2>. QED BY <1>2, <1>5
<1>. QED BY <1>1, <1>2, <1>4, <1>6

LEMMA SameVisits ==
  ASSUME NEW a \in Seq(Order), NEW b \in Seq(Order), NEW pi, SameOrders(a, b, pi),
         IdsIdentify(b), NEW i \in 1..Len(b), NEW j \in 1..Len(b)
  PROVE  VisitedBefore(b, i, j) <=> VisitedBefore(a, pi[i], pi[j])
<1>1. b[i] = a[pi[i]] /\ b[j] = a[pi[j]]
  BY SamePlaces
<1>2. Before(b, i, j) <=> Before(a, pi[i], pi[j])
  BY SameBefore
<1>. QED BY <1>1, <1>2 DEF VisitedBefore

LEMMA SameAllocation ==
  ASSUME NEW a \in Seq(Order), NEW b \in Seq(Order), NEW pi, SameOrders(a, b, pi),
         IdsIdentify(b), NEW price \in Nat, NEW volume \in Nat
  PROVE  allocate(b, price, volume) = allocate(a, price, volume)
<1>0. /\ Len(a) \in Nat /\ Len(b) \in Nat /\ DOMAIN a = 1..Len(a) /\ DOMAIN b = 1..Len(b)
      /\ \A i \in 1..Len(b) : pi[i] \in 1..Len(a) /\ b[i] = a[pi[i]]
      /\ \A k \in 1..Len(a) : \E i \in 1..Len(b) : pi[i] = k
  <2>. USE SamePlaces
  <2>1. Len(a) \in Nat /\ Len(b) \in Nat /\ DOMAIN a = 1..Len(a) /\ DOMAIN b = 1..Len(b)
    OBVIOUS
  <2>2. \A i \in 1..Len(b) : pi[i] \in 1..Len(a) /\ b[i] = a[pi[i]]
    OBVIOUS
  <2>3. \A k \in 1..Len(a) : \E i \in 1..Len(b) : pi[i] = k
    OBVIOUS
  <2>. QED BY <2>1, <2>2, <2>3
<1>1. \A i \in 1..Len(b) : take(b, price, volume, i) = take(a, price, volume, pi[i])
  BY SameTake
<1>2. Touched(b, price, volume) = Touched(a, price, volume)
  <2>1. ASSUME NEW i \in 1..Len(b), take(b, price, volume, i) > 0
        PROVE  b[i].trader \in Touched(a, price, volume)
    <3>1. pi[i] \in DOMAIN a /\ take(a, price, volume, pi[i]) > 0 /\ b[i] = a[pi[i]]
      BY <1>0, <1>1, <2>1
    <3>. QED BY <3>1 DEF Touched
  <2>2. ASSUME NEW k \in 1..Len(a), take(a, price, volume, k) > 0
        PROVE  a[k].trader \in Touched(b, price, volume)
    <3>1. PICK i \in 1..Len(b) : pi[i] = k
      BY <1>0
    <3>2. i \in DOMAIN b /\ take(b, price, volume, i) > 0 /\ b[i] = a[k]
      BY <1>0, <1>1, <2>2, <3>1
    <3>. QED BY <3>2 DEF Touched
  <2>. QED BY ZenonT(30), <1>0, <2>1, <2>2 DEF Touched
<1>3. ASSUME NEW t
      PROVE  /\ Net(b, t, Takes(b, price, volume), Minus(b, Takes(b, price, volume)))
                  = Net(a, t, Takes(a, price, volume), Minus(a, Takes(a, price, volume)))
             /\ Net(b, t, Minus(b, Quotes(b, price, volume)), Quotes(b, price, volume))
                  = Net(a, t, Minus(a, Quotes(a, price, volume)), Quotes(a, price, volume))
  <2>. DEFINE x == Takes(a, price, volume)
              y == Takes(b, price, volume)
              p == Quotes(a, price, volume)
              q == Quotes(b, price, volume)
  <2>1. /\ x \in [1..Len(a) -> Int] /\ Minus(a, x) \in [1..Len(a) -> Int]
        /\ p \in [1..Len(a) -> Int] /\ Minus(a, p) \in [1..Len(a) -> Int]
        /\ y \in [1..Len(b) -> Int] /\ Minus(b, y) \in [1..Len(b) -> Int]
        /\ q \in [1..Len(b) -> Int] /\ Minus(b, q) \in [1..Len(b) -> Int]
    BY TakesType, QuotesType
  <2>2. \A i \in 1..Len(b) : y[i] = x[pi[i]] /\ q[i] = p[pi[i]]
    BY <1>0, <1>1 DEF Takes, Quotes
  <2>. HIDE DEF x, y, p, q
  <2>. DEFINE mx == Minus(a, x)
              my == Minus(b, y)
              mp == Minus(a, p)
              mq == Minus(b, q)
  <2>3. \A i \in 1..Len(b) : my[i] = mx[pi[i]] /\ mq[i] = mp[pi[i]]
    BY <1>0, <2>2 DEF Minus
  <2>4. Amounts(a, x) /\ Amounts(a, mx) /\ Amounts(b, y) /\ Amounts(b, my)
    BY <2>1 DEF Amounts
  <2>a. Amounts(a, p) /\ Amounts(a, mp) /\ Amounts(b, q) /\ Amounts(b, mq)
    BY <2>1 DEF Amounts
  <2>. HIDE DEF mx, my, mp, mq
  <2>5. Net(b, t, y, my) = Net(a, t, x, mx)
    <3>1. Moved(x, y, pi, Len(b)) /\ Moved(mx, my, pi, Len(b))
      BY <2>2, <2>3 DEF Moved
    <3>. QED BY <2>4, <3>1, SameNet
  <2>6. Net(b, t, mq, q) = Net(a, t, mp, p)
    <3>1. Moved(mp, mq, pi, Len(b)) /\ Moved(p, q, pi, Len(b))
      BY <2>2, <2>3 DEF Moved
    <3>. QED BY <2>a, <3>1, SameNet
  <2>. QED BY <2>5, <2>6 DEF x, y, p, q, mx, my, mp, mq
<1>4. \A t : \A i \in 1..Len(b) : i \in TradesOf(b, price, volume, t)
                                    <=> pi[i] \in TradesOf(a, price, volume, t)
  BY <1>0, <1>1 DEF TradesOf
<1>5. \A t : TradesOf(b, price, volume, t) \subseteq 1..Len(b)
             /\ TradesOf(a, price, volume, t) \subseteq 1..Len(a)
  BY <1>0 DEF TradesOf
<1>6. ASSUME NEW s, NEW t
      PROVE  VisitedFirst(b, price, volume, s, t) <=> VisitedFirst(a, price, volume, s, t)
  <2>. DEFINE sa == TradesOf(a, price, volume, s)
              sb == TradesOf(b, price, volume, s)
              ta == TradesOf(a, price, volume, t)
              tb == TradesOf(b, price, volume, t)
  <2>1. /\ sa \subseteq 1..Len(a) /\ ta \subseteq 1..Len(a)
        /\ sb \subseteq 1..Len(b) /\ tb \subseteq 1..Len(b)
        /\ \A i \in 1..Len(b) : (i \in sb <=> pi[i] \in sa) /\ (i \in tb <=> pi[i] \in ta)
    BY <1>4, <1>5
  <2>2. \A i, j \in 1..Len(b) : VisitedBefore(b, i, j) <=> VisitedBefore(a, pi[i], pi[j])
    BY SameVisits
  <2>. HIDE DEF sa, sb, ta, tb
  <2>3. ASSUME NEW i \in sb, \A j \in tb : VisitedBefore(b, i, j)
        PROVE  \E k \in sa : \A m \in ta : VisitedBefore(a, k, m)
    <3>1. pi[i] \in sa
      BY <2>1
    <3>2. ASSUME NEW m \in ta PROVE VisitedBefore(a, pi[i], m)
      <4>1. PICK j \in 1..Len(b) : pi[j] = m
        BY <1>0, <2>1
      <4>2. j \in tb
        BY <2>1, <4>1
      <4>. QED BY <2>1, <2>2, <2>3, <4>1, <4>2
    <3>. QED BY <3>1, <3>2
  <2>4. ASSUME NEW k \in sa, \A m \in ta : VisitedBefore(a, k, m)
        PROVE  \E i \in sb : \A j \in tb : VisitedBefore(b, i, j)
    <3>1. PICK i \in 1..Len(b) : pi[i] = k
      BY <1>0, <2>1
    <3>2. i \in sb
      BY <2>1, <3>1
    <3>3. ASSUME NEW j \in tb PROVE VisitedBefore(b, i, j)
      <4>1. j \in 1..Len(b) /\ pi[j] \in ta
        BY <2>1
      <4>. QED BY <2>2, <2>4, <3>1, <4>1
    <3>. QED BY <3>2, <3>3
  <2>5. (\E i \in sb : \A j \in tb : VisitedBefore(b, i, j))
          <=> (\E k \in sa : \A m \in ta : VisitedBefore(a, k, m))
    BY <2>3, <2>4
  <2>. QED BY <2>5 DEF VisitedFirst, sa, sb, ta, tb
<1>7. \A t : Place(b, price, volume, t) = Place(a, price, volume, t)
  <2>1. SUFFICES ASSUME NEW t
                 PROVE  {s \in Touched(b, price, volume) : VisitedFirst(b, price, volume, s, t)}
                          = {s \in Touched(a, price, volume) :
                               VisitedFirst(a, price, volume, s, t)}
    BY DEF Place
  <2>. QED BY <1>2, <1>6
<1>. QED BY <1>2, <1>3, <1>7, AllocateIs

Unmatched(orders, price, volume) ==
  Cardinality({i \in DOMAIN orders : take(orders, price, volume, i) = 0})

LEMMA SameUnmatched ==
  ASSUME NEW a \in Seq(Order), NEW b \in Seq(Order), NEW pi, SameOrders(a, b, pi),
         IdsIdentify(b), NEW price, NEW volume
  PROVE  Unmatched(b, price, volume) = Unmatched(a, price, volume)
<1>. DEFINE S == {i \in DOMAIN b : take(b, price, volume, i) = 0}
            T == {i \in DOMAIN a : take(a, price, volume, i) = 0}
            f == [i \in 1..Len(a) |-> IF i \in T THEN 1 ELSE 0]
            g == [i \in 1..Len(b) |-> IF i \in S THEN 1 ELSE 0]
<1>1. /\ Len(a) \in Nat /\ Len(b) \in Nat /\ DOMAIN a = 1..Len(a) /\ DOMAIN b = 1..Len(b)
      /\ \A i \in 1..Len(b) : pi[i] \in 1..Len(a)
  BY SamePlaces
<1>2. \A i \in 1..Len(b) : take(b, price, volume, i) = take(a, price, volume, pi[i])
  BY SameTake
<1>3. \A i \in 1..Len(b) : g[i] = f[pi[i]]
  BY <1>1, <1>2
<1>4. f \in [1..Len(a) -> Int] /\ g \in [1..Len(b) -> Int]
  OBVIOUS
<1>5. Cardinality(S) = Total(Len(b), g) /\ Cardinality(T) = Total(Len(a), f)
  <2>1. S \subseteq 1..Len(b) /\ T \subseteq 1..Len(a)
    BY <1>1
  <2>. HIDE DEF S, T
  <2>. QED BY <1>1, <2>1, TotalCount
<1>. HIDE DEF f, g
<1>6. Total(Len(b), g) = Total(Len(a), f)
  <2>1. Places(pi, Len(b), Len(a)) /\ Onto(pi, Len(b), Len(a))
    BY DEF SameOrders
  <2>. QED BY <1>1, <1>3, <1>4, <2>1, TotalPermute
<1>. QED BY <1>5, <1>6 DEF Unmatched

\* Two enclaves that hold the same orders settle them in the same way, in
\* whatever order the orders arrived: the price, the volume, every fill and its
\* place in the list that is signed, and the number of orders left unmatched
\* (Clear, matching.go:48-108).
THEOREM SameOrdersClearAlike ==
  ASSUME NEW a \in Seq(Order), NEW b \in Seq(Order), NEW pi, SameOrders(a, b, pi),
         IdsIdentify(b), NEW ref \in Nat, NEW maxDeviationBps
  PROVE  Clear(b, ref, maxDeviationBps) = Clear(a, ref, maxDeviationBps)
<1>. DEFINE p == bestPrice(a, ref)
            v == matchedAt(a, p)
<1>1. bestPrice(b, ref) = p /\ matchedAt(b, p) = v
  BY SameBestPrice, SameDepth
<1>2. p \in Nat /\ v \in Nat
  <2>1. p \in Nat
    BY BestPriceTradesMost
  <2>. QED BY <2>1, DepthType
<1>. HIDE DEF p, v
<1>3. allocate(b, p, v) = allocate(a, p, v)
  BY <1>2, SameAllocation
<1>4. Unmatched(b, p, v) = Unmatched(a, p, v)
  BY SameUnmatched
<1>. DEFINE R(fills, unmatched) ==
              IF p = 0 THEN Failed("ErrNoCross")
              ELSE IF ~withinBand(p, ref, maxDeviationBps) THEN Failed("ErrOutOfBand")
              ELSE [error |-> "", price |-> p, matched |-> v, fills |-> fills,
                    unmatched |-> unmatched]
<1>5. Clear(b, ref, maxDeviationBps) = R(allocate(b, p, v), Unmatched(b, p, v))
  BY <1>1 DEF Clear, Unmatched
<1>6. Clear(a, ref, maxDeviationBps) = R(allocate(a, p, v), Unmatched(a, p, v))
  BY DEF Clear, p, v, Unmatched
<1>. HIDE DEF R
<1>. QED BY <1>3, <1>4, <1>5, <1>6

LEMMA SettledFields ==
  ASSUME NEW p, NEW v, NEW fills, NEW unmatched, NEW res,
         res = [error |-> "", price |-> p, matched |-> v, fills |-> fills,
                unmatched |-> unmatched]
  PROVE  res.error = "" /\ res.price = p /\ res.matched = v /\ res.fills = fills
OBVIOUS

\* What the result of Clear says.
IsResult(orders, ref, maxDeviationBps, res) ==
  /\ res.error = "ErrNoCross" => bestPrice(orders, ref) = 0
  /\ res.error = "" =>
       /\ res.price = bestPrice(orders, ref)
       /\ res.price \in Nat \ {0} /\ res.price \in candidatePrices(orders)
       /\ res.matched = matchedAt(orders, res.price)
       /\ res.matched \in Nat \ {0}
       /\ res.fills = allocate(orders, res.price, res.matched)
       /\ withinBand(res.price, ref, maxDeviationBps)
  /\ res.error # "" => res.price = 0 /\ res.matched = 0 /\ res.fills = <<>>

LEMMA ClearResult ==
  ASSUME NEW orders \in Seq(Order), NEW ref \in Nat, NEW maxDeviationBps
  PROVE  IsResult(orders, ref, maxDeviationBps, Clear(orders, ref, maxDeviationBps))
<1>. DEFINE p == bestPrice(orders, ref)
            v == matchedAt(orders, p)
            res == Clear(orders, ref, maxDeviationBps)
<1>1. p \in Nat /\ (p # 0 => p \in candidatePrices(orders) /\ v > 0)
  BY BestPriceTradesMost
<1>2. v \in Nat
  BY <1>1, DepthType
<1>3. res = IF p = 0 THEN Failed("ErrNoCross")
            ELSE IF ~withinBand(p, ref, maxDeviationBps) THEN Failed("ErrOutOfBand")
            ELSE [error |-> "", price |-> p, matched |-> v, fills |-> allocate(orders, p, v),
                  unmatched |-> Unmatched(orders, p, v)]
  BY DEF Clear, Unmatched
<1>a. SUFFICES IsResult(orders, ref, maxDeviationBps, res)
  OBVIOUS
<1>. HIDE DEF p, v, res
<1>4. CASE p = 0
  BY <1>3, <1>4 DEF Failed, p, IsResult
<1>5. CASE p # 0 /\ ~withinBand(p, ref, maxDeviationBps)
  BY <1>3, <1>5 DEF Failed, IsResult
<1>6. CASE p # 0 /\ withinBand(p, ref, maxDeviationBps)
  <2>. DEFINE fills == allocate(orders, p, v)
              unmatched == Unmatched(orders, p, v)
  <2>1. res = [error |-> "", price |-> p, matched |-> v, fills |-> fills,
               unmatched |-> unmatched]
    BY <1>3, <1>6
  <2>. HIDE DEF fills, unmatched
  <2>2. res.error = "" /\ res.price = p /\ res.matched = v /\ res.fills = fills
    BY <2>1, SettledFields
  <2>3. res.matched = matchedAt(orders, res.price)
    BY <2>2 DEF v
  <2>4. res.fills = allocate(orders, res.price, res.matched)
    BY <2>2 DEF fills
  <2>a. p \in Nat \ {0} /\ p \in candidatePrices(orders) /\ v \in Nat \ {0}
    BY <1>1, <1>2, <1>6
  <2>5. res.price \in Nat \ {0} /\ res.price \in candidatePrices(orders)
        /\ res.matched \in Nat \ {0}
    BY <2>2, <2>a, Zenon
  <2>6. res.price = bestPrice(orders, ref) /\ withinBand(res.price, ref, maxDeviationBps)
    BY <1>6, <2>2 DEF p
  <2>7. res.error = "" /\ res.error # "ErrNoCross"
    BY <2>2
  <2>. QED BY <2>3, <2>4, <2>5, <2>6, <2>7 DEF IsResult
<1>. QED BY <1>4, <1>5, <1>6

-----------------------------------------------------------------------------
(* What a trader asked for *)

\* The sizes of the orders of trader t on one side.
Asked(orders, t, side) ==
  [i \in 1..Len(orders) |->
     IF orders[i].trader = t /\ orders[i].side = side THEN orders[i].size ELSE 0]

LEMMA AskedType ==
  ASSUME NEW orders \in Seq(Order), NEW t, NEW side
  PROVE  /\ Len(orders) \in Nat
         /\ Asked(orders, t, side) \in [1..Len(orders) -> Nat]
         /\ Asked(orders, t, side) \in [1..Len(orders) -> Int]
<1>1. Len(orders) \in Nat /\ \A i \in 1..Len(orders) : orders[i].size \in Nat
  BY OrderFields
<1>. QED BY <1>1 DEF Asked

\* A trader never nets more base than its orders ask for, on either side.
LEMMA NetWithinAsked ==
  ASSUME NEW orders \in Seq(Order), NEW price \in Nat, NEW volume \in Nat, NEW t, NEW b,
         b = Takes(orders, price, volume)
  PROVE  /\ Net(orders, t, b, Minus(orders, b)) \in Int
         /\ Net(orders, t, b, Minus(orders, b)) <= Total(Len(orders), Asked(orders, t, "buy"))
         /\ -Total(Len(orders), Asked(orders, t, "sell")) <= Net(orders, t, b, Minus(orders, b))
<1>. DEFINE n == Len(orders)
            f == [i \in 1..n |-> IF orders[i].trader # t THEN 0
                                 ELSE IF orders[i].side = "buy" THEN b[i]
                                 ELSE Minus(orders, b)[i]]
            buys == Asked(orders, t, "buy")
            sells == Asked(orders, t, "sell")
            up == [i \in 1..n |-> f[i] + sells[i]]
<1>1. /\ n \in Nat /\ buys \in [1..n -> Int] /\ sells \in [1..n -> Int]
      /\ sells \in [1..n -> Nat]
  BY AskedType
<1>2. \A i \in 1..n : /\ b[i] \in Nat /\ b[i] <= orders[i].size /\ orders[i].size \in Nat
                       /\ orders[i].side \in {"buy", "sell"}
  <2>1. \A i \in 1..n : orders[i] \in Order
    OBVIOUS
  <2>2. \A i \in 1..n : orders[i].size \in Nat /\ orders[i].side \in {"buy", "sell"}
    BY <2>1 DEF Order
  <2>3. \A i \in 1..n : b[i] = take(orders, price, volume, i)
    BY DEF Takes
  <2>4. \A i \in 1..n : /\ take(orders, price, volume, i) \in Nat
                         /\ take(orders, price, volume, i) <= orders[i].size
    BY TakeType
  <2>. QED BY <2>2, <2>3, <2>4
<1>3. \A i \in 1..n : Minus(orders, b)[i] = -b[i]
  BY DEF Minus
<1>4. Net(orders, t, b, Minus(orders, b)) = Total(n, f)
  BY DEF Net
<1>5. f \in [1..n -> Int]
  BY <1>2, <1>3
<1>6. \A i \in 1..n : f[i] <= buys[i] /\ 0 <= f[i] + sells[i]
  BY <1>2, <1>3 DEF Asked
<1>. HIDE DEF f, buys, sells, n
<1>7. up \in [1..n -> Nat] /\ up \in [1..n -> Int] /\ \A i \in 1..n : up[i] = f[i] + sells[i]
  BY SMTT(30), <1>1, <1>5, <1>6
<1>. HIDE DEF up
<1>8. Total(n, up) = Total(n, f) + Total(n, sells) /\ Total(n, up) \in Nat
  BY <1>1, <1>5, <1>7, TotalAdd, TotalNat
<1>9. Total(n, f) \in Int /\ Total(n, sells) \in Int /\ Total(n, buys) \in Int
      /\ Total(n, f) <= Total(n, buys)
  BY <1>1, <1>5, <1>6, TotalType, TotalMonotone
<1>10. -Total(n, sells) <= Total(n, f)
  BY <1>8, <1>9
<1>. QED BY <1>4, <1>9, <1>10 DEF n, buys, sells
=============================================================================
