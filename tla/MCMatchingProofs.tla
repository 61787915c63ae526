-------------------------- MODULE MCMatchingProofs --------------------------
(***************************************************************************)
(* Theorems about the clearing of every book that MCMatching can reach,    *)
(* for any number of traders and orders, any limits, sizes and reference   *)
(* prices, and any price scale: the lemmas of MatchingProofs, applied to   *)
(* the book.                                                               *)
(***************************************************************************)
EXTENDS MCMatching, MatchingProofs

\* The book is well formed, and an id stands for one order: an order takes an
\* id that was never used, or is the last one over again.
BookInv ==
  /\ book \in Seq(Order)
  /\ ref \in Nat
  /\ \A i \in 1..Len(book) : book[i].id <= Len(book)
  /\ IdsIdentify(book)

LEMMA BookInit == Init => BookInv
BY BookAssumption DEF Init, BookInv, IdsIdentify

\* A book grows by one order.
LEMMA BookGrows ==
  ASSUME NEW b \in Seq(Order), NEW o \in Order, NEW c, c = Append(b, o)
  PROVE  /\ c \in Seq(Order) /\ Len(c) = Len(b) + 1 /\ c[Len(b) + 1] = o
         /\ \A i \in 1..Len(b) : c[i] = b[i]
         /\ \A i \in 1..Len(c) : i \in 1..Len(b) \/ i = Len(b) + 1
OBVIOUS

LEMMA BookStep ==
  ASSUME BookInv, [Next]_vars
  PROVE  BookInv'
<1>1. CASE UNCHANGED vars
  BY <1>1 DEF vars, BookInv, IdsIdentify
<1>2. CASE Next
  <2>1. PICK o \in Order : /\ book' = Append(book, o) /\ ref' = ref
                           /\ \/ o.id = Len(book) + 1
                              \/ \E k \in 1..Len(book) : o = book[k]
    <3>1. ref' = ref
      BY <1>2 DEF Next
    <3>2. CASE RestAgain
      <4>1. Len(book) \in 1..Len(book) /\ book[Len(book)] \in Order
        BY <3>2 DEF RestAgain, BookInv
      <4>. QED BY <3>1, <3>2, <4>1 DEF RestAgain
    <3>3. ASSUME NEW t \in Traders, NEW side \in {"buy", "sell"}, NEW l \in Limits,
                 NEW s \in Sizes, Rest(t, side, l, s)
          PROVE  \E o \in Order : /\ book' = Append(book, o) /\ ref' = ref
                                  /\ \/ o.id = Len(book) + 1
                                     \/ \E k \in 1..Len(book) : o = book[k]
      <4>. DEFINE r == [id |-> Len(book) + 1, trader |-> t, side |-> side,
                        limit |-> l, size |-> s]
      <4>0. Len(book) + 1 \in Nat /\ l \in Nat \ {0} /\ s \in Nat \ {0}
        BY BookAssumption DEF BookInv
      <4>1. r \in Order /\ r.id = Len(book) + 1
        BY <4>0 DEF Order
      <4>2. book' = Append(book, r)
        BY <3>3 DEF Rest
      <4>. QED BY <3>1, <4>1, <4>2
    <3>4. RestAgain \/ \E t \in Traders, side \in {"buy", "sell"}, l \in Limits, s \in Sizes :
                         Rest(t, side, l, s)
      BY <1>2 DEF Next
    <3>. QED BY <3>2, <3>3, <3>4
  <2>2. /\ book \in Seq(Order) /\ Len(book) \in Nat
        /\ \A i \in 1..Len(book) : book[i].id <= Len(book) /\ book[i].id \in Nat
    <3>1. \A i \in 1..Len(book) : book[i] \in Order
      BY DEF BookInv
    <3>. QED BY <3>1 DEF BookInv, Order
  <2>3. /\ book' \in Seq(Order) /\ Len(book') = Len(book) + 1 /\ book'[Len(book) + 1] = o
        /\ \A i \in 1..Len(book) : book'[i] = book[i]
        /\ \A i \in 1..Len(book') : i \in 1..Len(book) \/ i = Len(book) + 1
    BY <2>1, <2>2, BookGrows
  <2>4. \A i \in 1..Len(book') : book'[i].id <= Len(book')
    BY <2>1, <2>2, <2>3
  <2>5. ASSUME NEW i \in 1..Len(book'), NEW j \in 1..Len(book'), book'[i].id = book'[j].id
        PROVE  book'[i] = book'[j]
    <3>1. CASE i \in 1..Len(book) /\ j \in 1..Len(book)
      BY <2>3, <2>5, <3>1 DEF BookInv, IdsIdentify
    <3>2. CASE i = Len(book) + 1 /\ j = Len(book) + 1
      BY <3>2
    <3>3. ASSUME NEW k \in 1..Len(book), book[k].id = o.id PROVE book[k] = o
      <4>1. o.id # Len(book) + 1
        BY <2>2, <3>3
      <4>2. PICK m \in 1..Len(book) : o = book[m]
        BY <2>1, <4>1
      <4>. QED BY <3>3, <4>2 DEF BookInv, IdsIdentify
    <3>. QED BY <2>3, <2>5, <3>1, <3>2, <3>3
  <2>. QED BY <2>1, <2>3, <2>4, <2>5 DEF BookInv, IdsIdentify
<1>. QED BY <1>1, <1>2

THEOREM BookAlways == Spec => []BookInv
BY BookInit, BookStep, PTL DEF Spec
-----------------------------------------------------------------------------
LEMMA BookResult ==
  ASSUME BookInv
  PROVE  IsResult(book, ref, MaxDeviationBps, Result)
BY ClearResult DEF BookInv, Result

LEMMA Maximises == BookInv => MaximisesVolume
<1>. SUFFICES ASSUME BookInv PROVE MaximisesVolume
  OBVIOUS
<1>. DEFINE res == Result
<1>1. IsResult(book, ref, MaxDeviationBps, res)
  BY BookResult
<1>2. book \in Seq(Order) /\ ref \in Nat
  BY DEF BookInv
<1>a. SUFFICES /\ res.error = "" => \A p \in 0..Max(Limits) + 1 : matchedAt(book, p) <= res.matched
               /\ res.error = "ErrNoCross" =>
                    \A i \in Side("buy"), j \in Side("sell") : book[i].limit < book[j].limit
  BY DEF MaximisesVolume
<1>. HIDE DEF res
<1>. DEFINE best == bestPrice(book, ref)
<1>3. /\ best # 0 => \A p \in Nat : matchedAt(book, p) <= matchedAt(book, best)
      /\ best = 0 => \A i, j \in DOMAIN book :
                       book[i].side = "buy" /\ book[j].side = "sell"
                         => book[i].limit < book[j].limit
  BY <1>2, BestPriceTradesMost
<1>4. ASSUME res.error = "", NEW p \in 0..Max(Limits) + 1
      PROVE  matchedAt(book, p) <= res.matched
  <2>1. res.price = best /\ res.price # 0 /\ res.matched = matchedAt(book, res.price)
    BY <1>1, <1>4 DEF IsResult
  <2>2. p \in Nat
    OBVIOUS
  <2>. HIDE DEF best
  <2>. QED BY <1>3, <2>1, <2>2
<1>5. ASSUME res.error = "ErrNoCross", NEW i \in Side("buy"), NEW j \in Side("sell")
      PROVE  book[i].limit < book[j].limit
  <2>1. best = 0
    BY <1>1, <1>5 DEF IsResult
  <2>. HIDE DEF best
  <2>. QED BY <1>3, <2>1 DEF Side
<1>. QED BY <1>4, <1>5

LEMMA Conserves == BookInv => BaseConserved
<1>. SUFFICES ASSUME BookInv PROVE BaseConserved
  OBVIOUS
<1>. DEFINE res == Result
<1>1. IsResult(book, ref, MaxDeviationBps, res)
  BY BookResult
<1>2. book \in Seq(Order) /\ ref \in Nat /\ N \in Nat /\ Traders = 1..N
  BY BookAssumption DEF BookInv
<1>a. SUFFICES ASSUME res.error = ""
               PROVE  /\ TakenOn(res, "buy") = res.matched
                      /\ TakenOn(res, "sell") = res.matched
                      /\ BaseOf(res.fills) = 0
  BY DEF BaseConserved
<1>. HIDE DEF res
<1>. DEFINE p == res.price
            v == res.matched
            b == Takes(book, p, v)
<1>3. /\ p \in Nat /\ v \in Nat /\ v = matchedAt(book, p)
      /\ res.fills = allocate(book, p, v)
  BY <1>1, <1>a DEF IsResult
<1>4. TakenOn(res, "buy") = v /\ TakenOn(res, "sell") = v
  <2>1. \A side \in {"buy", "sell"} : TakenOn(res, side) = Total(Len(book), SideTakes(book, side, p, v))
    BY DEF TakenOn, Taken, SideTakes
  <2>2. \A side \in {"buy", "sell"} :
          Total(Len(book), SideTakes(book, side, p, matchedAt(book, p))) = matchedAt(book, p)
    BY <1>2, SideTradesMatched
  <2>. HIDE DEF p, v
  <2>. QED BY <1>3, <2>1, <2>2
<1>5. BaseOf(res.fills) = Total(Len(book), BySide(book, b, Minus(book, b)))
  <2>1. BaseOf(res.fills) = BaseSum(N, res.fills)
    BY DEF BaseOf, BaseSum
  <2>. HIDE DEF p, v
  <2>. QED BY <1>2, <1>3, <2>1, FillsTotal
<1>6. Total(Len(book), BySide(book, b, Minus(book, b))) = 0
  BY <1>2, <1>3, BaseBalances
<1>. QED BY <1>4, <1>5, <1>6

LEMMA Priority == BookInv => PricePriority
<1>. SUFFICES ASSUME BookInv PROVE PricePriority
  OBVIOUS
<1>. DEFINE res == Result
<1>1. IsResult(book, ref, MaxDeviationBps, res)
  BY BookResult
<1>2. book \in Seq(Order) /\ DOMAIN book = 1..Len(book)
  BY DEF BookInv
<1>a. SUFFICES ASSUME res.error = "", NEW i \in 1..Len(book), NEW j \in 1..Len(book),
                      book[i].side = book[j].side,
                      IF book[i].side = "buy" THEN book[i].limit > book[j].limit
                                              ELSE book[i].limit < book[j].limit,
                      Taken(res, j) > 0
               PROVE  Taken(res, i) = book[i].size
  BY <1>2 DEF PricePriority
<1>. HIDE DEF res
<1>3. res.price \in Nat /\ res.matched \in Nat
  BY <1>1, <1>a DEF IsResult
<1>4. take(book, res.price, res.matched, j) > 0
  BY <1>a DEF Taken
<1>5. take(book, res.price, res.matched, i) = book[i].size
  BY <1>2, <1>3, <1>4, <1>a, BetterPricedFirst
<1>. QED BY <1>5 DEF Taken

LEMMA Limited == BookInv => WithinLimits
<1>. SUFFICES ASSUME BookInv PROVE WithinLimits
  OBVIOUS
<1>. DEFINE res == Result
            own(t) == [i \in 1..Len(book) |-> IF book[i].trader = t THEN AtLimit(res, i) ELSE 0]
<1>1. IsResult(book, ref, MaxDeviationBps, res)
  BY BookResult
<1>2. book \in Seq(Order)
  BY DEF BookInv
<1>a. SUFFICES ASSUME res.error = "", NEW t \in DOMAIN res.fills
               PROVE  res.fills[t].quote >= Total(Len(book), own(t))
  BY DEF WithinLimits
<1>. HIDE DEF res
<1>3. res.price \in Nat /\ res.matched \in Nat
      /\ res.fills = allocate(book, res.price, res.matched)
  BY <1>1, <1>a DEF IsResult
<1>4. t \in Touched(book, res.price, res.matched)
  BY <1>2, <1>3, <1>a, AllocateFills
<1>5. own(t) = [i \in 1..Len(book) |-> IF book[i].trader = t
                THEN AtOwnLimit(book, res.price, res.matched, i) ELSE 0]
  BY DEF AtLimit, Taken, AtOwnLimit
<1>. DEFINE g == own(t)
<1>. HIDE DEF own
<1>6. Total(Len(book), g) <= allocate(book, res.price, res.matched)[t].quote
  BY <1>2, <1>3, <1>4, <1>5, FillWithinLimits
<1>7. g \in [1..Len(book) -> Int] /\ Len(book) \in Nat
  <2>1. \A i \in 1..Len(book) : /\ book[i].limit \in Nat
                                /\ take(book, res.price, res.matched, i) \in Nat
    BY <1>2, <1>3, TakeType, OrderFields
  <2>2. \A i \in 1..Len(book) : QuoteFor(take(book, res.price, res.matched, i), book[i].limit) \in Nat
    BY <2>1, QuoteForType
  <2>3. \A i \in 1..Len(book) : AtOwnLimit(book, res.price, res.matched, i) \in Int
    BY <2>2 DEF AtOwnLimit
  <2>. QED BY <1>2, <1>5, <2>3
<1>8. Total(Len(book), g) \in Int
  BY <1>7, TotalType
<1>9. allocate(book, res.price, res.matched)[t].quote \in Int
  <2>. DEFINE q == Quotes(book, res.price, res.matched)
              m == Minus(book, q)
  <2>1. allocate(book, res.price, res.matched)[t].quote = Net(book, t, m, q)
    BY <1>2, <1>4, AllocateFills
  <2>2. q \in [1..Len(book) -> Int] /\ m \in [1..Len(book) -> Int]
    BY <1>2, <1>3, QuotesType
  <2>. HIDE DEF q, m
  <2>. QED BY <1>2, <2>1, <2>2, NetType
<1>. DEFINE y == allocate(book, res.price, res.matched)[t].quote
            x == Total(Len(book), g)
<1>10. y >= x
  <2>. HIDE DEF x, y
  <2>1. x \in Int /\ y \in Int /\ x <= y
    BY <1>6, <1>8, <1>9 DEF x, y
  <2>. QED BY <2>1
<1>. QED BY <1>3, <1>10

LEMMA Dusty == BookInv => DustBounded
<1>. SUFFICES ASSUME BookInv PROVE DustBounded
  OBVIOUS
<1>. DEFINE res == Result
            off == QuoteOf(res.fills)
            k == Cardinality({i \in DOMAIN book : Taken(res, i) > 0})
<1>1. IsResult(book, ref, MaxDeviationBps, res)
  BY BookResult
<1>2. book \in Seq(Order) /\ N \in Nat /\ Traders = 1..N
  BY BookAssumption DEF BookInv
<1>a. SUFFICES ASSUME res.error = "" PROVE Distance(off, 0) < k
  BY DEF DustBounded
<1>. HIDE DEF res
<1>. DEFINE p == res.price
            v == res.matched
<1>3. /\ p \in Nat /\ v \in Nat \ {0} /\ v = matchedAt(book, p)
      /\ res.fills = allocate(book, p, v)
  BY <1>1, <1>a DEF IsResult
<1>4. off = Dust(book, p, v)
  <2>1. QuoteOf(res.fills) = QuoteSum(N, res.fills)
    BY DEF QuoteOf, QuoteSum
  <2>. HIDE DEF p, v
  <2>. QED BY <1>2, <1>3, <2>1, FillsTotal DEF Dust
<1>5. k = Cardinality(Traded(book, p, v))
  BY DEF Taken, Traded
<1>. HIDE DEF p, v, off, k
<1>6. matchedAt(book, p) > 0
  BY <1>3
<1>7. off \in Int /\ k \in Nat /\ off < k /\ -off < k
  BY <1>2, <1>3, <1>4, <1>5, <1>6, DustBelowTrades
<1>. QED BY <1>7 DEF Distance

LEMMA Immaterial == BookInv => ArrivalOrderImmaterial
<1>. SUFFICES ASSUME BookInv, NEW i \in 1..Len(book) - 1
              PROVE  Clear(Swapped(i), ref, MaxDeviationBps) = Result
  BY DEF ArrivalOrderImmaterial
<1>. DEFINE b == Swapped(i)
            n == Len(book)
            pi == [k \in 1..n |-> IF k = i THEN i+1 ELSE IF k = i+1 THEN i ELSE k]
<1>1. book \in Seq(Order) /\ ref \in Nat /\ n \in Nat /\ IdsIdentify(book)
      /\ i \in 1..n /\ i+1 \in 1..n
  BY DEF BookInv
<1>2. /\ b \in Seq(Order) /\ Len(b) = n
      /\ \A k \in 1..n : b[k] = book[pi[k]] /\ pi[k] \in 1..n
  <2>1. b \in Seq(Order) /\ Len(b) = n
    BY <1>1 DEF Swapped
  <2>2. \A k \in 1..n : b[k] = IF k = i THEN book[i+1] ELSE IF k = i+1 THEN book[i] ELSE book[k]
    BY <1>1 DEF Swapped
  <2>. HIDE DEF b
  <2>. QED BY <1>1, <2>1, <2>2
<1>3. CASE book[i] = book[i+1]
  <2>1. b = book
    <3>1. \A k \in 1..n : book[pi[k]] = book[k]
      BY <1>1, <1>3
    <3>. HIDE DEF b, pi
    <3>. QED BY <1>1, <1>2, <3>1
  <2>. QED BY <2>1 DEF Result
<1>4. CASE book[i] # book[i+1]
  <2>1. Places(pi, n, n) /\ Onto(pi, n, n)
    <3>1. pi \in [1..n -> 1..n]
      BY <1>1
    <3>2. \A k \in 1..n : pi[k] \in 1..n /\ pi[pi[k]] = k
      BY <1>1
    <3>. HIDE DEF pi
    <3>3. \A k, m \in 1..n : pi[k] = pi[m] => k = m
      BY <3>2
    <3>. QED BY <3>1, <3>2, <3>3 DEF Places, Onto
  <2>2. ASSUME NEW k \in 1..n, NEW m \in 1..n, b[k] = b[m]
        PROVE  k < m <=> pi[k] < pi[m]
    <3>1. book[pi[k]] = book[pi[m]]
      BY <1>2, <2>2
    <3>2. ~(k = i /\ m = i+1) /\ ~(k = i+1 /\ m = i)
      BY <1>1, <1>4, <3>1
    <3>. QED BY <1>1, <3>2
  <2>3. SameOrders(book, b, pi)
    <3>. HIDE DEF pi, b
    <3>. QED BY <1>2, <2>1, <2>2 DEF SameOrders
  <2>4. IdsIdentify(b)
    <3>. HIDE DEF pi, b
    <3>1. ASSUME NEW k \in 1..n, NEW m \in 1..n, b[k].id = b[m].id PROVE b[k] = b[m]
      <4>1. b[k] = book[pi[k]] /\ b[m] = book[pi[m]] /\ pi[k] \in 1..n /\ pi[m] \in 1..n
        BY <1>2
      <4>2. book[pi[k]].id = book[pi[m]].id
        BY <3>1, <4>1
      <4>. QED BY <1>1, <4>1, <4>2 DEF IdsIdentify
    <3>. QED BY <1>2, <3>1 DEF IdsIdentify
  <2>. HIDE DEF pi, b
  <2>5. Clear(b, ref, MaxDeviationBps) = Clear(book, ref, MaxDeviationBps)
    BY <1>1, <1>2, <2>3, <2>4, SameOrdersClearAlike
  <2>. QED BY <2>5 DEF b, Result
<1>. QED BY <1>3, <1>4
-----------------------------------------------------------------------------
\* Clear picks the price that trades most, and gives up only when nothing
\* crosses (matching.go:48-77): for every book, not only for small ones.
THEOREM ClearingMaximisesVolume == Spec => []MaximisesVolume
BY BookAlways, Maximises, PTL

\* The settlement does not depend on the order in which the orders reached the
\* enclave (the tie-breaks of Clear and the sort keys of allocate,
\* matching.go:84-108, 169-181).
THEOREM ClearingIgnoresArrival == Spec => []ArrivalOrderImmaterial
BY BookAlways, Immaterial, PTL

\* Each side trades the matched volume and the base deltas cancel, so settle
\* never reverts for base (allocate, matching.go:164-233).
THEOREM ClearingConservesBase == Spec => []BaseConserved
BY BookAlways, Conserves, PTL

\* No trader does worse than the limits of their own orders together, even with
\* truncated quotes and orders on both sides (allocate, QuoteFor).
THEOREM ClearingWithinLimits == Spec => []WithinLimits
BY BookAlways, Limited, PTL

\* Better prices are filled first, and in full (fillSide).
THEOREM ClearingByPrice == Spec => []PricePriority
BY BookAlways, Priority, PTL

\* How far the quote deltas can be from zero, which settle insists on: by less
\* than one unit for each order that trades (QuoteFor truncates fill by fill).
THEOREM ClearingDust == Spec => []DustBounded
BY BookAlways, Dusty, PTL
=============================================================================
