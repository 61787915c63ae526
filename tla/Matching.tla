------------------------------ MODULE Matching ------------------------------
(***************************************************************************)
(* The auction the enclave runs on a batch (go/internal/matching): one     *)
(* clearing price for the whole book, chosen to trade the most base, and   *)
(* the net position change of every trader at that price.                  *)
(*                                                                         *)
(* A book is a sequence of orders in the order they arrived.  Amounts are  *)
(* big integers in the code, so they are unbounded here too.               *)
(***************************************************************************)
EXTENDS LedgerSums, FiniteSets, FiniteSetsExt, Sequences

CONSTANTS
  PriceScale,   \* a price is quote per PriceScale units of base (10^18)
  Traders

ASSUME PriceScaleAssumption == PriceScale \in Nat \ {0}

Order == [id : Nat, trader : Traders, side : {"buy", "sell"},
          limit : Nat \ {0}, size : Nat \ {0}]

\* Division truncates.
QuoteFor(base, price) == (base * price) \div PriceScale

Smaller(x, y) == IF x <= y THEN x ELSE y
Distance(x, y) == IF x < y THEN y - x ELSE x - y

Accepts(o, price) == IF o.side = "buy" THEN o.limit >= price ELSE o.limit <= price

\* The base that the orders at the positions in S ask for together.
Volume(orders, S) ==
  Total(Len(orders), [i \in 1..Len(orders) |-> IF i \in S THEN orders[i].size ELSE 0])

Mutant_eligible_anyPrice(orders, side, price) ==
  {i \in DOMAIN orders : orders[i].side = side}

eligible(orders, side, price) ==
  {i \in DOMAIN orders : orders[i].side = side /\ Accepts(orders[i], price)}

demandAt(orders, price) == Volume(orders, eligible(orders, "buy", price))
supplyAt(orders, price) == Volume(orders, eligible(orders, "sell", price))

matchedAt(orders, price) == Smaller(demandAt(orders, price), supplyAt(orders, price))
imbalanceAt(orders, price) == Distance(demandAt(orders, price), supplyAt(orders, price))

candidatePrices(orders) == {orders[i].limit : i \in DOMAIN orders}

Mutant_better_nearestFirst(orders, ref, p, q) ==
  \/ Distance(p, ref) < Distance(q, ref)
  \/ /\ Distance(p, ref) = Distance(q, ref)
     /\ matchedAt(orders, p) > matchedAt(orders, q)

\* p beats q: more volume, then a smaller imbalance, then (when there is a
\* reference price) nearer to it, then the lower price.
better(orders, ref, p, q) ==
  LET m(x) == matchedAt(orders, x)
      i(x) == imbalanceAt(orders, x)
      d(x) == IF ref > 0 THEN Distance(x, ref) ELSE 0
  IN \/ m(p) > m(q)
     \/ m(p) = m(q) /\ i(p) < i(q)
     \/ m(p) = m(q) /\ i(p) = i(q) /\ d(p) < d(q)
     \/ m(p) = m(q) /\ i(p) = i(q) /\ d(p) = d(q) /\ p < q

\* The loop of Clear: the prices that trade anything, in ascending order, each
\* replacing the incumbent when it beats it.  0 stands for no incumbent.
bestPrice(orders, ref) ==
  MapThenFoldSet(LAMBDA p, best : IF best = 0 \/ better(orders, ref, p, best) THEN p ELSE best,
                 0, LAMBDA p : p, Max,
                 {p \in candidatePrices(orders) : matchedAt(orders, p) > 0})

withinBand(price, ref, maxDeviationBps) ==
  ref = 0 \/ Distance(price, ref) * 10000 <= ref * maxDeviationBps

Mutant_Before_arrival(orders, i, j) ==
  LET x == orders[i].limit
      y == orders[j].limit
  IN \/ IF orders[i].side = "buy" THEN x > y ELSE x < y
     \/ x = y /\ i < j

Mutant_Before_descending(orders, i, j) ==
  LET x == orders[i].limit
      y == orders[j].limit
  IN x > y \/ (x = y /\ orders[i].id < orders[j].id)

\* The order in which one side is filled: best price first, then order id.
\* (An instruction that is delivered twice rests its order twice.)
Before(orders, i, j) ==
  LET x == orders[i].limit
      y == orders[j].limit
  IN \/ IF orders[i].side = "buy" THEN x > y ELSE x < y
     \/ x = y /\ orders[i].id < orders[j].id
     \/ x = y /\ orders[i].id = orders[j].id /\ i < j

Mutant_take_whole(orders, price, volume, i) ==
  LET side  == eligible(orders, orders[i].side, price)
      ahead == Volume(orders, {j \in side : Before(orders, j, i)})
  IN IF i \notin side \/ ahead >= volume THEN 0 ELSE orders[i].size

\* What order i trades when its side fills volume.
take(orders, price, volume, i) ==
  LET side  == eligible(orders, orders[i].side, price)
      ahead == Volume(orders, {j \in side : Before(orders, j, i)})
  IN IF i \notin side \/ ahead >= volume THEN 0 ELSE Smaller(volume - ahead, orders[i].size)

Net(orders, trader, buys, sells) ==
  Total(Len(orders),
        [i \in 1..Len(orders) |->
           IF orders[i].trader # trader THEN 0
           ELSE IF orders[i].side = "buy" THEN buys[i] ELSE sells[i]])

Mutant_allocate_payAsBid(orders, price, volume) ==
  LET base  == [i \in DOMAIN orders |-> take(orders, price, volume, i)]
      quote == [i \in DOMAIN orders |-> QuoteFor(base[i], orders[i].limit)]
      minus(f) == [i \in DOMAIN orders |-> -f[i]]
  IN [t \in {orders[i].trader : i \in {j \in DOMAIN orders : base[j] > 0}} |->
        [base  |-> Net(orders, t, base, minus(base)),
         quote |-> Net(orders, t, minus(quote), quote)]]

Mutant_VisitedBefore_arrival(orders, i, j) == i < j

\* fillSide visits the buys and then the sells, each in the order Before.
VisitedBefore(orders, i, j) ==
  IF orders[i].side = orders[j].side THEN Before(orders, i, j) ELSE orders[i].side = "buy"

\* The net position changes of the traders that trade, and the place of each in
\* the list of fills: traders are listed in the order their first order to
\* trade is visited, and the list is what gets signed.  A fill is converted to
\* quote order by order.
allocate(orders, price, volume) ==
  LET base  == [i \in DOMAIN orders |-> take(orders, price, volume, i)]
      quote == [i \in DOMAIN orders |-> QuoteFor(base[i], price)]
      minus(f) == [i \in DOMAIN orders |-> -f[i]]
      traded   == {i \in DOMAIN orders : base[i] > 0}
      of(t)    == {i \in traded : orders[i].trader = t}
      traders  == {orders[i].trader : i \in traded}
      touchedBefore(s, t) == \E i \in of(s) : \A j \in of(t) : VisitedBefore(orders, i, j)
  IN [t \in traders |->
        [base  |-> Net(orders, t, base, minus(base)),
         quote |-> Net(orders, t, minus(quote), quote),
         place |-> Cardinality({s \in traders : touchedBefore(s, t)})]]

\* Clear returns a settlement or one of two errors.
Failed(reason) == [error |-> reason, price |-> 0, matched |-> 0, fills |-> <<>>, unmatched |-> 0]

Clear(orders, ref, maxDeviationBps) ==
  LET price   == bestPrice(orders, ref)
      matched == matchedAt(orders, price)
  IN IF price = 0 THEN Failed("ErrNoCross")
     ELSE IF ~withinBand(price, ref, maxDeviationBps) THEN Failed("ErrOutOfBand")
     ELSE [error |-> "", price |-> price, matched |-> matched,
           fills |-> allocate(orders, price, matched),
           unmatched |-> Cardinality({i \in DOMAIN orders :
                                        take(orders, price, matched, i) = 0})]
=============================================================================
