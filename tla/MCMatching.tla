----------------------------- MODULE MCMatching -----------------------------
(***************************************************************************)
(* Matching over every book of bounded size: a book grows one order at a   *)
(* time, an order may be rested twice, and every book reached is cleared.  *)
(***************************************************************************)
EXTENDS Matching

CONSTANTS
  N,                \* traders are numbered 1..N
  MaxOrders,        \* bound on the orders of a book
  Limits, Sizes,    \* limit prices and sizes of orders
  Refs,             \* reference prices, 0 for none
  MaxDeviationBps

ASSUME BookAssumption ==
  /\ N \in Nat /\ Traders = 1..N
  /\ IsFiniteSet(Limits) /\ Limits # {} /\ Limits \subseteq Nat \ {0}
  /\ Sizes \subseteq Nat \ {0}
  /\ Refs \subseteq Nat

VARIABLES book, ref

vars == <<book, ref>>

Init == book = <<>> /\ ref \in Refs

Rest(trader, side, limit, size) ==
  book' = Append(book, [id |-> Len(book) + 1, trader |-> trader, side |-> side,
                        limit |-> limit, size |-> size])

RestAgain == book # <<>> /\ book' = Append(book, book[Len(book)])

Next ==
  /\ Len(book) < MaxOrders
  /\ \/ RestAgain
     \/ \E t \in Traders, side \in {"buy", "sell"}, l \in Limits, s \in Sizes :
          Rest(t, side, l, s)
  /\ UNCHANGED ref

Spec == Init /\ [][Next]_vars

-----------------------------------------------------------------------------
Result == Clear(book, ref, MaxDeviationBps)

Side(side) == {i \in DOMAIN book : book[i].side = side}

Taken(res, i) == take(book, res.price, res.matched, i)

\* What the orders of one side trade together.
TakenOn(res, side) ==
  Total(Len(book), [i \in 1..Len(book) |-> IF book[i].side = side THEN Taken(res, i) ELSE 0])

\* The fills added up as NightjarAuction.settle adds them up.
BaseOf(fills) ==
  Total(N, [t \in 1..N |-> IF t \in DOMAIN fills THEN fills[t].base ELSE 0])
QuoteOf(fills) ==
  Total(N, [t \in 1..N |-> IF t \in DOMAIN fills THEN fills[t].quote ELSE 0])

\* The clearing price trades as much as any price would, not only any limit
\* price (candidatePrices says the optimum always sits on one of these), and
\* Clear gives up only when no two orders cross.
MaximisesVolume ==
  LET res == Result IN
  /\ res.error = "" => \A p \in 0..Max(Limits) + 1 : matchedAt(book, p) <= res.matched
  /\ res.error = "ErrNoCross" =>
       \A i \in Side("buy"), j \in Side("sell") : book[i].limit < book[j].limit

Swapped(i) == [book EXCEPT ![i] = book[i+1], ![i+1] = book[i]]

\* Two enclaves that were sent the same orders in a different order of arrival
\* agree on the whole settlement (Clear's tie-breaks and allocate's sort keys
\* are there for that).
ArrivalOrderImmaterial ==
  \A i \in 1..Len(book) - 1 : Clear(Swapped(i), ref, MaxDeviationBps) = Result

\* Each side trades exactly the matched volume, and base moves between the
\* traders without being created: settle would refuse it otherwise.
BaseConserved ==
  LET res == Result IN
  res.error = "" =>
    /\ TakenOn(res, "buy") = res.matched
    /\ TakenOn(res, "sell") = res.matched
    /\ BaseOf(res.fills) = 0

AtLimit(res, i) ==
  LET q == QuoteFor(Taken(res, i), book[i].limit)
  IN IF book[i].side = "buy" THEN -q ELSE q

\* Nobody ends up worse than at the limits of their own orders, even a trader
\* with orders on both sides.
WithinLimits ==
  LET res == Result IN
  res.error = "" =>
    \A t \in DOMAIN res.fills :
      res.fills[t].quote >= Total(Len(book), [i \in 1..Len(book) |->
                              IF book[i].trader = t THEN AtLimit(res, i) ELSE 0])

\* A worse-priced order trades only when every better-priced order of its side
\* has traded in full.
PricePriority ==
  LET res == Result IN
  res.error = "" =>
    \A i, j \in DOMAIN book :
      /\ book[i].side = book[j].side
      /\ IF book[i].side = "buy" THEN book[i].limit > book[j].limit
                                 ELSE book[i].limit < book[j].limit
      /\ Taken(res, j) > 0
      => Taken(res, i) = book[i].size

\* What truncation makes the buyers and the sellers disagree on is less than
\* one unit for each order that trades.
DustBounded ==
  LET res == Result
      off == QuoteOf(res.fills)
  IN res.error = "" =>
       Distance(off, 0) < Cardinality({i \in DOMAIN book : Taken(res, i) > 0})

\* matching_test.go:85: "the quote the buyer pays is exactly what the seller
\* receives".  NightjarAuction.settle reverts on any other settlement.
QuoteConserved ==
  QuoteOf(Result.fills) = 0
=============================================================================
