------------------------- MODULE MCNightjarAuction -------------------------
(***************************************************************************)
(* Small instances of NightjarAuction.  Account 1 sells base, account 2    *)
(* buys it and is the owner and first fee recipient.  Machines 10 and 20   *)
(* serve the extension; 30 is a stranger.                                  *)
(***************************************************************************)
EXTENDS NightjarAuction

Deltas(x, y) == [a \in Accounts |-> CASE a = 1 -> x [] a = 2 -> y [] OTHER -> 0]

Trade(domain, batch, price) ==
  [domain |-> domain, batch |-> batch, price |-> price, matched |-> 1,
   base |-> Deltas(-1, 1), quote |-> Deltas(price, -price)]

\* What may come to be signed: a correct trade, the same for another venue, and
\* one that creates quote.  The price is within the band of the deployment around
\* 2000, and outside the one the owner may set.
MCPayloads ==
  {Trade(Here, 1, 2080), Trade("elsewhere", 1, 2080),
   [Trade(Here, 1, 2080) EXCEPT !.quote = Deltas(2081, -2080)]}

MCWalletBase == Deltas(1, 0)
MCWalletQuote == Deltas(0, 2200)
MCAmounts == {<<1, 0>>, <<0, 2200>>}
=============================================================================
