----------------------------- MODULE MCNightjar -----------------------------
(***************************************************************************)
(* Small instances of Nightjar.  Order ids are given in the order of       *)
(* submission; the plaintext under orders 1 and 3 is trader 1's, offering  *)
(* one unit of base at 2000 or more, and under order 2 trader 2's, bidding *)
(* 3000 for one.  Whoever submits another trader's plaintext copied it.    *)
(***************************************************************************)
EXTENDS Nightjar

Terms(trader, side, limit, size) ==
  [trader |-> trader, side |-> side, limit |-> limit, size |-> size]

MCSealed == <<Terms(1, "sell", 2000, 1), Terms(2, "buy", 3000, 1), Terms(1, "sell", 2000, 1)>>

Trade(batch, price, base) ==
  [domain |-> Here, batch |-> batch, price |-> price, matched |-> base,
   base |-> <<-base, base>>, quote |-> <<base * price, -base * price>>]

\* All that the orders can clear to.
MCTrades == {Trade(b, p, 1) : b \in 1..3, p \in {2000, 3000}}

\* With both limits at 2000, everything clears at 2000: then these are also what
\* a compromised machine may put its name to, orders or no orders.
MCSealedAtOnePrice == [MCSealed EXCEPT ![2] = Terms(2, "buy", 2000, 1)]
MCForgeries == {Trade(b, 2000, 1) : b \in 1..3}

MCBase == <<2, 0>>
MCQuote == <<0, 8000>>
MCBaseOnly == {<<2, 0>>}
MCNothing == {}
=============================================================================
