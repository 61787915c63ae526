---------------------------- MODULE LedgerSums ----------------------------
(***************************************************************************)
(* Sums of an integer function over 1..n, accumulated from left to right   *)
(* the way NightjarAuction.settle accumulates netBase and netQuote over    *)
(* the fills.  Accounts and batches are numbered from 1, so the same       *)
(* operator adds up balances, fills and the fees of the batches.           *)
(***************************************************************************)
EXTENDS Integers

\* The running sums: Prefix(n, f)[i] = f[1] + ... + f[i].
Prefix(n, f) ==
  LET acc[i \in 0..n] == IF i = 0 THEN 0 ELSE acc[i-1] + f[i]
  IN  acc

Total(n, f) == Prefix(n, f)[n]
===========================================================================
