--------------------------- MODULE CustodyLedger ---------------------------
(***************************************************************************)
(* What the venue promises the people whose tokens it holds, without       *)
(* orders, signatures, oracles or fees.                                    *)
(*                                                                         *)
(* The venue holds a vault of each asset and owes every account a claim on *)
(* it.  A claim grows by a deposit, shrinks by a withdrawal of an account  *)
(* that has nothing pledged to the open batch, and otherwise moves only    *)
(* when the open batch closes; closing a batch moves value between the     *)
(* claims but creates and destroys none, releases every pledge, and opens  *)
(* the next batch.                                                         *)
(***************************************************************************)
EXTENDS LedgerSums

CONSTANT N            \* the accounts are 1..N

VARIABLES
  base, quote,        \* the claims: account -> amount
  baseVault,          \* the tokens the venue holds
  quoteVault,
  pledged,            \* accounts with an order in the open batch
  open                \* the open batch

vars == <<base, quote, baseVault, quoteVault, pledged, open>>

Accounts == 1..N

\* The vaults hold exactly what is claimed, and nothing is pledged yet.
Init ==
  /\ base  \in [Accounts -> Nat]
  /\ quote \in [Accounts -> Nat]
  /\ baseVault  = Total(N, base)
  /\ quoteVault = Total(N, quote)
  /\ pledged = {}
  /\ open = 1

\* Only a's claims change, and the vaults change by the same amounts.
Moves(a) ==
  /\ \A o \in Accounts \ {a} : base'[o] = base[o] /\ quote'[o] = quote[o]
  /\ baseVault'  - baseVault  = base'[a]  - base[a]
  /\ quoteVault' - quoteVault = quote'[a] - quote[a]
  /\ UNCHANGED <<pledged, open>>

Deposit(a) ==
  /\ Moves(a)
  /\ base'[a] >= base[a] /\ quote'[a] >= quote[a]

Withdraw(a) ==
  /\ a \notin pledged
  /\ Moves(a)
  /\ base'[a]  \in 0..base[a]
  /\ quote'[a] \in 0..quote[a]

Pledge(a) ==
  /\ pledged' = pledged \union {a}
  /\ UNCHANGED <<base, quote, baseVault, quoteVault, open>>

CloseBatch ==
  /\ Total(N, base')  = Total(N, base)
  /\ Total(N, quote') = Total(N, quote)
  /\ \A a \in Accounts : base'[a] >= 0 /\ quote'[a] >= 0
  /\ pledged' = {}
  /\ open' = open + 1
  /\ UNCHANGED <<baseVault, quoteVault>>

Next ==
  \/ CloseBatch
  \/ \E a \in Accounts : Deposit(a) \/ Withdraw(a) \/ Pledge(a)

Spec == Init /\ [][Next]_vars
============================================================================
