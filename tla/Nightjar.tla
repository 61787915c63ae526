------------------------------ MODULE Nightjar ------------------------------
(***************************************************************************)
(* The venue and its enclaves together.  NightjarAuction says what a        *)
(* machine that is not compromised may sign (Asked) and takes the content  *)
(* of the settlements from a constant; here the machines run the extension *)
(* of module Enclave on the instructions the contract sends, and what they *)
(* sign is what their books cleared to.                                    *)
(*                                                                         *)
(* The log of instructions, sent, is shared: the contract appends to it    *)
(* and the extension reads it, each machine in its own order and time.     *)
(* A signature is public once the result of runBatch is out (the proxy     *)
(* serves results to anyone), so anyone may take it to settle.             *)
(***************************************************************************)
EXTENDS NightjarAuction

CONSTANTS
  PriceScale,   \* as in Matching
  Sealed,       \* order id -> the plaintext under its ciphertext, or Garbled
  Garbled,
  Faults        \* as in Enclave

VARIABLES book, currentBatchID, batchesSettled, lastClearing, lastMatchedBase,
          running, handled, returned

Extension == INSTANCE Enclave WITH
  Traders <- Accounts, Requests <- {}, MaxSent <- MaxInstructions

\* Every order the contract can number stands for some ciphertext.
ASSUME SystemAssumption ==
  /\ PriceScale \in Nat \ {0}
  /\ Garbled \notin Extension!Content
  /\ DOMAIN Sealed \subseteq Nat
  /\ 1..MaxOrderId-1 \subseteq DOMAIN Sealed
  /\ \A id \in DOMAIN Sealed : Sealed[id] \in Extension!Content \union {Garbled}

contract == <<ledger, tokens, orderVars, batchVars, config, oracle>>
enclaves == <<book, currentBatchID, batchesSettled, lastClearing, lastMatchedBase,
              running, handled, returned>>
system == <<contract, sent, signed, enclaves>>

Trusted == Machines \ Compromised

\* A venue whose owner has registered every machine and whose accounts have
\* deposited all they have.
Deployed(threshold) ==
  /\ Untraded
  /\ extensionIdSet = TRUE
  /\ teeSigners \in [1..Cardinality(Machines) -> Machines]
  /\ \A i, j \in DOMAIN teeSigners : i < j => teeSigners[i] < teeSigners[j]
  /\ signatureThreshold = threshold
  /\ baseBalance = WalletBase
  /\ quoteBalance = WalletQuote
  /\ baseHeld = Total(N, WalletBase)
  /\ quoteHeld = Total(N, WalletQuote)
  /\ baseWallet = [a \in Accounts |-> 0]
  /\ quoteWallet = [a \in Accounts |-> 0]

Started ==
  /\ book = [m \in Machines |-> Extension!NoBook]
  /\ currentBatchID = [m \in Machines |-> 0]
  /\ batchesSettled = [m \in Machines |-> 0]
  /\ lastClearing = [m \in Machines |-> 0]
  /\ lastMatchedBase = [m \in Machines |-> 0]
  /\ running = {}
  /\ handled = {}
  /\ returned = {}

\* Any threshold the contract accepts that takes in an honest machine.
SystemInit ==
  /\ \E threshold \in 1..Cardinality(Machines) : Deployed(threshold)
  /\ HonestQuorum
  /\ Started

-----------------------------------------------------------------------------
\* Transactions, and the feed.
OnChain ==
  /\ \/ \E a \in Accounts, m \in DepositAmounts :
          deposit(a, m[1], m[2]) \/ withdraw(a, m[1], m[2])
     \/ BatchNext
     \/ \E p \in Prices : oracleUpdate(p, TRUE)
  /\ UNCHANGED enclaves

\* A request that an enclave serves without signing anything.
ServeQuietly ==
  /\ \/ \E m \in Trusted, i \in DOMAIN sent :
          \/ Extension!rejectOrder(m, i) \/ Extension!acceptOrder(m, i)
          \/ Extension!refuseRun(m, i) \/ Extension!startRun(m, i)
     \/ \E run \in running : Extension!abandonRun(run) \/ Extension!failToSign(run)
     \/ \E m \in Trusted : Extension!restart(m)
  /\ UNCHANGED <<contract, signed>>

\* A batch is cleared, and its settlement and signature are out.
PublishSettlement ==
  \E run \in running :
    /\ Extension!finishRun(run)
    /\ Cardinality(signed) < MaxSigned
    /\ signed' = signed \union {<<run.tee, Extension!Payload(run)>>}
    /\ UNCHANGED contract

\* A compromised machine signs what it likes.
Forge ==
  /\ \E m \in Compromised, s \in Settlements : enclaveSigns(m, s)
  /\ UNCHANGED enclaves

SystemNext == OnChain \/ ServeQuietly \/ PublishSettlement \/ Forge

SystemSpec == SystemInit /\ [][SystemNext]_system

-----------------------------------------------------------------------------
(* Properties *)

\* What NightjarAuction takes from the enclaves is what they do: every step of
\* the whole system is a step of the contract's module or leaves it alone.  In
\* particular an honest machine signs only for a batch the venue asked it to
\* clear (processRunBatch takes the batch, the chain and the venue from the
\* instruction, not from its own state).
ImplementsVenue == [][Next]_vars

\* A settlement that an enclave signed for the open batch moves only accounts
\* that are locked in that batch, so none of them can withdraw what it is about
\* to pay (submitOrder locks before the order is sent; the enclave never
\* checks a balance or a lock).
FillsAreLocked ==
  \A x \in signed :
    LET m == x[1]
        s == x[2]
    IN m \in Trusted /\ s.domain = Here /\ s.batch = currentBatchId =>
         \A a \in Accounts :
           s.base[a] # 0 \/ s.quote[a] # 0 => Locked(a) /\ lockedInBatch[a] = s.batch

Offered(trader, batch, side) ==
  {i \in DOMAIN sent :
     LET msg == sent[i].msg IN
     /\ msg.op = "SUBMIT_ORDER" /\ msg.batch = batch /\ msg.trader = trader
     /\ Sealed[msg.order] # Garbled
     /\ Sealed[msg.order].trader = trader /\ Sealed[msg.order].side = side
     /\ Sealed[msg.order].size > 0}

\* Consent, end to end: the closing of a batch moves an account by no more
\* base than the account itself sealed and submitted to that batch, on either
\* side, even though some machines sign anything.  It takes the binding of the
\* ciphertext to its submitter (parseSealedOrder), the fills of the auction,
\* the batch in the payload and the quorum to hold together.
ConsentedTrades ==
  [][\A b \in BatchIds, a \in Accounts :
       ~batchSettled[b] /\ batchSettled'[b] =>
         LET moved == baseBalance'[a] - baseBalance[a] IN
         /\ moved <= Extension!SizeOf(Offered(a, b, "buy"))
         /\ moved >= -Extension!SizeOf(Offered(a, b, "sell"))]_system

Executable(s) ==
  /\ MayExecute(s)
  /\ Cardinality(SignersOf(s)) >= signatureThreshold

\* InstructionSender.sol:350-351, on runBatch: "anyone may trigger a batch, and
\* no one can influence its outcome".  Then no two different settlements of the
\* open batch could both be ready to execute.
OneOutcome ==
  \A x, y \in signed :
    /\ Executable(x[2]) /\ Executable(y[2])
    /\ x[2].batch = currentBatchId /\ y[2].batch = currentBatchId
    => x[2] = y[2]

AllDelivered == \A i \in DOMAIN sent : \A m \in sent[i].tees : <<m, i>> \in handled

\* InstructionSender.sol:517-519, on _send: "Orders must reach all of them or
\* their books would diverge and they could never agree on a settlement".  Then
\* enclaves that have served all they were sent would have the same book of the
\* open batch.
BooksAgree ==
  AllDelivered =>
    \A x, y \in Trusted :
      Extension!Elements(book[x][currentBatchId]) = Extension!Elements(book[y][currentBatchId])
=============================================================================
