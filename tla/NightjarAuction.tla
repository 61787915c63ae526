-------------------------- MODULE NightjarAuction --------------------------
(***************************************************************************)
(* The venue contract (contracts/InstructionSender.sol): custody of the    *)
(* two tokens, sealed-order submission into batches, and the execution of  *)
(* settlements that a quorum of enclaves signed.                           *)
(*                                                                         *)
(* A transaction is atomic on the chain, so every external function is one *)
(* action, and a call that reverts is a call that is not enabled.  Outside *)
(* the contract there are: the two ERC-20 tokens (the wallets), the FTSO   *)
(* feed (its last value and whether it is younger than an hour), the       *)
(* machine registry (Machines, from which _send draws the recipients of an *)
(* instruction), and the enclaves' keys (what each has signed).            *)
(*                                                                         *)
(* Accounts and signing addresses are numbers, because the contract        *)
(* compares addresses: 0 is address(0).                                    *)
(***************************************************************************)
EXTENDS Integers, Sequences, FiniteSets, LedgerSums

CONSTANTS
  N,               \* accounts 1..N: the addresses that can hold a balance
  Owner,           \* the deployer, one of the accounts
  Machines,        \* signing addresses of the machines serving the extension
  Compromised,     \* the machines whose key signs anything
  Strangers,       \* addresses that belong to no machine
  Settlements,     \* settlement payloads that may come to be signed
  WalletBase,      \* tokens each account starts with
  WalletQuote,
  DepositAmounts,  \* <<base, quote>> pairs offered to deposit and withdraw
  Prices,          \* values the FTSO feed takes
  Bands,           \* values setMaxDeviationBps is called with
  Fees,            \* values setFee is called with
  MaxBatchId,      \* bound on batch ids (uint64 in the contract)
  MaxOrderId,      \* bound on order ids (uint64 in the contract)
  MaxInstructions, \* bound on the instructions sent to the enclaves
  MaxSigned,       \* bound on the signatures the enclaves make
  MaxSignatures    \* bound on the signatures of one settle call

BPS == 10000
MAX_FEE_BPS == 30

Accounts == 1..N
BatchIds == 1..MaxBatchId
Addresses == {0} \union Machines \union Strangers
Here == "this venue"         \* (block.chainid, address(this))
Domains == {Here, "elsewhere"}

Settlement ==
  [domain : Domains, batch : BatchIds, price : Nat, matched : Nat,
   base : [Accounts -> Int], quote : [Accounts -> Int]]

Result == [price : Nat, matched : Nat, fee : Int, orders : Nat]
NoResult == [price |-> 0, matched |-> 0, fee |-> 0, orders |-> 0]

ASSUME ConstantsAssumption ==
  /\ N \in Nat \ {0}
  /\ Owner \in Accounts
  /\ Machines \subseteq Nat \ {0}
  /\ IsFiniteSet(Machines)
  /\ Compromised \subseteq Machines
  /\ Strangers \subseteq Nat \ {0}
  /\ Settlements \subseteq Settlement
  /\ WalletBase \in [Accounts -> Nat]
  /\ WalletQuote \in [Accounts -> Nat]
  /\ DepositAmounts \subseteq Nat \X Nat
  /\ Prices \subseteq Nat
  /\ Bands \subseteq Nat
  /\ Fees \subseteq Nat
  /\ MaxBatchId \in Nat \ {0}
  /\ MaxOrderId \in Nat
  /\ MaxInstructions \in Nat
  /\ MaxSigned \in Nat
  /\ MaxSignatures \in Nat

VARIABLES
  \* balances and tokens
  baseBalance, quoteBalance,  \* account -> units credited by the venue
  feesCollected,
  baseHeld, quoteHeld,        \* tokens the contract owns
  baseWallet, quoteWallet,    \* tokens the accounts own
  \* batches
  currentBatchId, nextOrderId,
  lockedInBatch,              \* account -> batch, 0 for none
  batchSettled, batchOrderCount, batches,
  \* configuration
  extensionIdSet, teeSigners, signatureThreshold,
  maxDeviationBps, feeBps, feeRecipient,
  \* the world outside
  refPrice, oracleFresh,      \* the FTSO feed
  sent,                       \* instructions sent to the enclaves, in order
  signed                      \* <<machine, settlement>> pairs signed so far

tokens  == <<baseHeld, quoteHeld, baseWallet, quoteWallet>>
ledger  == <<baseBalance, quoteBalance, feesCollected>>
orderVars == <<nextOrderId, lockedInBatch, batchOrderCount>>
batchVars == <<currentBatchId, batchSettled, batches>>
config  == <<extensionIdSet, teeSigners, signatureThreshold,
             maxDeviationBps, feeBps, feeRecipient>>
oracle  == <<refPrice, oracleFresh>>
vars == <<ledger, tokens, orderVars, batchVars, config, oracle, sent, signed>>

\* A venue nobody has deposited into.
Unfunded ==
  /\ baseBalance  = [a \in Accounts |-> 0]
  /\ quoteBalance = [a \in Accounts |-> 0]
  /\ baseHeld = 0
  /\ quoteHeld = 0
  /\ baseWallet = WalletBase
  /\ quoteWallet = WalletQuote

\* A venue nobody has traded on.
Untraded ==
  /\ feesCollected = 0
  /\ currentBatchId = 1
  /\ nextOrderId = 1
  /\ lockedInBatch = [a \in Accounts |-> 0]
  /\ batchSettled = [b \in BatchIds |-> FALSE]
  /\ batchOrderCount = [b \in BatchIds |-> 0]
  /\ batches = [b \in BatchIds |-> NoResult]
  /\ maxDeviationBps = 500
  /\ feeBps = 5
  /\ feeRecipient = Owner
  /\ refPrice \in Prices
  /\ oracleFresh = TRUE
  /\ sent = <<>>
  /\ signed = {}

\* A venue that has just been deployed.
Init ==
  /\ Unfunded
  /\ Untraded
  /\ extensionIdSet = FALSE
  /\ teeSigners = <<>>
  /\ signatureThreshold = 1

isTee(a) == \E i \in DOMAIN teeSigners : teeSigners[i] = a

Plus(f, a, amount) == [f EXCEPT ![a] = @ + amount]

-----------------------------------------------------------------------------
(* Configuration, by the owner *)

setExtensionId ==
  /\ ~extensionIdSet
  /\ extensionIdSet' = TRUE
  /\ UNCHANGED <<teeSigners, signatureThreshold, maxDeviationBps, feeBps, feeRecipient>>
  /\ UNCHANGED <<ledger, tokens, orderVars, batchVars, oracle, sent, signed>>

addTee(a) ==
  /\ a # 0
  /\ teeSigners' = IF isTee(a) THEN teeSigners ELSE Append(teeSigners, a)
  /\ UNCHANGED <<extensionIdSet, signatureThreshold, maxDeviationBps, feeBps, feeRecipient>>
  /\ UNCHANGED <<ledger, tokens, orderVars, batchVars, oracle, sent, signed>>

setSignatureThreshold(t) ==
  /\ t # 0 /\ t <= Len(teeSigners)
  /\ signatureThreshold' = t
  /\ UNCHANGED <<extensionIdSet, teeSigners, maxDeviationBps, feeBps, feeRecipient>>
  /\ UNCHANGED <<ledger, tokens, orderVars, batchVars, oracle, sent, signed>>

setMaxDeviationBps(bps) ==
  /\ maxDeviationBps' = bps
  /\ UNCHANGED <<extensionIdSet, teeSigners, signatureThreshold, feeBps, feeRecipient>>
  /\ UNCHANGED <<ledger, tokens, orderVars, batchVars, oracle, sent, signed>>

setFee(bps, recipient) ==
  /\ bps <= MAX_FEE_BPS
  /\ recipient # 0
  /\ feeBps' = bps
  /\ feeRecipient' = recipient
  /\ UNCHANGED <<extensionIdSet, teeSigners, signatureThreshold, maxDeviationBps>>
  /\ UNCHANGED <<ledger, tokens, orderVars, batchVars, oracle, sent, signed>>

-----------------------------------------------------------------------------
(* Balances *)

depositFor(from, trader, b, q) ==
  /\ trader # 0
  /\ b > 0 \/ q > 0
  /\ baseWallet[from] >= b /\ quoteWallet[from] >= q
  /\ baseWallet'  = Plus(baseWallet, from, -b)
  /\ quoteWallet' = Plus(quoteWallet, from, -q)
  /\ baseHeld'  = baseHeld + b
  /\ quoteHeld' = quoteHeld + q
  /\ baseBalance'  = Plus(baseBalance, trader, b)
  /\ quoteBalance' = Plus(quoteBalance, trader, q)
  /\ UNCHANGED <<feesCollected, orderVars, batchVars, config, oracle, sent, signed>>

deposit(trader, b, q) == depositFor(trader, trader, b, q)

Locked(a) == lockedInBatch[a] # 0 /\ ~batchSettled[lockedInBatch[a]]

Covers(a, b, q) == b <= baseBalance[a] /\ q <= quoteBalance[a]

Mutant_MayWithdraw_noLock(a, b, q) == Covers(a, b, q)
Mutant_MayWithdraw_overdraw(a, b, q) == ~Locked(a) /\ b <= baseBalance[a]

MayWithdraw(a, b, q) == ~Locked(a) /\ Covers(a, b, q)

withdraw(trader, b, q) ==
  /\ MayWithdraw(trader, b, q)
  /\ baseBalance'  = Plus(baseBalance, trader, -b)
  /\ quoteBalance' = Plus(quoteBalance, trader, -q)
  /\ baseHeld'  = baseHeld - b
  /\ quoteHeld' = quoteHeld - q
  /\ baseWallet'  = Plus(baseWallet, trader, b)
  /\ quoteWallet' = Plus(quoteWallet, trader, q)
  /\ UNCHANGED <<feesCollected, orderVars, batchVars, config, oracle, sent, signed>>

-----------------------------------------------------------------------------
(* Trading *)

\* The registry draws the machines that receive one instruction at random,
\* as many as the threshold asks for, independently of earlier instructions.
_send(instruction) ==
  /\ extensionIdSet
  /\ Len(sent) < MaxInstructions
  /\ \E tees \in SUBSET Machines :
       /\ Cardinality(tees) = signatureThreshold
       /\ sent' = Append(sent, [msg |-> instruction, tees |-> tees])

Mutant_submitOrder_locksOnce(trader) ==
  /\ teeSigners # <<>>
  /\ nextOrderId < MaxOrderId
  /\ nextOrderId' = nextOrderId + 1
  /\ lockedInBatch' = [lockedInBatch EXCEPT ![trader] = IF @ = 0 THEN currentBatchId ELSE @]
  /\ batchOrderCount' = Plus(batchOrderCount, currentBatchId, 1)
  /\ _send([op |-> "SUBMIT_ORDER", order |-> nextOrderId, batch |-> currentBatchId,
            trader |-> trader, ref |-> 0, bps |-> 0])
  /\ UNCHANGED <<ledger, tokens, batchVars, config, oracle, signed>>

submitOrder(trader) ==
  /\ teeSigners # <<>>
  /\ nextOrderId < MaxOrderId
  /\ nextOrderId' = nextOrderId + 1
  /\ lockedInBatch' = [lockedInBatch EXCEPT ![trader] = currentBatchId]
  /\ batchOrderCount' = Plus(batchOrderCount, currentBatchId, 1)
  /\ _send([op |-> "SUBMIT_ORDER", order |-> nextOrderId, batch |-> currentBatchId,
            trader |-> trader, ref |-> 0, bps |-> 0])
  /\ UNCHANGED <<ledger, tokens, batchVars, config, oracle, signed>>

runBatch ==
  /\ teeSigners # <<>>
  /\ batchOrderCount[currentBatchId] # 0
  /\ oracleFresh
  /\ _send([op |-> "RUN_BATCH", order |-> 0, batch |-> currentBatchId,
            trader |-> 0, ref |-> refPrice, bps |-> maxDeviationBps])
  /\ UNCHANGED <<ledger, tokens, orderVars, batchVars, config, oracle, signed>>

\* Signatures are given by the addresses they recover to.  Only a machine's
\* own signature of the payload recovers to that machine; a stranger can sign
\* any payload and a malformed signature recovers to 0.
Recovers(s, a) == a \in Machines => <<a, s>> \in signed

Mutant__verifyQuorum_repeats(s, signatures) ==
  /\ Len(signatures) >= signatureThreshold
  /\ \A i \in DOMAIN signatures :
       /\ Recovers(s, signatures[i]) /\ isTee(signatures[i])
       /\ signatures[i] >= (IF i = 1 THEN 0 ELSE signatures[i-1])

\* At least signatureThreshold of them, each of a registered machine, in
\* strictly increasing order of address.
_verifyQuorum(s, signatures) ==
  /\ Len(signatures) >= signatureThreshold
  /\ \A i \in DOMAIN signatures :
       /\ Recovers(s, signatures[i])
       /\ signatures[i] # 0
       /\ isTee(signatures[i])
       /\ signatures[i] > (IF i = 1 THEN 0 ELSE signatures[i-1])

Abs(x) == IF x < 0 THEN -x ELSE x

_requireWithinBand(price) ==
  /\ oracleFresh
  /\ \/ refPrice = 0
     \/ Abs(price - refPrice) * BPS <= refPrice * maxDeviationBps

\* A payload is for one venue on one chain, and for a batch still open.
Mutant_MayExecute_anyVenue(s) == ~batchSettled[s.batch]
Mutant_MayExecute_twice(s) == s.domain = Here

MayExecute(s) == s.domain = Here /\ ~batchSettled[s.batch]

\* Checked on the raw deltas, before any fee.
Mutant_Conserves_baseOnly(s) == Total(N, s.base) = 0

Conserves(s) == Total(N, s.base) = 0 /\ Total(N, s.quote) = 0

\* What settle and cancelBatch leave behind.
Mutant_CloseBatch_notMarked(b, result) ==
  /\ b < MaxBatchId
  /\ currentBatchId' = b + 1
  /\ batches' = [batches EXCEPT ![b] = result]
  /\ UNCHANGED batchSettled

Mutant_CloseBatch_sameBatch(b, result) ==
  /\ b < MaxBatchId
  /\ batchSettled' = [batchSettled EXCEPT ![b] = TRUE]
  /\ batches' = [batches EXCEPT ![b] = result]
  /\ UNCHANGED currentBatchId

CloseBatch(b, result) ==
  /\ b < MaxBatchId
  /\ batchSettled' = [batchSettled EXCEPT ![b] = TRUE]
  /\ currentBatchId' = b + 1
  /\ batches' = [batches EXCEPT ![b] = result]

\* The fee of each fill, on the quote it moves in either direction.
FeeOf(s) == [a \in Accounts |-> (Abs(s.quote[a]) * feeBps) \div BPS]

\* A settlement is executed whole or, when some trader cannot cover a delta,
\* not at all.  A fill is the net of one trader's orders, so the fills are a
\* function of the trader and the order they are applied in is immaterial.
settle(s, signatures) ==
  LET fee        == FeeOf(s)
      totalFee   == Total(N, fee)
      baseAfter  == [a \in Accounts |-> baseBalance[a] + s.base[a]]
      quoteAfter == [a \in Accounts |-> quoteBalance[a] + s.quote[a] - fee[a]]
  IN
  /\ teeSigners # <<>>
  /\ _verifyQuorum(s, signatures)
  /\ MayExecute(s)
  /\ _requireWithinBand(s.price)
  /\ Conserves(s)
  /\ \A a \in Accounts : baseAfter[a] >= 0 /\ quoteAfter[a] >= 0
  /\ baseBalance' = baseAfter
  /\ quoteBalance' = Plus(quoteAfter, feeRecipient, totalFee)
  /\ feesCollected' = feesCollected + totalFee
  /\ CloseBatch(s.batch, [price |-> s.price, matched |-> s.matched, fee |-> totalFee,
                          orders |-> batchOrderCount[s.batch]])
  /\ UNCHANGED <<tokens, orderVars, config, oracle, sent, signed>>

\* onlyOwner: the batch is given up and nobody trades.
cancelBatch ==
  /\ CloseBatch(currentBatchId, [NoResult EXCEPT !.orders = batchOrderCount[currentBatchId]])
  /\ UNCHANGED <<ledger, tokens, orderVars, config, oracle, sent, signed>>

-----------------------------------------------------------------------------
(* The world outside the contract *)

\* The feed is updated, or is found to be older than an hour.
oracleUpdate(price, fresh) ==
  /\ refPrice' = price
  /\ oracleFresh' = fresh
  /\ UNCHANGED <<ledger, tokens, orderVars, batchVars, config, sent, signed>>

\* A machine that is not compromised signs for this venue only what the venue
\* asked it to clear; it may serve another venue as well.
Asked(m, s) ==
  s.domain = Here =>
    \E i \in DOMAIN sent : /\ sent[i].msg.op = "RUN_BATCH"
                           /\ sent[i].msg.batch = s.batch
                           /\ m \in sent[i].tees

enclaveSigns(m, s) ==
  /\ m \in Compromised \/ Asked(m, s)
  /\ Cardinality(signed) < MaxSigned
  /\ signed' = signed \union {<<m, s>>}
  /\ UNCHANGED <<ledger, tokens, orderVars, batchVars, config, oracle, sent>>

-----------------------------------------------------------------------------
SignatureLists == UNION {[1..k -> Addresses] : k \in 0..MaxSignatures}

\* setExtensionId is open to anyone; the rest is onlyOwner.
ConfigNext ==
  \/ setExtensionId
  \/ \E a \in {0} \union Machines : addTee(a)
  \/ \E t \in 0..Cardinality(Machines) + 1 : setSignatureThreshold(t)
  \/ \E bps \in Bands : setMaxDeviationBps(bps)
  \/ \E bps \in Fees, recipient \in {0} \union Accounts : setFee(bps, recipient)

BalanceNext ==
  \E a \in Accounts, m \in DepositAmounts :
    \/ deposit(a, m[1], m[2])
    \/ \E trader \in {0} \union (Accounts \ {a}) : depositFor(a, trader, m[1], m[2])
    \/ withdraw(a, m[1], m[2])

BatchNext ==
  \/ \E a \in Accounts : submitOrder(a)
  \/ runBatch
  \/ \E s \in Settlements, signatures \in SignatureLists : settle(s, signatures)
  \/ cancelBatch

WorldNext ==
  \/ \E p \in Prices, fresh \in BOOLEAN : oracleUpdate(p, fresh)
  \/ \E m \in Machines, s \in Settlements : enclaveSigns(m, s)

Next == ConfigNext \/ BalanceNext \/ BatchNext \/ WorldNext

Spec == Init /\ [][Next]_vars

-----------------------------------------------------------------------------
(* Properties *)

Message == [op : {"SUBMIT_ORDER", "RUN_BATCH"}, order : Nat, batch : BatchIds,
            trader : Nat, ref : Nat, bps : Nat]
Instruction == [msg : Message, tees : SUBSET Machines]

LedgerTypeOK ==
  /\ baseBalance \in [Accounts -> Nat]
  /\ quoteBalance \in [Accounts -> Nat]
  /\ feesCollected \in Nat

TokenTypeOK ==
  /\ baseHeld \in Int /\ quoteHeld \in Int
  /\ baseWallet \in [Accounts -> Nat]
  /\ quoteWallet \in [Accounts -> Nat]

OrderTypeOK ==
  /\ nextOrderId \in Nat \ {0}
  /\ lockedInBatch \in [Accounts -> {0} \union BatchIds]
  /\ batchOrderCount \in [BatchIds -> Nat]

BatchTypeOK ==
  /\ currentBatchId \in BatchIds
  /\ batchSettled \in [BatchIds -> BOOLEAN]
  /\ batches \in [BatchIds -> Result]

ConfigTypeOK ==
  /\ extensionIdSet \in BOOLEAN
  /\ teeSigners \in Seq(Machines)
  /\ signatureThreshold \in Nat \ {0}
  /\ maxDeviationBps \in Nat
  /\ feeBps \in 0..MAX_FEE_BPS
  /\ feeRecipient \in Accounts

WorldTypeOK ==
  /\ refPrice \in Nat
  /\ oracleFresh \in BOOLEAN
  /\ sent \in Seq(Instruction)
  /\ signed \subseteq Machines \X Settlements

\* Every variable keeps its type; in particular no balance and no wallet goes
\* below zero (withdraw and _applyDelta check before they subtract), and the
\* fee stays under its ceiling.
TypeOK == LedgerTypeOK /\ TokenTypeOK /\ OrderTypeOK /\ BatchTypeOK /\ ConfigTypeOK /\ WorldTypeOK

\* Custody: the tokens the contract owns are exactly what it owes its
\* accounts, in each asset, whatever the enclaves sign.  A settlement that did
\* not conserve an asset, or a fee credited without being charged, breaks it
\* (settle checks netBase and netQuote and credits totalFee).
Solvent ==
  /\ Total(N, baseBalance) = baseHeld
  /\ Total(N, quoteBalance) = quoteHeld

\* Batches close in order: exactly the batches before the current one are
\* closed.  settle takes the batch id from the signed payload and sets
\* currentBatchId from it, so this rests on what enclaves sign and on the
\* domain check, not on settle alone.
BatchesInOrder ==
  \A b \in BatchIds : batchSettled[b] <=> b < currentBatchId

\* A lock always names the batch that is open, so whatever closes that batch
\* (settle or cancelBatch) frees every locked balance and none stays behind
\* (submitOrder overwrites an earlier lock without looking at it).
LocksOpenBatchOnly ==
  \A a \in Accounts : Locked(a) => lockedInBatch[a] = currentBatchId

\* No order enters a batch once it has closed: the order count recorded with
\* the result is still the number of orders ever sent to that batch.
ClosedBatchTakesNoOrders ==
  \A b \in BatchIds : batchSettled[b] => batches[b].orders = batchOrderCount[b]

\* The fees collected are the fees of the recorded batch results.
FeesAccounted ==
  feesCollected = Total(MaxBatchId, [b \in BatchIds |-> batches[b].fee])

\* A batch that has closed stays closed and its result is never rewritten,
\* whatever else the enclaves have signed for it.
OutcomesFinal ==
  [][\A b \in BatchIds : batchSettled[b] =>
       batchSettled'[b] /\ batches'[b] = batches[b]]_vars

\* What the venue may count on: a threshold of signers always takes in at
\* least one machine that is not compromised.
HonestQuorum == Cardinality(Compromised) < signatureThreshold

SignersOf(s) == {m \in Machines : isTee(m) /\ <<m, s>> \in signed}

\* A batch trades (its recorded clearing price is not zero) only by a payload
\* that at least signatureThreshold distinct registered machines signed for
\* this venue and this batch: no key counts twice and no stranger counts
\* (_verifyQuorum relies on the order of the signers for that).
QuorumBacked ==
  [][\A b \in BatchIds :
       /\ ~batchSettled[b] /\ batchSettled'[b]
       /\ batches'[b].price # 0
       => \E s \in Settlements :
            /\ s.domain = Here /\ s.batch = b
            /\ batches'[b].price = s.price
            /\ Cardinality(SignersOf(s)) >= signatureThreshold]_vars

\* The contract does what CustodyLedger promises: between two closings of a
\* batch a claim only grows by deposits and only an unlocked owner takes it
\* out; closing a batch redistributes, and opens the next one.
Custody == INSTANCE CustodyLedger WITH
  base <- baseBalance, quote <- quoteBalance,
  baseVault <- baseHeld, quoteVault <- quoteHeld,
  pledged <- {a \in Accounts : Locked(a)}, open <- currentBatchId

ImplementsCustody == Custody!Spec
=============================================================================
