# Nightjar: TLA+ models, model checks and proofs

Nightjar is a dark pool for FXRP on Flare. Traders deposit two tokens into a
venue contract and submit sealed (encrypted) limit orders. Orders collect in a
batch; anyone may ask for the batch to be run. Enclaves (Flare Confidential
Compute machines) decrypt the orders, clear the batch as one uniform-price
auction, and sign a settlement. Anyone may carry a settlement that enough
enclaves signed to the contract, which checks it and moves the balances.

The modules here are translated from the source files under `src/`. Names of
variables, operators and actions are the names of the code wherever TLA+ allows.

## 1. The system and its parts

### 1.1 Components

| component | source | state it keeps | operations | modelled by |
|---|---|---|---|---|
| Venue contract `NightjarAuction` | `contracts/InstructionSender.sol` | balances, fees, locks, batches and their results, signers, threshold, band, fee | deposit, depositFor, withdraw, submitOrder, runBatch, settle, cancelBatch, six configuration calls | `NightjarAuction`, `CustodyLedger`, `LedgerSums` |
| Matching engine | `go/internal/matching` | none (a pure function) | `Clear`: price, band check, allocation | `Matching` |
| Enclave extension | `go/internal/extension`, `go/pkg/types` | the book per batch, five counters, requests in progress | submitOrder, runBatch, a restart | `Enclave` |
| The three together | | the instruction log, the signatures | | `Nightjar` |
| XRPL gateway | `contracts/XrplGateway.sol` | claimed payments, credited drops, owner, its float | fund, withdraw, transferOwnership | `XrplGateway` |
| XRPL relay | `frontend/app/api/xrpl/*`, `tools/cmd/xrpl-fund` | request under way, voting round | claim, settle, polling the data-availability layer | `XrplRelay` |
| Trade terminal | `frontend/app/trade/page.tsx`, `lib/journal.ts`, `lib/venue.ts` | stage, venue snapshot, a journal in local storage | place, clear, settle, reconcile; claimFromXrpl | claimFromXrpl in `XrplRelay`; the calls it makes in `NightjarAuction`; its own display state not modelled |
| Machine registration (`register-tee`) | `tools/pkg/fccutils/registration.go`, `policy_consistency.go`, `tools/cmd/register-tee` | a state file: steps done, the attestation and the check they led to | register, attest, check, promote; resume | `Registration` |
| Repair script | `scripts/heal-enclave.sh` | none of its own | find the running machine, register it, have the venue accept it, pause the others | `HealEnclave` |
| Extension setup | `scripts/pre-build.sh`, `post-build.sh`, `tools/cmd/deploy-contract`, `register-extension`, `allow-tee-version`, `set-governance` | `config/extension.env` | deploy, register, owners, key type, version, governance, setExtensionId | `ExtensionSetup` |
| Deployment verification | `tools/cmd/verify-deploy`, `tools/pkg/validate` | a report | seven groups of checks, a filter, an exit code | `VerifyDeploy` |
| Reporting tools | `tools/cmd/query-tee`, `inspect-tee`, `fxrp-depth`, `start-proxy` | none | read and print | not modelled |
| End-to-end driver | `tools/cmd/run-test` | none | setExtensionId, then one batch | setExtensionId in `ExtensionSetup` |
| Transparent venue | `contracts/TransparentVenue.sol` | balances, open orders | deposit, withdraw, postOrder, takeOrder | not modelled: the baseline of a comparison, not deployed with the product |
| `TestUSD` | `contracts/TestUSD.sol` | a plain ERC-20 | faucet, transfers | not modelled: the venue's use of its tokens is (the wallets) |
| API proxies | `frontend/app/api/result`, `.../tee` | none | read and forward | not modelled: stateless I/O |
| Go process, configuration | `go/cmd`, `go/internal/config` | environment | wiring | not modelled |
| Market-maker and comparison drivers | `tools/cmd/make-market`, `run-comparison` | none | call the operations above | not modelled |
| Python and TypeScript scaffolds | `python/`, `typescript/` | a sample extension | | not modelled: they do not run the auction |
| Pages, scripts, vendored library | `frontend/app/depth`, `proof`, `site`, `scripts`, `lib/forge-std` | | | not modelled |

### 1.2 How they interact

    trader --submitOrder--> contract --_send (threshold random machines)--> enclave: SUBMIT_ORDER
    anyone --runBatch-----> contract --_send (drawn again)----------------> enclave: RUN_BATCH
    enclave --signature over (chain, venue, batch, price, matched, fills)--> anyone
    anyone --settle(payload, signatures)--> contract

    payer --XRP payment--> desk's account on the XRP Ledger
    client (page through two API routes, or xrpl-fund) --attest--> Data Connector --proof--> client
    client --fund(proof)--> gateway --depositFor--> contract, from the gateway's float

    pre-build --deploy, register--> extension registry;  pre-build --extension.env--> services, post-build, verify-deploy
    register-tee --register, attest, check, promote--> machine registry <--draws machines-- contract
    heal-enclave.sh --runs--> register-tee;  --addTee--> contract;  --pause--> machine registry

* contract to enclave: instructions are delivered by the platform to each drawn
  machine in its own order and time. The enclave trusts the batch, the sender
  and the reference price inside the instruction, since the contract put them there.
* enclave to contract: only through the signed payload. The contract keeps no
  connection to a request: whoever has a payload with enough signatures may
  present it, at any later time, in any order, or never.
* inside the enclave: the HTTP server runs each request in its own goroutine.
  `processSubmitOrder` takes the mutex once. `processRunBatch` takes it twice:
  it copies the book, clears and signs without the mutex, then deletes the book.
* arriving from the XRP Ledger: the client, not the gateway, keeps the process
  going; the proof names its own beneficiary, so any relayer may carry it, and
  several may carry the same one.
* around the venue: the operator's tools send transactions one after the other and
  hand results on in files. Which machines the contract's instructions reach, and
  which signatures it accepts, is what `register-tee` and `heal-enclave.sh` leave
  behind; which extension it belongs to, what `pre-build.sh` leaves behind.
* the outside world: the price feed moves and can be stale; the registry picks
  machines at random; the decryption and signing endpoints can fail; an enclave
  can restart with empty memory.

### 1.3 What is hard

The full list, each at its line, is under `hazards` in `PROJECT.json`. In short:

* *interleaving*: a withdrawal against a settlement already signed; cancelBatch
  against settle; two runBatch calls; an order that arrives while its batch is cleared.
* *ordering and delivery*: machines see the same orders in different orders, or
  not all of them; settlements are presented late, or for another venue.
* *partial failure and restart*: signing fails after clearing; the enclave
  forgets its book; one uncovered fill reverts a whole settlement.
* *retries and races*: two relayers carry one payment, one payment is attested in
  two rounds, a client gives up before its transaction is mined.
* *crash and resume*: the tools may die between a transaction and the line that
  records it, in the middle of writing a file, or give a transaction up that is
  mined later; files outlive the chain and the machine they are about.
* *numbers*: truncating divisions in quotes and fees, four nested tie-breaks,
  the partial fill of the last order.
* *trust*: the quorum is the only thing that stands between a compromised
  machine and the balances.

For each component the properties that make it correct:

* contract: it owns exactly what it owes; only the owner of unlocked funds takes
  them out; batches close once, in order, and only by a quorum; results are final.
* matching: the price maximises volume; base is conserved; no one does worse than
  their limit; better prices go first; the result does not depend on arrival order.
* enclave: it never signs a fill that its trader did not seal and submit to that
  batch; equal books give equal settlements; a failure or restart signs nothing new.
* whole: what the contract assumes of enclaves is what they do; a signed
  settlement moves only locked accounts; no account moves beyond its own orders
  even though a minority of machines signs anything.

* tools: what a file says is true of the chain; a run that says it succeeded did; a
  run without faults gets there whatever earlier ones left; a report neither fails a
  sound deployment nor passes another.

## 2. The modules

### 2.1 `NightjarAuction` (the contract)

One action per external function; a transaction is atomic, and a reverting call
is a disabled action. The state is the contract's storage, plus what lies around
it: `baseHeld`, `quoteHeld`, `baseWallet`, `quoteWallet` (the two tokens),
`refPrice`, `oracleFresh` (the feed), `sent` (the instructions emitted, each with
the machines it was sent to) and `signed` (who has signed which payload).

* Addresses are numbers, because `_verifyQuorum` compares them; `0` is `address(0)`.
* A signature is given by the address it recovers to: a machine's address can be
  recovered only from a payload in `signed` by it, a stranger's from anything,
  and a malformed signature recovers to 0 (`Recovers`).
* A settlement payload is a record with a domain, a batch, a price and a delta of
  each asset per account. The enclave nets each trader into one fill, so the fills
  are a function of the account. A payload that lists a trader twice is therefore
  not represented.
* Which payloads machines may sign is the interface to the enclave: a compromised
  machine signs any member of `Settlements`; another one signs for this venue only
  a batch that a `RUN_BATCH` sent to it named (`Asked`). Module `Nightjar` shows
  that the enclave code satisfies this.
* `setExtensionId` looks the extension up in the registry; only its
  once-only guard is kept.

`CustodyLedger` is the abstract specification: claims, vaults, pledges and the
open batch, with no orders, signatures, oracles or fees. `ImplementsCustody` maps
balances to claims, `{a : Locked(a)}` to the pledges and `currentBatchId` to the
open batch. `LedgerSums` defines the sum over accounts and batches as a recursive
function, the way `settle` accumulates `netBase` and `netQuote`.

### 2.2 `Matching` (the engine)

`Clear` as operators over a sequence of orders, in arrival order: eligible orders
at a price, demand, supply, matched volume, imbalance, the candidate prices and
the four-level comparison `better`, the band check, and the allocation of the
matched volume by price, size and id, with each trader's net and the place of the
fill in the signed list. Truncating division is kept (`QuoteFor`).
`big.Int` is unbounded and so are TLA+ integers.

### 2.3 `Enclave` (the extension)

Machines run the same code on a shared log `sent`; `handled` is the set of
(machine, instruction) pairs served. An instruction is delivered to a machine at
most once, in any order relative to others. `submitOrder` is `rejectOrder` or
`acceptOrder`. `runBatch` is two critical sections: `startRun` copies the book
into `running`; then `abandonRun` (the auction fails), `failToSign` (the book is
kept) or `finishRun` (sign, delete the book, update the counters). Any other step
may come between. `restart` loses the book and the requests in progress. `Faults`
turns decrypt failures, sign failures and restarts on. On its own the module sends
itself what the contract could send (`request`): well-formed messages, and each order
once, since `submitOrder` numbers them; in `Nightjar` the contract sends.

### 2.4 `Nightjar` (the composition)

The contract's variables and the enclave's, sharing `sent` and `signed`. Every
trusted machine runs `Enclave`; `PublishSettlement` is `finishRun` together with
the signature becoming public; `Forge` is a compromised machine signing anything.
The content of settlements is now computed, not taken from a constant. It starts
from a deployed venue with registered machines and funded accounts.
A settlement is public only while fewer than `MaxSigned` signatures are, the bound
that `enclaveSigns` has too.

### 2.5 `XrplGateway` and `XrplRelay` (arriving from the XRP Ledger)

`XrplGateway` is the contract, one action per function: `fund` with all its
checks in order, `withdraw`, `transferOwnership`. The Data Connector is a set
`published` of responses, assumed to attest only what the ledger says (`Ledger`),
in one voting round or several; responses of another type or source may say
anything. The feed, top-ups and `publish` are the environment. Of the venue only
the sums it is told to credit are kept (`credited`).

`XrplRelay` extends it with the clients, the voting rounds and the transactions
under way. A client is a page (which works through `api/xrpl/claim` and
`api/xrpl/settle`) or the command-line tool. Its `stage` follows the code: ask for
the attestation, poll at most so many times, look at `claimed` (pages only), send
`fund`, wait for the receipt. `fail` is any call on the way that fails or runs into
its time limit; what was sent stays sent, in `pending`, and `execute` runs it later,
against the state of that moment. Not every call has a limit: the page's `fetch` of its
routes, the routes' own of the verifier and the data-availability layer, and the tool's
`http.Post` in `awaitProof` have none in the code (the 15-minute context of `main` is not
passed to it). `neverAnswered` is such a request that no server answers; it leaves the
client at the stage `unanswered`, where nothing goes on. `Elsewhere` is every other relayer, the owner and the feed.

### 2.6 `Registration` and `HealEnclave` (keeping a machine in service)

`Registration` is `register-tee` against the machine registry. `pc` is the step the
tool is at or whose transaction it waits for; `RegisterNode`'s `if
strings.Contains` ladder is `To_r`, `To_R`, `To_a`, `To_p`, and `skip` is the branch
that takes a step from the state file. A transaction is sent only if it would succeed
now (gas estimation), is appended to `pending`, and is mined in nonce order by `mine`
at some later time; `timeout` and `kill` leave it there. `save` writes the file, or
fails to, or tears it. The machine behind the proxy may `restart`, and is then another
identity; attestations `expire` or are used up; the providers `answer` a check only
while the machine it is about runs and if proxy and chain agreed on the epoch when it
was asked for.

`HealEnclave` extends it with the script: read the proxy, compare with `isTee`, run
`register-tee` without its state file, `addTee`, list, pause. Between any two of its
steps the machine may restart and late transactions may be mined; besides it an
operator runs `register-tee` by hand with any command, with or without `-resume`.

### 2.7 `ExtensionSetup` and `VerifyDeploy` (coming to be, and being looked at)

`ExtensionSetup` models the operator's jobs as sequences of steps (`Steps`), most of
them a transaction that is waited for: `pre-build` (preflight, deploy, register, three
`ensure`s, write the file), `register-extension`, `post-build` (version, governance)
and the `setExtensionId` of run-test. Others register extensions at the same time
(`registerForeign`), a job may `fail` at any step, and a local chain may be started
afresh (`reset`) while the file stays. `step` is where the job is and `waits` whether
the transaction of that step has been sent. `era` in the file is a history variable: the
chain it was written on.

`VerifyDeploy` extends it with the report. Every group of checks is an action, because
each reads the file and the chain anew; the registry group uses the file the group
before it read. Each check is an operator named as in the code, with the lookups the
chain failed to answer as a parameter. What `-step` may name is `Selections`. A run
that asks about the chain and reaches no node ends with 1 at once (`noSupport`). The filter
of `-checks` is applied before the verdict, as in the code. `rewritten` is a history
variable: a job wrote `extension.env` while the report was being made. `VerifyCatches`
speaks of reports during which that did not happen. It is not enough that the file ends
up as the registry group read it: a file that one job cuts short, a second completes and a
third cuts short again was skipped by that group and found complete by the others, and
the report exits with 0 while the file is useless. That takes three jobs and two faults,
more than the run has; the proof of an earlier form of the property, which only compared
the file with what was read, stopped at it.

## 3. What is checked

| run | instance | properties | what it shows |
|---|---|---|---|
| `auction` | 2 accounts, 1 honest and 1 compromised machine, 1 stranger, every threshold, 1 order, 2 instructions, 3 payloads (one mints quote, one is for another venue), 2 bands, 2 fees, a feed that goes stale | `TypeOK`, `Solvent`, `QuorumBacked` | whatever keys sign: exact solvency, no negative balance, and no trade without a quorum of distinct registered machines |
| `nightjar` | 2 accounts, 1 honest and 1 compromised machine, every threshold an honest machine is needed for, sign failures, restarts | `FillsAreLocked`, `FeesAccounted`, `BatchesInOrder`, `LocksOpenBatchOnly`, `ClosedBatchTakesNoOrders`, `ImplementsVenue`, `ImplementsCustody`, `OutcomesFinal`, `ConsentedTrades` | contract and enclaves fit together, batches close in order and for good, nobody trades beyond what they sealed |
| `matching` | every book of up to 3 orders: 2 traders, 3 limits, 2 sizes, duplicates, with and without a reference | `MaximisesVolume`, `ArrivalOrderImmaterial`, `BaseConserved`, `WithinLimits`, `PricePriority`, `DustBounded` | the auction's economics and determinism |
| `matching_quote` (violation) | as above, 2 limits | `QuoteConserved` | buyers' and sellers' quote differ by truncation |
| `enclave` | 2 machines (symmetric), 3 traders, 5 possible requests, 4 sent, every fault | `TypeOK`, `FillsComeFromOrders`, `SameOrdersSameSettlement` | nothing is signed beyond what was sealed and submitted; same set of orders, same signed settlement |
| `enclave_serialized` (violation) | 1 machine | `RunSeesWholeBook` | an order may be deleted without having been cleared |
| `nightjar_outcome` (violation) | 1 machine, 2 feed values | `OneOutcome` | two executable settlements of one batch |
| `nightjar_books` (violation) | 2 machines, threshold 1 | `BooksAgree` | books diverge although everything was delivered |
| `xrpl_relay` | 1 page started twice, 1 tool, 2 payments, 2 rounds, 2 feed values, top-ups and withdrawals | `TypeOK`, `CreditsBacked`, `CapacityHonoured`, `DoneMeansCredited`, `ClaimsEnd` | one credit per payment, truthful answers, nothing but an unanswered HTTP request holds a client |
| `xrpl_race` (violation) | the same | `RaceIsSuccess` | a credited payment is reported as rejected |
| `registration` | 4 commands, 2 machines one after the other, 2 epochs, 2 runs, 1 fault | `TypeOK`, `StateFileTrue`, `FreshRunIsTrue`, `CleanRunRegisters`, `HealAccepts`, `HealRetires`, `AcceptedIsRegistered` | the state file is true, a success is one, and a run or a repair without faults gets there whatever earlier ones left |
| `setup` | 5 environments, 1 foreign extension, 2 jobs, 1 fault, 1 fresh chain, 1 report of 4 kinds | `TypeOK`, `ConfigIsUsable`, `VerifyPasses`, `PreBuildConfigures`, `VerifyCatches` | a complete configuration is usable, the report neither fails it nor, unless the file is written meanwhile, passes another |

### 3.1 The bounds, and why they suffice

`MaxBatchId`, `MaxOrderId`, `MaxInstructions`, `MaxSigned`, `MaxSignatures`
bound, in this order, batch ids, order ids, instructions, signatures made, and
signatures in one call; each is a guard of the action that counts one up (`MaxSigned`
of `enclaveSigns` and, in `Nightjar`, of `PublishSettlement`). The last batch never closes. In `nightjar` three batches are the least for "closed, open, next": a stale
lock, a payload for an old batch and a payload for a later one are all reachable; two
traders send three orders, one of them a copy of another's ciphertext or plaintext.
In `auction` one batch closes and one order and one run are sent, which leaves room
for every operation of the contract and every caller. Two machines and a threshold
of up to two are the least for a quorum to be more than one key, and a third address,
not registered, separates "signed" from "signed by a machine".
In `matching`, three limits and two sizes reach each tie-break, partial fills,
an empty cross and a binding band. In `enclave` four requests fit two
orders, a run and a late order, or two runs that overlap; two machines are the
least that can disagree. In `xrpl_relay` two clients and `Elsewhere` make three
relayers; the page's second attempt overlaps a transaction of its first; payment 1
can be attested in two rounds, payment 2 went to another account. One and two
polls stand for the 30 and 40 of the code: none, some and all of them are in vain.
The feed always has a value in this run: without one a credit is 0, which `Covered`
refuses too (`xrpl_race` has the third value).
In `registration` a machine and its successor are the least that can be mixed up, and
two runs the least for one to find what another left; the one fault is any of them
(a lost call, a late block, a torn write, a kill), and late transactions, restarts and
epochs come on top. In `setup` two jobs and a fresh chain let the second job, and the
report, meet whatever the first left behind; the foreign extension may come before,
between or after, so ids are never what a count of one's own would give. The proofs of
section 4 are for any number of each. Counters in the code
(`uint64`) and amounts (`uint256`, checked arithmetic) do not overflow at any
reachable value, so widths are not modelled.

### 3.2 Fairness

* `ClaimsEnd`: weak fairness of each client's next step, `WF_vars(ClientStep(c))`, and
  nothing of anybody else: the loops of `claimFromXrpl` and `awaitProof` are bounded and
  the waits inside them are sleeps. A call that is answered, or that has a time limit,
  returns; that a server answers is not assumed: `neverAnswered` may be taken instead of
  any step that waits on a request without a limit, and `ClaimsEnd` says that this is the
  only way for a client not to come back. So it does not promise that the page or the tool
  always ends: a data-availability server that accepts the connection and then stays
  silent holds the tool for ever. Only from the stage `sending` on, where every call of
  the tool has the context of 15 minutes, does it end unconditionally. Rounds may never
  close, transactions may never be mined.
* `CleanRunRegisters`, `HealAccepts`, `HealRetires`: weak fairness of `mine` (blocks are
  made), `answer` (the data providers answer a check of a machine that is up), `newPolicy`
  (the proxy follows the chain's signing policies), `RegisterNode` and `Heal` (a process
  that is not killed goes on). Nobody is obliged to start a run or a repair: the
  properties begin with one that has started, once faults, restarts and epochs are used up.
* `PreBuildConfigures`: weak fairness of `mine` and of the job's next step, from a
  pre-build that has started.

All other properties are safety properties and need no fairness. For the venue the code
itself gives no guarantee that a batch ever settles: only the owner's `cancelBatch` is
always available, and nothing schedules it.

`CHECK_DEADLOCK FALSE` is set for `matching`, `enclave`, `registration` and `setup`: a
book of maximal size, an enclave that has served all it was sent, and tools whose runs
are used up have nothing left to do.

### 3.3 What the code and its documents disagree on

* *Truncated quotes* (`matching_quote`). Each order's quote is truncated on its
  own; with a different number of orders on each side the deltas do not cancel and
  `settle` reverts, after the enclave deleted its book. `matching_test.go:85` says
  the two are exactly equal. `DustBounded` shows the difference stays below one
  unit per order that trades.
* *Handlers overlap* (`enclave_serialized`). `docs/extension-contract.md:201` says
  handler invocations are serialised; the server runs them concurrently, and an
  order acknowledged between the two critical sections of a run is lost.
* *The outcome can be chosen* (`nightjar_outcome`). Two runBatch calls at two
  feed values, both started before either finishes, yield two settlements; the
  submitter picks. The comment over `runBatch` says no one can influence the outcome.
* *Books diverge* (`nightjar_books`). Each instruction goes to a fresh random draw
  of `threshold` machines; the comment over `_send` says orders must reach all.
* *The relay's race* (`xrpl_race`). `settle/route.ts` reads `claimed` and then
  sends `fund`. If another relayer is executed in between, the payer, who has been
  credited, is told that the gateway rejected the proof and to check where the
  payment went; the comment at line 106 calls that case a success.

Met while modelling, and described here because no separate run is spent on them:

* *The state file is not tied to a machine.* A resumed run after a restart promotes the
  machine of the earlier run and reports the one it found (`register-tee/main.go:72`);
  runs of single steps (`-command R`, `Ra`, `r`) can leave a file whose attestation is of
  one machine and whose check of another. `StateFileTrue` holds for the commands in use
  because each that has `R` has `r`; with `{Ra, r}` TLC finds the mixed file.
* *An interrupted repair is not taken up again.* After `addTee` the next run of
  `heal-enclave.sh` finds the machine accepted and says "in sync", so machines it had
  still to pause stay in the registry's draw. `HealRetires` is about repairs that end.
* *A second `register-extension`* is refused by the registry
  (`integration/registration_test.go:42`), while `docs/testing.md:82` says that it finds
  the first; what the first had not added is then added by no tool.

Every property of a passing run is also run against a small mutation of one
mapped definition (`mutants` in `PROJECT.json`) that makes it fail.

## 4. What is proved

TLAPS proves, for every value of the constants the modules' assumptions allow:

| theorem | module | assumes | states |
|---|---|---|---|
| `TypeCorrect` | `NightjarProofs` | | `Spec => []TypeOK` |
| `Custodial` | `NightjarProofs` | | `Spec => []Solvent` |
| `QuorumRequired` | `NightjarProofs` | | `Spec => QuorumBacked` |
| `BatchOrder`, `Locks`, `OrderCount`, `FeeRecord` | `NightjarProofs` | honest quorum | the four batch invariants |
| `Finality` | `NightjarProofs` | honest quorum | `OutcomesFinal` |
| `Refinement` | `NightjarProofs` | honest quorum | `ImplementsCustody` |
| `BetterIsTotalOrder`, `BeforeIsTotalOrder` | `MatchingProofs` | | the comparison of prices, and of the orders of a side, is a strict total order |
| `OptimumAtLimit` | `MatchingProofs` | | a limit price trades at least as much as any price |
| `BestPriceTradesMost` | `MatchingProofs` | | the price `bestPrice` finds does, and there is none only when nothing crosses |
| `SameOrdersClearAlike` | `MatchingProofs` | an id stands for one order | `Clear` depends on the orders and not on their arrival |
| `ClearingMaximisesVolume`, `ClearingIgnoresArrival`, `ClearingConservesBase`, `ClearingWithinLimits`, `ClearingByPrice`, `ClearingDust` | `MCMatchingProofs` | | the six invariants of run `matching`, for books of any length, any traders, limits, sizes, references and price scale |
| `OrdersHaveSources` | `EnclaveProofs` | | `Spec => []IInv`, the inductive invariant |
| `TypeCorrect` | `EnclaveProofs` | | `Spec => []TypeOK` |
| `FillsWereAskedFor` | `EnclaveProofs` | | `Spec => []FillsComeFromOrders` |
| `EnclavesAgree` | `EnclaveProofs` | | `Spec => []SameOrdersSameSettlement` |
| `SystemHolds` | `NightjarProofs` | `AnySettlement` | `SystemSpec => []SystemInv`, the inductive invariant |
| `VenueImplemented` | `NightjarProofs` | `AnySettlement` | `SystemSpec => ImplementsVenue` |
| `LocksHoldFills` | `NightjarProofs` | `AnySettlement` | `SystemSpec => []FillsAreLocked` |
| `TradesAreConsented` | `NightjarProofs` | `AnySettlement` | `SystemSpec => ConsentedTrades` |
| `SystemKeepsCustody` | `NightjarProofs` | `AnySettlement` | `SystemSpec => ImplementsCustody` |
| `SystemRecords` | `NightjarProofs` | `AnySettlement` | `SystemSpec =>` the four batch invariants, with no honest quorum assumed |
| `SystemFinality` | `NightjarProofs` | `AnySettlement` | `SystemSpec => OutcomesFinal` |
| `TypeCorrect` | `XrplGatewayProofs` | | `RelaySpec => []TypeOK`: the float is never overdrawn |
| `EveryPaymentOnce` | `XrplGatewayProofs` | | `RelaySpec => []CreditsBacked` |
| `CapacityIsReal` | `XrplGatewayProofs` | | `RelaySpec => []CapacityHonoured` |
| `RelayImplementsGateway` | `XrplGatewayProofs` | | `RelaySpec => Spec` of the gateway |
| `ToldTheTruth` | `XrplGatewayProofs` | | `RelaySpec => []DoneMeansCredited` |
| `TypeCorrect` | `HealEnclaveProofs` | | `Spec => []TypeOK` |
| `StateFile` | `HealEnclaveProofs` | `RegisterFirst` | `Spec => []StateFileTrue` |
| `FreshRun` | `HealEnclaveProofs` | | `Spec => FreshRunIsTrue` |
| `Accepted` | `HealEnclaveProofs` | | `Spec => AcceptedIsRegistered` |
| `SetupHolds` | `VerifyDeployProofs` | | `Spec => []Inv`, the inductive invariant |
| `TypeCorrect` | `VerifyDeployProofs` | | `Spec => []TypeOK` |
| `ConfigUsable` | `VerifyDeployProofs` | | `Spec => []ConfigIsUsable` |
| `ReportPasses` | `VerifyDeployProofs` | | `Spec => []VerifyPasses` |
| `ReportCatches` | `VerifyDeployProofs` | | `Spec => VerifyCatches` |

*Honest quorum* is `[]HonestQuorum`: there are always fewer compromised machines
than the threshold. It is a hypothesis of the theorems, not of the model: the
owner can lower the threshold, and then nothing but solvency and `QuorumBacked`
is left, which is why those two are proved without it. In `Nightjar` it is derived:
the venue starts with a threshold that takes in an honest machine, and the system has
no configuration calls.

*AnySettlement* is `Settlements = Settlement`: every payload there is may come to be
signed. The runs give the constant a few payloads; the proofs take all of them, the
largest environment, of whose behaviours theirs are some. What the constants must
satisfy is named where they are declared (`ConstantsAssumption`,
`PriceScaleAssumption`, `BookAssumption`, `EnclaveAssumption`, `SystemAssumption`,
`GatewayAssumption`, `RelayAssumption`, `CommandsAssumption`, `SetupAssumption`,
`RequestsAssumption`) and evaluated by the runs; `NightjarProofs`
derives the enclave's from the system's (`EnclaveConstants`).

*The argument.* `TypeOK` is inductive. `Solvent` is inductive given `TypeOK`,
from lemmas about sums (`LedgerSumsTheorems`): a sum of updates, a sum with one
entry changed, a sum of zeros. They are proved from an induction principle over
`0..n` that is itself derived from the least-element property.
`BatchesInOrder` is *not* inductive: `settle` takes the batch from the payload, so
one has to know that a payload with a quorum names the open batch or a closed one.
The strengthening `BatchInv` adds that every request in `sent` names a batch that
is not ahead of the current one, that an honest machine's signature for this venue
rests on such a request, that locks never name a later batch, that a batch ahead
has no orders, no result and no fee. An honest machine among the signers then
pins the payload's batch to `b <= currentBatchId`, and `~batchSettled[b]` to
`b = currentBatchId`. The refinement maps each action to a step of
`CustodyLedger` or to a stutter, with `BatchInv` needed only for closing a batch.

For the auction the lemmas are about sums over the places of a book. The orders of a
side, taken in the order of `Before`, trade a prefix of the volume (`FrontTrades`), so a
side with enough depth trades exactly the matched volume (`SideTradesMatched`) and an
order that trades leaves none before it unfilled (`BetterPricedFirst`). The net of a
trader summed over traders is the net of the orders (`FillsTotal`, an exchange of two
sums), which gives `BaseConserved`; comparing each order's quote at the clearing price
with the one at its limit (`QuoteForMonotone`) gives `WithinLimits`, and bounding each
truncation by one unit `DustBounded`. `bestPrice` is a fold over a set, and folds are
`CHOOSE`s of a function: `SearchExists` builds such a function, element by element, and
`BestPriceWins` shows that what the search ends with beats every candidate, which with
`OptimumAtLimit` gives the volume. Two books with the same orders are related by a
bijection of places that keeps copies of an order in sequence (`SameOrders`); sums,
`Before`, `take` and the place of a fill are then carried over one by one.

For the enclave, `FillsComeFromOrders` is not inductive: nothing in it speaks of the
books. `IInv` follows an order from the log to the signature: each order of a book
(`BooksOK`), of a run in progress (`Started`) and behind a signed settlement
(`Finished`) has a `Source`, a submission for that batch that was delivered to that
machine and opened there, and no two orders of one book share an id. That last part is
why the log must not submit an order twice (`LogOK`), which the contract's numbering
sees to. `restart` only forgets, and what was signed keeps its source because log and
deliveries only grow (`LogGrows`). The bound on a fill is then the bound on what the
trader's orders ask for (`NetWithinAsked`), each of which is a submission
(`AskedWasSubmitted`); agreement is `SameOrdersClearAlike`.

For the whole, `SystemInv` joins `TypeOK` and `BatchInv` of the contract with `IInv` of
the enclaves and adds three facts that relate the two: behind every honest signature is
a settlement an enclave returned (`Vouched`), what was sent is numbered below
`nextOrderId` (`Numbered`), and who has an order in the open batch is locked in it
(`SubmittersLocked`). `VenueStep` shows that a step of the system is one of the contract
or leaves it alone: an honest enclave's signature rests on a `RUN_BATCH` that was
addressed to it, which is what `Asked` demands. The contract's step lemmas and the
enclave's are then used as they are (`TypeStep`, `BatchInvStep`, `EnclaveStep`), the
latter through an `INSTANCE` whose operators are shown equal to those of `Extension`.
`FillsAreLocked` follows from `Vouched`, the bound on fills and `SubmittersLocked`. For
`ConsentedTrades` an honest machine is among the signers of the payload that `settle`
executes, its enclave returned that payload, and its fills are bounded by what the log
offers. The batch invariants are carried over by the step (`VenueStep` and the step lemmas
of the contract), not by `ImplementsVenue`: the whole starts from a deployed venue, which
is not an initial state of the contract's own specification, so their initial case is
shown anew (`OrderCountInit`, `FeeRecordInit`).

For the XRPL rail, `GatewayStep` shows that every step of the relayers is a step
of the gateway or leaves it alone; `TypeOK` and `CreditsBacked` are then inductive
over the gateway's own steps. `fund` changes one entry of the claimed payments, so
the worth of a trader's payments grows by one quote (`ClaimWorth`), between the
quotes at the lowest and the highest price (`QuoteMonotone`). `CapacityIsReal`
rests on two facts about truncating division (`Division`, `DivisionBound`).
`DoneMeansCredited` is not inductive: `RelayInv` adds that what a client sent in
its present attempt, and the receipt of it, are about its present job, and that
the receipts of earlier attempts cannot be taken for it. The proofs assume of the
Data Connector that it attests only what the ledger says (`GatewayAssumption`).

For `register-tee`, `ToolInv` says what the tool may rely on: a saved step names a mined
instruction of the right kind; while it waits, its own transaction is the last pending
one (`Own`), and once that is mined the receipt is about it (`OwnMined`). This is where
nonce order matters: a transaction given up earlier is mined before, never after.
`FreshInv` adds that a run without an old state knows only checks of its own machine,
which gives `FreshRunIsTrue`; `HealInv` follows it into the script. `StateFileTrue`
needs `FileInv`: a state with any step has the first, and no later machine is registered
while it lasts (`AllBelow`), because a machine that the registry knows is attested anew,
never registered twice. That fails when a command attests without registering, so the
theorem assumes `RegisterFirst`, a condition on the constant `Commands` that the callers
in the repository meet.

For the setup jobs, `SetupInv` has three layers. What the registry holds (`Registry`):
only foreign senders have more than one extension, and a key type is there only with both
owners. What is on its way keeps that so (`Fits`): a transaction given up by a job that
was killed is mined later, perhaps on behalf of nobody, so the promise has to be made when
it is sent and kept until it is mined. And what a job knows at its step (`Knows`), with
what it waits for (`Receipts`): the receipt is taken when the last pending transaction is
mined, and that one is the job's own, because nonces are mined in order and only one job
runs. At `write` the job therefore knows its own extension with its key type, and `Names`
is what the file then says; extensions only grow (`Grows`, `KnowledgeStays`), so it stays
true until a fresh chain, when `era` no longer fits. `Bounded` counts contracts and
transactions against jobs, for the bounds in `TypeOK`.

For the report, `Position` says that what is left is an end of what was asked for, so a
group is passed once and in order. `Registered` ties the results of the registry group to
the file as it was read: it can only have passed a file that `Names` an extension
(`NamedPasses`), which settles `VerifyPasses`. `Sees` is what a full report without a failure
has found out by then: after the first group a file that is there has both lines, after
the registry group it names a finished extension (`OnlyNamedPasses`), after the services
there is a file at all. None of the three alone gives `VerifyCatches`: a file that is not
there is skipped by the first two and caught only by the third.

Every safety property that a passing run checks is stated by one of these theorems. *Only
model-checked* is what is out of the prover's reach: liveness (`ClaimsEnd`,
`CleanRunRegisters`, `HealAccepts`, `HealRetires`, `PreBuildConfigures`), `ENABLED`, and
what a recursively defined operator computes on all inputs, since the library's induction
theorems take operators as arguments; the sums and the search of the auction escape this
because their lemmas are proved from a least-element argument over `0..n`.

## 5. Abstractions and limits

* ABI and JSON encoding, ECDSA and ECIES are not modelled; a ciphertext is the
  order id it was submitted under, and opens to a plaintext or to nothing.
* An instruction is delivered to a machine at most once. The platform numbers
  requests, and the code keeps no record that would detect a repetition.
* Gas, event logs and view functions are left out.
* The gateway does not look at the age of the feed, so neither does its model; the
  auction does (`oracleFresh`). The difference is listed as a hazard.
* The gateway's `depositFor` is its effect, a credit and a transfer; that the venue
  pulls exactly what it credits is `Solvent` of `NightjarAuction`.
* Numbers in a payload stand for themselves: the packing of `types.go` into `int256` and
  `uint256` is not modelled, and the runs stay far below 2^255, as does any amount a
  deposit can back. A limit price or size beyond that is outside the model.
* `GET /state` of the enclave only reads and is left out.
* The machine registry, the extension registry, the data providers and the proxies are
  not in the repository: their actions are the effects the tools rely on, as far as the
  tools' code and tests show them (one extension per sender, one check per attestation,
  a proof that names its machine).
* A tool's lookup that fails is a fault of its own step; two tools do not run at the same
  time except the script with late transactions of earlier runs, since they share one key.
* *Not modelled*: the trade page's own stage, journal and periodic reads (display state
  that nothing else depends on); `TransparentVenue` and the scripts that compare with it;
  `TestUSD`; the market maker and run-test beyond `setExtensionId` (they call operations
  modelled for any caller); the reporting tools, API proxies and static pages (they read);
  scripts that build images, start and stop processes or call the jobs above in a row; the
  sample extensions in Python and TypeScript; vendored libraries.

## 6. Plan

Done: contract, engine, extension and their composition; the XRPL gateway and its relay;
registration, repair, setup and verification; the theorems of section 4, which state
every safety property that a passing run checks.

Left: the trade page's journal. The batch it files an order under is the one on display
when the order was placed, not the one the order was taken into (hazard at
`frontend/app/trade/page.tsx:317`).
