------------------------------ MODULE Enclave ------------------------------
(***************************************************************************)
(* The Go extension inside each enclave (go/internal/extension): it opens  *)
(* sealed orders into an in-memory book per batch, and on request clears a *)
(* batch and has the settlement signed by the node's sign server.          *)
(*                                                                         *)
(* Every HTTP request is served by its own goroutine.  submitOrder takes   *)
(* the lock once, so it is one action.  runBatch reads the book under the  *)
(* lock, clears and signs without it, and takes it again to delete the     *)
(* book: it is two actions, and other requests run in between.             *)
(*                                                                         *)
(* Outside the extension: sent, the instructions addressed to enclaves;    *)
(* their transport, which may delay, reorder or lose but, as modelled,     *)
(* never duplicates them; and the sign server, whose /decrypt and /sign    *)
(* calls may fail or time out.                                             *)
(***************************************************************************)
EXTENDS Matching

CONSTANTS
  Machines,     \* the enclaves
  MaxBatchId,   \* bound on batch ids
  Sealed,       \* order id -> the plaintext its trader sealed, or Garbled
  Garbled,      \* a ciphertext that does not open or does not decode
  Requests,     \* instructions the outside may send
  MaxSent,      \* bound on the number of instructions sent
  Faults        \* which faults are considered: "decrypt", "sign", "restart"

Here == "this venue"
BatchIds == 1..MaxBatchId
NoBook == [b \in BatchIds |-> <<>>]

Content == [trader : Traders, side : {"buy", "sell", "other"}, limit : Int, size : Int]

\* What the contract puts in an instruction: the order, batch and trader of a
\* submission, and the batch, reference price and band of a run.
WellFormed(msg) ==
  /\ msg.batch \in BatchIds
  /\ msg.op = "SUBMIT_ORDER" => msg.order \in DOMAIN Sealed /\ msg.trader \in Traders
  /\ msg.op = "RUN_BATCH" => msg.ref \in Nat

ASSUME EnclaveAssumption ==
  /\ MaxBatchId \in Nat \ {0}
  /\ Garbled \notin Content
  /\ DOMAIN Sealed \subseteq Nat
  /\ \A id \in DOMAIN Sealed : Sealed[id] \in Content \union {Garbled}
  /\ \A msg \in Requests : WellFormed(msg)

VARIABLES
  book,             \* machine -> batch -> resting orders, in arrival order
  currentBatchID,   \* machine -> batch, 0 until the first order
  batchesSettled,   \* machine -> number of settlements it signed
  lastClearing,     \* machine -> clearing price of the last one
  lastMatchedBase,
  running,          \* runBatch requests between their two critical sections
  handled,          \* <<machine, instruction>> pairs that were delivered
  returned,         \* the signed settlements, as results of runBatch
  sent              \* the instructions, in the order they were sent

memory == <<book, currentBatchID, batchesSettled, lastClearing, lastMatchedBase>>
vars == <<memory, running, handled, returned, sent>>

Init ==
  /\ book = [m \in Machines |-> NoBook]
  /\ currentBatchID = [m \in Machines |-> 0]
  /\ batchesSettled = [m \in Machines |-> 0]
  /\ lastClearing = [m \in Machines |-> 0]
  /\ lastMatchedBase = [m \in Machines |-> 0]
  /\ running = {}
  /\ handled = {}
  /\ returned = {}
  /\ sent = <<>>

-----------------------------------------------------------------------------
\* Instruction i reaches m, for the first time.
Receives(m, i, op) ==
  /\ i \in DOMAIN sent
  /\ sent[i].msg.op = op
  /\ m \in sent[i].tees
  /\ <<m, i>> \notin handled
  /\ handled' = handled \union {<<m, i>>}

Mutant_parseSealedOrder_anyTrader(msg) ==
  LET content == Sealed[msg.order] IN
  /\ content # Garbled
  /\ content.side \in {"buy", "sell"}
  /\ content.limit > 0
  /\ content.size > 0

\* The terms hold together and the trader is the one the chain named.
parseSealedOrder(msg) ==
  LET content == Sealed[msg.order] IN
  /\ content # Garbled
  /\ content.trader = msg.trader
  /\ content.side \in {"buy", "sell"}
  /\ content.limit > 0
  /\ content.size > 0

OrderOf(msg) ==
  LET content == Sealed[msg.order]
  IN [id |-> msg.order, trader |-> msg.trader, side |-> content.side,
      limit |-> content.limit, size |-> content.size]

\* processSubmitOrder, when the order does not open or is not valid.
rejectOrder(m, i) ==
  /\ Receives(m, i, "SUBMIT_ORDER")
  /\ ~parseSealedOrder(sent[i].msg) \/ "decrypt" \in Faults
  /\ UNCHANGED <<memory, running, returned, sent>>

\* processSubmitOrder, when it rests: in the book of the batch it names, which
\* need not be a batch that is still open.
acceptOrder(m, i) ==
  LET msg == sent[i].msg IN
  /\ Receives(m, i, "SUBMIT_ORDER")
  /\ parseSealedOrder(msg)
  /\ currentBatchID' = [currentBatchID EXCEPT ![m] = IF @ = 0 THEN msg.batch ELSE @]
  /\ book' = [book EXCEPT ![m][msg.batch] = Append(@, OrderOf(msg))]
  /\ UNCHANGED <<batchesSettled, lastClearing, lastMatchedBase, running, returned, sent>>

\* processRunBatch, first critical section: an empty batch is an error.
refuseRun(m, i) ==
  /\ Receives(m, i, "RUN_BATCH")
  /\ book[m][sent[i].msg.batch] = <<>>
  /\ UNCHANGED <<memory, running, returned, sent>>

Mutant_startRun_empty(m, i) ==
  LET msg == sent[i].msg IN
  /\ Receives(m, i, "RUN_BATCH")
  /\ running' = running \union {[tee |-> m, msg |-> msg, orders |-> book[m][msg.batch],
                                instruction |-> i]}
  /\ UNCHANGED <<memory, returned, sent>>

startRun(m, i) ==
  LET msg == sent[i].msg IN
  /\ Receives(m, i, "RUN_BATCH")
  /\ book[m][msg.batch] # <<>>
  /\ running' = running \union {[tee |-> m, msg |-> msg, orders |-> book[m][msg.batch],
                                instruction |-> i]}
  /\ UNCHANGED <<memory, returned, sent>>

Cleared(run) == Clear(run.orders, run.msg.ref, run.msg.bps)

Mutant_Payload_currentBatch(run) ==
  LET result == Cleared(run)
      fill(t) == IF t \in DOMAIN result.fills THEN result.fills[t] ELSE [base |-> 0, quote |-> 0]
  IN [domain |-> Here, batch |-> currentBatchID[run.tee], price |-> result.price,
      matched |-> result.matched, base |-> [t \in Traders |-> fill(t).base],
      quote |-> [t \in Traders |-> fill(t).quote]]

\* What EncodeSettlement packs, but for the order of the fills: see returned.
\* A trader without a fill has deltas of zero.
Payload(run) ==
  LET result == Cleared(run)
      fill(t) == IF t \in DOMAIN result.fills THEN result.fills[t] ELSE [base |-> 0, quote |-> 0]
  IN [domain |-> Here, batch |-> run.msg.batch, price |-> result.price,
      matched |-> result.matched, base |-> [t \in Traders |-> fill(t).base],
      quote |-> [t \in Traders |-> fill(t).quote]]

DropBook(m, batch) ==
  /\ book' = [book EXCEPT ![m][batch] = <<>>]
  /\ currentBatchID' = [currentBatchID EXCEPT ![m] = batch + 1]

\* Nothing crosses, or the price is out of band: the book is discarded.
abandonRun(run) ==
  /\ Cleared(run).error # ""
  /\ running' = running \ {run}
  /\ DropBook(run.tee, run.msg.batch)
  /\ UNCHANGED <<batchesSettled, lastClearing, lastMatchedBase, handled, returned, sent>>

\* The sign server fails: an error result, and the book stays.
failToSign(run) ==
  /\ "sign" \in Faults
  /\ Cleared(run).error = ""
  /\ running' = running \ {run}
  /\ UNCHANGED <<memory, handled, returned, sent>>

\* Signed; second critical section, and the result goes out.
finishRun(run) ==
  /\ Cleared(run).error = ""
  /\ running' = running \ {run}
  /\ DropBook(run.tee, run.msg.batch)
  /\ batchesSettled' = [batchesSettled EXCEPT ![run.tee] = @ + 1]
  /\ lastClearing' = [lastClearing EXCEPT ![run.tee] = Cleared(run).price]
  /\ lastMatchedBase' = [lastMatchedBase EXCEPT ![run.tee] = Cleared(run).matched]
  /\ returned' = returned \union {[tee |-> run.tee, instruction |-> run.instruction,
                                  orders |-> run.orders, payload |-> Payload(run),
                                  fills |-> Cleared(run).fills]}
  /\ UNCHANGED <<handled, sent>>

\* The process is restarted: New() starts with an empty book.
restart(m) ==
  /\ "restart" \in Faults
  /\ book' = [book EXCEPT ![m] = NoBook]
  /\ currentBatchID' = [currentBatchID EXCEPT ![m] = 0]
  /\ batchesSettled' = [batchesSettled EXCEPT ![m] = 0]
  /\ lastClearing' = [lastClearing EXCEPT ![m] = 0]
  /\ lastMatchedBase' = [lastMatchedBase EXCEPT ![m] = 0]
  /\ running' = {run \in running : run.tee # m}
  /\ UNCHANGED <<handled, returned, sent>>

\* The venue sends an instruction (NightjarAuction._send).  It numbers the
\* orders (nextOrderId++), so none is submitted twice.
request(msg, tees) ==
  /\ Len(sent) < MaxSent
  /\ msg.op = "SUBMIT_ORDER" =>
       ~\E i \in DOMAIN sent : sent[i].msg.op = msg.op /\ sent[i].msg.order = msg.order
  /\ sent' = Append(sent, [msg |-> msg, tees |-> tees])
  /\ UNCHANGED <<memory, running, handled, returned>>

\* What the extension does by itself.
Serve ==
  \/ \E m \in Machines, i \in DOMAIN sent :
       rejectOrder(m, i) \/ acceptOrder(m, i) \/ refuseRun(m, i) \/ startRun(m, i)
  \/ \E run \in running : abandonRun(run) \/ failToSign(run) \/ finishRun(run)
  \/ \E m \in Machines : restart(m)

Next == Serve \/ \E msg \in Requests : request(msg, Machines)

Spec == Init /\ [][Next]_vars

-----------------------------------------------------------------------------
(* Properties *)

\* One type invariant.  It also says that a request that is running or done
\* was delivered, and that only a batch with orders is ever run.
TypeOK ==
  /\ book \in [Machines -> [BatchIds -> Seq(Order)]]
  /\ currentBatchID \in [Machines -> 0..MaxBatchId + 1]
  /\ batchesSettled \in [Machines -> Nat]
  /\ lastClearing \in [Machines -> Nat]
  /\ lastMatchedBase \in [Machines -> Nat]
  /\ \A run \in running : <<run.tee, run.instruction>> \in handled /\ run.orders # <<>>
  /\ \A r \in returned : <<r.tee, r.instruction>> \in handled
  /\ handled \subseteq Machines \X DOMAIN sent

\* The orders a trader sealed and submitted to a batch, as far as they were
\* sent to m.
Submitted(m, batch, trader, side) ==
  {i \in DOMAIN sent :
     /\ sent[i].msg.op = "SUBMIT_ORDER" /\ m \in sent[i].tees
     /\ sent[i].msg.batch = batch /\ sent[i].msg.trader = trader
     /\ Sealed[sent[i].msg.order] # Garbled
     /\ Sealed[sent[i].msg.order].trader = trader
     /\ Sealed[sent[i].msg.order].side = side
     /\ Sealed[sent[i].msg.order].size > 0}

\* The base that the submissions in S ask for together.
SizeOf(S) ==
  Total(Len(sent), [i \in 1..Len(sent) |-> IF i \in S THEN Sealed[sent[i].msg.order].size ELSE 0])

\* Nobody trades more than they asked for: a signed settlement moves a trader
\* at most by the sizes of the orders that this trader sealed and submitted to
\* this batch.  A ciphertext copied from someone else moves nobody
\* (parseSealedOrder compares the two traders), nor does an order that was
\* submitted to another batch.
FillsComeFromOrders ==
  \A r \in returned, t \in Traders :
    /\ r.payload.base[t] <= SizeOf(Submitted(r.tee, r.payload.batch, t, "buy"))
    /\ r.payload.base[t] >= -SizeOf(Submitted(r.tee, r.payload.batch, t, "sell"))

Elements(s) == {s[i] : i \in DOMAIN s}

\* Enclaves that answer the same request from the same set of orders sign the
\* same settlement, in whatever order the orders reached them; a quorum needs
\* them to (README.md:140-146).
SameOrdersSameSettlement ==
  \A x, y \in returned :
    /\ x.instruction = y.instruction
    /\ Elements(x.orders) = Elements(y.orders)
    => x.payload = y.payload /\ x.fills = y.fills

\* docs/extension-contract.md:201: "handler invocations are serialized - at
\* most one runs at a time".  Served that way, a run would still find the book
\* it read when it comes back to delete it.
RunSeesWholeBook ==
  \A run \in running : book[run.tee][run.msg.batch] = run.orders
=============================================================================
