--------------------------- MODULE EnclaveProofs ---------------------------
(***************************************************************************)
(* Theorems about the enclaves, for any number of machines, traders,       *)
(* batches and requests, any plaintexts and any faults.                    *)
(*                                                                         *)
(* The invariant says where the orders come from: every book, every run in *)
(* progress and every signed settlement holds orders that were submitted   *)
(* to its batch, delivered to its machine and opened there, each once.     *)
(***************************************************************************)
EXTENDS Enclave, MatchingProofs

\* The log of instructions: each is well formed, and an order is submitted once.
LogOK ==
  /\ sent \in Seq(Elements(sent))
  /\ \A i \in DOMAIN sent : WellFormed(sent[i].msg) /\ sent[i].tees \subseteq Machines
  /\ \A i, j \in DOMAIN sent :
       /\ sent[i].msg.op = "SUBMIT_ORDER" /\ sent[j].msg.op = "SUBMIT_ORDER"
       /\ sent[i].msg.order = sent[j].msg.order
       => i = j

\* Order o rests in batch b on machine m because of instruction i.
Source(m, b, o, i) ==
  /\ <<m, i>> \in handled
  /\ m \in sent[i].tees
  /\ sent[i].msg.op = "SUBMIT_ORDER"
  /\ sent[i].msg.batch = b
  /\ parseSealedOrder(sent[i].msg)
  /\ o = OrderOf(sent[i].msg)

IdsDiffer(orders) == \A j, k \in DOMAIN orders : orders[j].id = orders[k].id => j = k

Sourced(m, b, orders) ==
  /\ orders \in Seq(Order)
  /\ IdsDiffer(orders)
  /\ \A k \in DOMAIN orders : \E i \in DOMAIN sent : Source(m, b, orders[k], i)

\* The run that a machine makes of an instruction and the orders it found.
RunOf(m, i, orders) ==
  [tee |-> m, msg |-> sent[i].msg, orders |-> orders, instruction |-> i]

\* What is known about a run that was started.
Started(run) ==
  /\ run.tee \in Machines
  /\ run.instruction \in DOMAIN sent
  /\ run.tee \in sent[run.instruction].tees
  /\ sent[run.instruction].msg.op = "RUN_BATCH"
  /\ <<run.tee, run.instruction>> \in handled
  /\ run = RunOf(run.tee, run.instruction, run.orders)
  /\ run.orders # <<>>
  /\ Sourced(run.tee, run.msg.batch, run.orders)

\* The run behind a signed settlement.
RunBehind(r) == RunOf(r.tee, r.instruction, r.orders)

Finished(r) ==
  /\ Started(RunBehind(r))
  /\ Cleared(RunBehind(r)).error = ""
  /\ r.payload = Payload(RunBehind(r))
  /\ r.fills = Cleared(RunBehind(r)).fills

MemoryOK ==
  /\ currentBatchID \in [Machines -> 0..MaxBatchId + 1]
  /\ batchesSettled \in [Machines -> Nat]
  /\ lastClearing \in [Machines -> Nat]
  /\ lastMatchedBase \in [Machines -> Nat]

BooksOK ==
  /\ book \in [Machines -> [BatchIds -> Seq(Order)]]
  /\ \A m \in Machines, b \in BatchIds : Sourced(m, b, book[m][b])

IInv ==
  /\ LogOK
  /\ handled \subseteq Machines \X DOMAIN sent
  /\ MemoryOK
  /\ BooksOK
  /\ \A run \in running : Started(run)
  /\ \A r \in returned : Finished(r)

-----------------------------------------------------------------------------
(* The log and the deliveries only grow *)

LogGrows ==
  /\ handled \subseteq handled'
  /\ \A i \in DOMAIN sent : i \in DOMAIN sent' /\ sent'[i] = sent[i]

LEMMA SourcedKept ==
  ASSUME LogGrows, NEW m, NEW b, NEW orders, Sourced(m, b, orders)
  PROVE  Sourced(m, b, orders)'
<1>1. ASSUME NEW k \in DOMAIN orders PROVE \E i \in DOMAIN sent' : Source(m, b, orders[k], i)'
  <2>1. PICK i \in DOMAIN sent : Source(m, b, orders[k], i)
    BY DEF Sourced
  <2>2. sent'[i] = sent[i] /\ i \in DOMAIN sent' /\ handled \subseteq handled'
    BY DEF LogGrows
  <2>3. Source(m, b, orders[k], i)'
    BY <2>1, <2>2 DEF Source, parseSealedOrder, OrderOf
  <2>. QED BY <2>2, <2>3
<1>. QED BY <1>1 DEF Sourced, IdsDiffer

LEMMA StartedKept ==
  ASSUME LogGrows, NEW run, Started(run)
  PROVE  Started(run)'
<1>1. run.instruction \in DOMAIN sent' /\ sent'[run.instruction] = sent[run.instruction]
      /\ handled \subseteq handled'
  BY DEF LogGrows, Started
<1>2. Sourced(run.tee, run.msg.batch, run.orders)'
  BY SourcedKept DEF Started
<1>. QED BY <1>1, <1>2 DEF Started, RunOf

LEMMA FinishedKept ==
  ASSUME LogGrows, NEW r, Finished(r)
  PROVE  Finished(r)'
<1>1. r.instruction \in DOMAIN sent
  BY DEF Finished, Started, RunBehind, RunOf
<1>2. RunBehind(r)' = RunBehind(r)
  BY <1>1 DEF LogGrows, RunBehind, RunOf
<1>3. PICK run : run = RunBehind(r)
  OBVIOUS
<1>4. Started(run)'
  BY <1>3, StartedKept DEF Finished
<1>. QED BY <1>2, <1>3, <1>4 DEF Finished, Cleared, Payload

LEMMA DeliveriesKept ==
  ASSUME LogGrows, handled' \subseteq handled \union (Machines \X DOMAIN sent),
         handled \subseteq Machines \X DOMAIN sent
  PROVE  handled' \subseteq Machines \X DOMAIN sent'
BY DEF LogGrows

-----------------------------------------------------------------------------
(* The steps *)

LEMMA OrderOfType ==
  ASSUME NEW msg, WellFormed(msg), msg.op = "SUBMIT_ORDER", parseSealedOrder(msg)
  PROVE  OrderOf(msg) \in Order /\ OrderOf(msg).id = msg.order
<1>. DEFINE content == Sealed[msg.order]
<1>1. content \in Content /\ msg.order \in Nat /\ msg.trader \in Traders
  BY EnclaveAssumption DEF WellFormed, parseSealedOrder
<1>2. /\ content.limit \in Nat \ {0} /\ content.size \in Nat \ {0}
      /\ content.side \in {"buy", "sell"}
  BY <1>1 DEF Content, parseSealedOrder
<1>. HIDE DEF content
<1>. QED BY <1>1, <1>2 DEF OrderOf, Order, content

\* Order o reaches m for the first time, with instruction i for batch b.
Arrives(m, b, o, i) ==
  /\ i \in DOMAIN sent
  /\ <<m, i>> \notin handled
  /\ <<m, i>> \in handled'
  /\ m \in sent[i].tees
  /\ sent[i].msg.op = "SUBMIT_ORDER"
  /\ sent[i].msg.batch = b
  /\ parseSealedOrder(sent[i].msg)
  /\ o = OrderOf(sent[i].msg)

\* It joins the orders that are there.
LEMMA SourcedAppend ==
  ASSUME LogOK, LogGrows, NEW m, NEW b, NEW o, NEW i, NEW orders,
         Sourced(m, b, orders), Arrives(m, b, o, i)
  PROVE  Sourced(m, b, Append(orders, o))'
<1>1. o \in Order /\ o.id = sent[i].msg.order
  BY OrderOfType DEF LogOK, Arrives
<1>2. orders \in Seq(Order) /\ IdsDiffer(orders)
  BY DEF Sourced
<1>3. sent'[i] = sent[i] /\ i \in DOMAIN sent'
  BY DEF LogGrows, Arrives
<1>4. Source(m, b, o, i)'
  BY <1>3 DEF Source, parseSealedOrder, OrderOf, Arrives
<1>5. Sourced(m, b, orders)'
  BY SourcedKept
<1>6. ASSUME NEW k \in DOMAIN orders PROVE orders[k].id # o.id
  <2>1. PICK j \in DOMAIN sent : Source(m, b, orders[k], j)
    BY DEF Sourced
  <2>2. orders[k].id = sent[j].msg.order /\ sent[j].msg.op = "SUBMIT_ORDER"
        /\ <<m, j>> \in handled
    BY <2>1 DEF Source, OrderOf
  <2>3. i # j
    BY <2>2 DEF Arrives
  <2>. QED BY <1>1, <2>2, <2>3 DEF LogOK, Arrives
<1>7. PICK more : more = Append(orders, o)
  OBVIOUS
<1>8. /\ more \in Seq(Order) /\ Len(orders) \in Nat
      /\ DOMAIN orders = 1..Len(orders) /\ DOMAIN more = 1..(Len(orders) + 1)
      /\ more[Len(orders) + 1] = o
      /\ \A k \in 1..Len(orders) : more[k] = orders[k]
  BY <1>1, <1>2, <1>7
<1>9. IdsDiffer(more)
  <2>1. SUFFICES ASSUME NEW j \in DOMAIN more, NEW k \in DOMAIN more, more[j].id = more[k].id
                 PROVE  j = k
    BY DEF IdsDiffer
  <2>2. CASE j \in 1..Len(orders) /\ k \in 1..Len(orders)
    BY <1>2, <1>8, <2>1, <2>2 DEF IdsDiffer
  <2>3. CASE j = Len(orders) + 1 \/ k = Len(orders) + 1
    BY <1>6, <1>8, <2>1, <2>3
  <2>. QED BY <1>8, <2>2, <2>3
<1>10. ASSUME NEW k \in DOMAIN more PROVE \E j \in DOMAIN sent' : Source(m, b, more[k], j)'
  <2>1. CASE k \in 1..Len(orders)
    BY <1>5, <1>8, <2>1 DEF Sourced
  <2>2. CASE k = Len(orders) + 1
    BY <1>3, <1>4, <1>8, <2>2
  <2>. QED BY <1>8, <2>1, <2>2
<1>11. Sourced(m, b, more)'
  BY <1>8, <1>9, <1>10 DEF Sourced, IdsDiffer
<1>. QED BY <1>7, <1>11

LEMMA NothingSourced ==
  ASSUME NEW m, NEW b
  PROVE  Sourced(m, b, <<>>)'
<1>1. <<>> \in Seq(Order) /\ DOMAIN <<>> = {}
  OBVIOUS
<1>. QED BY <1>1 DEF Sourced, IdsDiffer

\* What a step has to show.
LEMMA StepKeepsInv ==
  ASSUME IInv, LogGrows, LogOK', MemoryOK',
         handled' \subseteq handled \union (Machines \X DOMAIN sent),
         book' \in [Machines -> [BatchIds -> Seq(Order)]],
         \A m \in Machines, b \in BatchIds :
           \/ book'[m][b] = book[m][b]
           \/ book'[m][b] = <<>>
           \/ Sourced(m, b, book[m][b])',
         \A run \in running' : run \in running \/ Started(run)',
         \A r \in returned' : r \in returned \/ Finished(r)'
  PROVE  IInv'
<1>1. handled' \subseteq Machines \X DOMAIN sent'
  BY DeliveriesKept DEF IInv
<1>2. ASSUME NEW m \in Machines, NEW b \in BatchIds
      PROVE  Sourced(m, b, book[m][b])'
  <2>1. PICK orders : orders = book'[m][b]
    OBVIOUS
  <2>2. CASE orders = book[m][b]
    <3>1. Sourced(m, b, orders)
      BY <2>2 DEF IInv, BooksOK
    <3>2. Sourced(m, b, orders)'
      BY <3>1, SourcedKept
    <3>. QED BY <2>1, <3>2
  <2>3. CASE orders = <<>>
    <3>1. Sourced(m, b, orders)'
      BY <2>3, NothingSourced
    <3>. QED BY <2>1, <3>1
  <2>. QED BY <2>1, <2>2, <2>3
<1>3. \A run \in running' : Started(run)'
  BY StartedKept DEF IInv
<1>4. \A r \in returned' : Finished(r)'
  BY FinishedKept DEF IInv
<1>. QED BY <1>1, <1>2, <1>3, <1>4 DEF IInv, BooksOK

LEMMA LogUnchanged ==
  ASSUME IInv, handled \subseteq handled', UNCHANGED sent
  PROVE  LogGrows /\ LogOK'
<1>1. LogGrows
  BY DEF LogGrows
<1>2. LogOK'
  BY DEF IInv, LogOK, Elements
<1>. QED BY <1>1, <1>2

\* The state of a machine survives a step that does not write to it.
LEMMA MemoryKept ==
  ASSUME IInv, UNCHANGED memory
  PROVE  /\ MemoryOK'
         /\ book' \in [Machines -> [BatchIds -> Seq(Order)]]
         /\ \A m \in Machines, b \in BatchIds : book'[m][b] = book[m][b]
BY DEF memory, IInv, MemoryOK, BooksOK

LEMMA ReceivesType ==
  ASSUME IInv, NEW m \in Machines, NEW i, NEW op, Receives(m, i, op)
  PROVE  /\ i \in DOMAIN sent /\ sent[i].msg.op = op /\ m \in sent[i].tees
         /\ sent[i].msg.batch \in BatchIds /\ WellFormed(sent[i].msg)
         /\ <<m, i>> \notin handled /\ <<m, i>> \in handled'
         /\ handled \subseteq handled'
         /\ handled' \subseteq handled \union (Machines \X DOMAIN sent)
BY DEF Receives, IInv, LogOK, WellFormed

\* Neither an order that is turned away nor an empty batch leaves a trace.
LEMMA RefusalKeepsInv ==
  ASSUME IInv, NEW m \in Machines, NEW i, rejectOrder(m, i) \/ refuseRun(m, i)
  PROVE  IInv'
<1>1. PICK op : Receives(m, i, op) /\ UNCHANGED <<memory, running, returned, sent>>
  BY DEF rejectOrder, refuseRun
<1>2. LogGrows /\ LogOK'
  BY <1>1, ReceivesType, LogUnchanged
<1>. QED BY <1>1, <1>2, ReceivesType, MemoryKept, StepKeepsInv

LEMMA AcceptKeepsInv ==
  ASSUME IInv, NEW m \in Machines, NEW i, acceptOrder(m, i)
  PROVE  IInv'
<1>1. /\ Receives(m, i, "SUBMIT_ORDER") /\ parseSealedOrder(sent[i].msg)
      /\ UNCHANGED <<batchesSettled, lastClearing, lastMatchedBase, running, returned, sent>>
  BY DEF acceptOrder
<1>2. LogGrows /\ LogOK'
  BY <1>1, ReceivesType, LogUnchanged
<1>3. PICK b, o : b = sent[i].msg.batch /\ o = OrderOf(sent[i].msg)
  OBVIOUS
<1>4. b \in BatchIds /\ o \in Order
  BY <1>1, <1>3, ReceivesType, OrderOfType
<1>5. book' = [book EXCEPT ![m][b] = Append(book[m][b], o)]
  BY <1>3 DEF acceptOrder
<1>6. book \in [Machines -> [BatchIds -> Seq(Order)]]
  BY DEF IInv, BooksOK
<1>7. Append(book[m][b], o) \in Seq(Order)
  BY <1>4, <1>6
<1>8. /\ book' \in [Machines -> [BatchIds -> Seq(Order)]]
      /\ book'[m][b] = Append(book[m][b], o)
      /\ \A k \in Machines, c \in BatchIds : k # m \/ c # b => book'[k][c] = book[k][c]
  BY <1>4, <1>5, <1>6, <1>7
<1>9. PICK orders : orders = book[m][b]
  OBVIOUS
<1>10. Arrives(m, b, o, i)
  BY <1>1, <1>3, ReceivesType DEF Arrives
<1>11. Sourced(m, b, orders)
  BY <1>4, <1>9 DEF IInv, BooksOK
<1>12. Sourced(m, b, Append(orders, o))'
  BY <1>2, <1>10, <1>11, SourcedAppend DEF IInv
<1>13. Sourced(m, b, book[m][b])'
  BY <1>8, <1>9, <1>12
<1>14. \A k \in Machines, c \in BatchIds : book'[k][c] = book[k][c] \/ Sourced(k, c, book[k][c])'
  BY <1>8, <1>13
<1>15. MemoryOK'
  <2>1. b \in 0..MaxBatchId + 1
    BY <1>4, EnclaveAssumption DEF BatchIds
  <2>2. currentBatchID' = [currentBatchID EXCEPT ![m] = IF @ = 0 THEN b ELSE @]
    BY <1>3 DEF acceptOrder
  <2>. QED BY <1>1, <2>1, <2>2 DEF IInv, MemoryOK
<1>16. UNCHANGED <<running, returned>>
  BY <1>1
<1>. QED BY <1>1, <1>2, <1>8, <1>14, <1>15, <1>16, ReceivesType, StepKeepsInv

LEMMA StartKeepsInv ==
  ASSUME IInv, NEW m \in Machines, NEW i, startRun(m, i)
  PROVE  IInv'
<1>1. Receives(m, i, "RUN_BATCH") /\ UNCHANGED <<memory, returned, sent>>
  BY DEF startRun
<1>2. LogGrows /\ LogOK'
  BY <1>1, ReceivesType, LogUnchanged
<1>3. PICK b, orders : b = sent[i].msg.batch /\ orders = book[m][b]
  OBVIOUS
<1>4. PICK run : run = RunOf(m, i, orders)
  OBVIOUS
<1>5. running' = running \union {run} /\ orders # <<>>
  BY <1>3, <1>4 DEF startRun, RunOf
<1>6. b \in BatchIds /\ sent' = sent /\ i \in DOMAIN sent /\ <<m, i>> \in handled'
      /\ m \in sent[i].tees /\ sent[i].msg.op = "RUN_BATCH"
  BY <1>1, <1>3, ReceivesType
<1>7. Sourced(m, b, orders)
  BY <1>3, <1>6 DEF IInv, BooksOK
<1>8. Sourced(m, b, orders)'
  BY <1>2, <1>7, SourcedKept
<1>9. run.tee = m /\ run.msg.batch = b /\ run.orders = orders /\ run.instruction = i
  BY <1>3, <1>4 DEF RunOf
<1>10. Started(run)'
  BY <1>4, <1>5, <1>6, <1>8, <1>9 DEF Started, RunOf
<1>11. \A k \in running' : k \in running \/ Started(k)'
  BY <1>5, <1>10
<1>. QED BY <1>1, <1>2, <1>11, MemoryKept, ReceivesType, StepKeepsInv

LEMMA StartedType ==
  ASSUME IInv, NEW run, run \in running \/ Started(run)
  PROVE  /\ run.tee \in Machines /\ run.msg.batch \in BatchIds /\ run.msg.ref \in Nat
         /\ run.orders \in Seq(Order) /\ Started(run)
<1>1. Started(run)
  BY DEF IInv
<1>2. run.msg = sent[run.instruction].msg
  BY <1>1 DEF Started, RunOf
<1>. QED BY <1>1, <1>2 DEF Started, Sourced, IInv, LogOK, WellFormed

LEMMA DropKeepsBooks ==
  ASSUME IInv, NEW m \in Machines, NEW b \in BatchIds, DropBook(m, b)
  PROVE  /\ currentBatchID' \in [Machines -> 0..MaxBatchId + 1]
         /\ book' \in [Machines -> [BatchIds -> Seq(Order)]]
         /\ \A k \in Machines, c \in BatchIds : book'[k][c] = book[k][c] \/ book'[k][c] = <<>>
<1>1. b + 1 \in 0..MaxBatchId + 1
  BY EnclaveAssumption DEF BatchIds
<1>2. currentBatchID' \in [Machines -> 0..MaxBatchId + 1]
  BY <1>1 DEF IInv, MemoryOK, DropBook
<1>3. <<>> \in Seq(Order) /\ book \in [Machines -> [BatchIds -> Seq(Order)]]
  BY DEF IInv, BooksOK
<1>4. book' = [book EXCEPT ![m][b] = <<>>]
  BY DEF DropBook
<1>. QED BY <1>2, <1>3, <1>4

LEMMA AbandonKeepsInv ==
  ASSUME IInv, NEW run \in running, abandonRun(run)
  PROVE  IInv'
<1>1. /\ running' = running \ {run} /\ DropBook(run.tee, run.msg.batch)
      /\ UNCHANGED <<batchesSettled, lastClearing, lastMatchedBase, handled, returned, sent>>
  BY DEF abandonRun
<1>2. LogGrows /\ LogOK'
  BY <1>1, LogUnchanged
<1>3. /\ currentBatchID' \in [Machines -> 0..MaxBatchId + 1]
      /\ book' \in [Machines -> [BatchIds -> Seq(Order)]]
      /\ \A k \in Machines, c \in BatchIds : book'[k][c] = book[k][c] \/ book'[k][c] = <<>>
  BY <1>1, StartedType, DropKeepsBooks
<1>4. MemoryOK'
  BY <1>1, <1>3 DEF IInv, MemoryOK
<1>. QED BY <1>1, <1>2, <1>3, <1>4, StepKeepsInv

LEMMA FailToSignKeepsInv ==
  ASSUME IInv, NEW run \in running, failToSign(run)
  PROVE  IInv'
<1>1. running' = running \ {run} /\ UNCHANGED <<memory, handled, returned, sent>>
  BY DEF failToSign
<1>2. LogGrows /\ LogOK'
  BY <1>1, LogUnchanged
<1>. QED BY <1>1, <1>2, MemoryKept, StepKeepsInv

\* What goes out is what the run behind it cleared to.
SettlementOf(run) ==
  [tee |-> run.tee, instruction |-> run.instruction, orders |-> run.orders,
   payload |-> Payload(run), fills |-> Cleared(run).fills]

LEMMA SettlementIsFinished ==
  ASSUME NEW run, Started(run), Cleared(run).error = ""
  PROVE  Finished(SettlementOf(run))
<1>1. PICK r : r = SettlementOf(run)
  OBVIOUS
<1>2. /\ r.tee = run.tee /\ r.instruction = run.instruction /\ r.orders = run.orders
      /\ r.payload = Payload(run) /\ r.fills = Cleared(run).fills
  BY <1>1 DEF SettlementOf
<1>3. RunBehind(r) = run
  BY <1>2 DEF RunBehind, Started
<1>4. Finished(r)
  BY <1>2, <1>3 DEF Finished
<1>. QED BY <1>1, <1>4

LEMMA FinishKeepsInv ==
  ASSUME IInv, NEW run \in running, finishRun(run)
  PROVE  IInv'
<1>1. /\ running' = running \ {run} /\ DropBook(run.tee, run.msg.batch)
      /\ batchesSettled' = [batchesSettled EXCEPT ![run.tee] = @ + 1]
      /\ lastClearing' = [lastClearing EXCEPT ![run.tee] = Cleared(run).price]
      /\ lastMatchedBase' = [lastMatchedBase EXCEPT ![run.tee] = Cleared(run).matched]
      /\ Cleared(run).error = "" /\ UNCHANGED <<handled, sent>>
  BY DEF finishRun
<1>2. returned' = returned \union {SettlementOf(run)}
  BY DEF finishRun, SettlementOf
<1>3. LogGrows /\ LogOK'
  BY <1>1, LogUnchanged
<1>4. /\ currentBatchID' \in [Machines -> 0..MaxBatchId + 1]
      /\ book' \in [Machines -> [BatchIds -> Seq(Order)]]
      /\ \A k \in Machines, c \in BatchIds : book'[k][c] = book[k][c] \/ book'[k][c] = <<>>
  BY <1>1, StartedType, DropKeepsBooks
<1>5. MemoryOK'
  <2>1. IsResult(run.orders, run.msg.ref, run.msg.bps, Cleared(run))
    BY StartedType, ClearResult DEF Cleared
  <2>2. Cleared(run).price \in Nat /\ Cleared(run).matched \in Nat
    BY <1>1, <2>1 DEF IsResult
  <2>3. batchesSettled' \in [Machines -> Nat]
    <3>1. batchesSettled \in [Machines -> Nat] /\ run.tee \in Machines
      BY StartedType DEF IInv, MemoryOK
    <3>2. batchesSettled[run.tee] + 1 \in Nat
      BY <3>1
    <3>. QED BY <1>1, <3>1, <3>2
  <2>4. lastClearing' \in [Machines -> Nat] /\ lastMatchedBase' \in [Machines -> Nat]
    BY <1>1, <2>2 DEF IInv, MemoryOK
  <2>. QED BY <1>4, <2>3, <2>4 DEF MemoryOK
<1>6. Finished(SettlementOf(run))
  BY <1>1, StartedType, SettlementIsFinished
<1>7. PICK r : r = SettlementOf(run)
  OBVIOUS
<1>8. Finished(r)'
  BY <1>3, <1>6, <1>7, FinishedKept
<1>9. \A k \in returned' : k \in returned \/ Finished(k)'
  BY <1>2, <1>7, <1>8
<1>. QED BY <1>1, <1>3, <1>4, <1>5, <1>9, StepKeepsInv

LEMMA RestartKeepsInv ==
  ASSUME IInv, NEW m \in Machines, restart(m)
  PROVE  IInv'
<1>1. /\ book' = [book EXCEPT ![m] = NoBook]
      /\ currentBatchID' = [currentBatchID EXCEPT ![m] = 0]
      /\ batchesSettled' = [batchesSettled EXCEPT ![m] = 0]
      /\ lastClearing' = [lastClearing EXCEPT ![m] = 0]
      /\ lastMatchedBase' = [lastMatchedBase EXCEPT ![m] = 0]
      /\ running' \subseteq running /\ UNCHANGED <<handled, returned, sent>>
  BY DEF restart
<1>2. LogGrows /\ LogOK'
  BY <1>1, LogUnchanged
<1>3. NoBook \in [BatchIds -> Seq(Order)] /\ \A b \in BatchIds : NoBook[b] = <<>>
  BY DEF NoBook
<1>4. /\ book' \in [Machines -> [BatchIds -> Seq(Order)]]
      /\ \A k \in Machines, c \in BatchIds : book'[k][c] = book[k][c] \/ book'[k][c] = <<>>
  BY <1>1, <1>3 DEF IInv, BooksOK
<1>5. MemoryOK'
  <2>1. 0 \in 0..MaxBatchId + 1 /\ 0 \in Nat
    BY EnclaveAssumption
  <2>. QED BY <1>1, <2>1 DEF IInv, MemoryOK
<1>. QED BY <1>1, <1>2, <1>4, <1>5, StepKeepsInv

-----------------------------------------------------------------------------
(* The venue's side: the log grows by one instruction *)

\* The order of a submission was not submitted before.
NewOrder(msg) ==
  msg.op = "SUBMIT_ORDER" =>
    ~\E i \in DOMAIN sent : sent[i].msg.op = msg.op /\ sent[i].msg.order = msg.order

LEMMA LogAppend ==
  ASSUME IInv, NEW msg, NEW tees \in SUBSET Machines, WellFormed(msg), NewOrder(msg),
         sent' = Append(sent, [msg |-> msg, tees |-> tees]), UNCHANGED handled
  PROVE  LogGrows /\ LogOK'
<1>1. PICK x : x = [msg |-> msg, tees |-> tees]
  OBVIOUS
<1>2. x.msg = msg /\ x.tees = tees
  BY <1>1
<1>3. PICK S : S = Elements(sent) \union {x}
  OBVIOUS
<1>4. sent \in Seq(S) /\ x \in S
  BY <1>3 DEF IInv, LogOK
<1>5. /\ sent' \in Seq(S) /\ Len(sent) \in Nat
      /\ DOMAIN sent = 1..Len(sent) /\ DOMAIN sent' = 1..(Len(sent) + 1)
      /\ sent'[Len(sent) + 1] = x
      /\ \A i \in 1..Len(sent) : sent'[i] = sent[i]
  BY <1>1, <1>4
<1>6. LogGrows
  BY <1>5 DEF LogGrows
<1>7. sent' \in Seq(Elements(sent'))
  <2>1. \A i \in DOMAIN sent' : sent'[i] \in Elements(sent')
    BY DEF Elements
  <2>2. PICK T, log : T = Elements(sent') /\ log = sent'
    OBVIOUS
  <2>3. log \in Seq(S) /\ \A i \in DOMAIN log : log[i] \in T
    BY <1>5, <2>1, <2>2
  <2>4. log \in Seq(T)
    BY <2>3
  <2>. QED BY <2>2, <2>4
<1>8. ASSUME NEW i \in DOMAIN sent'
      PROVE  WellFormed(sent'[i].msg) /\ sent'[i].tees \subseteq Machines
  <2>1. CASE i \in 1..Len(sent)
    BY <1>5, <2>1 DEF IInv, LogOK
  <2>2. CASE i = Len(sent) + 1
    BY <1>2, <1>5, <2>2
  <2>. QED BY <1>5, <2>1, <2>2
<1>9. ASSUME NEW i \in DOMAIN sent', NEW j \in DOMAIN sent',
             sent'[i].msg.op = "SUBMIT_ORDER", sent'[j].msg.op = "SUBMIT_ORDER",
             sent'[i].msg.order = sent'[j].msg.order
      PROVE  i = j
  <2>1. CASE i \in 1..Len(sent) /\ j \in 1..Len(sent)
    BY <1>5, <1>9, <2>1 DEF IInv, LogOK
  <2>2. CASE i = Len(sent) + 1 /\ j \in 1..Len(sent)
    BY <1>2, <1>5, <1>9, <2>2 DEF NewOrder
  <2>3. CASE j = Len(sent) + 1 /\ i \in 1..Len(sent)
    BY <1>2, <1>5, <1>9, <2>3 DEF NewOrder
  <2>. QED BY <1>5, <2>1, <2>2, <2>3
<1>10. LogOK'
  BY <1>7, <1>8, <1>9 DEF LogOK, WellFormed
<1>. QED BY <1>6, <1>10

LEMMA SendKeepsInv ==
  ASSUME IInv, NEW msg, NEW tees \in SUBSET Machines, WellFormed(msg), NewOrder(msg),
         sent' = Append(sent, [msg |-> msg, tees |-> tees]),
         UNCHANGED <<memory, running, handled, returned>>
  PROVE  IInv'
<1>1. LogGrows /\ LogOK'
  BY LogAppend
<1>. QED BY <1>1, MemoryKept, StepKeepsInv

LEMMA StutterKeepsInv ==
  ASSUME IInv, UNCHANGED vars
  PROVE  IInv'
<1>1. UNCHANGED <<memory, running, handled, returned, sent>>
  BY DEF vars
<1>2. LogGrows /\ LogOK'
  BY <1>1, LogUnchanged
<1>. QED BY <1>1, <1>2, MemoryKept, StepKeepsInv

-----------------------------------------------------------------------------
LEMMA InitEstablishesInv == Init => IInv
<1>. SUFFICES ASSUME Init PROVE IInv
  OBVIOUS
<1>1. LogOK
  <2>1. DOMAIN sent = {} /\ sent \in Seq(Elements(sent))
    BY DEF Init, Elements
  <2>. QED BY <2>1 DEF LogOK
<1>2. MemoryOK
  <2>1. 0 \in 0..MaxBatchId + 1 /\ 0 \in Nat
    BY EnclaveAssumption
  <2>. QED BY <2>1 DEF Init, MemoryOK
<1>3. BooksOK
  <2>1. <<>> \in Seq(Order) /\ DOMAIN <<>> = {}
    OBVIOUS
  <2>2. \A m, b : Sourced(m, b, <<>>)
    BY <2>1 DEF Sourced, IdsDiffer
  <2>3. book \in [Machines -> [BatchIds -> Seq(Order)]]
    BY <2>1 DEF Init, NoBook
  <2>4. \A m \in Machines, b \in BatchIds : book[m][b] = <<>>
    BY DEF Init, NoBook
  <2>. QED BY <2>2, <2>3, <2>4 DEF BooksOK
<1>. QED BY <1>1, <1>2, <1>3 DEF Init, IInv

LEMMA ServeKeepsInv ==
  ASSUME IInv, Serve
  PROVE  IInv'
<1>1. ASSUME NEW m \in Machines, NEW i \in DOMAIN sent,
             rejectOrder(m, i) \/ acceptOrder(m, i) \/ refuseRun(m, i) \/ startRun(m, i)
      PROVE  IInv'
  BY <1>1, RefusalKeepsInv, AcceptKeepsInv, StartKeepsInv
<1>2. ASSUME NEW run \in running, abandonRun(run) \/ failToSign(run) \/ finishRun(run)
      PROVE  IInv'
  BY <1>2, AbandonKeepsInv, FailToSignKeepsInv, FinishKeepsInv
<1>3. ASSUME NEW m \in Machines, restart(m) PROVE IInv'
  BY <1>3, RestartKeepsInv
<1>. QED BY <1>1, <1>2, <1>3 DEF Serve

LEMMA RequestKeepsInv ==
  ASSUME IInv, NEW msg \in Requests, request(msg, Machines)
  PROVE  IInv'
<1>1. WellFormed(msg) /\ Machines \in SUBSET Machines
  BY EnclaveAssumption
<1>2. /\ NewOrder(msg)
      /\ sent' = Append(sent, [msg |-> msg, tees |-> Machines])
      /\ UNCHANGED <<memory, running, handled, returned>>
  BY DEF request, NewOrder
<1>. QED BY <1>1, <1>2, SendKeepsInv

\* Wherever an enclave holds orders, it holds orders that were submitted to
\* that batch and that their traders sealed, each once.
THEOREM OrdersHaveSources == Spec => []IInv
<1>1. IInv /\ [Next]_vars => IInv'
  BY ServeKeepsInv, RequestKeepsInv, StutterKeepsInv DEF Next
<1>. QED BY <1>1, InitEstablishesInv, PTL DEF Spec

LEMMA InvGivesTypes == IInv => TypeOK
<1>. SUFFICES ASSUME IInv PROVE TypeOK
  OBVIOUS
<1>1. \A run \in running : <<run.tee, run.instruction>> \in handled /\ run.orders # <<>>
  BY DEF IInv, Started
<1>2. ASSUME NEW r \in returned PROVE <<r.tee, r.instruction>> \in handled
  <2>1. Started(RunBehind(r))
    BY DEF IInv, Finished
  <2>. QED BY <2>1 DEF Started, RunBehind, RunOf
<1>. QED BY <1>1, <1>2 DEF IInv, MemoryOK, BooksOK, TypeOK

\* Every variable of the extension keeps its type; only delivered requests run,
\* and only batches with orders.
THEOREM TypeCorrect == Spec => []TypeOK
BY OrdersHaveSources, InvGivesTypes, PTL

-----------------------------------------------------------------------------
(* Nobody trades more than they asked for *)

\* The sizes of the submissions in S.
SizesIn(S) ==
  [i \in 1..Len(sent) |-> IF i \in S THEN Sealed[sent[i].msg.order].size ELSE 0]

LEMMA SizesInType ==
  ASSUME IInv, NEW m, NEW b, NEW t, NEW side
  PROVE  /\ Len(sent) \in Nat /\ DOMAIN sent = 1..Len(sent)
         /\ SizesIn(Submitted(m, b, t, side)) \in [1..Len(sent) -> Nat]
<1>1. Len(sent) \in Nat /\ DOMAIN sent = 1..Len(sent)
  BY DEF IInv, LogOK
<1>2. ASSUME NEW i \in 1..Len(sent), i \in Submitted(m, b, t, side)
      PROVE  Sealed[sent[i].msg.order].size \in Nat
  <2>1. WellFormed(sent[i].msg) /\ sent[i].msg.op = "SUBMIT_ORDER"
    BY <1>1, <1>2 DEF IInv, LogOK, Submitted
  <2>2. Sealed[sent[i].msg.order] \in Content
    BY <1>2, <2>1, EnclaveAssumption DEF WellFormed, Submitted
  <2>3. Sealed[sent[i].msg.order].size \in Int /\ Sealed[sent[i].msg.order].size > 0
    BY <1>2, <2>2 DEF Content, Submitted
  <2>. QED BY <2>3
<1>. QED BY <1>1, <1>2 DEF SizesIn

\* Orders with sources ask for no more than was submitted.
LEMMA AskedWasSubmitted ==
  ASSUME IInv, NEW m, NEW b, NEW orders, Sourced(m, b, orders), NEW t, NEW side
  PROVE  Total(Len(orders), Asked(orders, t, side)) <= SizeOf(Submitted(m, b, t, side))
<1>. DEFINE S == Submitted(m, b, t, side)
            n == Len(orders)
            f == SizesIn(S)
            g == Asked(orders, t, side)
            at(k) == CHOOSE i \in DOMAIN sent : Source(m, b, orders[k], i)
            pi == [k \in 1..n |-> at(k)]
<1>1. /\ Len(sent) \in Nat /\ DOMAIN sent = 1..Len(sent) /\ f \in [1..Len(sent) -> Nat]
  BY SizesInType
<1>2. orders \in Seq(Order) /\ n \in Nat /\ DOMAIN orders = 1..n /\ g \in [1..n -> Nat]
  BY OrderFields, AskedType DEF Sourced
<1>3. \A k \in 1..n : pi[k] \in 1..Len(sent) /\ Source(m, b, orders[k], pi[k])
  <2>1. \A k \in 1..n : \E i \in DOMAIN sent : Source(m, b, orders[k], i)
    BY <1>2 DEF Sourced
  <2>. QED BY <1>1, <2>1
<1>4. pi = [k \in 1..n |-> pi[k]]
  OBVIOUS
<1>. HIDE DEF pi, n
<1>5. Places(pi, n, Len(sent))
  <2>1. ASSUME NEW j \in 1..n, NEW k \in 1..n, pi[j] = pi[k] PROVE j = k
    <3>1. orders[j] = orders[k]
      BY <1>3, <2>1 DEF Source
    <3>. QED BY <1>2, <3>1 DEF Sourced, IdsDiffer
  <2>2. pi \in [1..n -> 1..Len(sent)]
    BY <1>3, <1>4
  <2>. QED BY <2>1, <2>2 DEF Places
<1>6. ASSUME NEW k \in 1..n PROVE g[k] <= f[pi[k]]
  <2>1. CASE orders[k].trader = t /\ orders[k].side = side
    <3>1. PICK i, msg : i = pi[k] /\ msg = sent[i].msg
      OBVIOUS
    <3>2. /\ i \in 1..Len(sent) /\ m \in sent[i].tees /\ msg.op = "SUBMIT_ORDER"
          /\ msg.batch = b /\ parseSealedOrder(msg) /\ orders[k] = OrderOf(msg)
      BY <1>3, <3>1 DEF Source
    <3>3. /\ orders[k].trader = msg.trader /\ orders[k].side = Sealed[msg.order].side
          /\ orders[k].size = Sealed[msg.order].size
      BY <3>2 DEF OrderOf
    <3>4. i \in S
      BY <1>1, <2>1, <3>1, <3>2, <3>3 DEF Submitted, parseSealedOrder
    <3>5. f[i] = orders[k].size /\ f[i] \in Nat
      BY <1>1, <3>1, <3>2, <3>3, <3>4 DEF SizesIn
    <3>6. g[k] = orders[k].size
      BY <2>1 DEF Asked, n
    <3>. QED BY <3>1, <3>5, <3>6
  <2>2. CASE ~(orders[k].trader = t /\ orders[k].side = side)
    <3>1. g[k] = 0
      BY <2>2 DEF Asked, n
    <3>2. f[pi[k]] \in Nat
      BY <1>1, <1>3
    <3>. QED BY <3>1, <3>2
  <2>. QED BY <2>1, <2>2
<1>7. Found(g, f, pi, n)
  BY <1>6 DEF Found
<1>8. SizeOf(S) = Total(Len(sent), f)
  BY DEF SizeOf, SizesIn
<1>. HIDE DEF f, g, S
<1>9. Total(n, g) <= Total(Len(sent), f)
  BY <1>1, <1>2, <1>5, <1>7, TotalInjection
<1>. QED BY <1>8, <1>9 DEF n, g, S

\* What a signed settlement says: the batch of its run, and for each trader the
\* fill that its run allocated, if any.
LEMMA PayloadSays ==
  ASSUME IInv, NEW run, Started(run), Cleared(run).error = "", NEW t \in Traders
  PROVE  LET p == Cleared(run).price
             v == Cleared(run).matched
             fills == allocate(run.orders, p, v)
         IN /\ p \in Nat /\ v \in Nat
            /\ Payload(run).domain = Here /\ Payload(run).batch = run.msg.batch
            /\ DOMAIN fills = Touched(run.orders, p, v)
            /\ t \in DOMAIN fills => /\ Payload(run).base[t] = fills[t].base
                                     /\ Payload(run).quote[t] = fills[t].quote
            /\ t \notin DOMAIN fills => Payload(run).base[t] = 0 /\ Payload(run).quote[t] = 0
<1>. DEFINE res == Cleared(run)
            fill(u) == IF u \in DOMAIN res.fills THEN res.fills[u] ELSE [base |-> 0, quote |-> 0]
            base == [u \in Traders |-> fill(u).base]
            quote == [u \in Traders |-> fill(u).quote]
            fills == allocate(run.orders, res.price, res.matched)
<1>1. run.orders \in Seq(Order) /\ run.msg.ref \in Nat
  BY StartedType
<1>2. IsResult(run.orders, run.msg.ref, run.msg.bps, res)
  BY <1>1, ClearResult DEF Cleared
<1>3. /\ Payload(run).domain = Here /\ Payload(run).batch = run.msg.batch
      /\ Payload(run).base = base /\ Payload(run).quote = quote
  BY DEF Payload
<1>. HIDE DEF res
<1>4. res.price \in Nat /\ res.matched \in Nat /\ res.fills = fills
  BY <1>2 DEF IsResult, res
<1>5. DOMAIN fills = Touched(run.orders, res.price, res.matched)
  <2>1. PICK orders, p, v : orders = run.orders /\ p = res.price /\ v = res.matched
    OBVIOUS
  <2>2. DOMAIN allocate(orders, p, v) = Touched(orders, p, v)
    BY ZenonT(30), <1>1, <2>1, AllocateFills
  <2>. QED BY <2>1, <2>2
<1>6. /\ t \in DOMAIN fills => fill(t) = fills[t]
      /\ t \notin DOMAIN fills => fill(t).base = 0 /\ fill(t).quote = 0
  BY <1>4
<1>7. base[t] = fill(t).base /\ quote[t] = fill(t).quote
  OBVIOUS
<1>. HIDE DEF base, quote, fill, fills
<1>. QED BY <1>3, <1>4, <1>5, <1>6, <1>7 DEF fills, res

LEMMA ZeroType == \A x : x = 0 => x \in Int
OBVIOUS

LEMMA PayloadType ==
  ASSUME IInv, NEW run, Started(run), Cleared(run).error = ""
  PROVE  Payload(run) \in [domain : {Here}, batch : BatchIds, price : Nat, matched : Nat,
                           base : [Traders -> Int], quote : [Traders -> Int]]
<1>1. PICK p, v, orders : /\ p = Cleared(run).price /\ v = Cleared(run).matched
                          /\ orders = run.orders
  OBVIOUS
<1>2. orders \in Seq(Order) /\ run.msg.batch \in BatchIds
  BY <1>1, StartedType
<1>3. PICK base, quote : base = Payload(run).base /\ quote = Payload(run).quote
  OBVIOUS
<1>4. /\ Payload(run) = [domain |-> Here, batch |-> run.msg.batch, price |-> p, matched |-> v,
                         base |-> base, quote |-> quote]
      /\ base = [t \in Traders |-> base[t]] /\ quote = [t \in Traders |-> quote[t]]
  BY <1>1, <1>3 DEF Payload
<1>6. ASSUME NEW t \in Traders PROVE base[t] \in Int /\ quote[t] \in Int
  <2>1. PICK fills : fills = allocate(orders, p, v)
    OBVIOUS
  <2>2. /\ p \in Nat /\ v \in Nat /\ DOMAIN fills = Touched(orders, p, v)
        /\ t \in DOMAIN fills => base[t] = fills[t].base /\ quote[t] = fills[t].quote
        /\ t \notin DOMAIN fills => base[t] = 0 /\ quote[t] = 0
    BY <1>1, <1>3, <2>1, PayloadSays
  <2>3. CASE t \in Touched(orders, p, v)
    <3>1. PICK took, paid : took = Takes(orders, p, v) /\ paid = Quotes(orders, p, v)
      OBVIOUS
    <3>2. /\ took \in [1..Len(orders) -> Int] /\ Minus(orders, took) \in [1..Len(orders) -> Int]
          /\ paid \in [1..Len(orders) -> Int] /\ Minus(orders, paid) \in [1..Len(orders) -> Int]
      BY <1>2, <2>2, <3>1, TakesType, QuotesType
    <3>3. /\ fills[t].base = Net(orders, t, took, Minus(orders, took))
          /\ fills[t].quote = Net(orders, t, Minus(orders, paid), paid)
      BY <1>2, <2>1, <2>3, <3>1, AllocateFills
    <3>4. fills[t].base \in Int /\ fills[t].quote \in Int
      BY <1>2, <3>2, <3>3, NetType
    <3>5. base[t] = fills[t].base /\ quote[t] = fills[t].quote
      BY <2>2, <2>3
    <3>. QED BY <3>4, <3>5
  <2>4. CASE t \notin Touched(orders, p, v)
    <3>1. base[t] = 0
      BY <2>2, <2>4
    <3>2. quote[t] = 0
      BY <2>2, <2>4
    <3>. QED BY <3>1, <3>2, ZeroType, Zenon
  <2>. QED BY <2>3, <2>4
<1>7. p \in Nat /\ v \in Nat
  BY <1>1, <1>2, StartedType, ClearResult DEF Cleared, IsResult
<1>8. base \in [Traders -> Int] /\ quote \in [Traders -> Int]
  BY <1>4, <1>6
<1>9. PICK batch : batch = run.msg.batch
  OBVIOUS
<1>10. batch \in BatchIds
  BY <1>2, <1>9
<1>11. [domain |-> Here, batch |-> batch, price |-> p, matched |-> v, base |-> base,
        quote |-> quote]
         \in [domain : {Here}, batch : BatchIds, price : Nat, matched : Nat,
              base : [Traders -> Int], quote : [Traders -> Int]]
  BY <1>7, <1>8, <1>10
<1>. QED BY <1>4, <1>9, <1>11

\* Whoever is moved by a signed settlement submitted an order to its batch.
MoversSubmitted ==
  \A r \in returned, t \in Traders :
    r.payload.base[t] # 0 \/ r.payload.quote[t] # 0 =>
      \E i \in DOMAIN sent : /\ sent[i].msg.op = "SUBMIT_ORDER"
                             /\ sent[i].msg.batch = r.payload.batch
                             /\ sent[i].msg.trader = t

LEMMA InvNamesMovers == IInv => MoversSubmitted
<1>. SUFFICES ASSUME IInv, NEW r \in returned, NEW t \in Traders,
                     r.payload.base[t] # 0 \/ r.payload.quote[t] # 0
              PROVE  \E i \in DOMAIN sent : /\ sent[i].msg.op = "SUBMIT_ORDER"
                                            /\ sent[i].msg.batch = r.payload.batch
                                            /\ sent[i].msg.trader = t
  BY DEF MoversSubmitted
<1>1. PICK run : run = RunBehind(r)
  OBVIOUS
<1>2. Started(run) /\ Cleared(run).error = "" /\ r.payload = Payload(run)
  BY <1>1 DEF IInv, Finished
<1>3. PICK p, v, orders, b : /\ p = Cleared(run).price /\ v = Cleared(run).matched
                             /\ orders = run.orders /\ b = run.msg.batch
  OBVIOUS
<1>4. r.payload.batch = b /\ t \in Touched(orders, p, v)
  BY <1>2, <1>3, PayloadSays
<1>5. PICK k \in DOMAIN orders : orders[k].trader = t
  BY <1>4 DEF Touched
<1>6. PICK i \in DOMAIN sent : Source(run.tee, b, orders[k], i)
  BY <1>2, <1>3 DEF Started, Sourced
<1>7. PICK msg : msg = sent[i].msg
  OBVIOUS
<1>8. msg.op = "SUBMIT_ORDER" /\ msg.batch = b /\ orders[k] = OrderOf(msg)
  BY <1>6, <1>7 DEF Source
<1>9. OrderOf(msg).trader = msg.trader
  BY DEF OrderOf
<1>10. msg.trader = t
  BY <1>5, <1>8, <1>9
<1>. QED BY <1>4, <1>7, <1>8, <1>10

LEMMA InvBoundsFills == IInv => FillsComeFromOrders
<1>. SUFFICES ASSUME IInv, NEW r \in returned, NEW t \in Traders
              PROVE  /\ r.payload.base[t] <= SizeOf(Submitted(r.tee, r.payload.batch, t, "buy"))
                     /\ r.payload.base[t] >= -SizeOf(Submitted(r.tee, r.payload.batch, t, "sell"))
  BY DEF FillsComeFromOrders
<1>1. PICK run : run = RunBehind(r)
  OBVIOUS
<1>2. Started(run) /\ Cleared(run).error = "" /\ r.payload = Payload(run) /\ run.tee = r.tee
  BY <1>1 DEF IInv, Finished, RunBehind, RunOf
<1>3. PICK p, v, orders, b : /\ p = Cleared(run).price /\ v = Cleared(run).matched
                             /\ orders = run.orders /\ b = run.msg.batch
  OBVIOUS
<1>4. /\ p \in Nat /\ v \in Nat /\ r.payload.batch = b
      /\ DOMAIN allocate(orders, p, v) = Touched(orders, p, v)
      /\ t \in DOMAIN allocate(orders, p, v) =>
           r.payload.base[t] = allocate(orders, p, v)[t].base
      /\ t \notin DOMAIN allocate(orders, p, v) => r.payload.base[t] = 0
  BY ZenonT(30), <1>2, <1>3, PayloadSays
<1>5. Sourced(r.tee, b, orders) /\ orders \in Seq(Order)
  BY <1>2, <1>3 DEF Started, Sourced
<1>6. PICK moved : moved = r.payload.base[t]
  OBVIOUS
<1>7. PICK bought, sold : /\ bought = Total(Len(orders), Asked(orders, t, "buy"))
                          /\ sold = Total(Len(orders), Asked(orders, t, "sell"))
  OBVIOUS
<1>8. bought \in Nat /\ sold \in Nat
  <2>1. /\ Len(orders) \in Nat /\ Asked(orders, t, "buy") \in [1..Len(orders) -> Nat]
        /\ Asked(orders, t, "sell") \in [1..Len(orders) -> Nat]
    BY <1>5, AskedType
  <2>. QED BY <1>7, <2>1, TotalNat
<1>9. moved \in Int /\ moved <= bought /\ -sold <= moved
  <2>1. CASE t \in Touched(orders, p, v)
    <3>1. PICK took : took = Takes(orders, p, v)
      OBVIOUS
    <3>2. moved = Net(orders, t, took, Minus(orders, took))
      BY <1>4, <1>5, <1>6, <2>1, <3>1, AllocateFills
    <3>. QED BY <1>4, <1>5, <1>7, <3>1, <3>2, NetWithinAsked
  <2>2. CASE t \notin Touched(orders, p, v)
    BY <1>4, <1>6, <1>8, <2>2
  <2>. QED BY <2>1, <2>2
<1>10. PICK mayBuy, maySell : /\ mayBuy = SizeOf(Submitted(r.tee, b, t, "buy"))
                              /\ maySell = SizeOf(Submitted(r.tee, b, t, "sell"))
  OBVIOUS
<1>11. bought <= mayBuy /\ sold <= maySell
  BY <1>5, <1>7, <1>10, AskedWasSubmitted
<1>12. mayBuy \in Nat /\ maySell \in Nat
  <2>1. \A side : SizeOf(Submitted(r.tee, b, t, side)) \in Nat
    BY SizesInType, TotalNat DEF SizeOf, SizesIn
  <2>. QED BY <1>10, <2>1
<1>13. moved <= mayBuy /\ moved >= -maySell
  BY <1>8, <1>9, <1>11, <1>12
<1>. QED BY <1>4, <1>6, <1>10, <1>13

\* A signed settlement moves a trader at most by the sizes of the orders that
\* this trader sealed and submitted to that batch (parseSealedOrder, the fills
\* of the auction, and the batch in the payload).
THEOREM FillsWereAskedFor == Spec => []FillsComeFromOrders
BY OrdersHaveSources, InvBoundsFills, PTL

-----------------------------------------------------------------------------
(* Enclaves that have the same orders sign the same *)

\* Books without copies that hold the same orders differ only in their order.
LEMMA SameElements ==
  ASSUME NEW a \in Seq(Order), NEW b \in Seq(Order), IdsDiffer(a), IdsDiffer(b),
         Elements(a) = Elements(b)
  PROVE  IdsIdentify(b) /\ \E pi : SameOrders(a, b, pi)
<1>. DEFINE pi == [k \in 1..Len(b) |-> CHOOSE j \in 1..Len(a) : a[j] = b[k]]
<1>1. /\ Len(a) \in Nat /\ Len(b) \in Nat
      /\ DOMAIN a = 1..Len(a) /\ DOMAIN b = 1..Len(b)
  OBVIOUS
<1>2. \A k \in 1..Len(b) : pi[k] \in 1..Len(a) /\ a[pi[k]] = b[k]
  <2>1. \A k \in 1..Len(b) : b[k] \in Elements(a)
    BY <1>1 DEF Elements
  <2>2. \A k \in 1..Len(b) : \E j \in 1..Len(a) : a[j] = b[k]
    BY <1>1, <2>1 DEF Elements
  <2>. QED BY <2>2
<1>3. pi \in [1..Len(b) -> 1..Len(a)]
  BY <1>2
<1>. HIDE DEF pi
<1>4. \A j, k \in 1..Len(b) : pi[j] = pi[k] => j = k
  BY <1>1, <1>2 DEF IdsDiffer
<1>5. ASSUME NEW j \in 1..Len(a) PROVE \E k \in 1..Len(b) : pi[k] = j
  <2>1. a[j] \in Elements(b)
    BY <1>1 DEF Elements
  <2>2. PICK k \in 1..Len(b) : b[k] = a[j]
    BY <1>1, <2>1 DEF Elements
  <2>3. a[pi[k]] = a[j] /\ pi[k] \in 1..Len(a)
    BY <1>2, <2>2
  <2>. QED BY <1>1, <2>3 DEF IdsDiffer
<1>6. \A j, k \in 1..Len(b) : b[j] = b[k] => j = k
  BY <1>1 DEF IdsDiffer
<1>7. Places(pi, Len(b), Len(a))
  BY <1>3, <1>4 DEF Places
<1>8. Onto(pi, Len(b), Len(a))
  BY <1>5 DEF Onto
<1>9. SameOrders(a, b, pi)
  <2>1. \A j, k \in 1..Len(b) : b[j] = b[k] => (j < k <=> pi[j] < pi[k])
    BY <1>2, <1>6
  <2>. QED BY <1>2, <1>7, <1>8, <2>1 DEF SameOrders
<1>10. IdsIdentify(b)
  BY <1>1 DEF IdsDiffer, IdsIdentify
<1>. QED BY <1>9, <1>10

LEMMA InvGivesAgreement == IInv => SameOrdersSameSettlement
<1>. SUFFICES ASSUME IInv, NEW x \in returned, NEW y \in returned,
                     x.instruction = y.instruction, Elements(x.orders) = Elements(y.orders)
              PROVE  x.payload = y.payload /\ x.fills = y.fills
  BY DEF SameOrdersSameSettlement
<1>1. PICK rx, ry : rx = RunBehind(x) /\ ry = RunBehind(y)
  OBVIOUS
<1>2. /\ Started(rx) /\ x.payload = Payload(rx) /\ x.fills = Cleared(rx).fills
      /\ Started(ry) /\ y.payload = Payload(ry) /\ y.fills = Cleared(ry).fills
  BY <1>1 DEF IInv, Finished
<1>3. rx.msg = ry.msg /\ rx.orders = x.orders /\ ry.orders = y.orders
  BY <1>1 DEF RunBehind, RunOf
<1>4. /\ x.orders \in Seq(Order) /\ IdsDiffer(x.orders)
      /\ y.orders \in Seq(Order) /\ IdsDiffer(y.orders) /\ ry.msg.ref \in Nat
  BY <1>2, <1>3, StartedType DEF Started, Sourced
<1>5. PICK a, b, ref, bps : a = x.orders /\ b = y.orders /\ ref = ry.msg.ref /\ bps = ry.msg.bps
  OBVIOUS
<1>6. Clear(b, ref, bps) = Clear(a, ref, bps)
  <2>1. a \in Seq(Order) /\ b \in Seq(Order) /\ ref \in Nat
    BY <1>4, <1>5
  <2>2. PICK pi : IdsIdentify(b) /\ SameOrders(a, b, pi)
    BY <1>4, <1>5, SameElements
  <2>. QED BY <2>1, <2>2, SameOrdersClearAlike
<1>7. Cleared(rx) = Cleared(ry)
  BY <1>3, <1>5, <1>6 DEF Cleared
<1>8. Payload(rx) = Payload(ry)
  BY <1>3, <1>7 DEF Payload
<1>. QED BY <1>2, <1>7, <1>8

\* Enclaves that answer the same request from the same set of orders sign the
\* same settlement, in whatever order the orders reached them.
THEOREM EnclavesAgree == Spec => []SameOrdersSameSettlement
BY OrdersHaveSources, InvGivesAgreement, PTL
=============================================================================
