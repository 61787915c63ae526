--------------------------- MODULE NightjarProofs ---------------------------
(***************************************************************************)
(* Theorems about the venue, for any number of accounts and machines, any  *)
(* ciphertexts and any payloads that the compromised machines sign.  First *)
(* about the contract by itself, whose machines may sign whatever the      *)
(* module lets them; then about the contract and its enclaves together.    *)
(***************************************************************************)
EXTENDS Nightjar, LedgerSumsTheorems, SequenceTheorems, TLAPS

\* The next-state relation, action by action, with its parameters.
LEMMA NextCases ==
  ASSUME Next
  PROVE  \/ setExtensionId
         \/ \E a \in {0} \union Machines : addTee(a)
         \/ \E t \in Nat : setSignatureThreshold(t)
         \/ \E bps \in Bands : setMaxDeviationBps(bps)
         \/ \E bps \in Fees, r \in {0} \union Accounts : setFee(bps, r)
         \/ \E a \in Accounts, r \in {0} \union Accounts, b \in Nat, q \in Nat :
              depositFor(a, r, b, q)
         \/ \E a \in Accounts, b \in Nat, q \in Nat : withdraw(a, b, q)
         \/ \E a \in Accounts : submitOrder(a)
         \/ runBatch
         \/ \E s \in Settlements, sigs \in SignatureLists : settle(s, sigs)
         \/ cancelBatch
         \/ \E p \in Prices, fresh \in BOOLEAN : oracleUpdate(p, fresh)
         \/ \E m \in Machines, s \in Settlements : enclaveSigns(m, s)
<1>1. CASE ConfigNext
  <2>1. ASSUME NEW t \in 0..Cardinality(Machines) + 1, setSignatureThreshold(t)
        PROVE  t \in Nat
    OBVIOUS
  <2>. QED BY <1>1, <2>1 DEF ConfigNext
<1>2. CASE BalanceNext
  <2>1. \A m \in DepositAmounts : m[1] \in Nat /\ m[2] \in Nat
    BY ConstantsAssumption
  <2>. QED BY <1>2, <2>1 DEF BalanceNext, deposit
<1>3. CASE BatchNext
  BY <1>3 DEF BatchNext
<1>4. CASE WorldNext
  BY <1>4 DEF WorldNext
<1>. QED BY <1>1, <1>2, <1>3, <1>4 DEF Next
-----------------------------------------------------------------------------
(* Facts that several proofs use *)

\* A step that leaves a group of variables alone leaves their types alone.
LEMMA Frame ==
  ASSUME TypeOK
  PROVE  /\ UNCHANGED ledger => LedgerTypeOK'
         /\ UNCHANGED tokens => TokenTypeOK'
         /\ UNCHANGED orderVars => OrderTypeOK'
         /\ UNCHANGED batchVars => BatchTypeOK'
         /\ UNCHANGED config => ConfigTypeOK'
         /\ UNCHANGED <<oracle, sent, signed>> => WorldTypeOK'
<1>1. UNCHANGED ledger => LedgerTypeOK'
  BY DEF TypeOK, LedgerTypeOK, ledger
<1>2. UNCHANGED tokens => TokenTypeOK'
  BY DEF TypeOK, TokenTypeOK, tokens
<1>3. UNCHANGED orderVars => OrderTypeOK'
  BY DEF TypeOK, OrderTypeOK, orderVars
<1>4. UNCHANGED batchVars => BatchTypeOK'
  BY DEF TypeOK, BatchTypeOK, batchVars
<1>5. UNCHANGED config => ConfigTypeOK'
  BY DEF TypeOK, ConfigTypeOK, config
<1>6. UNCHANGED <<oracle, sent, signed>> => WorldTypeOK'
  BY DEF TypeOK, WorldTypeOK, oracle
<1>. QED BY <1>1, <1>2, <1>3, <1>4, <1>5, <1>6

\* What _send appends to the log of instructions is an instruction.
LEMMA SendType ==
  ASSUME TypeOK, NEW message \in Message, _send(message)
  PROVE  sent' \in Seq(Instruction)
<1>1. PICK tees \in SUBSET Machines : sent' = Append(sent, [msg |-> message, tees |-> tees])
  BY DEF _send
<1>2. [msg |-> message, tees |-> tees] \in Instruction
  BY DEF Instruction
<1>. QED BY <1>1, <1>2 DEF TypeOK, WorldTypeOK

LEMMA FeeType ==
  ASSUME TypeOK, NEW s \in Settlements
  PROVE  /\ FeeOf(s) \in [Accounts -> Nat]
         /\ Total(N, FeeOf(s)) \in Nat
<1>1. ASSUME NEW a \in Accounts
      PROVE  (Abs(s.quote[a]) * feeBps) \div BPS \in Nat
  <2>1. s.quote[a] \in Int
    BY ConstantsAssumption DEF Settlement
  <2>2. Abs(s.quote[a]) \in Nat
    BY <2>1 DEF Abs
  <2>3. feeBps \in Nat
    BY DEF TypeOK, ConfigTypeOK, MAX_FEE_BPS
  <2>4. Abs(s.quote[a]) * feeBps \in Nat
    BY <2>2, <2>3
  <2>. QED BY <2>4 DEF BPS
<1>2. FeeOf(s) \in [Accounts -> Nat]
  BY <1>1 DEF FeeOf
<1>. QED BY <1>2, TotalNat, ConstantsAssumption DEF Accounts

\* The effect of settle, with its local definitions written out.
SettleOutcome(s) ==
  /\ s \in Settlement
  /\ s.batch < MaxBatchId
  /\ Conserves(s)
  /\ baseBalance' = [a \in Accounts |-> baseBalance[a] + s.base[a]]
  /\ quoteBalance' = Plus([a \in Accounts |-> quoteBalance[a] + s.quote[a] - FeeOf(s)[a]],
                          feeRecipient, Total(N, FeeOf(s)))
  /\ \A a \in Accounts : /\ baseBalance[a] + s.base[a] >= 0
                         /\ quoteBalance[a] + s.quote[a] - FeeOf(s)[a] >= 0
  /\ feesCollected' = feesCollected + Total(N, FeeOf(s))
  /\ CloseBatch(s.batch, [price |-> s.price, matched |-> s.matched, fee |-> Total(N, FeeOf(s)),
                          orders |-> batchOrderCount[s.batch]])

LEMMA SettleEffect ==
  ASSUME NEW s \in Settlements, NEW sigs, settle(s, sigs)
  PROVE  SettleOutcome(s)
<1>1. s \in Settlement
  BY ConstantsAssumption
<1>. QED BY <1>1 DEF settle, SettleOutcome, CloseBatch

-----------------------------------------------------------------------------
LEMMA TypeInit == Init => TypeOK
<1>. SUFFICES ASSUME Init PROVE TypeOK
  OBVIOUS
<1>1. LedgerTypeOK /\ TokenTypeOK
  BY ConstantsAssumption DEF Init, Unfunded, Untraded, LedgerTypeOK, TokenTypeOK
<1>2. OrderTypeOK /\ BatchTypeOK
  BY ConstantsAssumption
  DEF Init, Unfunded, Untraded, OrderTypeOK, BatchTypeOK, BatchIds, Result, NoResult
<1>3. ConfigTypeOK
  <2>1. teeSigners \in Seq(Machines)
    BY DEF Init, Unfunded, Untraded
  <2>2. Owner \in Accounts
    BY ConstantsAssumption
  <2>3. /\ extensionIdSet = FALSE /\ signatureThreshold = 1
        /\ maxDeviationBps = 500 /\ feeBps = 5 /\ feeRecipient = Owner
    BY DEF Init, Unfunded, Untraded
  <2>4. extensionIdSet \in BOOLEAN
    BY <2>3
  <2>5. feeBps \in 0..MAX_FEE_BPS
    BY <2>3 DEF MAX_FEE_BPS
  <2>. QED BY <2>1, <2>2, <2>3, <2>4, <2>5 DEF ConfigTypeOK
<1>4. WorldTypeOK
  BY ConstantsAssumption DEF Init, Unfunded, Untraded, WorldTypeOK
<1>. QED BY <1>1, <1>2, <1>3, <1>4 DEF TypeOK

LEMMA TypeStep == TypeOK /\ [Next]_vars => TypeOK'
<1>. SUFFICES ASSUME TypeOK, [Next]_vars PROVE TypeOK'
  OBVIOUS
<1>1. CASE setExtensionId
  <2>1. ConfigTypeOK'
    BY <1>1 DEF setExtensionId, TypeOK, ConfigTypeOK
  <2>. QED BY <1>1, <2>1, Frame DEF setExtensionId, TypeOK
<1>2. ASSUME NEW a \in {0} \union Machines, addTee(a) PROVE TypeOK'
  <2>1. a \in Machines
    BY <1>2 DEF addTee
  <2>2. teeSigners' \in Seq(Machines)
    BY <1>2, <2>1 DEF addTee, TypeOK, ConfigTypeOK
  <2>3. ConfigTypeOK'
    BY <1>2, <2>2 DEF addTee, TypeOK, ConfigTypeOK
  <2>. QED BY <1>2, <2>3, Frame DEF addTee, TypeOK
<1>3. ASSUME NEW t \in Nat, setSignatureThreshold(t) PROVE TypeOK'
  <2>1. ConfigTypeOK'
    BY <1>3 DEF setSignatureThreshold, TypeOK, ConfigTypeOK
  <2>. QED BY <1>3, <2>1, Frame DEF setSignatureThreshold, TypeOK
<1>4. ASSUME NEW bps \in Bands, setMaxDeviationBps(bps) PROVE TypeOK'
  <2>1. ConfigTypeOK'
    BY <1>4, ConstantsAssumption DEF setMaxDeviationBps, TypeOK, ConfigTypeOK
  <2>. QED BY <1>4, <2>1, Frame DEF setMaxDeviationBps, TypeOK
<1>5. ASSUME NEW bps \in Fees, NEW r \in {0} \union Accounts, setFee(bps, r) PROVE TypeOK'
  <2>1. ConfigTypeOK'
    BY <1>5, ConstantsAssumption DEF setFee, TypeOK, ConfigTypeOK, MAX_FEE_BPS
  <2>. QED BY <1>5, <2>1, Frame DEF setFee, TypeOK
<1>6. ASSUME NEW a \in Accounts, NEW r \in {0} \union Accounts, NEW b \in Nat, NEW q \in Nat,
             depositFor(a, r, b, q)
      PROVE  TypeOK'
  <2>1. LedgerTypeOK'
    BY <1>6 DEF depositFor, Plus, TypeOK, LedgerTypeOK
  <2>2. TokenTypeOK'
    BY <1>6 DEF depositFor, Plus, TypeOK, TokenTypeOK
  <2>. QED BY <1>6, <2>1, <2>2, Frame DEF depositFor, TypeOK
<1>7. ASSUME NEW a \in Accounts, NEW b \in Nat, NEW q \in Nat, withdraw(a, b, q)
      PROVE  TypeOK'
  <2>1. LedgerTypeOK'
    BY <1>7 DEF withdraw, MayWithdraw, Covers, Plus, TypeOK, LedgerTypeOK
  <2>2. TokenTypeOK'
    BY <1>7 DEF withdraw, Plus, TypeOK, TokenTypeOK
  <2>. QED BY <1>7, <2>1, <2>2, Frame DEF withdraw, TypeOK
<1>8. ASSUME NEW a \in Accounts, submitOrder(a) PROVE TypeOK'
  <2>. DEFINE m == [op |-> "SUBMIT_ORDER", order |-> nextOrderId, batch |-> currentBatchId,
                    trader |-> a, ref |-> 0, bps |-> 0]
  <2>1. m \in Message /\ _send(m)
    BY <1>8 DEF submitOrder, Message, TypeOK, OrderTypeOK, BatchTypeOK, Accounts
  <2>2. WorldTypeOK'
    <3>. HIDE DEF m
    <3>1. sent' \in Seq(Instruction)
      BY <2>1, SendType
    <3>. QED BY <1>8, <3>1 DEF submitOrder, TypeOK, WorldTypeOK, oracle
  <2>3. OrderTypeOK'
    BY <1>8 DEF submitOrder, Plus, TypeOK, OrderTypeOK, BatchTypeOK
  <2>. QED BY <1>8, <2>2, <2>3, Frame DEF submitOrder, TypeOK
<1>9. CASE runBatch
  <2>. DEFINE m == [op |-> "RUN_BATCH", order |-> 0, batch |-> currentBatchId,
                    trader |-> 0, ref |-> refPrice, bps |-> maxDeviationBps]
  <2>1. m \in Message /\ _send(m)
    BY <1>9 DEF runBatch, Message, TypeOK, BatchTypeOK, ConfigTypeOK, WorldTypeOK
  <2>2. WorldTypeOK'
    <3>. HIDE DEF m
    <3>1. sent' \in Seq(Instruction)
      BY <2>1, SendType
    <3>. QED BY <1>9, <3>1 DEF runBatch, TypeOK, WorldTypeOK, oracle
  <2>. QED BY <1>9, <2>2, Frame DEF runBatch, TypeOK
<1>10. ASSUME NEW s \in Settlements, NEW sigs \in SignatureLists, settle(s, sigs)
       PROVE  TypeOK'
  <2>1. FeeOf(s) \in [Accounts -> Nat] /\ Total(N, FeeOf(s)) \in Nat
    BY FeeType
  <2>2. SettleOutcome(s)
    BY <1>10, SettleEffect
  <2>3. /\ s.batch \in BatchIds /\ s.batch + 1 \in BatchIds
        /\ s.price \in Nat /\ s.matched \in Nat
        /\ s.base \in [Accounts -> Int] /\ s.quote \in [Accounts -> Int]
    <3>1. s \in Settlement /\ s.batch < MaxBatchId
      BY <2>2 DEF SettleOutcome
    <3>2. s.batch \in BatchIds
      BY <3>1 DEF Settlement
    <3>3. s.batch + 1 \in BatchIds
      BY <3>1, <3>2, ConstantsAssumption DEF BatchIds
    <3>. QED BY <3>1, <3>2, <3>3 DEF Settlement
  <2>4. LedgerTypeOK'
    <3>. DEFINE paid == [a \in Accounts |-> quoteBalance[a] + s.quote[a] - FeeOf(s)[a]]
    <3>1. baseBalance' \in [Accounts -> Nat]
      BY <2>2, <2>3 DEF SettleOutcome, TypeOK, LedgerTypeOK
    <3>2. paid \in [Accounts -> Nat]
      BY <2>1, <2>2, <2>3 DEF SettleOutcome, TypeOK, LedgerTypeOK
    <3>3. quoteBalance' = Plus(paid, feeRecipient, Total(N, FeeOf(s)))
      BY <2>2 DEF SettleOutcome
    <3>4. quoteBalance' \in [Accounts -> Nat]
      <4>. HIDE DEF paid
      <4>. QED BY <3>2, <3>3, <2>1 DEF Plus, TypeOK, ConfigTypeOK
    <3>5. feesCollected' \in Nat
      BY <2>1, <2>2 DEF SettleOutcome, TypeOK, LedgerTypeOK
    <3>. QED BY <3>1, <3>4, <3>5 DEF LedgerTypeOK
  <2>5. BatchTypeOK'
    <3>1. [price |-> s.price, matched |-> s.matched, fee |-> Total(N, FeeOf(s)),
           orders |-> batchOrderCount[s.batch]] \in Result
      BY <2>1, <2>3 DEF Result, TypeOK, OrderTypeOK
    <3>. QED BY <2>2, <2>3, <3>1 DEF SettleOutcome, CloseBatch, TypeOK, BatchTypeOK
  <2>. QED BY <1>10, <2>4, <2>5, Frame DEF settle, TypeOK
<1>11. CASE cancelBatch
  <2>1. [NoResult EXCEPT !.orders = batchOrderCount[currentBatchId]] \in Result
    BY DEF NoResult, Result, TypeOK, OrderTypeOK, BatchTypeOK
  <2>2. BatchTypeOK'
    BY <1>11, <2>1, ConstantsAssumption
    DEF cancelBatch, CloseBatch, TypeOK, BatchTypeOK, BatchIds
  <2>. QED BY <1>11, <2>2, Frame DEF cancelBatch, TypeOK
<1>12. ASSUME NEW p \in Prices, NEW fresh \in BOOLEAN, oracleUpdate(p, fresh) PROVE TypeOK'
  <2>1. WorldTypeOK'
    BY <1>12, ConstantsAssumption DEF oracleUpdate, TypeOK, WorldTypeOK
  <2>. QED BY <1>12, <2>1, Frame DEF oracleUpdate, TypeOK
<1>13. ASSUME NEW m \in Machines, NEW s \in Settlements, enclaveSigns(m, s) PROVE TypeOK'
  <2>1. WorldTypeOK'
    BY <1>13 DEF enclaveSigns, TypeOK, WorldTypeOK, oracle
  <2>. QED BY <1>13, <2>1, Frame DEF enclaveSigns, TypeOK
<1>14. CASE UNCHANGED vars
  BY <1>14, Frame DEF vars, TypeOK
<1>. QED BY <1>1, <1>2, <1>3, <1>4, <1>5, <1>6, <1>7, <1>8, <1>9, <1>10, <1>11,
            <1>12, <1>13, <1>14, NextCases

\* Every reachable state is well typed: no sequence of deposits, withdrawals
\* and settlements, whatever the compromised machines sign, takes a balance
\* below zero or the fee above its ceiling.
THEOREM TypeCorrect == Spec => []TypeOK
BY TypeInit, TypeStep, PTL DEF Spec
-----------------------------------------------------------------------------
(* Custody *)

LEMMA PlusTotal ==
  ASSUME NEW f \in [Accounts -> Int], NEW a \in Accounts, NEW v \in Int
  PROVE  Total(N, Plus(f, a, v)) = Total(N, f) + v
<1>1. N \in Nat /\ Accounts = 1..N
  BY ConstantsAssumption DEF Accounts
<1>2. SUFFICES ASSUME NEW w, w = f[a] + v, NEW h, h = [f EXCEPT ![a] = w]
               PROVE  Total(N, h) = Total(N, f) + v
  BY DEF Plus
<1>3. f[a] \in Int /\ w \in Int /\ h \in [1..N -> Int] /\ f \in [1..N -> Int] /\ a \in 1..N
  BY <1>1, <1>2
<1>4. \A i \in 1..N : h[i] = IF i = a THEN w ELSE f[i]
  BY <1>1, <1>2
<1>6. Total(N, h) = Total(N, f) + (w - f[a])
  BY <1>1, <1>3, <1>4, TotalUpdate
<1>5. Total(N, f) \in Int
  BY <1>1, <1>3, TotalType
<1>. QED BY <1>2, <1>3, <1>5, <1>6

\* Charging every fill its fee and crediting the recipient with the sum moves
\* no quote in or out, when the payload's own quote deltas sum to zero.
LEMMA FeesBalance ==
  ASSUME NEW q \in [Accounts -> Int], NEW d \in [Accounts -> Int],
         NEW fee \in [Accounts -> Int], NEW r \in Accounts, Total(N, d) = 0
  PROVE  Total(N, Plus([a \in Accounts |-> q[a] + d[a] - fee[a]], r, Total(N, fee)))
           = Total(N, q)
<1>. DEFINE paid == [a \in Accounts |-> q[a] + d[a] - fee[a]]
            net  == [a \in Accounts |-> d[a] - fee[a]]
<1>1. N \in Nat /\ Accounts = 1..N
  BY ConstantsAssumption DEF Accounts
<1>2. /\ paid \in [1..N -> Int] /\ net \in [1..N -> Int]
      /\ q \in [1..N -> Int] /\ d \in [1..N -> Int] /\ fee \in [1..N -> Int]
  BY <1>1
<1>3. /\ \A i \in 1..N : paid[i] = q[i] + net[i]
      /\ \A i \in 1..N : d[i] = net[i] + fee[i]
  BY <1>1, <1>2
<1>. HIDE DEF paid, net
<1>4. Total(N, paid) = Total(N, q) + Total(N, net)
  BY <1>1, <1>2, <1>3, TotalAdd
<1>5. Total(N, d) = Total(N, net) + Total(N, fee)
  BY <1>1, <1>2, <1>3, TotalAdd
<1>6. Total(N, q) \in Int /\ Total(N, net) \in Int /\ Total(N, fee) \in Int
  BY <1>1, <1>2, TotalType
<1>7. Total(N, Plus(paid, r, Total(N, fee))) = Total(N, paid) + Total(N, fee)
  <2>1. paid \in [Accounts -> Int]
    BY <1>1, <1>2
  <2>. QED BY <2>1, <1>6, PlusTotal
<1>8. Total(N, Plus(paid, r, Total(N, fee))) = Total(N, q)
  BY <1>4, <1>5, <1>6, <1>7
<1>. QED BY <1>8 DEF paid

\* Executing a settlement changes neither sum of balances.
LEMMA SettleConserves ==
  ASSUME TypeOK, NEW s \in Settlements, SettleOutcome(s)
  PROVE  /\ Total(N, baseBalance') = Total(N, baseBalance)
         /\ Total(N, quoteBalance') = Total(N, quoteBalance)
<1>1. N \in Nat /\ Accounts = 1..N
  BY ConstantsAssumption DEF Accounts
<1>2. /\ s.base \in [Accounts -> Int] /\ s.quote \in [Accounts -> Int]
      /\ Total(N, s.base) = 0 /\ Total(N, s.quote) = 0
  BY DEF SettleOutcome, Settlement, Conserves
<1>3. baseBalance \in [Accounts -> Int] /\ quoteBalance \in [Accounts -> Int]
  BY DEF TypeOK, LedgerTypeOK
<1>4. Total(N, baseBalance') = Total(N, baseBalance)
  <2>1. baseBalance' = [a \in Accounts |-> baseBalance[a] + s.base[a]]
    BY DEF SettleOutcome
  <2>2. baseBalance' \in [1..N -> Int] /\ s.base \in [1..N -> Int]
        /\ baseBalance \in [1..N -> Int]
    BY <1>1, <1>2, <1>3, <2>1
  <2>3. \A i \in 1..N : baseBalance'[i] = baseBalance[i] + s.base[i]
    BY <1>1, <2>1
  <2>4. Total(N, baseBalance') = Total(N, baseBalance) + Total(N, s.base)
    BY <1>1, <2>2, <2>3, TotalAdd
  <2>5. Total(N, baseBalance) \in Int
    BY <1>1, <2>2, TotalType
  <2>. QED BY <1>2, <2>4, <2>5
<1>5. Total(N, quoteBalance') = Total(N, quoteBalance)
  <2>1. quoteBalance' = Plus([a \in Accounts |-> quoteBalance[a] + s.quote[a] - FeeOf(s)[a]],
                             feeRecipient, Total(N, FeeOf(s)))
    BY DEF SettleOutcome
  <2>2. FeeOf(s) \in [Accounts -> Int]
    BY FeeType
  <2>3. feeRecipient \in Accounts
    BY DEF TypeOK, ConfigTypeOK
  <2>. QED BY <1>2, <1>3, <2>1, <2>2, <2>3, FeesBalance
<1>. QED BY <1>4, <1>5

\* Moving tokens and crediting or debiting one account by the same amounts
\* keeps the contract solvent.
LEMMA MoveKeepsSolvent ==
  ASSUME TypeOK, Solvent, NEW a \in Accounts, NEW b \in Int, NEW q \in Int,
         baseBalance' = Plus(baseBalance, a, b), quoteBalance' = Plus(quoteBalance, a, q),
         baseHeld' = baseHeld + b, quoteHeld' = quoteHeld + q
  PROVE  Solvent'
<1>1. baseBalance \in [Accounts -> Int] /\ quoteBalance \in [Accounts -> Int]
  BY DEF TypeOK, LedgerTypeOK
<1>2. Total(N, baseBalance') = Total(N, baseBalance) + b
  BY <1>1, PlusTotal
<1>3. Total(N, quoteBalance') = Total(N, quoteBalance) + q
  BY <1>1, PlusTotal
<1>. QED BY <1>2, <1>3 DEF Solvent

\* The contract always owns exactly the tokens it owes its accounts.  Nothing
\* is assumed about the machines: whatever a quorum signs, settle refuses a
\* payload that does not conserve both assets, and credits exactly the fees it
\* charges.
THEOREM Custodial == Spec => []Solvent
<1>1. Init => Solvent
  <2>. SUFFICES ASSUME Init PROVE Solvent
    OBVIOUS
  <2>. DEFINE zero == [a \in Accounts |-> 0]
  <2>1. N \in Nat /\ zero \in [1..N -> Int] /\ \A i \in 1..N : zero[i] = 0
    BY ConstantsAssumption DEF Accounts
  <2>2. baseBalance = zero /\ quoteBalance = zero /\ baseHeld = 0 /\ quoteHeld = 0
    BY DEF Init, Unfunded, Untraded
  <2>. HIDE DEF zero
  <2>3. Total(N, zero) = 0
    BY <2>1, TotalZero
  <2>. QED BY <2>2, <2>3 DEF Solvent
<1>2. TypeOK /\ Solvent /\ [Next]_vars => Solvent'
  <2>. SUFFICES ASSUME TypeOK, Solvent, [Next]_vars PROVE Solvent'
    OBVIOUS
  <2>1. CASE UNCHANGED <<ledger, tokens>>
    BY <2>1 DEF Solvent, ledger, tokens
  <2>2. ASSUME NEW a \in Accounts, NEW r \in {0} \union Accounts, NEW b \in Nat, NEW q \in Nat,
               depositFor(a, r, b, q)
        PROVE  Solvent'
    <3>1. /\ r \in Accounts
          /\ baseBalance' = Plus(baseBalance, r, b) /\ quoteBalance' = Plus(quoteBalance, r, q)
          /\ baseHeld' = baseHeld + b /\ quoteHeld' = quoteHeld + q
      BY <2>2 DEF depositFor
    <3>. QED BY <3>1, MoveKeepsSolvent
  <2>3. ASSUME NEW a \in Accounts, NEW b \in Nat, NEW q \in Nat, withdraw(a, b, q)
        PROVE  Solvent'
    <3>1. /\ baseBalance' = Plus(baseBalance, a, -b) /\ quoteBalance' = Plus(quoteBalance, a, -q)
          /\ baseHeld' = baseHeld - b /\ quoteHeld' = quoteHeld - q
      BY <2>3 DEF withdraw
    <3>2. baseHeld' = baseHeld + (-b) /\ quoteHeld' = quoteHeld + (-q)
      BY <3>1 DEF TypeOK, TokenTypeOK
    <3>3. -b \in Int /\ -q \in Int
      OBVIOUS
    <3>. QED BY <3>1, <3>2, <3>3, MoveKeepsSolvent
  <2>4. ASSUME NEW s \in Settlements, NEW sigs \in SignatureLists, settle(s, sigs)
        PROVE  Solvent'
    <3>1. SettleOutcome(s) /\ UNCHANGED tokens
      BY <2>4, SettleEffect DEF settle
    <3>. QED BY <3>1, SettleConserves DEF Solvent, tokens
  <2>5. CASE UNCHANGED vars
    BY <2>1, <2>5 DEF vars
  <2>. QED
    BY <2>1, <2>2, <2>3, <2>4, <2>5, NextCases
    DEF setExtensionId, addTee, setSignatureThreshold, setMaxDeviationBps, setFee,
        submitOrder, runBatch, cancelBatch, oracleUpdate, enclaveSigns
<1>. QED BY <1>1, <1>2, TypeCorrect, PTL DEF Spec

-----------------------------------------------------------------------------
(* Quorums *)

LEMMA SignatureListsType ==
  ASSUME NEW sigs \in SignatureLists
  PROVE  /\ Len(sigs) \in Nat
         /\ DOMAIN sigs = 1..Len(sigs)
<1>1. sigs \in Seq(Addresses)
  BY SMTT(30), ConstantsAssumption, SeqDef DEF SignatureLists
<1>. QED BY <1>1, LenProperties

\* Adjacent signers increase, so any two do.
LEMMA SignersIncrease ==
  ASSUME TypeOK, NEW s \in Settlements, NEW sigs \in SignatureLists, _verifyQuorum(s, sigs)
  PROVE  \A i, j \in 1..Len(sigs) : i < j => sigs[i] < sigs[j]
<1>. DEFINE n == Len(sigs)
            S == {k \in 0..n : \A i \in 1..n : i < k => sigs[i] < sigs[k]}
<1>1. n \in Nat /\ DOMAIN sigs = 1..n
  BY SignatureListsType
<1>2. \A i \in 1..n : sigs[i] \in Nat
  <2>1. \A i \in 1..n : isTee(sigs[i])
    BY <1>1 DEF _verifyQuorum
  <2>2. \A i \in DOMAIN teeSigners : teeSigners[i] \in Machines
    BY DEF TypeOK, ConfigTypeOK
  <2>. QED BY <2>1, <2>2, ConstantsAssumption DEF isTee
<1>3. 0 \in S
  BY <1>1
<1>4. ASSUME NEW m \in 1..n, m-1 \in S
      PROVE  m \in S
  <2>1. SUFFICES ASSUME NEW i \in 1..n, i < m
                 PROVE  sigs[i] < sigs[m]
    BY <1>1
  <2>2. m \in 2..n /\ m-1 \in 1..n
    BY <1>1, <2>1
  <2>3. sigs[m] > sigs[m-1]
    BY <1>1, <2>2 DEF _verifyQuorum
  <2>4. CASE i = m-1
    BY <2>3, <2>4, <1>2, <2>2
  <2>5. CASE i < m-1
    <3>1. sigs[i] < sigs[m-1]
      BY <1>4, <2>5
    <3>. QED BY <3>1, <2>3, <1>2, <2>2
  <2>. QED BY <2>1, <2>2, <2>4, <2>5
<1>5. 0..n \subseteq S
  <2>. HIDE DEF S
  <2>. QED BY <1>1, <1>3, <1>4, BoundedInduction
<1>. QED BY <1>1, <1>5

\* The signatures settle accepts are of at least signatureThreshold distinct
\* machines, each registered, each of which signed this very payload.
LEMMA QuorumSigned ==
  ASSUME TypeOK, NEW s \in Settlements, NEW sigs \in SignatureLists, _verifyQuorum(s, sigs)
  PROVE  /\ Cardinality(SignersOf(s)) >= signatureThreshold
         /\ IsFiniteSet(SignersOf(s))
<1>. DEFINE n == Len(sigs)
<1>1. n \in Nat /\ DOMAIN sigs = 1..n
  BY SignatureListsType
<1>2. \A i \in 1..n : sigs[i] \in SignersOf(s) /\ sigs[i] \in Nat
  <2>1. SUFFICES ASSUME NEW i \in 1..n
                 PROVE  sigs[i] \in SignersOf(s) /\ sigs[i] \in Nat
    OBVIOUS
  <2>2. isTee(sigs[i]) /\ Recovers(s, sigs[i])
    BY <1>1 DEF _verifyQuorum
  <2>3. sigs[i] \in Machines
    BY <2>2 DEF isTee, TypeOK, ConfigTypeOK
  <2>. QED BY <2>2, <2>3, ConstantsAssumption DEF SignersOf, Recovers
<1>3. IsFiniteSet(SignersOf(s))
  BY ConstantsAssumption, FS_Subset DEF SignersOf
<1>4. sigs \in Injection(1..n, SignersOf(s))
  <2>1. sigs \in [1..n -> SignersOf(s)]
    <3>1. sigs \in Seq(Addresses)
      BY ConstantsAssumption, SeqDef DEF SignatureLists
    <3>2. sigs \in [1..n -> Addresses]
      BY <3>1, LenProperties
    <3>. QED BY <3>2, <1>2
  <2>2. \A i, j \in 1..n : sigs[i] = sigs[j] => i = j
    BY <1>1, <1>2, SignersIncrease
  <2>3. IsInjective(sigs)
    BY <1>1, <2>2 DEF IsInjective
  <2>. QED BY <2>1, <2>3 DEF Injection
<1>5. Cardinality(1..n) <= Cardinality(SignersOf(s))
  BY <1>3, <1>4, FS_Injection
<1>6. Cardinality(1..n) = n
  <2>1. \A k \in Nat : Cardinality(1..k) = IF 1 > k THEN 0 ELSE k - 1 + 1
    BY FS_Interval
  <2>. HIDE DEF n
  <2>. QED BY <1>1, <2>1
<1>7. Cardinality(SignersOf(s)) \in Nat
  BY <1>3, FS_CardinalityType
<1>8. n >= signatureThreshold
  BY DEF _verifyQuorum
<1>. QED BY <1>1, <1>3, <1>5, <1>6, <1>7, <1>8 DEF TypeOK, ConfigTypeOK

\* Among them is a machine that is not compromised.
LEMMA HonestSigner ==
  ASSUME TypeOK, HonestQuorum, NEW s \in Settlements, NEW sigs \in SignatureLists,
         _verifyQuorum(s, sigs)
  PROVE  \E m \in Machines \ Compromised : <<m, s>> \in signed
<1>1. IsFiniteSet(Compromised)
  BY ConstantsAssumption, FS_Subset
<1>2. Cardinality(SignersOf(s)) >= signatureThreshold
  BY QuorumSigned
<1>3. Cardinality(Compromised) \in Nat /\ Cardinality(SignersOf(s)) \in Nat
  BY <1>1, QuorumSigned, FS_CardinalityType
<1>4. ~ SignersOf(s) \subseteq Compromised
  <2>. SUFFICES ASSUME SignersOf(s) \subseteq Compromised PROVE FALSE
    OBVIOUS
  <2>1. Cardinality(SignersOf(s)) <= Cardinality(Compromised)
    BY <1>1, FS_Subset
  <2>. QED BY <1>2, <1>3, <2>1 DEF HonestQuorum, TypeOK, ConfigTypeOK
<1>. QED BY <1>4 DEF SignersOf

-----------------------------------------------------------------------------
(* Batches *)

\* The enclaves are asked about, and sign for, no batch that is not open yet,
\* and no lock names one.  settle relies on it: it opens the batch after the
\* one the payload names.
NotAhead ==
  /\ \A i \in DOMAIN sent : sent[i].msg.batch <= currentBatchId
  /\ \A m \in Machines \ Compromised, s \in Settlements :
       <<m, s>> \in signed /\ s.domain = Here => s.batch <= currentBatchId
  /\ \A a \in Accounts : lockedInBatch[a] <= currentBatchId

BatchInv == BatchesInOrder /\ NotAhead

\* What a quorum gets executed is always the open batch.
LEMMA SettlesOpenBatch ==
  ASSUME TypeOK, HonestQuorum, BatchInv, NEW s \in Settlements, NEW sigs \in SignatureLists,
         settle(s, sigs)
  PROVE  /\ s.batch = currentBatchId
         /\ ~batchSettled[s.batch]
<1>1. _verifyQuorum(s, sigs) /\ s.domain = Here /\ ~batchSettled[s.batch]
  BY DEF settle, MayExecute
<1>2. s.batch <= currentBatchId
  BY <1>1, HonestSigner DEF BatchInv, NotAhead
<1>3. s.batch \in BatchIds
  BY ConstantsAssumption DEF Settlement
<1>4. ~(s.batch < currentBatchId)
  BY <1>1, <1>3 DEF BatchInv, BatchesInOrder
<1>. QED BY <1>1, <1>2, <1>3, <1>4 DEF TypeOK, BatchTypeOK, BatchIds

\* _send adds one instruction, for the open batch.
LEMMA SendNotAhead ==
  ASSUME TypeOK, NotAhead, NEW message \in Message, _send(message),
         message.batch = currentBatchId
  PROVE  \A i \in DOMAIN sent' : sent'[i].msg.batch <= currentBatchId
<1>1. PICK tees \in SUBSET Machines : sent' = Append(sent, [msg |-> message, tees |-> tees])
  BY DEF _send
<1>2. sent \in Seq(Instruction) /\ [msg |-> message, tees |-> tees] \in Instruction
  BY DEF TypeOK, WorldTypeOK, Instruction
<1>3. SUFFICES ASSUME NEW i \in DOMAIN sent'
               PROVE  sent'[i].msg.batch <= currentBatchId
  OBVIOUS
<1>4. \/ i \in DOMAIN sent /\ sent'[i] = sent[i]
      \/ sent'[i] = [msg |-> message, tees |-> tees]
  BY <1>1, <1>2, <1>3
<1>. QED BY <1>4 DEF NotAhead, TypeOK, BatchTypeOK, BatchIds

\* Closing the open batch keeps the order of the batches.
LEMMA CloseKeepsInv ==
  ASSUME TypeOK, BatchInv, NEW result, CloseBatch(currentBatchId, result),
         UNCHANGED <<sent, signed, lockedInBatch>>
  PROVE  BatchInv'
<1>1. /\ currentBatchId \in BatchIds /\ currentBatchId' = currentBatchId + 1
      /\ batchSettled \in [BatchIds -> BOOLEAN]
      /\ batchSettled' = [batchSettled EXCEPT ![currentBatchId] = TRUE]
  BY DEF TypeOK, BatchTypeOK, CloseBatch
<1>2. BatchesInOrder'
  <2>1. SUFFICES ASSUME NEW b \in BatchIds
                 PROVE  batchSettled'[b] <=> b < currentBatchId'
    BY DEF BatchesInOrder
  <2>2. batchSettled[b] <=> b < currentBatchId
    BY DEF BatchInv, BatchesInOrder
  <2>3. CASE b = currentBatchId
    BY <1>1, <2>3 DEF BatchIds
  <2>4. CASE b # currentBatchId
    <3>1. batchSettled'[b] <=> batchSettled[b]
      BY <1>1, <2>4
    <3>2. b < currentBatchId + 1 <=> b < currentBatchId
      BY <1>1, <2>4 DEF BatchIds
    <3>3. b < currentBatchId' <=> b < currentBatchId
      BY <1>1, <3>2
    <3>. QED BY <2>2, <3>1, <3>3
  <2>. QED BY <2>3, <2>4
<1>3. NotAhead'
  <2>1. \A i \in DOMAIN sent : sent[i].msg.batch \in Int
    <3>1. \A i \in DOMAIN sent : sent[i] \in Instruction
      BY DEF TypeOK, WorldTypeOK
    <3>. QED BY <3>1 DEF Instruction, Message, BatchIds
  <2>2. \A s \in Settlements : s.batch \in Int
    BY ConstantsAssumption DEF Settlement, BatchIds
  <2>3. \A a \in Accounts : lockedInBatch[a] \in Int
    BY DEF TypeOK, OrderTypeOK, BatchIds
  <2>4. \A x \in Int : x <= currentBatchId => x <= currentBatchId'
    BY <1>1 DEF BatchIds
  <2>. QED BY <2>1, <2>2, <2>3, <2>4 DEF BatchInv, NotAhead
<1>. QED BY <1>2, <1>3 DEF BatchInv

LEMMA BatchInvInit == Init => BatchInv
<1>. SUFFICES ASSUME Init PROVE BatchInv
  OBVIOUS
<1>1. BatchesInOrder
  <2>1. batchSettled = [b \in BatchIds |-> FALSE] /\ currentBatchId = 1
    BY DEF Init, Unfunded, Untraded
  <2>. QED BY <2>1 DEF BatchesInOrder, BatchIds
<1>2. NotAhead
  <2>1. sent = <<>> /\ signed = {} /\ lockedInBatch = [a \in Accounts |-> 0] /\ currentBatchId = 1
    BY DEF Init, Unfunded, Untraded
  <2>2. \A i \in DOMAIN sent : FALSE
    BY <2>1
  <2>. QED BY <2>1, <2>2 DEF NotAhead
<1>. QED BY <1>1, <1>2 DEF BatchInv

LEMMA BatchInvStep == TypeOK /\ HonestQuorum /\ BatchInv /\ [Next]_vars => BatchInv'
<1>. SUFFICES ASSUME TypeOK, HonestQuorum, BatchInv, [Next]_vars PROVE BatchInv'
  OBVIOUS
<1>1. CASE UNCHANGED <<currentBatchId, batchSettled, sent, signed, lockedInBatch>>
  BY <1>1 DEF BatchInv, BatchesInOrder, NotAhead
<1>2. ASSUME NEW a \in Accounts, submitOrder(a) PROVE BatchInv'
  <2>. DEFINE m == [op |-> "SUBMIT_ORDER", order |-> nextOrderId, batch |-> currentBatchId,
                    trader |-> a, ref |-> 0, bps |-> 0]
  <2>1. m \in Message /\ _send(m) /\ m.batch = currentBatchId
    BY <1>2 DEF submitOrder, Message, TypeOK, OrderTypeOK, BatchTypeOK, Accounts
  <2>2. UNCHANGED <<batchVars, signed>>
        /\ lockedInBatch' = [lockedInBatch EXCEPT ![a] = currentBatchId]
    BY <1>2 DEF submitOrder
  <2>. HIDE DEF m
  <2>3. \A i \in DOMAIN sent' : sent'[i].msg.batch <= currentBatchId
    BY <2>1, SendNotAhead DEF BatchInv
  <2>4. \A o \in Accounts : lockedInBatch'[o] <= currentBatchId
    BY <2>2 DEF BatchInv, NotAhead, TypeOK, OrderTypeOK, BatchTypeOK, BatchIds
  <2>. QED BY <2>2, <2>3, <2>4 DEF BatchInv, BatchesInOrder, NotAhead, batchVars
<1>3. CASE runBatch
  <2>. DEFINE m == [op |-> "RUN_BATCH", order |-> 0, batch |-> currentBatchId,
                    trader |-> 0, ref |-> refPrice, bps |-> maxDeviationBps]
  <2>1. m \in Message /\ _send(m) /\ m.batch = currentBatchId
    BY <1>3 DEF runBatch, Message, TypeOK, BatchTypeOK, ConfigTypeOK, WorldTypeOK
  <2>2. UNCHANGED <<batchVars, signed, lockedInBatch>>
    BY <1>3 DEF runBatch, orderVars
  <2>. HIDE DEF m
  <2>3. \A i \in DOMAIN sent' : sent'[i].msg.batch <= currentBatchId
    BY <2>1, SendNotAhead DEF BatchInv
  <2>. QED BY <2>2, <2>3 DEF BatchInv, BatchesInOrder, NotAhead, batchVars
<1>4. ASSUME NEW s \in Settlements, NEW sigs \in SignatureLists, settle(s, sigs)
      PROVE  BatchInv'
  <2>1. UNCHANGED <<sent, signed, lockedInBatch>>
    BY <1>4 DEF settle, orderVars
  <2>2. PICK result : CloseBatch(s.batch, result)
    BY <1>4 DEF settle
  <2>. QED BY <1>4, <2>1, <2>2, SettlesOpenBatch, CloseKeepsInv
<1>5. CASE cancelBatch
  BY <1>5, CloseKeepsInv DEF cancelBatch, orderVars
<1>6. ASSUME NEW m \in Machines, NEW s \in Settlements, enclaveSigns(m, s) PROVE BatchInv'
  <2>1. /\ signed' = signed \union {<<m, s>>}
        /\ UNCHANGED <<currentBatchId, batchSettled, sent, lockedInBatch>>
        /\ m \in Compromised \/ Asked(m, s)
    BY <1>6 DEF enclaveSigns, batchVars, orderVars
  <2>2. m \notin Compromised /\ s.domain = Here => s.batch <= currentBatchId
    BY <2>1 DEF Asked, BatchInv, NotAhead
  <2>. QED BY <2>1, <2>2 DEF BatchInv, BatchesInOrder, NotAhead
<1>7. CASE UNCHANGED vars
  BY <1>1, <1>7 DEF vars, batchVars, orderVars
<1>. QED
  BY ZenonT(30), <1>1, <1>2, <1>3, <1>4, <1>5, <1>6, <1>7, NextCases
  DEF setExtensionId, addTee, setSignatureThreshold, setMaxDeviationBps, setFee,
      depositFor, withdraw, oracleUpdate, batchVars, orderVars

LEMMA BatchInvHolds == Spec /\ []HonestQuorum => []BatchInv
BY BatchInvInit, BatchInvStep, TypeCorrect, PTL DEF Spec

\* Batches close one after the other and none is skipped, as long as every
\* quorum has a machine that is not compromised.
THEOREM BatchOrder == Spec /\ []HonestQuorum => []BatchesInOrder
<1>1. BatchInv => BatchesInOrder
  BY DEF BatchInv
<1>. QED BY <1>1, BatchInvHolds, PTL

LEMMA LocksFromInv == TypeOK /\ BatchInv => LocksOpenBatchOnly
<1>. SUFFICES ASSUME TypeOK, BatchInv, NEW a \in Accounts, Locked(a)
              PROVE  lockedInBatch[a] = currentBatchId
  BY DEF LocksOpenBatchOnly
<1>1. lockedInBatch[a] \in BatchIds /\ ~batchSettled[lockedInBatch[a]]
  BY DEF Locked, TypeOK, OrderTypeOK
<1>2. lockedInBatch[a] <= currentBatchId /\ ~(lockedInBatch[a] < currentBatchId)
  BY <1>1 DEF BatchInv, NotAhead, BatchesInOrder
<1>. QED BY <1>1, <1>2 DEF TypeOK, BatchTypeOK, BatchIds

\* A balance is locked for the open batch or not at all, so closing that batch
\* frees it.
THEOREM Locks == Spec /\ []HonestQuorum => []LocksOpenBatchOnly
BY LocksFromInv, BatchInvHolds, TypeCorrect, PTL

-----------------------------------------------------------------------------
(* Outcomes *)

\* The two ways a batch closes, and that it was open.
LEMMA Closing ==
  ASSUME TypeOK, HonestQuorum, BatchInv, Next
  PROVE  \/ UNCHANGED batchVars
         \/ \E s \in Settlements, sigs \in SignatureLists :
              settle(s, sigs) /\ s.batch = currentBatchId
         \/ cancelBatch
<1>1. ASSUME NEW s \in Settlements, NEW sigs \in SignatureLists, settle(s, sigs)
      PROVE  s.batch = currentBatchId
  BY <1>1, SettlesOpenBatch
<1>. QED
  BY <1>1, NextCases
  DEF setExtensionId, addTee, setSignatureThreshold, setMaxDeviationBps, setFee,
      depositFor, withdraw, submitOrder, runBatch, oracleUpdate, enclaveSigns

LEMMA OpenIsNotSettled ==
  ASSUME TypeOK, BatchInv
  PROVE  currentBatchId \in BatchIds /\ ~batchSettled[currentBatchId]
<1>1. currentBatchId \in BatchIds
  BY DEF TypeOK, BatchTypeOK
<1>2. ~(currentBatchId < currentBatchId)
  BY <1>1 DEF BatchIds
<1>. QED BY <1>1, <1>2 DEF BatchInv, BatchesInOrder

Final == \A b \in BatchIds : batchSettled[b] => batchSettled'[b] /\ batches'[b] = batches[b]

LEMMA FinalStep ==
  ASSUME TypeOK, HonestQuorum, BatchInv, [Next]_vars
  PROVE  [Final]_vars
<1>. SUFFICES ASSUME Next PROVE Final
  OBVIOUS
<1>1. CASE UNCHANGED batchVars
  BY <1>1 DEF batchVars, Final
<1>2. ASSUME NEW result, CloseBatch(currentBatchId, result)
      PROVE  Final
  <2>1. SUFFICES ASSUME NEW b \in BatchIds, batchSettled[b]
                 PROVE  batchSettled'[b] /\ batches'[b] = batches[b]
    BY DEF Final
  <2>2. b # currentBatchId
    BY <2>1, OpenIsNotSettled
  <2>. QED BY <1>2, <2>1, <2>2 DEF CloseBatch, TypeOK, BatchTypeOK
<1>3. ASSUME NEW s \in Settlements, NEW sigs \in SignatureLists, settle(s, sigs),
             s.batch = currentBatchId
      PROVE  Final
  <2>1. PICK result : CloseBatch(currentBatchId, result)
    BY <1>3 DEF settle
  <2>. QED BY <1>2, <2>1
<1>4. CASE cancelBatch
  <2>. QED BY <1>2, <1>4 DEF cancelBatch
<1>. QED BY <1>1, <1>3, <1>4, Closing

\* The result of a batch is written once.
THEOREM Finality == Spec /\ []HonestQuorum => OutcomesFinal
<1>1. [][Final]_vars <=> OutcomesFinal
  BY PTL DEF Final, OutcomesFinal
<1>. QED BY <1>1, FinalStep, BatchInvHolds, TypeCorrect, PTL DEF Spec

\* No batch trades without the signatures of a threshold of distinct
\* registered machines.  Nothing is assumed about the machines here.
THEOREM QuorumRequired == Spec => QuorumBacked
<1>. DEFINE Backed ==
       \A b \in BatchIds :
         /\ ~batchSettled[b] /\ batchSettled'[b]
         /\ batches'[b].price # 0
         => \E s \in Settlements :
              /\ s.domain = Here /\ s.batch = b
              /\ batches'[b].price = s.price
              /\ Cardinality(SignersOf(s)) >= signatureThreshold
<1>1. TypeOK /\ [Next]_vars => [Backed]_vars
  <2>. SUFFICES ASSUME TypeOK, Next PROVE Backed
    OBVIOUS
  <2>1. CASE UNCHANGED batchVars
    BY <2>1 DEF batchVars
  <2>2. ASSUME NEW s \in Settlements, NEW sigs \in SignatureLists, settle(s, sigs)
        PROVE  Backed
    <3>. DEFINE result == [price |-> s.price, matched |-> s.matched, fee |-> Total(N, FeeOf(s)),
                           orders |-> batchOrderCount[s.batch]]
    <3>1. _verifyQuorum(s, sigs) /\ s.domain = Here /\ CloseBatch(s.batch, result)
      BY <2>2 DEF settle, MayExecute
    <3>2. Cardinality(SignersOf(s)) >= signatureThreshold
      BY <3>1, QuorumSigned
    <3>3. result.price = s.price
      OBVIOUS
    <3>. HIDE DEF result
    <3>4. SUFFICES ASSUME NEW b \in BatchIds, ~batchSettled[b], batchSettled'[b]
                   PROVE  s.batch = b /\ batches'[b].price = s.price
      BY <3>1, <3>2
    <3>5. s.batch = b
      BY <3>1, <3>4 DEF CloseBatch, TypeOK, BatchTypeOK
    <3>. QED BY <3>1, <3>3, <3>5 DEF CloseBatch, TypeOK, BatchTypeOK
  <2>3. CASE cancelBatch
    <3>. DEFINE result == [NoResult EXCEPT !.orders = batchOrderCount[currentBatchId]]
    <3>1. CloseBatch(currentBatchId, result)
      BY <2>3 DEF cancelBatch
    <3>2. result.price = 0
      BY DEF NoResult
    <3>. HIDE DEF result
    <3>3. SUFFICES ASSUME NEW b \in BatchIds, ~batchSettled[b], batchSettled'[b]
                   PROVE  batches'[b].price = 0
      OBVIOUS
    <3>4. currentBatchId = b
      BY <3>1, <3>3 DEF CloseBatch, TypeOK, BatchTypeOK
    <3>. QED BY <3>1, <3>2, <3>4 DEF CloseBatch, TypeOK, BatchTypeOK
  <2>. HIDE DEF Backed
  <2>. QED
    BY <2>1, <2>2, <2>3, NextCases
    DEF setExtensionId, addTee, setSignatureThreshold, setMaxDeviationBps, setFee,
        depositFor, withdraw, submitOrder, runBatch, oracleUpdate, enclaveSigns
<1>. QED BY <1>1, TypeCorrect, PTL DEF Spec, QuorumBacked

-----------------------------------------------------------------------------
(* What the record of a batch says *)

LEMMA OrderCountInit == Untraded => ClosedBatchTakesNoOrders
BY DEF Untraded, ClosedBatchTakesNoOrders

LEMMA OrderCountStep ==
  ASSUME TypeOK, HonestQuorum, BatchInv, ClosedBatchTakesNoOrders, [Next]_vars
  PROVE  ClosedBatchTakesNoOrders'
<1>1. CASE UNCHANGED <<batchVars, batchOrderCount>>
  BY <1>1 DEF ClosedBatchTakesNoOrders, batchVars
<1>2. ASSUME NEW a \in Accounts, submitOrder(a) PROVE ClosedBatchTakesNoOrders'
  <2>1. /\ UNCHANGED <<batchSettled, batches>>
        /\ batchOrderCount' = [batchOrderCount EXCEPT ![currentBatchId] = @ + 1]
    BY <1>2 DEF submitOrder, Plus, batchVars
  <2>2. SUFFICES ASSUME NEW b \in BatchIds, batchSettled[b]
                 PROVE  batches[b].orders = batchOrderCount'[b]
    BY <2>1 DEF ClosedBatchTakesNoOrders
  <2>3. b # currentBatchId
    BY <2>2, OpenIsNotSettled
  <2>4. batchOrderCount'[b] = batchOrderCount[b]
    BY <2>1, <2>3 DEF TypeOK, OrderTypeOK
  <2>. QED BY <2>2, <2>4 DEF ClosedBatchTakesNoOrders
<1>3. ASSUME NEW result, CloseBatch(currentBatchId, result), UNCHANGED batchOrderCount,
             result.orders = batchOrderCount[currentBatchId]
      PROVE  ClosedBatchTakesNoOrders'
  <2>1. SUFFICES ASSUME NEW b \in BatchIds, batchSettled'[b]
                 PROVE  batches'[b].orders = batchOrderCount[b]
    BY <1>3 DEF ClosedBatchTakesNoOrders
  <2>2. CASE b = currentBatchId
    BY <1>3, <2>2 DEF CloseBatch, TypeOK, BatchTypeOK
  <2>3. CASE b # currentBatchId
    <3>1. batchSettled[b] /\ batches'[b] = batches[b]
      BY <1>3, <2>1, <2>3 DEF CloseBatch, TypeOK, BatchTypeOK
    <3>. QED BY <3>1 DEF ClosedBatchTakesNoOrders
  <2>. QED BY <2>2, <2>3
<1>4. ASSUME NEW s \in Settlements, NEW sigs \in SignatureLists, settle(s, sigs)
      PROVE  ClosedBatchTakesNoOrders'
  <2>1. s.batch = currentBatchId
    BY <1>4, SettlesOpenBatch
  <2>2. PICK result : /\ CloseBatch(s.batch, result)
                      /\ result.orders = batchOrderCount[s.batch]
    <3>. DEFINE result == [price |-> s.price, matched |-> s.matched,
                           fee |-> Total(N, FeeOf(s)), orders |-> batchOrderCount[s.batch]]
    <3>1. CloseBatch(s.batch, result)
      BY <1>4 DEF settle
    <3>2. result.orders = batchOrderCount[s.batch]
      OBVIOUS
    <3>. HIDE DEF result
    <3>. QED BY <3>1, <3>2
  <2>3. UNCHANGED batchOrderCount
    BY <1>4 DEF settle, orderVars
  <2>. QED BY <1>3, <2>1, <2>2, <2>3
<1>5. CASE cancelBatch
  <2>. DEFINE result == [NoResult EXCEPT !.orders = batchOrderCount[currentBatchId]]
  <2>1. CloseBatch(currentBatchId, result) /\ UNCHANGED batchOrderCount
    BY <1>5 DEF cancelBatch, orderVars
  <2>2. result.orders = batchOrderCount[currentBatchId]
    BY DEF NoResult
  <2>. HIDE DEF result
  <2>. QED BY <1>3, <2>1, <2>2
<1>6. CASE UNCHANGED vars
  BY <1>1, <1>6 DEF vars, orderVars
<1>. QED
  BY <1>1, <1>2, <1>4, <1>5, <1>6, NextCases
  DEF setExtensionId, addTee, setSignatureThreshold, setMaxDeviationBps, setFee,
      depositFor, withdraw, runBatch, oracleUpdate, enclaveSigns, orderVars

\* The number of orders written down when a batch closed stays the number of
\* orders that were ever sent to it.
THEOREM OrderCount == Spec /\ []HonestQuorum => []ClosedBatchTakesNoOrders
<1>1. Init => Untraded
  BY DEF Init
<1>. QED BY <1>1, OrderCountInit, OrderCountStep, BatchInvHolds, TypeCorrect, PTL DEF Spec

\* An open batch has no fee, so recording one adds it exactly.
OpenBatchesOweNothing == \A b \in BatchIds : ~batchSettled[b] => batches[b].fee = 0

FeeInv == FeesAccounted /\ OpenBatchesOweNothing

LEMMA FeeRecordInit == Untraded => FeeInv
<1>. DEFINE feeOf == [b \in BatchIds |-> batches[b].fee]
<1>. SUFFICES ASSUME Untraded PROVE FeeInv
  OBVIOUS
<1>1. \A b \in BatchIds : batches[b].fee = 0
  BY DEF Untraded, NoResult
<1>2. feesCollected = 0
  BY DEF Untraded
<1>3. MaxBatchId \in Nat /\ feeOf \in [1..MaxBatchId -> Int] /\ \A i \in 1..MaxBatchId : feeOf[i] = 0
  BY <1>1, ConstantsAssumption DEF BatchIds
<1>4. Total(MaxBatchId, feeOf) = 0
  <2>. HIDE DEF feeOf
  <2>. QED BY <1>3, TotalZero
<1>. QED BY <1>1, <1>2, <1>4 DEF FeesAccounted, OpenBatchesOweNothing, FeeInv

LEMMA FeeRecordStep ==
  ASSUME TypeOK, TypeOK', HonestQuorum, BatchInv, FeeInv, [Next]_vars
  PROVE  FeeInv'
<1>. DEFINE feeOf == [b \in BatchIds |-> batches[b].fee]
<1>1. CASE UNCHANGED <<feesCollected, batchSettled, batches>>
  BY <1>1 DEF FeesAccounted, OpenBatchesOweNothing, FeeInv
<1>2. ASSUME NEW result, NEW charged \in Int, CloseBatch(currentBatchId, result),
             result.fee = charged, feesCollected' = feesCollected + charged
      PROVE  FeeInv'
  <2>1. batches' = [batches EXCEPT ![currentBatchId] = result]
        /\ batchSettled' = [batchSettled EXCEPT ![currentBatchId] = TRUE]
    BY <1>2 DEF CloseBatch
  <2>2. \A b \in BatchIds :
          batches'[b].fee = IF b = currentBatchId THEN charged ELSE batches[b].fee
    BY <1>2, <2>1 DEF TypeOK, BatchTypeOK
  <2>3. batches[currentBatchId].fee = 0
    BY OpenIsNotSettled DEF OpenBatchesOweNothing, FeeInv
  <2>4. OpenBatchesOweNothing'
    BY <2>1, <2>2 DEF OpenBatchesOweNothing, FeeInv, TypeOK, BatchTypeOK
  <2>5. FeesAccounted'
    <3>1. \A b \in BatchIds : batches[b].fee \in Int /\ batches'[b].fee \in Int
      BY DEF TypeOK, BatchTypeOK, Result
    <3>2. SUFFICES ASSUME NEW f, f = feeOf, NEW g, g = [b \in BatchIds |-> batches'[b].fee]
                   PROVE  feesCollected' = Total(MaxBatchId, g)
      BY DEF FeesAccounted
    <3>3. /\ MaxBatchId \in Nat /\ currentBatchId \in 1..MaxBatchId
          /\ f \in [1..MaxBatchId -> Int] /\ g \in [1..MaxBatchId -> Int]
          /\ f[currentBatchId] = 0
          /\ \A i \in 1..MaxBatchId : g[i] = IF i = currentBatchId THEN charged ELSE f[i]
      BY <2>2, <2>3, <3>1, <3>2, OpenIsNotSettled, ConstantsAssumption DEF BatchIds
    <3>4. Total(MaxBatchId, g) = Total(MaxBatchId, f) + (charged - f[currentBatchId])
      BY <3>3, TotalUpdate
    <3>5. feesCollected = Total(MaxBatchId, f)
      BY <3>2 DEF FeesAccounted, FeeInv
    <3>6. Total(MaxBatchId, f) \in Int
      BY <3>3, TotalType
    <3>. QED BY <1>2, <3>3, <3>4, <3>5, <3>6
  <2>. QED BY <2>4, <2>5 DEF FeeInv
<1>3. ASSUME NEW s \in Settlements, NEW sigs \in SignatureLists, settle(s, sigs)
      PROVE  FeeInv'
  <2>. DEFINE result == [price |-> s.price, matched |-> s.matched,
                         fee |-> Total(N, FeeOf(s)), orders |-> batchOrderCount[s.batch]]
  <2>1. CloseBatch(currentBatchId, result) /\ feesCollected' = feesCollected + Total(N, FeeOf(s))
    BY <1>3, SettlesOpenBatch DEF settle
  <2>2. result.fee = Total(N, FeeOf(s)) /\ Total(N, FeeOf(s)) \in Int
    BY FeeType
  <2>. HIDE DEF result
  <2>. QED BY <1>2, <2>1, <2>2
<1>4. CASE cancelBatch
  <2>. DEFINE result == [NoResult EXCEPT !.orders = batchOrderCount[currentBatchId]]
  <2>1. CloseBatch(currentBatchId, result) /\ feesCollected' = feesCollected + 0
    BY <1>4 DEF cancelBatch, ledger, TypeOK, LedgerTypeOK
  <2>2. result.fee = 0
    BY DEF NoResult
  <2>. HIDE DEF result
  <2>. QED BY <1>2, <2>1, <2>2
<1>5. CASE UNCHANGED vars
  BY <1>1, <1>5 DEF vars, ledger, batchVars
<1>. QED
  BY <1>1, <1>3, <1>4, <1>5, NextCases
  DEF setExtensionId, addTee, setSignatureThreshold, setMaxDeviationBps, setFee,
      depositFor, withdraw, submitOrder, runBatch, oracleUpdate, enclaveSigns,
      ledger, batchVars

\* Every fee collected is recorded with the batch that paid it, and the other
\* way round.
THEOREM FeeRecord == Spec /\ []HonestQuorum => []FeesAccounted
<1>1. Init => Untraded
  BY DEF Init
<1>2. FeeInv => FeesAccounted
  BY DEF FeeInv
<1>. QED BY <1>1, <1>2, FeeRecordInit, FeeRecordStep, BatchInvHolds, TypeCorrect, PTL DEF Spec

-----------------------------------------------------------------------------
(* The contract implements CustodyLedger *)

\* The instance has its own copy of the sum.
LEMMA SameTotal == \A n, f : Custody!Total(n, f) = Total(n, f)
BY DEF Custody!Total, Custody!Prefix, Total, Prefix

LEMMA PledgedIsLocked ==
  ASSUME TypeOK, BatchInv, NEW result, CloseBatch(currentBatchId, result),
         UNCHANGED lockedInBatch
  PROVE  {a \in Accounts : Locked(a)'} = {} /\ currentBatchId' = currentBatchId + 1
<1>1. /\ currentBatchId \in BatchIds /\ currentBatchId' = currentBatchId + 1
      /\ batchSettled \in [BatchIds -> BOOLEAN]
      /\ batchSettled' = [batchSettled EXCEPT ![currentBatchId] = TRUE]
  BY DEF TypeOK, BatchTypeOK, CloseBatch
<1>2. SUFFICES ASSUME NEW a \in Accounts, lockedInBatch[a] # 0
               PROVE  batchSettled'[lockedInBatch[a]]
  BY <1>1 DEF Locked
<1>3. lockedInBatch[a] \in BatchIds /\ lockedInBatch[a] <= currentBatchId
  BY <1>2 DEF TypeOK, OrderTypeOK, BatchInv, NotAhead
<1>4. CASE lockedInBatch[a] = currentBatchId
  BY <1>1, <1>4
<1>5. CASE lockedInBatch[a] # currentBatchId
  <2>1. lockedInBatch[a] < currentBatchId
    BY <1>1, <1>3, <1>5 DEF BatchIds
  <2>2. batchSettled[lockedInBatch[a]]
    BY <1>3, <2>1 DEF BatchInv, BatchesInOrder
  <2>. QED BY <1>1, <1>3, <1>5, <2>2
<1>. QED BY <1>4, <1>5

LEMMA CustodyInit == Init => Custody!Init
<1>. SUFFICES ASSUME Init PROVE Custody!Init
  OBVIOUS
<1>1. {a \in Accounts : Locked(a)} = {}
  BY DEF Init, Unfunded, Untraded, Locked
<1>2. /\ baseBalance = [a \in Accounts |-> 0] /\ quoteBalance = [a \in Accounts |-> 0]
      /\ baseHeld = 0 /\ quoteHeld = 0 /\ currentBatchId = 1
  BY DEF Init, Unfunded, Untraded
<1>3. Total(N, [a \in Accounts |-> 0]) = 0
  BY SMTT(30), ConstantsAssumption, TotalZero DEF Accounts
<1>4. Custody!Total(N, baseBalance) = baseHeld /\ Custody!Total(N, quoteBalance) = quoteHeld
  BY <1>2, <1>3, SameTotal, Zenon
<1>5. baseBalance \in [Accounts -> Nat] /\ quoteBalance \in [Accounts -> Nat]
  BY <1>2
<1>. QED BY <1>1, <1>2, <1>4, <1>5 DEF Custody!Init, Custody!Accounts, Accounts

LEMMA CustodyStep ==
  ASSUME TypeOK, TypeOK', HonestQuorum, BatchInv, [Next]_vars
  PROVE  [Custody!Next]_Custody!vars
<1>. DEFINE locked == {a \in Accounts : Locked(a)}
<1>1. CASE UNCHANGED <<baseBalance, quoteBalance, baseHeld, quoteHeld,
                       lockedInBatch, batchSettled, currentBatchId>>
  <2>1. UNCHANGED locked
    BY <1>1 DEF Locked
  <2>. QED BY <1>1, <2>1 DEF Custody!vars
<1>2. ASSUME NEW a \in Accounts, NEW r \in {0} \union Accounts, NEW b \in Nat, NEW q \in Nat,
             depositFor(a, r, b, q)
      PROVE  Custody!Next
  <2>1. /\ r \in Accounts
        /\ baseBalance' = Plus(baseBalance, r, b) /\ quoteBalance' = Plus(quoteBalance, r, q)
        /\ baseHeld' = baseHeld + b /\ quoteHeld' = quoteHeld + q
        /\ UNCHANGED <<lockedInBatch, batchSettled, currentBatchId>>
    BY <1>2 DEF depositFor, orderVars, batchVars
  <2>2. UNCHANGED locked
    BY <2>1 DEF Locked
  <2>3. /\ \A o \in Accounts \ {r} : baseBalance'[o] = baseBalance[o]
                                     /\ quoteBalance'[o] = quoteBalance[o]
        /\ baseBalance'[r] = baseBalance[r] + b /\ quoteBalance'[r] = quoteBalance[r] + q
    BY <2>1 DEF Plus, TypeOK, LedgerTypeOK
  <2>4. /\ baseHeld \in Int /\ quoteHeld \in Int
        /\ baseBalance[r] \in Nat /\ quoteBalance[r] \in Nat
    BY <2>1 DEF TypeOK, LedgerTypeOK, TokenTypeOK
  <2>5. /\ baseHeld' - baseHeld = baseBalance'[r] - baseBalance[r]
        /\ quoteHeld' - quoteHeld = quoteBalance'[r] - quoteBalance[r]
    BY <2>1, <2>3, <2>4
  <2>6. baseBalance'[r] >= baseBalance[r] /\ quoteBalance'[r] >= quoteBalance[r]
    BY <2>3, <2>4
  <2>7. Custody!Deposit(r)
    BY <2>1, <2>2, <2>3, <2>5, <2>6
    DEF Custody!Deposit, Custody!Moves, Custody!Accounts, Accounts
  <2>. QED BY <2>1, <2>7 DEF Custody!Next, Custody!Accounts, Accounts
<1>3. ASSUME NEW a \in Accounts, NEW b \in Nat, NEW q \in Nat, withdraw(a, b, q)
      PROVE  Custody!Next
  <2>1. /\ ~Locked(a) /\ b <= baseBalance[a] /\ q <= quoteBalance[a]
        /\ baseBalance' = Plus(baseBalance, a, -b) /\ quoteBalance' = Plus(quoteBalance, a, -q)
        /\ baseHeld' = baseHeld - b /\ quoteHeld' = quoteHeld - q
        /\ UNCHANGED <<lockedInBatch, batchSettled, currentBatchId>>
    BY <1>3 DEF withdraw, MayWithdraw, Covers, orderVars, batchVars
  <2>2. UNCHANGED locked /\ a \notin locked
    BY <2>1 DEF Locked
  <2>3. /\ \A o \in Accounts \ {a} : baseBalance'[o] = baseBalance[o]
                                     /\ quoteBalance'[o] = quoteBalance[o]
        /\ baseBalance'[a] = baseBalance[a] - b /\ quoteBalance'[a] = quoteBalance[a] - q
    BY <2>1 DEF Plus, TypeOK, LedgerTypeOK
  <2>4. Custody!Withdraw(a)
    BY SMTT(30), <2>1, <2>2, <2>3
    DEF Custody!Withdraw, Custody!Moves, Custody!Accounts, Accounts,
        TypeOK, LedgerTypeOK, TokenTypeOK
  <2>. QED BY <2>4 DEF Custody!Next, Custody!Accounts, Accounts
<1>4. ASSUME NEW a \in Accounts, submitOrder(a)
      PROVE  Custody!Next
  <2>1. /\ lockedInBatch' = [lockedInBatch EXCEPT ![a] = currentBatchId]
        /\ UNCHANGED <<ledger, tokens, batchSettled, currentBatchId>>
    BY <1>4 DEF submitOrder, batchVars
  <2>2. \A o \in Accounts : Locked(o)' <=> Locked(o) \/ o = a
    BY <2>1, OpenIsNotSettled DEF Locked, TypeOK, OrderTypeOK, BatchIds
  <2>3. locked' = locked \union {a}
    BY <2>2
  <2>4. Custody!Pledge(a)
    BY <2>1, <2>3 DEF Custody!Pledge, ledger, tokens
  <2>. QED BY <2>4 DEF Custody!Next, Custody!Accounts, Accounts
<1>5. ASSUME NEW result, CloseBatch(currentBatchId, result),
             Total(N, baseBalance') = Total(N, baseBalance),
             Total(N, quoteBalance') = Total(N, quoteBalance),
             UNCHANGED <<baseHeld, quoteHeld, lockedInBatch>>
      PROVE  Custody!Next
  <2>1. locked' = {} /\ currentBatchId' = currentBatchId + 1
    BY <1>5, PledgedIsLocked
  <2>2. \A a \in Accounts : baseBalance'[a] >= 0 /\ quoteBalance'[a] >= 0
    BY DEF TypeOK, LedgerTypeOK
  <2>3. Custody!CloseBatch
    BY <1>5, <2>1, <2>2, SameTotal DEF Custody!CloseBatch, Custody!Accounts, Accounts
  <2>. QED BY <2>3 DEF Custody!Next
<1>6. ASSUME NEW s \in Settlements, NEW sigs \in SignatureLists, settle(s, sigs)
      PROVE  Custody!Next
  <2>1. SettleOutcome(s) /\ s.batch = currentBatchId
    BY <1>6, SettleEffect, SettlesOpenBatch
  <2>2. PICK result : CloseBatch(currentBatchId, result)
    BY <2>1 DEF SettleOutcome
  <2>3. UNCHANGED <<baseHeld, quoteHeld, lockedInBatch>>
    BY <1>6 DEF settle, tokens, orderVars
  <2>. QED BY <1>5, <2>1, <2>2, <2>3, SettleConserves
<1>7. CASE cancelBatch
  BY <1>5, <1>7 DEF cancelBatch, ledger, tokens, orderVars
<1>8. CASE UNCHANGED vars
  BY <1>1, <1>8 DEF vars, ledger, tokens, orderVars, batchVars
<1>. QED
  BY <1>1, <1>2, <1>3, <1>4, <1>6, <1>7, <1>8, NextCases
  DEF setExtensionId, addTee, setSignatureThreshold, setMaxDeviationBps, setFee,
      runBatch, oracleUpdate, enclaveSigns, ledger, tokens, orderVars, batchVars

\* Refinement: every step of the contract is a step of the custody ledger or
\* leaves it alone.  A locked balance is a pledge, the open batch is the
\* current one; the quorum assumption is what makes a settlement close the
\* open batch and so release every pledge.
THEOREM Refinement == Spec /\ []HonestQuorum => ImplementsCustody
<1>1. TypeOK /\ TypeOK' /\ HonestQuorum /\ BatchInv /\ [Next]_vars
        => [Custody!Next]_Custody!vars
  BY CustodyStep
<1>. QED BY <1>1, CustodyInit, BatchInvHolds, TypeCorrect, PTL
         DEF Spec, ImplementsCustody, Custody!Spec

-----------------------------------------------------------------------------
(* The venue and its enclaves *)

Enclaves == INSTANCE EnclaveProofs WITH
  Traders <- Accounts, Requests <- {}, MaxSent <- MaxInstructions

-----------------------------------------------------------------------------
(* Extension and Enclaves are the same extension *)

LEMMA SameVolume ==
  ASSUME NEW orders
  PROVE  /\ \A S : Enclaves!Volume(orders, S) = Extension!Volume(orders, S)
         /\ \A side, p : Enclaves!eligible(orders, side, p) = Extension!eligible(orders, side, p)
BY DEF Enclaves!Volume, Extension!Volume, Enclaves!Total, Extension!Total,
       Enclaves!Prefix, Extension!Prefix, Enclaves!eligible, Extension!eligible,
       Enclaves!Accepts, Extension!Accepts

LEMMA SameMatched ==
  ASSUME NEW orders, NEW p
  PROVE  Enclaves!matchedAt(orders, p) = Extension!matchedAt(orders, p)
BY SameVolume
DEF Enclaves!matchedAt, Extension!matchedAt, Enclaves!Smaller, Extension!Smaller,
    Enclaves!demandAt, Extension!demandAt, Enclaves!supplyAt, Extension!supplyAt

LEMMA SameSearch ==
  ASSUME NEW orders, NEW ref
  PROVE  Enclaves!bestPrice(orders, ref) = Extension!bestPrice(orders, ref)
BY DEF Enclaves!bestPrice, Extension!bestPrice,
       Enclaves!MapThenFoldSet, Extension!MapThenFoldSet, Enclaves!Max, Extension!Max,
       Enclaves!candidatePrices, Extension!candidatePrices,
       Enclaves!better, Extension!better, Enclaves!Distance, Extension!Distance,
       Enclaves!matchedAt, Extension!matchedAt, Enclaves!imbalanceAt, Extension!imbalanceAt,
       Enclaves!demandAt, Extension!demandAt, Enclaves!supplyAt, Extension!supplyAt,
       Enclaves!eligible, Extension!eligible, Enclaves!Accepts, Extension!Accepts,
       Enclaves!Smaller, Extension!Smaller, Enclaves!Volume, Extension!Volume,
       Enclaves!Total, Extension!Total, Enclaves!Prefix, Extension!Prefix

LEMMA SameTakes ==
  ASSUME NEW orders, NEW p, NEW v, NEW i
  PROVE  Enclaves!take(orders, p, v, i) = Extension!take(orders, p, v, i)
BY SameVolume DEF Enclaves!take, Extension!take, Enclaves!Smaller, Extension!Smaller,
                  Enclaves!Before, Extension!Before

LEMMA SameAllocated ==
  ASSUME NEW orders, NEW p, NEW v
  PROVE  Enclaves!allocate(orders, p, v) = Extension!allocate(orders, p, v)
BY DEF Enclaves!allocate, Extension!allocate, Enclaves!Net, Extension!Net,
       Enclaves!take, Extension!take, Enclaves!QuoteFor, Extension!QuoteFor,
       Enclaves!VisitedBefore, Extension!VisitedBefore,
       Enclaves!Before, Extension!Before,
       Enclaves!eligible, Extension!eligible, Enclaves!Accepts, Extension!Accepts,
       Enclaves!Smaller, Extension!Smaller, Enclaves!Volume, Extension!Volume,
       Enclaves!Total, Extension!Total, Enclaves!Prefix, Extension!Prefix,
       Enclaves!Cardinality, Extension!Cardinality

LEMMA SameCount ==
  ASSUME NEW S
  PROVE  Enclaves!Cardinality(S) = Extension!Cardinality(S)
BY DEF Enclaves!Cardinality, Extension!Cardinality

LEMMA SameClear ==
  ASSUME NEW orders, NEW ref, NEW bps
  PROVE  Enclaves!Clear(orders, ref, bps) = Extension!Clear(orders, ref, bps)
<1>. DEFINE p == Extension!bestPrice(orders, ref)
            v == Extension!matchedAt(orders, p)
            idle == {i \in DOMAIN orders : Extension!take(orders, p, v, i) = 0}
            result(fills, unmatched) ==
              [error |-> "", price |-> p, matched |-> v, fills |-> fills,
               unmatched |-> unmatched]
            answer(fills, unmatched) ==
              IF p = 0 THEN Extension!Failed("ErrNoCross")
              ELSE IF ~Extension!withinBand(p, ref, bps) THEN Extension!Failed("ErrOutOfBand")
              ELSE result(fills, unmatched)
<1>1. Enclaves!bestPrice(orders, ref) = p /\ Enclaves!matchedAt(orders, p) = v
  BY SameSearch, SameMatched
<1>2. Enclaves!allocate(orders, p, v) = Extension!allocate(orders, p, v)
  BY SameAllocated
<1>3. {i \in DOMAIN orders : Enclaves!take(orders, p, v, i) = 0} = idle
  BY SameTakes
<1>4. Enclaves!Cardinality(idle) = Extension!Cardinality(idle)
  BY SameCount
<1>5. Enclaves!withinBand(p, ref, bps) <=> Extension!withinBand(p, ref, bps)
  BY DEF Enclaves!withinBand, Extension!withinBand, Enclaves!Distance, Extension!Distance
<1>6. \A reason : Enclaves!Failed(reason) = Extension!Failed(reason)
  BY DEF Enclaves!Failed, Extension!Failed
<1>7. Extension!Clear(orders, ref, bps)
        = answer(Extension!allocate(orders, p, v), Extension!Cardinality(idle))
  BY DEF Extension!Clear
<1>. HIDE DEF p, v, idle
<1>8. Enclaves!Clear(orders, ref, bps)
        = answer(Enclaves!allocate(orders, p, v),
                 Enclaves!Cardinality({i \in DOMAIN orders : Enclaves!take(orders, p, v, i) = 0}))
  BY <1>1, <1>5, <1>6 DEF Enclaves!Clear
<1>. HIDE DEF answer
<1>. QED BY <1>2, <1>3, <1>4, <1>7, <1>8

LEMMA SamePayload ==
  ASSUME NEW run
  PROVE  /\ Enclaves!Cleared(run) = Extension!Cleared(run)
         /\ Enclaves!Payload(run) = Extension!Payload(run)
BY SameClear DEF Enclaves!Cleared, Extension!Cleared, Enclaves!Payload, Extension!Payload,
                 Enclaves!Here, Extension!Here

LEMMA SameServing ==
  ASSUME NEW m, NEW i
  PROVE  /\ Extension!rejectOrder(m, i) => Enclaves!rejectOrder(m, i)
         /\ Extension!acceptOrder(m, i) => Enclaves!acceptOrder(m, i)
         /\ Extension!refuseRun(m, i) => Enclaves!refuseRun(m, i)
         /\ Extension!startRun(m, i) => Enclaves!startRun(m, i)
         /\ Extension!restart(m) => Enclaves!restart(m)
BY DEF Extension!rejectOrder, Enclaves!rejectOrder, Extension!acceptOrder, Enclaves!acceptOrder,
       Extension!refuseRun, Enclaves!refuseRun, Extension!startRun, Enclaves!startRun,
       Extension!restart, Enclaves!restart, Extension!Receives, Enclaves!Receives,
       Extension!parseSealedOrder, Enclaves!parseSealedOrder,
       Extension!OrderOf, Enclaves!OrderOf, Extension!NoBook, Enclaves!NoBook,
       Extension!BatchIds, Enclaves!BatchIds, Extension!memory, Enclaves!memory

LEMMA SameRuns ==
  ASSUME NEW run
  PROVE  /\ Extension!abandonRun(run) => Enclaves!abandonRun(run)
         /\ Extension!failToSign(run) => Enclaves!failToSign(run)
         /\ Extension!finishRun(run) => Enclaves!finishRun(run)
BY SamePayload
DEF Extension!abandonRun, Enclaves!abandonRun, Extension!failToSign, Enclaves!failToSign,
    Extension!finishRun, Enclaves!finishRun, Extension!DropBook, Enclaves!DropBook,
    Extension!memory, Enclaves!memory

LEMMA SameSizes ==
  ASSUME NEW S
  PROVE  Extension!SizeOf(S) = Enclaves!SizeOf(S)
BY DEF Extension!SizeOf, Enclaves!SizeOf, Extension!Total, Enclaves!Total,
       Extension!Prefix, Enclaves!Prefix

\* The assumptions of the enclaves' modules.
LEMMA EnclaveConstants ==
  /\ PriceScale \in Nat \ {0}
  /\ MaxBatchId \in Nat \ {0}
  /\ Garbled \notin Enclaves!Content
  /\ DOMAIN Sealed \subseteq Nat
  /\ \A id \in DOMAIN Sealed : Sealed[id] \in Enclaves!Content \union {Garbled}
BY SystemAssumption, ConstantsAssumption DEF Extension!Content, Enclaves!Content

-----------------------------------------------------------------------------
(* The invariant *)

\* The payloads that may come to be signed are all payloads: a compromised
\* machine may sign anything, and what an honest one computes is among them.
\* A behaviour with fewer Settlements is a behaviour of this, the largest, one.
AnySettlement == Settlements = Settlement

\* Behind every signature of a machine that is not compromised is a settlement
\* that its extension returned.
Vouched ==
  \A x \in signed : x[1] \in Trusted =>
    \E r \in returned : r.tee = x[1] /\ r.payload = x[2]

\* The contract numbers the orders it sends out.
Numbered ==
  \A i \in DOMAIN sent : sent[i].msg.op = "SUBMIT_ORDER" => sent[i].msg.order < nextOrderId

\* Whoever submitted an order to the open batch is locked in it.
SubmittersLocked ==
  \A i \in DOMAIN sent :
    sent[i].msg.op = "SUBMIT_ORDER" /\ sent[i].msg.batch = currentBatchId =>
      lockedInBatch[sent[i].msg.trader] = currentBatchId

SystemInv ==
  /\ AnySettlement
  /\ TypeOK
  /\ HonestQuorum
  /\ BatchInv
  /\ Enclaves!IInv
  /\ Vouched
  /\ Numbered
  /\ SubmittersLocked

LEMMA SystemTypeInit == SystemInit => TypeOK
<1>. SUFFICES ASSUME SystemInit PROVE TypeOK
  OBVIOUS
<1>1. PICK threshold \in 1..Cardinality(Machines) : Deployed(threshold)
  BY DEF SystemInit
<1>2. Cardinality(Machines) \in Nat
  BY ConstantsAssumption, FS_CardinalityType
<1>3. LedgerTypeOK
  BY <1>1, ConstantsAssumption DEF Deployed, Untraded, LedgerTypeOK
<1>4. TokenTypeOK
  <2>1. \A f \in [Accounts -> Nat] : Total(N, f) \in Nat
    BY ConstantsAssumption, TotalNat DEF Accounts
  <2>2. baseHeld \in Nat /\ quoteHeld \in Nat
    BY <1>1, <2>1, ConstantsAssumption DEF Deployed
  <2>. QED BY <1>1, <2>2 DEF Deployed, TokenTypeOK
<1>5. OrderTypeOK
  BY <1>1 DEF Deployed, Untraded, OrderTypeOK
<1>6. BatchTypeOK
  BY <1>1, ConstantsAssumption DEF Deployed, Untraded, BatchTypeOK, BatchIds, Result, NoResult
<1>7. ConfigTypeOK
  <2>1. /\ extensionIdSet = TRUE /\ teeSigners \in [1..Cardinality(Machines) -> Machines]
        /\ signatureThreshold = threshold /\ threshold \in Nat \ {0}
        /\ maxDeviationBps = 500 /\ feeBps = 5 /\ feeRecipient = Owner
    BY <1>1, <1>2 DEF Deployed, Untraded
  <2>2. teeSigners \in Seq(Machines)
    BY <1>2, <2>1
  <2>3. Owner \in Accounts /\ extensionIdSet \in BOOLEAN
    BY <2>1, ConstantsAssumption
  <2>4. feeBps \in 0..MAX_FEE_BPS
    BY <2>1 DEF MAX_FEE_BPS
  <2>. QED BY <2>1, <2>2, <2>3, <2>4 DEF ConfigTypeOK
<1>8. WorldTypeOK
  BY <1>1, ConstantsAssumption DEF Deployed, Untraded, WorldTypeOK
<1>. QED BY <1>3, <1>4, <1>5, <1>6, <1>7, <1>8 DEF TypeOK

LEMMA SystemInitInv == SystemInit /\ AnySettlement => SystemInv
<1>. SUFFICES ASSUME SystemInit, AnySettlement PROVE SystemInv
  OBVIOUS
<1>1. PICK threshold : Deployed(threshold)
  BY DEF SystemInit
<1>2. /\ sent = <<>> /\ signed = {} /\ lockedInBatch = [a \in Accounts |-> 0]
      /\ currentBatchId = 1 /\ batchSettled = [b \in BatchIds |-> FALSE]
  BY <1>1 DEF Deployed, Untraded
<1>3. DOMAIN sent = {}
  BY <1>2
<1>4. BatchInv
  <2>1. BatchesInOrder
    BY <1>2 DEF BatchesInOrder, BatchIds
  <2>2. NotAhead
    BY <1>2, <1>3 DEF NotAhead
  <2>. QED BY <2>1, <2>2 DEF BatchInv
<1>5. Enclaves!IInv
  <2>1. Enclaves!Init
    BY <1>2 DEF SystemInit, Started, Enclaves!Init, Enclaves!NoBook, Extension!NoBook,
                Enclaves!BatchIds, Extension!BatchIds
  <2>. QED BY <2>1, Enclaves!InitEstablishesInv, EnclaveConstants
<1>6. Vouched /\ Numbered /\ SubmittersLocked
  BY <1>2, <1>3 DEF Vouched, Numbered, SubmittersLocked
<1>7. TypeOK /\ HonestQuorum
  BY SystemTypeInit DEF SystemInit
<1>. QED BY <1>4, <1>5, <1>6, <1>7 DEF SystemInv

-----------------------------------------------------------------------------
(* A step of the whole is a step of the venue *)

\* What a finished run signs is a settlement that its machine was asked for.
LEMMA RunAnswers ==
  ASSUME SystemInv, NEW run \in running, Extension!finishRun(run)
  PROVE  /\ Enclaves!Started(run) /\ Enclaves!Cleared(run).error = ""
         /\ run.tee \in Machines
         /\ Extension!Payload(run) = Enclaves!Payload(run)
         /\ Extension!Payload(run) \in Settlements
         /\ Asked(run.tee, Extension!Payload(run))
<1>1. Enclaves!IInv /\ Enclaves!Started(run)
  BY DEF SystemInv, Enclaves!IInv
<1>2. Enclaves!Cleared(run).error = ""
  BY SameRuns DEF Enclaves!finishRun
<1>3. PICK s : s = Enclaves!Payload(run)
  OBVIOUS
<1>4. s \in [domain : {Here}, batch : BatchIds, price : Nat, matched : Nat,
             base : [Accounts -> Int], quote : [Accounts -> Int]]
  <2>1. Enclaves!BatchIds = BatchIds /\ Enclaves!Here = Here
    BY DEF Enclaves!BatchIds, BatchIds, Enclaves!Here, Here
  <2>2. Enclaves!Payload(run) \in
          [domain : {Enclaves!Here}, batch : Enclaves!BatchIds, price : Nat, matched : Nat,
           base : [Accounts -> Int], quote : [Accounts -> Int]]
    BY <1>1, <1>2, Enclaves!PayloadType, EnclaveConstants
  <2>. QED BY <1>3, <2>1, <2>2
<1>5. s \in Settlement
  BY <1>4 DEF Settlement, Domains
<1>6. s.batch = run.msg.batch
  BY <1>3 DEF Enclaves!Payload
<1>7. PICK i \in DOMAIN sent : /\ run.tee \in sent[i].tees /\ sent[i].msg.op = "RUN_BATCH"
                               /\ run.msg = sent[i].msg
  BY <1>1 DEF Enclaves!Started, Enclaves!RunOf
<1>8. Asked(run.tee, s)
  BY <1>6, <1>7 DEF Asked
<1>9. run.tee \in Machines /\ Settlements = Settlement
  BY <1>1 DEF Enclaves!Started, SystemInv, AnySettlement
<1>. QED BY <1>1, <1>2, <1>3, <1>5, <1>8, <1>9, SamePayload

LEMMA QuietStep ==
  ASSUME ServeQuietly
  PROVE  UNCHANGED <<contract, sent, signed>>
BY DEF ServeQuietly, Extension!rejectOrder, Extension!acceptOrder, Extension!refuseRun,
       Extension!startRun, Extension!abandonRun, Extension!failToSign, Extension!restart

LEMMA VenueStep ==
  ASSUME SystemInv, [SystemNext]_system
  PROVE  [Next]_vars
<1>1. CASE OnChain
  <2>1. TRUE \in BOOLEAN
    OBVIOUS
  <2>. QED BY <1>1, <2>1 DEF OnChain, Next, BalanceNext, WorldNext
<1>2. CASE ServeQuietly
  BY <1>2, QuietStep DEF contract, vars
<1>3. CASE PublishSettlement
  <2>1. PICK run \in running :
          /\ Extension!finishRun(run) /\ Cardinality(signed) < MaxSigned
          /\ signed' = signed \union {<<run.tee, Extension!Payload(run)>>}
          /\ UNCHANGED contract
    BY <1>3 DEF PublishSettlement
  <2>2. UNCHANGED sent
    BY <2>1 DEF Extension!finishRun
  <2>3. PICK m \in Machines, s \in Settlements :
          m = run.tee /\ s = Extension!Payload(run) /\ Asked(m, s)
    BY <2>1, RunAnswers
  <2>4. enclaveSigns(m, s)
    BY <2>1, <2>2, <2>3 DEF enclaveSigns, contract
  <2>. QED BY <2>4 DEF Next, WorldNext
<1>4. CASE Forge
  BY <1>4, ConstantsAssumption DEF Forge, Next, WorldNext
<1>5. CASE UNCHANGED system
  BY <1>5 DEF system, contract, vars
<1>. QED BY <1>1, <1>2, <1>3, <1>4, <1>5 DEF SystemNext

-----------------------------------------------------------------------------
(* A step of the whole keeps the invariant *)

\* What the contract adds to the log.
Sends(msg, tees) == sent' = Append(sent, [msg |-> msg, tees |-> tees])

\* The message of a submission, and of a run.
OrderMessage(trader) ==
  [op |-> "SUBMIT_ORDER", order |-> nextOrderId, batch |-> currentBatchId,
   trader |-> trader, ref |-> 0, bps |-> 0]

RunMessage ==
  [op |-> "RUN_BATCH", order |-> 0, batch |-> currentBatchId,
   trader |-> 0, ref |-> refPrice, bps |-> maxDeviationBps]

LEMMA SubmitSends ==
  ASSUME NEW a \in Accounts, submitOrder(a)
  PROVE  \E tees \in SUBSET Machines : Sends(OrderMessage(a), tees)
BY DEF submitOrder, _send, Sends, OrderMessage

LEMMA RunSends ==
  ASSUME runBatch
  PROVE  \E tees \in SUBSET Machines : Sends(RunMessage, tees)
BY DEF runBatch, _send, Sends, RunMessage

LEMMA MessagesWellFormed ==
  ASSUME SystemInv
  PROVE  /\ \A a \in Accounts : nextOrderId < MaxOrderId => Enclaves!WellFormed(OrderMessage(a))
         /\ Enclaves!WellFormed(RunMessage)
         /\ \A a : Enclaves!NewOrder(OrderMessage(a))
         /\ Enclaves!NewOrder(RunMessage)
<1>1. /\ currentBatchId \in Enclaves!BatchIds /\ refPrice \in Nat
      /\ nextOrderId \in Nat \ {0}
  BY DEF SystemInv, TypeOK, BatchTypeOK, OrderTypeOK, WorldTypeOK, BatchIds, Enclaves!BatchIds
<1>2. nextOrderId < MaxOrderId => nextOrderId \in DOMAIN Sealed
  BY <1>1, SystemAssumption, ConstantsAssumption
<1>3. ASSUME NEW a \in Accounts, nextOrderId < MaxOrderId
      PROVE  Enclaves!WellFormed(OrderMessage(a))
  BY <1>1, <1>2, <1>3 DEF Enclaves!WellFormed, OrderMessage
<1>4. Enclaves!WellFormed(RunMessage) /\ Enclaves!NewOrder(RunMessage)
  BY <1>1 DEF Enclaves!WellFormed, Enclaves!NewOrder, RunMessage
<1>5. ASSUME NEW a PROVE Enclaves!NewOrder(OrderMessage(a))
  <2>1. \A i \in DOMAIN sent :
          sent[i].msg.op = "SUBMIT_ORDER" => sent[i].msg.order # nextOrderId
    BY <1>1 DEF SystemInv, Numbered
  <2>. QED BY <2>1 DEF Enclaves!NewOrder, OrderMessage
<1>. QED BY <1>3, <1>4, <1>5

LEMMA SendsKeepsEnclaves ==
  ASSUME SystemInv, NEW msg, NEW tees \in SUBSET Machines, Sends(msg, tees),
         Enclaves!WellFormed(msg), Enclaves!NewOrder(msg), UNCHANGED enclaves
  PROVE  Enclaves!IInv'
<1>1. UNCHANGED <<Enclaves!memory, running, handled, returned>>
  BY DEF enclaves, Enclaves!memory
<1>. QED BY <1>1, Enclaves!SendKeepsInv, EnclaveConstants DEF Sends, SystemInv

\* Only a submission and the request of a run touch the log.
LEMMA OnChainLog ==
  ASSUME OnChain
  PROVE  \/ UNCHANGED sent
         \/ \E a \in Accounts : submitOrder(a)
         \/ runBatch
BY DEF OnChain, deposit, depositFor, withdraw, BatchNext, settle, cancelBatch, oracleUpdate

LEMMA EnclaveStep ==
  ASSUME SystemInv, [SystemNext]_system
  PROVE  Enclaves!IInv'
<1>1. Enclaves!IInv
  BY DEF SystemInv
<1>2. ASSUME UNCHANGED <<sent, enclaves>> PROVE Enclaves!IInv'
  <2>1. UNCHANGED Enclaves!vars
    BY <1>2 DEF enclaves, Enclaves!vars, Enclaves!memory
  <2>. QED BY <1>1, <2>1, Enclaves!StutterKeepsInv, EnclaveConstants
<1>3. CASE OnChain
  <2>1. UNCHANGED enclaves
    BY <1>3 DEF OnChain
  <2>2. ASSUME NEW a \in Accounts, submitOrder(a) PROVE Enclaves!IInv'
    <3>1. nextOrderId < MaxOrderId
      BY <2>2 DEF submitOrder
    <3>2. PICK tees \in SUBSET Machines : Sends(OrderMessage(a), tees)
      BY <2>2, SubmitSends
    <3>. QED BY <2>1, <3>1, <3>2, MessagesWellFormed, SendsKeepsEnclaves
  <2>3. ASSUME runBatch PROVE Enclaves!IInv'
    <3>1. PICK tees \in SUBSET Machines : Sends(RunMessage, tees)
      BY <2>3, RunSends
    <3>. QED BY <2>1, <3>1, MessagesWellFormed, SendsKeepsEnclaves
  <2>. QED BY <1>2, <1>3, <2>1, <2>2, <2>3, OnChainLog
<1>4. CASE ServeQuietly
  <2>1. ASSUME NEW m \in Machines, NEW i \in DOMAIN sent,
               \/ Extension!rejectOrder(m, i) \/ Extension!acceptOrder(m, i)
               \/ Extension!refuseRun(m, i) \/ Extension!startRun(m, i)
        PROVE  Enclaves!IInv'
    <3>1. \/ Enclaves!rejectOrder(m, i) \/ Enclaves!acceptOrder(m, i)
          \/ Enclaves!refuseRun(m, i) \/ Enclaves!startRun(m, i)
      BY <2>1, SameServing
    <3>2. Enclaves!Serve
      BY <3>1 DEF Enclaves!Serve
    <3>. QED BY <1>1, <3>2, Enclaves!ServeKeepsInv, EnclaveConstants
  <2>2. ASSUME NEW run \in running, Extension!abandonRun(run) \/ Extension!failToSign(run)
        PROVE  Enclaves!IInv'
    <3>1. Enclaves!Serve
      BY <2>2, SameRuns DEF Enclaves!Serve
    <3>. QED BY <1>1, <3>1, Enclaves!ServeKeepsInv, EnclaveConstants
  <2>3. ASSUME NEW m \in Machines, Extension!restart(m) PROVE Enclaves!IInv'
    <3>1. Enclaves!Serve
      BY <2>3, SameServing DEF Enclaves!Serve
    <3>. QED BY <1>1, <3>1, Enclaves!ServeKeepsInv, EnclaveConstants
  <2>. QED BY <1>4, <2>1, <2>2, <2>3 DEF ServeQuietly, Trusted
<1>5. CASE PublishSettlement
  <2>1. PICK run \in running : Enclaves!finishRun(run)
    BY <1>5, SameRuns DEF PublishSettlement
  <2>2. Enclaves!Serve
    BY <2>1 DEF Enclaves!Serve
  <2>. QED BY <1>1, <2>2, Enclaves!ServeKeepsInv, EnclaveConstants
<1>6. CASE Forge
  BY <1>2, <1>6 DEF Forge, enclaveSigns
<1>7. CASE UNCHANGED system
  BY <1>2, <1>7 DEF system
<1>. QED BY <1>3, <1>4, <1>5, <1>6, <1>7 DEF SystemNext

\* What a step does to the log, the locks and the open batch.
LEMMA LogCases ==
  ASSUME SystemInv, [SystemNext]_system
  PROVE  \/ UNCHANGED <<sent, lockedInBatch, nextOrderId, currentBatchId>>
         \/ \E a \in Accounts : submitOrder(a)
         \/ runBatch
         \/ /\ UNCHANGED <<sent, lockedInBatch, nextOrderId>>
            /\ \E result : CloseBatch(currentBatchId, result)
<1>1. CASE OnChain
  <2>1. ASSUME NEW s \in Settlements, NEW sigs \in SignatureLists, settle(s, sigs)
        PROVE  /\ UNCHANGED <<sent, lockedInBatch, nextOrderId>>
               /\ \E result : CloseBatch(currentBatchId, result)
    <3>1. s.batch = currentBatchId
      BY <2>1, SettlesOpenBatch DEF SystemInv
    <3>2. \E result : CloseBatch(s.batch, result)
      BY <2>1 DEF settle
    <3>3. UNCHANGED <<sent, lockedInBatch, nextOrderId>>
      BY <2>1 DEF settle, orderVars
    <3>. QED BY <3>1, <3>2, <3>3
  <2>2. cancelBatch => /\ UNCHANGED <<sent, lockedInBatch, nextOrderId>>
                       /\ \E result : CloseBatch(currentBatchId, result)
    BY DEF cancelBatch, orderVars
  <2>. QED BY <1>1, <2>1, <2>2
       DEF OnChain, deposit, depositFor, withdraw, BatchNext, oracleUpdate, orderVars, batchVars
<1>2. CASE ServeQuietly
  BY <1>2, QuietStep DEF contract, orderVars, batchVars
<1>3. CASE PublishSettlement
  BY <1>3 DEF PublishSettlement, contract, orderVars, batchVars, Extension!finishRun
<1>4. CASE Forge
  BY <1>4 DEF Forge, enclaveSigns, orderVars, batchVars
<1>5. CASE UNCHANGED system
  BY <1>5 DEF system, contract, orderVars, batchVars
<1>. QED BY <1>1, <1>2, <1>3, <1>4, <1>5 DEF SystemNext

\* The log after an instruction.
LEMMA LogEntries ==
  ASSUME SystemInv, NEW msg, NEW tees, Sends(msg, tees)
  PROVE  \A i \in DOMAIN sent' : \/ i \in DOMAIN sent /\ sent'[i] = sent[i]
                                 \/ sent'[i].msg = msg
<1>1. PICK x : x = [msg |-> msg, tees |-> tees]
  OBVIOUS
<1>2. sent' = Append(sent, x) /\ x.msg = msg
  BY <1>1 DEF Sends
<1>3. PICK S : S = Instruction \union {x}
  OBVIOUS
<1>4. sent \in Seq(S) /\ x \in S
  BY <1>3 DEF SystemInv, TypeOK, WorldTypeOK
<1>5. \A i \in DOMAIN sent' : (i \in DOMAIN sent /\ sent'[i] = sent[i]) \/ sent'[i] = x
  BY <1>2, <1>4
<1>. QED BY <1>2, <1>5

LEMMA NumberedStep ==
  ASSUME SystemInv, [SystemNext]_system
  PROVE  Numbered'
<1>1. nextOrderId \in Nat /\ \A i \in DOMAIN sent : sent[i].msg.order \in Nat
  <2>1. \A i \in DOMAIN sent : sent[i] \in Instruction
    BY DEF SystemInv, TypeOK, WorldTypeOK
  <2>. QED BY <2>1 DEF SystemInv, TypeOK, OrderTypeOK, Instruction, Message
<1>2. Numbered
  BY DEF SystemInv
<1>3. CASE UNCHANGED <<sent, nextOrderId>>
  BY <1>2, <1>3 DEF Numbered
<1>4. ASSUME NEW a \in Accounts, submitOrder(a) PROVE Numbered'
  <2>1. PICK tees, msg : Sends(msg, tees) /\ msg = OrderMessage(a)
    BY <1>4, SubmitSends
  <2>2. nextOrderId' = nextOrderId + 1 /\ msg.order = nextOrderId
    BY <1>4, <2>1 DEF submitOrder, OrderMessage
  <2>3. \A i \in DOMAIN sent' : (i \in DOMAIN sent /\ sent'[i] = sent[i]) \/ sent'[i].msg = msg
    BY <2>1, LogEntries
  <2>4. ASSUME NEW i \in DOMAIN sent', sent'[i].msg.op = "SUBMIT_ORDER"
        PROVE  sent'[i].msg.order < nextOrderId'
    <3>1. CASE i \in DOMAIN sent /\ sent'[i] = sent[i]
      BY <1>1, <1>2, <2>2, <2>4, <3>1 DEF Numbered
    <3>2. CASE sent'[i].msg = msg
      BY <1>1, <2>2, <3>2
    <3>. QED BY <2>3, <3>1, <3>2
  <2>. QED BY <2>4 DEF Numbered
<1>5. CASE runBatch
  <2>1. PICK tees, msg : Sends(msg, tees) /\ msg = RunMessage
    BY <1>5, RunSends
  <2>2. nextOrderId' = nextOrderId /\ msg.op # "SUBMIT_ORDER"
    BY <1>5, <2>1 DEF runBatch, orderVars, RunMessage
  <2>3. \A i \in DOMAIN sent' : (i \in DOMAIN sent /\ sent'[i] = sent[i]) \/ sent'[i].msg = msg
    BY <2>1, LogEntries
  <2>. QED BY <1>2, <2>2, <2>3 DEF Numbered
<1>. QED BY <1>3, <1>4, <1>5, LogCases

LEMMA SubmittersLockedStep ==
  ASSUME SystemInv, [SystemNext]_system
  PROVE  SubmittersLocked'
<1>1. SubmittersLocked /\ currentBatchId \in Nat /\ lockedInBatch \in [Accounts -> {0} \union BatchIds]
  BY DEF SystemInv, TypeOK, BatchTypeOK, OrderTypeOK, BatchIds
<1>2. CASE UNCHANGED <<sent, lockedInBatch, currentBatchId>>
  BY <1>1, <1>2 DEF SubmittersLocked
<1>3. ASSUME NEW a \in Accounts, submitOrder(a) PROVE SubmittersLocked'
  <2>1. PICK tees, msg : Sends(msg, tees) /\ msg = OrderMessage(a)
    BY <1>3, SubmitSends
  <2>2. /\ lockedInBatch' = [lockedInBatch EXCEPT ![a] = currentBatchId]
        /\ currentBatchId' = currentBatchId /\ msg.trader = a
    BY <1>3, <2>1 DEF submitOrder, batchVars, OrderMessage
  <2>3. \A i \in DOMAIN sent' : (i \in DOMAIN sent /\ sent'[i] = sent[i]) \/ sent'[i].msg = msg
    BY <2>1, LogEntries
  <2>4. ASSUME NEW i \in DOMAIN sent', sent'[i].msg.op = "SUBMIT_ORDER",
               sent'[i].msg.batch = currentBatchId'
        PROVE  lockedInBatch'[sent'[i].msg.trader] = currentBatchId'
    <3>1. lockedInBatch'[a] = currentBatchId'
      BY <1>1, <2>2
    <3>2. CASE i \in DOMAIN sent /\ sent'[i] = sent[i]
      <4>1. PICK t : t = sent[i].msg.trader
        OBVIOUS
      <4>2. t \in Accounts
        <5>1. Enclaves!WellFormed(sent[i].msg)
          BY <3>2 DEF SystemInv, Enclaves!IInv, Enclaves!LogOK
        <5>. QED BY <2>4, <3>2, <4>1, <5>1 DEF Enclaves!WellFormed
      <4>3. lockedInBatch[t] = currentBatchId
        BY <1>1, <2>2, <2>4, <3>2, <4>1 DEF SubmittersLocked
      <4>4. lockedInBatch'[t] = currentBatchId'
        BY <1>1, <2>2, <4>2, <4>3
      <4>. QED BY <3>2, <4>1, <4>4
    <3>3. CASE sent'[i].msg = msg
      BY <2>2, <3>1, <3>3
    <3>. QED BY <2>3, <3>2, <3>3
  <2>. QED BY <2>4 DEF SubmittersLocked
<1>4. CASE runBatch
  <2>1. PICK tees, msg : Sends(msg, tees) /\ msg = RunMessage
    BY <1>4, RunSends
  <2>2. UNCHANGED <<lockedInBatch, currentBatchId>> /\ msg.op # "SUBMIT_ORDER"
    BY <1>4, <2>1 DEF runBatch, orderVars, batchVars, RunMessage
  <2>3. \A i \in DOMAIN sent' : (i \in DOMAIN sent /\ sent'[i] = sent[i]) \/ sent'[i].msg = msg
    BY <2>1, LogEntries
  <2>. QED BY <1>1, <2>2, <2>3 DEF SubmittersLocked
<1>5. ASSUME UNCHANGED <<sent, lockedInBatch>>, NEW result, CloseBatch(currentBatchId, result)
      PROVE  SubmittersLocked'
  <2>1. currentBatchId' = currentBatchId + 1
    BY <1>5 DEF CloseBatch
  <2>2. ASSUME NEW i \in DOMAIN sent PROVE sent[i].msg.batch # currentBatchId'
    <3>1. sent[i].msg.batch <= currentBatchId
      BY DEF SystemInv, BatchInv, NotAhead
    <3>. QED BY <1>1, <2>1, <3>1
  <2>. QED BY <1>5, <2>2 DEF SubmittersLocked
<1>. QED BY <1>2, <1>3, <1>4, <1>5, LogCases

LEMMA VouchedStep ==
  ASSUME SystemInv, [SystemNext]_system
  PROVE  Vouched'
<1>1. Vouched
  BY DEF SystemInv
<1>2. CASE UNCHANGED <<signed, returned>>
  BY <1>1, <1>2 DEF Vouched
<1>3. CASE OnChain
  <2>1. UNCHANGED <<signed, returned>>
    BY <1>3 DEF OnChain, deposit, depositFor, withdraw, BatchNext, submitOrder, runBatch, settle,
                cancelBatch, oracleUpdate, enclaves
  <2>. QED BY <1>2, <2>1
<1>4. CASE ServeQuietly
  <2>1. UNCHANGED <<signed, returned>>
    BY <1>4 DEF ServeQuietly, Extension!rejectOrder, Extension!acceptOrder, Extension!refuseRun,
                Extension!startRun, Extension!abandonRun, Extension!failToSign, Extension!restart
  <2>. QED BY <1>2, <2>1
<1>5. CASE PublishSettlement
  <2>1. PICK run \in running :
          /\ Extension!finishRun(run)
          /\ signed' = signed \union {<<run.tee, Extension!Payload(run)>>}
    BY <1>5 DEF PublishSettlement
  <2>2. PICK r : /\ r.tee = run.tee /\ r.payload = Extension!Payload(run)
                 /\ returned' = returned \union {r}
    BY <2>1 DEF Extension!finishRun
  <2>3. ASSUME NEW x \in signed', x[1] \in Trusted
        PROVE  \E k \in returned' : k.tee = x[1] /\ k.payload = x[2]
    <3>1. CASE x \in signed
      BY <1>1, <2>2, <2>3, <3>1 DEF Vouched
    <3>2. CASE x = <<run.tee, Extension!Payload(run)>>
      BY <2>2, <3>2
    <3>. QED BY <2>1, <3>1, <3>2
  <2>. QED BY <2>3 DEF Vouched, Trusted
<1>6. CASE Forge
  <2>1. PICK m \in Compromised, s \in Settlements : enclaveSigns(m, s) /\ UNCHANGED enclaves
    BY <1>6 DEF Forge
  <2>2. signed' = signed \union {<<m, s>>} /\ returned' = returned /\ m \notin Trusted
    BY <2>1 DEF enclaveSigns, enclaves, Trusted
  <2>. QED BY <1>1, <2>2 DEF Vouched, Trusted
<1>7. CASE UNCHANGED system
  BY <1>2, <1>7 DEF system, enclaves
<1>. QED BY <1>3, <1>4, <1>5, <1>6, <1>7 DEF SystemNext

LEMMA QuorumStep ==
  ASSUME SystemInv, [SystemNext]_system
  PROVE  HonestQuorum'
<1>1. UNCHANGED signatureThreshold
  <2>1. CASE OnChain
    BY <2>1 DEF OnChain, deposit, depositFor, withdraw, BatchNext, submitOrder, runBatch, settle,
                cancelBatch, oracleUpdate, config
  <2>2. CASE ServeQuietly
    BY <2>2, QuietStep DEF contract, config
  <2>3. CASE PublishSettlement
    BY <2>3 DEF PublishSettlement, contract, config
  <2>4. CASE Forge
    BY <2>4 DEF Forge, enclaveSigns, config
  <2>5. CASE UNCHANGED system
    BY <2>5 DEF system, contract, config
  <2>. QED BY <2>1, <2>2, <2>3, <2>4, <2>5 DEF SystemNext
<1>. QED BY <1>1 DEF HonestQuorum, SystemInv

LEMMA SystemInvStep == SystemInv /\ [SystemNext]_system => SystemInv'
<1>. SUFFICES ASSUME SystemInv, [SystemNext]_system PROVE SystemInv'
  OBVIOUS
<1>1. TypeOK' /\ BatchInv'
  BY VenueStep, TypeStep, BatchInvStep DEF SystemInv
<1>2. HonestQuorum' /\ Enclaves!IInv' /\ Vouched' /\ Numbered' /\ SubmittersLocked'
  BY QuorumStep, EnclaveStep, VouchedStep, NumberedStep, SubmittersLockedStep
<1>3. AnySettlement'
  BY DEF AnySettlement, SystemInv
<1>. QED BY <1>1, <1>2, <1>3 DEF SystemInv

\* The invariant of the whole: what the contract locks, what it sends, what the
\* enclaves hold and what they signed fit together at every moment.
THEOREM SystemHolds == SystemSpec /\ AnySettlement => []SystemInv
BY SystemInitInv, SystemInvStep, PTL DEF SystemSpec

-----------------------------------------------------------------------------
(* What follows *)

\* Every step of the system is a step of the venue's own module or leaves it
\* alone; in particular an honest machine signs only what the venue asked for.
THEOREM VenueImplemented == SystemSpec /\ AnySettlement => ImplementsVenue
<1>1. SystemInv /\ [SystemNext]_system => [Next]_vars
  BY VenueStep
<1>. QED BY <1>1, SystemHolds, PTL DEF SystemSpec, ImplementsVenue

\* Behind what an honest machine signed is a run that came to it.
LEMMA HonestRun ==
  ASSUME SystemInv, NEW m \in Trusted, NEW s, <<m, s>> \in signed
  PROVE  \E r \in returned : /\ r.tee = m /\ r.payload = s
                             /\ Enclaves!Finished(r)
<1>1. PICK x \in signed : x = <<m, s>>
  OBVIOUS
<1>2. x[1] = m /\ x[2] = s
  BY <1>1
<1>3. PICK r \in returned : r.tee = m /\ r.payload = s
  BY <1>2 DEF SystemInv, Vouched
<1>. QED BY <1>3 DEF SystemInv, Enclaves!IInv

LEMMA InvLocksFills == SystemInv => FillsAreLocked
<1>. SUFFICES ASSUME SystemInv, NEW x \in signed, NEW m, NEW s, m = x[1], s = x[2],
                     m \in Trusted, s.batch = currentBatchId,
                     NEW a \in Accounts, s.base[a] # 0 \/ s.quote[a] # 0
              PROVE  Locked(a) /\ lockedInBatch[a] = s.batch
  BY DEF FillsAreLocked
<1>1. <<m, s>> \in signed
  BY DEF SystemInv, TypeOK, WorldTypeOK
<1>2. PICK r \in returned : r.payload = s /\ Enclaves!Finished(r)
  BY <1>1, HonestRun
<1>3. Enclaves!MoversSubmitted
  BY Enclaves!InvNamesMovers, EnclaveConstants DEF SystemInv
<1>4. r.payload.base[a] # 0 \/ r.payload.quote[a] # 0
  BY <1>2
<1>5. PICK i \in DOMAIN sent : /\ sent[i].msg.op = "SUBMIT_ORDER"
                               /\ sent[i].msg.batch = r.payload.batch
                               /\ sent[i].msg.trader = a
  BY <1>3, <1>4 DEF Enclaves!MoversSubmitted
<1>6. lockedInBatch[a] = currentBatchId
  BY <1>2, <1>5 DEF SystemInv, SubmittersLocked
<1>7. currentBatchId \in BatchIds /\ ~batchSettled[currentBatchId]
  BY OpenIsNotSettled DEF SystemInv
<1>. QED BY <1>6, <1>7 DEF Locked, BatchIds

\* A settlement that an honest machine signed for the open batch moves only
\* accounts that cannot withdraw before it is executed (submitOrder locks the
\* trader in the transaction that sends the order out).
THEOREM LocksHoldFills == SystemSpec /\ AnySettlement => []FillsAreLocked
BY SystemHolds, InvLocksFills, PTL

-----------------------------------------------------------------------------
(* The record of the whole *)

\* With the enclaves in the model that no settlement skips a batch is no longer
\* assumed of what the machines sign.  What the contract writes down about a
\* batch then holds of the deployed system: batches close in order, a balance
\* is locked for the open one only, a closed one takes no orders, and every fee
\* collected is recorded with the batch that paid it.
THEOREM SystemRecords ==
  SystemSpec /\ AnySettlement =>
    [](BatchesInOrder /\ LocksOpenBatchOnly /\ ClosedBatchTakesNoOrders /\ FeesAccounted)
<1>. DEFINE Records == ClosedBatchTakesNoOrders /\ FeeInv
<1>1. SystemInit => Records
  <2>1. SystemInit => Untraded
    BY DEF SystemInit, Deployed
  <2>. QED BY <2>1, OrderCountInit, FeeRecordInit
<1>2. SystemInv /\ SystemInv' /\ Records /\ [SystemNext]_system => Records'
  BY VenueStep, OrderCountStep, FeeRecordStep DEF SystemInv
<1>3. SystemInv /\ Records =>
        BatchesInOrder /\ LocksOpenBatchOnly /\ ClosedBatchTakesNoOrders /\ FeesAccounted
  BY LocksFromInv DEF SystemInv, BatchInv, FeeInv
<1>. HIDE DEF Records
<1>. QED BY <1>1, <1>2, <1>3, SystemHolds, PTL DEF SystemSpec

\* The result of a batch is written once, in the whole system too.
THEOREM SystemFinality == SystemSpec /\ AnySettlement => OutcomesFinal
<1>1. SystemInv /\ [SystemNext]_system => [Final]_vars
  BY VenueStep, FinalStep DEF SystemInv
<1>2. [][Final]_vars <=> OutcomesFinal
  BY PTL DEF Final, OutcomesFinal
<1>. QED BY <1>1, <1>2, SystemHolds, PTL DEF SystemSpec

-----------------------------------------------------------------------------
(* Consent *)

\* The sizes of the submissions in S, as in the enclaves' SizeOf.
SizesIn(S) ==
  [i \in 1..Len(sent) |-> IF i \in S THEN Sealed[sent[i].msg.order].size ELSE 0]

LEMMA SizeIsTotal ==
  ASSUME NEW S
  PROVE  /\ Extension!SizeOf(S) = Total(Len(sent), SizesIn(S))
         /\ Enclaves!SizeOf(S) = Total(Len(sent), SizesIn(S))
BY DEF SizesIn, Extension!SizeOf, Enclaves!SizeOf, Extension!Total, Enclaves!Total, Total,
       Extension!Prefix, Enclaves!Prefix, Prefix

LEMMA OfferedSizes ==
  ASSUME SystemInv, NEW a, NEW b, NEW side, NEW S, S \subseteq Offered(a, b, side)
  PROVE  /\ Len(sent) \in Nat
         /\ SizesIn(S) \in [1..Len(sent) -> Nat]
<1>1. Len(sent) \in Nat /\ DOMAIN sent = 1..Len(sent)
  BY DEF SystemInv, TypeOK, WorldTypeOK
<1>2. ASSUME NEW i \in 1..Len(sent), i \in S
      PROVE  Sealed[sent[i].msg.order].size \in Nat
  <2>1. /\ sent[i].msg.op = "SUBMIT_ORDER" /\ Sealed[sent[i].msg.order] # Garbled
        /\ Sealed[sent[i].msg.order].size > 0
    BY <1>2 DEF Offered
  <2>2. Enclaves!WellFormed(sent[i].msg)
    BY <1>1 DEF SystemInv, Enclaves!IInv, Enclaves!LogOK
  <2>3. PICK content : content = Sealed[sent[i].msg.order]
    OBVIOUS
  <2>4. content \in Enclaves!Content
    BY <2>1, <2>2, <2>3, EnclaveConstants DEF Enclaves!WellFormed
  <2>5. content.size \in Int
    BY <2>4 DEF Enclaves!Content
  <2>. QED BY <2>1, <2>3, <2>5
<1>. QED BY <1>1, <1>2 DEF SizesIn

\* What reached one machine is part of what was offered.
LEMMA SubmittedIsOffered ==
  ASSUME SystemInv, NEW m, NEW a, NEW b, NEW side
  PROVE  /\ Extension!SizeOf(Offered(a, b, side)) \in Nat
         /\ Enclaves!SizeOf(Enclaves!Submitted(m, b, a, side)) \in Nat
         /\ Enclaves!SizeOf(Enclaves!Submitted(m, b, a, side))
              <= Extension!SizeOf(Offered(a, b, side))
<1>1. PICK S, T : S = Enclaves!Submitted(m, b, a, side) /\ T = Offered(a, b, side)
  OBVIOUS
<1>2. S \subseteq T
  BY <1>1 DEF Enclaves!Submitted, Offered
<1>3. PICK f, g, n : f = SizesIn(S) /\ g = SizesIn(T) /\ n = Len(sent)
  OBVIOUS
<1>4. n \in Nat /\ f \in [1..n -> Nat] /\ g \in [1..n -> Nat]
  BY <1>1, <1>2, <1>3, OfferedSizes
<1>5. \A i \in 1..n : f[i] <= g[i]
  <2>1. SUFFICES ASSUME NEW i \in 1..n PROVE f[i] <= g[i]
    OBVIOUS
  <2>2. g[i] \in Nat /\ f[i] = (IF i \in S THEN Sealed[sent[i].msg.order].size ELSE 0)
        /\ g[i] = (IF i \in T THEN Sealed[sent[i].msg.order].size ELSE 0)
    BY <1>3, <1>4 DEF SizesIn
  <2>. QED BY <1>2, <2>2
<1>6. Total(n, f) <= Total(n, g) /\ Total(n, f) \in Nat /\ Total(n, g) \in Nat
  <2>1. f \in [1..n -> Int] /\ g \in [1..n -> Int]
    BY <1>4
  <2>. QED BY <1>4, <1>5, <2>1, TotalMonotone, TotalNat
<1>. QED BY <1>1, <1>3, <1>6, SizeIsTotal

\* A settlement that is executed moves an account within its offers.
LEMMA SettledWithinOffers ==
  ASSUME SystemInv, NEW s \in Settlements, NEW sigs \in SignatureLists, settle(s, sigs),
         NEW a \in Accounts
  PROVE  /\ s.base[a] <= Extension!SizeOf(Offered(a, s.batch, "buy"))
         /\ s.base[a] >= -Extension!SizeOf(Offered(a, s.batch, "sell"))
<1>1. PICK m \in Trusted : <<m, s>> \in signed
  BY HonestSigner DEF settle, SystemInv, Trusted
<1>2. PICK r \in returned : r.tee = m /\ r.payload = s
  BY <1>1, HonestRun
<1>3. Enclaves!FillsComeFromOrders
  BY Enclaves!InvBoundsFills, EnclaveConstants DEF SystemInv
<1>4. PICK bought, sold, mayBuy, maySell :
        /\ bought = Enclaves!SizeOf(Enclaves!Submitted(m, s.batch, a, "buy"))
        /\ sold = Enclaves!SizeOf(Enclaves!Submitted(m, s.batch, a, "sell"))
        /\ mayBuy = Extension!SizeOf(Offered(a, s.batch, "buy"))
        /\ maySell = Extension!SizeOf(Offered(a, s.batch, "sell"))
  OBVIOUS
<1>5. s.base[a] <= bought /\ s.base[a] >= -sold
  BY <1>2, <1>3, <1>4 DEF Enclaves!FillsComeFromOrders
<1>6. /\ bought \in Nat /\ sold \in Nat /\ mayBuy \in Nat /\ maySell \in Nat
      /\ bought <= mayBuy /\ sold <= maySell
  BY <1>4, SubmittedIsOffered
<1>7. s.base[a] \in Int
  BY ConstantsAssumption DEF Settlement
<1>8. s.base[a] <= mayBuy /\ s.base[a] >= -maySell
  BY <1>5, <1>6, <1>7
<1>. QED BY <1>4, <1>8

Within(b, a) ==
  LET moved == baseBalance'[a] - baseBalance[a] IN
  /\ moved <= Extension!SizeOf(Offered(a, b, "buy"))
  /\ moved >= -Extension!SizeOf(Offered(a, b, "sell"))

LEMMA ClosingWithinOffers ==
  ASSUME SystemInv, [SystemNext]_system, NEW b \in BatchIds, NEW a \in Accounts,
         ~batchSettled[b], batchSettled'[b]
  PROVE  Within(b, a)
<1>1. [Next]_vars
  BY VenueStep
<1>2. Next
  BY <1>1 DEF vars, batchVars
<1>3. baseBalance[a] \in Nat /\ batchSettled \in [BatchIds -> BOOLEAN]
  BY DEF SystemInv, TypeOK, LedgerTypeOK, BatchTypeOK
<1>4. ASSUME NEW s \in Settlements, NEW sigs \in SignatureLists, settle(s, sigs)
      PROVE  Within(b, a)
  <2>1. SettleOutcome(s)
    BY <1>4, SettleEffect
  <2>2. baseBalance'[a] = baseBalance[a] + s.base[a] /\ s.base[a] \in Int
    BY <2>1 DEF SettleOutcome, Settlement
  <2>3. b = s.batch
    BY <1>3, <2>1 DEF SettleOutcome, CloseBatch
  <2>4. baseBalance'[a] - baseBalance[a] = s.base[a]
    BY <1>3, <2>2
  <2>5. /\ s.base[a] <= Extension!SizeOf(Offered(a, b, "buy"))
        /\ s.base[a] >= -Extension!SizeOf(Offered(a, b, "sell"))
    BY <1>4, <2>3, SettledWithinOffers
  <2>. QED BY <2>4, <2>5 DEF Within
<1>5. CASE cancelBatch
  <2>1. baseBalance'[a] - baseBalance[a] = 0
    BY <1>3, <1>5 DEF cancelBatch, ledger
  <2>2. PICK mayBuy, maySell : /\ mayBuy = Extension!SizeOf(Offered(a, b, "buy"))
                               /\ maySell = Extension!SizeOf(Offered(a, b, "sell"))
    OBVIOUS
  <2>3. mayBuy \in Nat /\ maySell \in Nat
    BY <2>2, SubmittedIsOffered
  <2>4. 0 <= mayBuy /\ 0 >= -maySell
    BY <2>3
  <2>. QED BY <2>1, <2>2, <2>4 DEF Within
<1>. QED BY <1>2, <1>4, <1>5, Closing DEF SystemInv, batchVars

\* Consent, end to end: whatever the compromised machines sign, the closing of
\* a batch moves an account by no more base than that account sealed and
\* submitted to it (parseSealedOrder, the fills of the auction, the batch in
\* the payload, and _verifyQuorum).
THEOREM TradesAreConsented == SystemSpec /\ AnySettlement => ConsentedTrades
<1>. DEFINE Consented ==
       \A b \in BatchIds, a \in Accounts : ~batchSettled[b] /\ batchSettled'[b] => Within(b, a)
<1>1. SystemInv /\ [SystemNext]_system => [Consented]_system
  BY ClosingWithinOffers
<1>2. [][Consented]_system <=> ConsentedTrades
  BY PTL DEF ConsentedTrades, Within
<1>. HIDE DEF Consented
<1>. QED BY <1>1, <1>2, SystemHolds, PTL DEF SystemSpec

-----------------------------------------------------------------------------
(* Custody *)

LEMMA SystemCustodyInit == SystemInit => Custody!Init
<1>. SUFFICES ASSUME SystemInit PROVE Custody!Init
  OBVIOUS
<1>1. PICK threshold : Deployed(threshold)
  BY DEF SystemInit
<1>2. /\ baseBalance = WalletBase /\ quoteBalance = WalletQuote
      /\ baseHeld = Total(N, WalletBase) /\ quoteHeld = Total(N, WalletQuote)
      /\ currentBatchId = 1 /\ lockedInBatch = [a \in Accounts |-> 0]
  BY <1>1 DEF Deployed, Untraded
<1>3. {a \in Accounts : Locked(a)} = {}
  BY <1>2 DEF Locked
<1>4. Custody!Total(N, baseBalance) = baseHeld /\ Custody!Total(N, quoteBalance) = quoteHeld
  BY <1>2, SameTotal, Zenon
<1>5. baseBalance \in [Accounts -> Nat] /\ quoteBalance \in [Accounts -> Nat]
  BY <1>2, ConstantsAssumption
<1>. QED BY <1>2, <1>3, <1>4, <1>5 DEF Custody!Init, Custody!Accounts, Accounts

\* With the enclaves in the model the venue keeps its promise to those whose
\* tokens it holds: that no settlement skips a batch is no longer assumed of
\* what the machines sign, it is what the extension does.
THEOREM SystemKeepsCustody == SystemSpec /\ AnySettlement => ImplementsCustody
<1>1. SystemInv /\ SystemInv' /\ [SystemNext]_system => [Custody!Next]_Custody!vars
  BY VenueStep, CustodyStep DEF SystemInv
<1>. QED BY <1>1, SystemCustodyInit, SystemHolds, PTL DEF SystemSpec, ImplementsCustody, Custody!Spec

=============================================================================
