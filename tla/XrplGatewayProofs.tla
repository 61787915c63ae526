------------------------- MODULE XrplGatewayProofs -------------------------
(***************************************************************************)
(* Theorems about the XRPL gateway among its relayers: for any payments,   *)
(* any traders, any prices and any number of clients, every payment is     *)
(* credited once, to whom it names, and the float is never overdrawn.      *)
(***************************************************************************)
EXTENDS XrplRelay, LedgerSumsTheorems, TLAPS

(* Quotes *)

\* What truncating division does, stated with products only.
LEMMA Division ==
  ASSUME NEW a \in Nat, NEW s \in Nat \ {0}
  PROVE  /\ a \div s \in Nat
         /\ (a \div s) * s <= a
         /\ a < (a \div s) * s + s
BY SMT

\* A quotient is below a bound when the dividend is below its multiple.
LEMMA DivisionBound ==
  ASSUME NEW a \in Nat, NEW s \in Nat \ {0}, NEW c \in Nat, a < c * s + s
  PROVE  a \div s <= c
<1>. DEFINE q == a \div s
<1>1. q \in Nat /\ q * s <= a
  BY Division
<1>. HIDE DEF q
<1>2. q * s < c * s + s
  BY <1>1, SMT
<1>3. q * s < (c + 1) * s
  BY <1>1, <1>2, SMT
<1>4. q < c + 1
  BY <1>1, <1>3, SMT
<1>. QED BY <1>1, <1>4 DEF q

LEMMA QuoteType ==
  ASSUME NEW drops \in Nat, NEW p \in Nat
  PROVE  Quote(drops, p) \in Nat
<1>1. drops * p \in Nat
  BY SMT
<1>2. PriceScale \in Nat \ {0}
  BY GatewayAssumption
<1>. QED BY <1>1, <1>2, Division DEF Quote

LEMMA QuoteMonotone ==
  ASSUME NEW drops \in Nat, NEW p \in Nat, NEW q \in Nat, p <= q
  PROVE  Quote(drops, p) <= Quote(drops, q)
<1>. DEFINE S == PriceScale
            a == drops * p
            b == drops * q
<1>1. S \in Nat \ {0}
  BY GatewayAssumption
<1>2. a \in Nat /\ b \in Nat /\ a <= b
  BY SMT
<1>. HIDE DEF S, a, b
<1>3. b \div S \in Nat /\ b < (b \div S) * S + S
  BY <1>1, <1>2, Division
<1>. DEFINE c == b \div S
<1>4. c \in Nat /\ b < c * S + S
  BY <1>3
<1>. HIDE DEF c
<1>5. a < c * S + S
  BY <1>1, <1>2, <1>4, SMT
<1>6. a \div S <= c
  BY <1>1, <1>2, <1>4, <1>5, DivisionBound
<1>. QED BY <1>6 DEF Quote, S, a, b, c

-----------------------------------------------------------------------------
(* Types, and the relayers as users of the gateway *)

\* What a successful claim tells of its payment.
LEMMA Claimed ==
  ASSUME TypeOK, NEW r \in Responses, MayFund(r)
  PROVE  /\ r.tx \in Payments
         /\ r.body = Ledger[r.tx]
         /\ Paid(r.body)
         /\ r.body.received \in Nat
         /\ r.body.reference \in Traders
         /\ price \in LowPrice..HighPrice
         /\ price \in Nat
         /\ Quote(r.body.received, price) \in 0..float
<1>1. r.tx \in Payments /\ r.body \in Body /\ r.body = Ledger[r.tx]
  BY GatewayAssumption DEF MayFund, Response
<1>2. r.body.received \in Int /\ r.body.reference \in 0..N
  BY <1>1, Zenon DEF Body
<1>. DEFINE received == r.body.received
            reference == r.body.reference
<1>3. Paid(r.body) /\ received \in Nat /\ reference \in Traders
  <2>1. Paid(r.body) /\ received > 0 /\ reference # 0
    BY Zenon DEF MayFund, Paid
  <2>2. received \in Int /\ reference \in 0..N /\ N \in Nat
    BY <1>2, GatewayAssumption
  <2>. HIDE DEF received, reference
  <2>. QED BY <2>1, <2>2 DEF Traders
<1>4. price \in LowPrice..HighPrice /\ price \in Nat
  BY GatewayAssumption DEF TypeOK, MayFund
<1>5. Quote(r.body.received, price) \in Nat
  BY <1>3, <1>4, QuoteType
<1>6. Quote(r.body.received, price) <= float /\ float \in Nat
  BY DEF MayFund, Covered, TypeOK
<1>7. Quote(r.body.received, price) \in 0..float
  BY <1>5, <1>6
<1>. QED BY <1>1, <1>3, <1>4, <1>7

LEMMA FundType ==
  ASSUME TypeOK, NEW r \in Responses, fund(r)
  PROVE  TypeOK'
<1>. DEFINE q == Quote(r.body.received, price)
<1>1. /\ r.tx \in Payments
      /\ r.body.received \in Nat
      /\ r.body.reference \in Traders
      /\ q \in 0..float
  BY Claimed DEF fund
<1>2. /\ claimed' = [claimed EXCEPT ![r.tx] = TRUE]
      /\ totalDropsCredited' = totalDropsCredited + r.body.received
      /\ float' = float - q
      /\ credited' = [credited EXCEPT ![r.body.reference] = @ + q]
      /\ UNCHANGED <<owner, published, price>>
  BY DEF fund
<1>. HIDE DEF q
<1>3. claimed' \in [Payments -> BOOLEAN]
  BY <1>2 DEF TypeOK
<1>4. totalDropsCredited' \in Nat /\ float' \in Nat
  BY <1>1, <1>2 DEF TypeOK
<1>5. credited' \in [Traders -> Nat]
  BY <1>1, <1>2 DEF TypeOK
<1>. QED BY <1>2, <1>3, <1>4, <1>5 DEF TypeOK

LEMMA TypeInit == Init => TypeOK
BY GatewayAssumption DEF Init, TypeOK, Payments, Traders

LEMMA TypeStep ==
  ASSUME TypeOK, [Next]_gateway
  PROVE  TypeOK'
<1>1. CASE UNCHANGED gateway
  BY <1>1 DEF gateway, record, TypeOK
<1>2. CASE FloatNext
  <2>1. ASSUME NEW caller \in Callers, NEW amount \in Amounts, withdraw(caller, amount)
        PROVE  TypeOK'
    BY <2>1, GatewayAssumption DEF withdraw, record, TypeOK
  <2>2. ASSUME NEW caller \in Callers, NEW newOwner \in Callers,
               transferOwnership(caller, newOwner)
        PROVE  TypeOK'
    BY <2>2 DEF transferOwnership, record, TypeOK
  <2>3. ASSUME NEW amount \in Amounts, topUp(amount) PROVE TypeOK'
    BY <2>3, GatewayAssumption DEF topUp, record, TypeOK
  <2>4. ASSUME NEW p \in Prices, feedUpdate(p) PROVE TypeOK'
    BY <2>4 DEF feedUpdate, record, TypeOK
  <2>. QED BY <1>2, <2>1, <2>2, <2>3, <2>4 DEF FloatNext
<1>3. ASSUME NEW r \in Responses, publish(r) PROVE TypeOK'
  BY <1>3 DEF publish, record, TypeOK
<1>4. ASSUME NEW r \in Responses, fund(r) PROVE TypeOK'
  BY <1>4, FundType
<1>. QED BY <1>1, <1>2, <1>3, <1>4 DEF Next

\* Whatever the clients, the chain and the Data Connector do is to the gateway
\* one of its own steps.
LEMMA GatewayStep ==
  ASSUME TypeOK, [RelayNext]_vars
  PROVE  [Next]_gateway
<1>1. CASE UNCHANGED vars
  BY <1>1 DEF vars
<1>2. ASSUME NEW c \in Clients, ClientStep(c) \/ neverAnswered(c) PROVE UNCHANGED gateway
  BY <1>2 DEF ClientStep, requestAttestation, pollInVain, pollProof, checkClaimed,
     sendFund, receive, fail, neverAnswered
<1>3. ASSUME NEW c \in Clients, NEW x \in Payments, start(c, x) PROVE UNCHANGED gateway
  BY <1>3 DEF start
<1>4. ASSUME NEW t \in pending, execute(t) PROVE [Next]_gateway
  <2>1. CASE fund(t.proof)
    <3>1. t.proof \in Responses
      BY <2>1 DEF fund, MayFund, TypeOK
    <3>. QED BY <2>1, <3>1 DEF Next
  <2>2. CASE UNCHANGED gateway
    BY <2>2
  <2>. QED BY <1>4, <2>1, <2>2 DEF execute
<1>5. CASE closeRound
  BY <1>5 DEF closeRound
<1>6. ASSUME NEW r \in Responses, finalise(r) PROVE Next
  BY <1>6 DEF finalise, Next
<1>7. CASE Elsewhere
  <2>1. ASSUME NEW r \in published, fund(r) PROVE Next
    <3>1. r \in Responses
      BY DEF TypeOK
    <3>. QED BY <2>1, <3>1 DEF Next
  <2>. QED BY <1>7, <2>1 DEF Elsewhere, Next
<1>. QED BY <1>1, <1>2, <1>3, <1>4, <1>5, <1>6, <1>7 DEF RelayNext

\* With any number of clients, nothing goes out of range; the float of
\* XrplGateway.fund is never overdrawn, so depositFor never fails half way.
THEOREM TypeCorrect == RelaySpec => []TypeOK
<1>1. RelayInit => TypeOK
  BY TypeInit DEF RelayInit
<1>2. TypeOK /\ [RelayNext]_vars => TypeOK'
  BY GatewayStep, TypeStep
<1>. QED BY <1>1, <1>2, PTL DEF RelaySpec

\* The relayers (the claim and settle routes, xrpl-fund) implement the gateway
\* module: whatever holds of XrplGateway's Spec holds with them.
THEOREM RelayImplementsGateway == RelaySpec => Spec
<1>1. RelayInit => Init
  BY DEF RelayInit
<1>2. TypeOK /\ [RelayNext]_vars => [Next]_gateway
  BY GatewayStep
<1>. QED BY <1>1, <1>2, TypeCorrect, PTL DEF RelaySpec, Spec

-----------------------------------------------------------------------------
(* Every payment is credited once, to whom it names *)

\* The entries that Worth and Honoured add up.
WorthOf(c, t, p) ==
  [x \in Payments |-> IF c[x] /\ Paid(Ledger[x]) /\ Ledger[x].reference = t
                      THEN Quote(Ledger[x].received, p) ELSE 0]

DropsOf(c) == [x \in Payments |-> IF c[x] THEN Ledger[x].received ELSE 0]

\* What a payment brought, when it did.
LEMMA PaidReceived ==
  ASSUME NEW x \in Payments
  PROVE  /\ Ledger[x].received \in Int
         /\ Paid(Ledger[x]) => Ledger[x].received \in Nat
<1>1. Ledger[x] \in Body
  BY GatewayAssumption
<1>2. Ledger[x].received \in Int
  BY <1>1, Zenon DEF Body
<1>. QED BY <1>2 DEF Paid

LEMMA WorthType ==
  ASSUME NEW c \in [Payments -> BOOLEAN], NEW t, NEW p \in Nat
  PROVE  WorthOf(c, t, p) \in [1..P -> Nat]
<1>1. ASSUME NEW x \in Payments, Paid(Ledger[x]) PROVE Quote(Ledger[x].received, p) \in Nat
  BY <1>1, PaidReceived, QuoteType
<1>. QED BY <1>1 DEF WorthOf, Payments

LEMMA DropsType ==
  ASSUME NEW c \in [Payments -> BOOLEAN]
  PROVE  DropsOf(c) \in [1..P -> Int]
BY PaidReceived DEF DropsOf, Payments

\* A claim adds the worth of its payment, once, to the trader it names, and
\* nothing to anyone else.
LEMMA ClaimWorth ==
  ASSUME NEW c \in [Payments -> BOOLEAN], NEW x \in Payments, ~c[x], Paid(Ledger[x]),
         NEW t, NEW p \in Nat
  PROVE  Total(P, WorthOf([c EXCEPT ![x] = TRUE], t, p))
           = Total(P, WorthOf(c, t, p))
             + (IF Ledger[x].reference = t THEN Quote(Ledger[x].received, p) ELSE 0)
<1>. DEFINE d == [c EXCEPT ![x] = TRUE]
            f == WorthOf(c, t, p)
            h == WorthOf(d, t, p)
            v == IF Ledger[x].reference = t THEN Quote(Ledger[x].received, p) ELSE 0
<1>1. d \in [Payments -> BOOLEAN]
  OBVIOUS
<1>2. f \in [1..P -> Nat] /\ h \in [1..P -> Nat]
  BY <1>1, WorthType
<1>3. v \in Nat
  BY PaidReceived, QuoteType
<1>4. f[x] = 0 /\ \A i \in 1..P : h[i] = IF i = x THEN v ELSE f[i]
  BY DEF WorthOf, Payments
<1>5. x \in 1..P /\ P \in Nat
  BY GatewayAssumption DEF Payments
<1>. HIDE DEF d, f, h, v
<1>6. f \in [1..P -> Int] /\ h \in [1..P -> Int] /\ v \in Int
  BY <1>2, <1>3
<1>7. Total(P, h) = Total(P, f) + (v - f[x])
  BY <1>4, <1>5, <1>6, TotalUpdate
<1>8. Total(P, f) \in Int
  BY <1>5, <1>6, TotalType
<1>9. Total(P, h) = Total(P, f) + v
  BY <1>3, <1>4, <1>7, <1>8
<1>. QED BY <1>9 DEF d, f, h, v

LEMMA ClaimDrops ==
  ASSUME NEW c \in [Payments -> BOOLEAN], NEW x \in Payments, ~c[x]
  PROVE  Total(P, DropsOf([c EXCEPT ![x] = TRUE])) = Total(P, DropsOf(c)) + Ledger[x].received
<1>. DEFINE d == [c EXCEPT ![x] = TRUE]
            f == DropsOf(c)
            h == DropsOf(d)
            v == Ledger[x].received
<1>1. d \in [Payments -> BOOLEAN]
  OBVIOUS
<1>2. f \in [1..P -> Int] /\ h \in [1..P -> Int] /\ v \in Int
  BY <1>1, DropsType, PaidReceived
<1>3. f[x] = 0 /\ \A i \in 1..P : h[i] = IF i = x THEN v ELSE f[i]
  BY DEF DropsOf, Payments
<1>4. x \in 1..P /\ P \in Nat
  BY GatewayAssumption DEF Payments
<1>. HIDE DEF d, f, h, v
<1>5. Total(P, h) = Total(P, f) + (v - f[x])
  BY <1>2, <1>3, <1>4, TotalUpdate
<1>6. Total(P, f) \in Int
  BY <1>2, <1>4, TotalType
<1>7. Total(P, h) = Total(P, f) + v
  BY <1>2, <1>3, <1>5, <1>6
<1>. QED BY <1>7 DEF d, f, h, v

LEMMA WorthIs ==
  /\ \A t, p : Worth(t, p) = Total(P, WorthOf(claimed, t, p))
  /\ Honoured = Total(P, DropsOf(claimed))
BY DEF Worth, WorthOf, Honoured, DropsOf

LEMMA WorthIsNext ==
  /\ \A t, p : Worth(t, p)' = Total(P, WorthOf(claimed', t, p))
  /\ Honoured' = Total(P, DropsOf(claimed'))
BY DEF Worth, WorthOf, Honoured, DropsOf

LEMMA CreditsInit == Init => CreditsBacked
<1>. SUFFICES ASSUME Init PROVE CreditsBacked
  OBVIOUS
<1>1. claimed \in [Payments -> BOOLEAN] /\ \A x \in Payments : ~claimed[x]
  BY DEF Init
<1>2. LowPrice \in Nat /\ HighPrice \in Nat /\ P \in Nat
  BY GatewayAssumption
<1>3. ASSUME NEW t \in Traders, NEW p \in Nat PROVE Worth(t, p) = 0
  <2>. DEFINE f == WorthOf(claimed, t, p)
  <2>1. f \in [1..P -> Nat]
    BY <1>1, WorthType
  <2>2. \A i \in 1..P : f[i] = 0
    BY <1>1 DEF WorthOf, Payments
  <2>. HIDE DEF f
  <2>3. f \in [1..P -> Int]
    BY <2>1
  <2>4. Total(P, f) = 0
    BY <1>2, <2>2, <2>3, TotalZero
  <2>. QED BY <2>4, WorthIs DEF f
<1>4. Honoured = 0
  <2>. DEFINE f == DropsOf(claimed)
  <2>1. f \in [1..P -> Int]
    BY <1>1, DropsType
  <2>2. \A i \in 1..P : f[i] = 0
    BY <1>1 DEF DropsOf, Payments
  <2>. HIDE DEF f
  <2>3. Total(P, f) = 0
    BY <1>2, <2>1, <2>2, TotalZero
  <2>. QED BY <2>3, WorthIs DEF f
<1>. QED BY <1>2, <1>3, <1>4 DEF CreditsBacked, Init

LEMMA CreditsFund ==
  ASSUME TypeOK, CreditsBacked, NEW r \in Responses, fund(r)
  PROVE  CreditsBacked'
<1>. DEFINE drops == r.body.received
            named == r.body.reference
            q == Quote(drops, price)
<1>1. /\ r.tx \in Payments
      /\ r.body = Ledger[r.tx]
      /\ Paid(Ledger[r.tx])
      /\ drops \in Nat
      /\ named \in Traders
      /\ price \in LowPrice..HighPrice
      /\ price \in Nat
      /\ q \in Nat
  <2>1. q \in 0..float
    BY Claimed DEF fund
  <2>2. float \in Nat
    BY DEF TypeOK
  <2>. HIDE DEF q
  <2>3. q \in Nat
    BY <2>1, <2>2
  <2>. QED BY <2>3, Claimed DEF fund
<1>2. /\ ~claimed[r.tx]
      /\ claimed' = [claimed EXCEPT ![r.tx] = TRUE]
      /\ totalDropsCredited' = totalDropsCredited + drops
      /\ credited' = [credited EXCEPT ![named] = @ + q]
  BY DEF fund, MayFund, Unclaimed
<1>3. /\ claimed \in [Payments -> BOOLEAN]
      /\ credited \in [Traders -> Nat]
  BY DEF TypeOK
<1>4. LowPrice \in Nat /\ HighPrice \in Nat /\ P \in Nat
  BY GatewayAssumption
<1>5. Honoured' = Honoured + drops
  <2>1. Total(P, DropsOf([claimed EXCEPT ![r.tx] = TRUE]))
          = Total(P, DropsOf(claimed)) + Ledger[r.tx].received
    BY <1>1, <1>2, <1>3, ClaimDrops
  <2>. QED BY <1>1, <1>2, <2>1, WorthIs, WorthIsNext
<1>6. ASSUME NEW t \in Traders, NEW p \in Nat
      PROVE  /\ Worth(t, p)' = Worth(t, p) + (IF named = t THEN Quote(drops, p) ELSE 0)
             /\ Worth(t, p) \in Nat
             /\ Quote(drops, p) \in Nat
  <2>1. Total(P, WorthOf([claimed EXCEPT ![r.tx] = TRUE], t, p))
          = Total(P, WorthOf(claimed, t, p))
            + (IF Ledger[r.tx].reference = t THEN Quote(Ledger[r.tx].received, p) ELSE 0)
    BY ZenonT(30), <1>1, <1>2, <1>3, ClaimWorth
  <2>2. WorthOf(claimed, t, p) \in [1..P -> Nat]
    BY <1>3, WorthType
  <2>3. Total(P, WorthOf(claimed, t, p)) \in Nat
    BY <1>4, <2>2, TotalNat
  <2>4. Quote(drops, p) \in Nat
    BY <1>1, QuoteType
  <2>. QED BY <1>1, <1>2, <2>1, <2>3, <2>4, WorthIs, WorthIsNext
<1>7. Quote(drops, LowPrice) <= q /\ q <= Quote(drops, HighPrice)
  BY <1>1, <1>4, QuoteMonotone
<1>. HIDE DEF drops, named, q
<1>8. ASSUME NEW t \in Traders
      PROVE  credited'[t] \in Worth(t, LowPrice)'..Worth(t, HighPrice)'
  <2>. DEFINE l == Worth(t, LowPrice)
              h == Worth(t, HighPrice)
              ql == Quote(drops, LowPrice)
              qh == Quote(drops, HighPrice)
  <2>1. credited[t] \in l..h
    BY DEF CreditsBacked
  <2>2. /\ Worth(t, LowPrice)' = l + (IF named = t THEN ql ELSE 0)
        /\ Worth(t, HighPrice)' = h + (IF named = t THEN qh ELSE 0)
        /\ l \in Nat /\ h \in Nat /\ ql \in Nat /\ qh \in Nat
    BY <1>4, <1>6
  <2>3. credited'[t] = credited[t] + (IF named = t THEN q ELSE 0) /\ credited[t] \in Nat
    BY <1>1, <1>2, <1>3
  <2>4. ql <= q /\ q <= qh
    BY <1>7
  <2>. HIDE DEF l, h, ql, qh
  <2>. QED BY <1>1, <2>1, <2>2, <2>3, <2>4
<1>9. totalDropsCredited' = Honoured'
  BY <1>2, <1>5 DEF CreditsBacked
<1>. QED BY <1>8, <1>9 DEF CreditsBacked

LEMMA CreditsStep ==
  ASSUME TypeOK, CreditsBacked, [Next]_gateway
  PROVE  CreditsBacked'
<1>1. ASSUME UNCHANGED record PROVE CreditsBacked'
  BY <1>1, WorthIs, WorthIsNext DEF record, CreditsBacked
<1>2. CASE UNCHANGED gateway
  BY <1>1, <1>2 DEF gateway
<1>3. CASE FloatNext
  BY <1>1, <1>3 DEF FloatNext, withdraw, transferOwnership, topUp, feedUpdate
<1>4. ASSUME NEW r \in Responses, publish(r) PROVE CreditsBacked'
  BY <1>1, <1>4 DEF publish
<1>5. ASSUME NEW r \in Responses, fund(r) PROVE CreditsBacked'
  BY <1>5, CreditsFund
<1>. QED BY <1>2, <1>3, <1>4, <1>5 DEF Next

\* However often the Data Connector attests a payment and whoever carries it,
\* XrplGateway.fund credits it once, to the trader it names and within what the
\* oracle allows; totalDropsCredited is the drops of the claimed payments.
THEOREM EveryPaymentOnce == RelaySpec => []CreditsBacked
<1>1. RelayInit => CreditsBacked
  BY CreditsInit DEF RelayInit
<1>2. TypeOK /\ CreditsBacked /\ [RelayNext]_vars => CreditsBacked'
  BY GatewayStep, CreditsStep
<1>. QED BY <1>1, <1>2, TypeCorrect, PTL DEF RelaySpec

\* What remainingCapacityDrops announces, fund can pay: the two truncations go
\* the same way.
THEOREM CapacityIsReal == RelaySpec => []CapacityHonoured
<1>1. ASSUME TypeOK PROVE CapacityHonoured
  <2>1. SUFFICES ASSUME price # 0,
                        NEW x \in Payments,
                        Ledger[x].received \in 1..remainingCapacityDrops,
                        Quote(Ledger[x].received, price) > 0
                 PROVE  Covered(Quote(Ledger[x].received, price))
    BY DEF CapacityHonoured
  <2>. DEFINE drops == Ledger[x].received
              S == PriceScale
              capacity == (float * S) \div price
  <2>2. price \in Nat \ {0} /\ S \in Nat \ {0} /\ float \in Nat
    BY <2>1, <1>1, GatewayAssumption DEF TypeOK
  <2>3. drops \in 1..capacity
    BY <2>1 DEF remainingCapacityDrops
  <2>. HIDE DEF drops, S
  <2>4. float * S \in Nat
    BY <2>2, SMT
  <2>5. capacity \in Nat /\ capacity * price <= float * S
    BY <2>2, <2>4, Division
  <2>. HIDE DEF capacity
  <2>6. drops \in Nat /\ drops <= capacity
    BY <2>3, <2>5
  <2>7. drops * price <= capacity * price
    BY <2>2, <2>5, <2>6, SMT
  <2>8. drops * price \in Nat /\ drops * price < float * S + S
    BY <2>2, <2>4, <2>5, <2>6, <2>7, SMT
  <2>9. (drops * price) \div S <= float
    BY <2>2, <2>8, DivisionBound
  <2>. QED BY <2>1, <2>9 DEF Covered, Quote, drops, S
<1>. QED BY <1>1, TypeCorrect, PTL

-----------------------------------------------------------------------------
(* What a client is told is true *)

RelayTypeOK ==
  /\ votingRound \in Int
  /\ stage \in [Clients -> Stages]
  /\ job \in [Clients -> [tx : 0..P, round : Int]]
  /\ attempt \in [Clients -> Int]
  /\ \A t \in pending : t.client \in Clients /\ t.attempt \in Int
  /\ receipts \subseteq [client : Clients, attempt : Int, ok : BOOLEAN]

\* What a client sent in its present attempt is about its present job, and so
\* is the receipt of it; what it sent earlier carries an earlier attempt.
Carried ==
  /\ \A t \in pending :
       /\ t.attempt <= attempt[t.client]
       /\ t.attempt = attempt[t.client] => t.proof.tx = job[t.client].tx
  /\ \A e \in receipts :
       /\ e.attempt <= attempt[e.client]
       /\ e.ok /\ e.attempt = attempt[e.client] => claimed[job[e.client].tx]

RelayInv == RelayTypeOK /\ Carried /\ DoneMeansCredited

LEMMA RelayInvInit == RelayInit => RelayInv
<1>. SUFFICES ASSUME RelayInit PROVE RelayInv
  OBVIOUS
<1>1. P \in Nat
  BY GatewayAssumption
<1>2. job \in [Clients -> [tx : 0..P, round : Int]]
  BY <1>1 DEF RelayInit
<1>. QED BY <1>2 DEF RelayInit, RelayInv, RelayTypeOK, Carried, DoneMeansCredited, Stages

\* The gateway never forgets a claim.
LEMMA ClaimsStay ==
  ASSUME TypeOK, [Next]_gateway, NEW x, claimed[x]
  PROVE  claimed'[x]
<1>1. ASSUME UNCHANGED record PROVE claimed'[x]
  BY <1>1 DEF record
<1>2. ASSUME NEW r \in Responses, fund(r) PROVE claimed'[x]
  BY <1>2 DEF fund, TypeOK
<1>3. CASE UNCHANGED gateway
  BY <1>1, <1>3 DEF gateway
<1>4. CASE FloatNext
  BY <1>1, <1>4 DEF FloatNext, withdraw, transferOwnership, topUp, feedUpdate
<1>5. ASSUME NEW r \in Responses, publish(r) PROVE claimed'[x]
  BY <1>1, <1>5 DEF publish
<1>. QED BY <1>2, <1>3, <1>4, <1>5 DEF Next

LEMMA RelayInvStep ==
  ASSUME TypeOK, RelayInv, [RelayNext]_vars
  PROVE  RelayInv'
<1>1. \A x : claimed[x] => claimed'[x]
  BY GatewayStep, ClaimsStay
<1>2. CASE UNCHANGED <<chain, clients>>
  BY <1>1, <1>2 DEF chain, clients, RelayInv, RelayTypeOK, Carried, DoneMeansCredited
<1>3. ASSUME NEW c \in Clients, NEW x \in Payments, start(c, x) PROVE RelayInv'
  <2>1. x \in 0..P
    BY GatewayAssumption DEF Payments
  <2>2. /\ stage' = [stage EXCEPT ![c] = "attesting"]
        /\ job' = [job EXCEPT ![c] = [tx |-> x, round |-> 0]]
        /\ attempt' = [attempt EXCEPT ![c] = @ + 1]
        /\ UNCHANGED <<votingRound, pending, receipts, claimed>>
    BY <1>3 DEF start, Ends, gateway, record, chain
  <2>3. RelayTypeOK'
    BY <2>1, <2>2 DEF RelayInv, RelayTypeOK, Stages
  <2>4. Carried'
    BY <2>2 DEF RelayInv, RelayTypeOK, Carried
  <2>5. DoneMeansCredited'
    BY <2>2 DEF RelayInv, RelayTypeOK, DoneMeansCredited
  <2>. QED BY <2>3, <2>4, <2>5 DEF RelayInv
<1>4. ASSUME NEW c \in Clients, requestAttestation(c) PROVE RelayInv'
  <2>1. /\ stage' = [stage EXCEPT ![c] = "waiting"]
        /\ job' = [job EXCEPT ![c].round = votingRound]
        /\ UNCHANGED <<pending, receipts, attempt, claimed, votingRound>>
    BY <1>4 DEF requestAttestation, Moves, gateway, record
  <2>2. RelayTypeOK'
    BY <2>1 DEF RelayInv, RelayTypeOK, Stages
  <2>3. \A d \in Clients : job'[d].tx = job[d].tx
    BY <2>1 DEF RelayInv, RelayTypeOK
  <2>4. Carried'
    BY <2>1, <2>3 DEF RelayInv, RelayTypeOK, Carried
  <2>5. DoneMeansCredited'
    BY <2>1, <2>3 DEF RelayInv, RelayTypeOK, DoneMeansCredited
  <2>. QED BY <2>2, <2>4, <2>5 DEF RelayInv
<1>5. ASSUME NEW c \in Clients, NEW to \in Stages,
             stage' = [stage EXCEPT ![c] = to],
             to = "done" => claimed[job[c].tx],
             UNCHANGED <<chain, job, attempt>>
      PROVE  RelayInv'
  BY <1>1, <1>5 DEF chain, RelayInv, RelayTypeOK, Carried, DoneMeansCredited
<1>6. ASSUME NEW c \in Clients, pollInVain(c) PROVE RelayInv'
  <2>1. CASE UNCHANGED stage
    BY <1>1, <1>6, <2>1 DEF pollInVain, chain, RelayInv, RelayTypeOK, Carried, DoneMeansCredited
  <2>2. CASE Ends(c, "idle", "timed out")
    BY <1>5, <1>6, <2>2 DEF pollInVain, Ends, Stages
  <2>. QED BY <1>6, <2>1, <2>2 DEF pollInVain
<1>7. ASSUME NEW c \in Clients, pollProof(c) PROVE RelayInv'
  BY <1>5, <1>7 DEF pollProof, Moves, Stages
<1>8. ASSUME NEW c \in Clients, checkClaimed(c) PROVE RelayInv'
  BY <1>5, <1>8 DEF checkClaimed, Ends, Moves, Stages
<1>9. ASSUME NEW c \in Clients, sendFund(c) PROVE RelayInv'
  <2>1. /\ stage' = [stage EXCEPT ![c] = "mining"]
        /\ pending' = pending \union
             {[client |-> c, attempt |-> attempt[c], proof |-> ProofFor(c)]}
        /\ UNCHANGED <<votingRound, receipts, job, attempt, claimed>>
    BY <1>9 DEF sendFund, Moves, gateway, record
  <2>2. ProofFor(c).tx = job[c].tx
    BY DEF ProofFor
  <2>. HIDE DEF ProofFor
  <2>3. RelayTypeOK'
    BY <2>1 DEF RelayInv, RelayTypeOK, Stages
  <2>4. Carried'
    BY <2>1, <2>2 DEF RelayInv, RelayTypeOK, Carried
  <2>5. DoneMeansCredited'
    BY <2>1 DEF RelayInv, RelayTypeOK, DoneMeansCredited
  <2>. QED BY <2>3, <2>4, <2>5 DEF RelayInv
<1>10. ASSUME NEW c \in Clients, receive(c) PROVE RelayInv'
  <2>1. CASE ReceiptOf(c, TRUE) /\ Ends(c, "done", "credited")
    <3>1. claimed[job[c].tx]
      BY <2>1 DEF ReceiptOf, RelayInv, Carried
    <3>. QED BY <1>5, <1>10, <2>1, <3>1 DEF receive, Ends, Stages
  <2>2. CASE Ends(c, "idle", "rejected")
    BY <1>5, <1>10, <2>2 DEF receive, Ends, Stages
  <2>. QED BY <1>10, <2>1, <2>2 DEF receive
<1>11. ASSUME NEW c \in Clients, fail(c) PROVE RelayInv'
  BY <1>5, <1>11 DEF fail, Ends, Stages
<1>12. ASSUME NEW t \in pending, execute(t) PROVE RelayInv'
  <2>1. PICK ok \in BOOLEAN :
          /\ receipts' = receipts \union
               {[client |-> t.client, attempt |-> t.attempt, ok |-> ok]}
          /\ ok => fund(t.proof)
    BY <1>12 DEF execute
  <2>2. pending' = pending \ {t} /\ UNCHANGED <<votingRound, stage, job, attempt>>
    BY <1>12 DEF execute, clients
  <2>3. ok => claimed'[t.proof.tx]
    <3>1. SUFFICES ASSUME ok PROVE claimed'[t.proof.tx]
      OBVIOUS
    <3>2. fund(t.proof)
      BY <2>1, <3>1
    <3>3. MayFund(t.proof) /\ claimed' = [claimed EXCEPT ![t.proof.tx] = TRUE]
      BY <3>2 DEF fund
    <3>4. t.proof \in Responses
      BY <3>3 DEF MayFund, TypeOK
    <3>5. t.proof.tx \in Payments
      BY <3>3, <3>4, Claimed
    <3>. QED BY <3>3, <3>5 DEF TypeOK
  <2>4. RelayTypeOK'
    BY <2>1, <2>2 DEF RelayInv, RelayTypeOK
  <2>5. Carried'
    BY <1>1, <2>1, <2>2, <2>3 DEF RelayInv, RelayTypeOK, Carried
  <2>6. DoneMeansCredited'
    BY <1>1, <2>2 DEF RelayInv, DoneMeansCredited
  <2>. QED BY <2>4, <2>5, <2>6 DEF RelayInv
<1>13. CASE closeRound
  BY <1>1, <1>13 DEF closeRound, clients, RelayInv, RelayTypeOK, Carried, DoneMeansCredited
<1>14. CASE \E r \in Responses : finalise(r)
  BY <1>2, <1>14 DEF finalise
<1>15. CASE Elsewhere
  BY <1>2, <1>15 DEF Elsewhere
<1>16. CASE UNCHANGED vars
  BY <1>2, <1>16 DEF vars
<1>17. ASSUME NEW c \in Clients, neverAnswered(c) PROVE RelayInv'
  BY <1>5, <1>17 DEF neverAnswered, Stages
<1>. QED BY <1>3, <1>4, <1>6, <1>7, <1>8, <1>9, <1>10, <1>11, <1>12, <1>13, <1>14, <1>15, <1>16, <1>17
     DEF RelayNext, ClientStep

\* The page (claimFromXrpl) and the tool (xrpl-fund) report a payment as
\* arrived only when the gateway has claimed, and so credited, it.
THEOREM ToldTheTruth == RelaySpec => []DoneMeansCredited
<1>1. TypeOK /\ RelayInv /\ [RelayNext]_vars => RelayInv'
  BY RelayInvStep
<1>2. RelayInv => DoneMeansCredited
  BY DEF RelayInv
<1>. QED BY <1>1, <1>2, RelayInvInit, TypeCorrect, PTL DEF RelaySpec
=============================================================================
