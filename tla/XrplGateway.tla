---------------------------- MODULE XrplGateway ----------------------------
(***************************************************************************)
(* The XRPL gateway (contracts/XrplGateway.sol): it holds a float of the   *)
(* quote token and credits the trader that a payment on the XRP Ledger     *)
(* names, once per payment, at the oracle price of the moment.             *)
(*                                                                         *)
(* Outside the contract there are: the Flare Data Connector, which         *)
(* publishes what it attests of the XRP Ledger (published); the FTSO feed  *)
(* (price, whose age this contract does not look at); and the venue, of    *)
(* which only the balances it was told to credit matter here (credited).   *)
(* A call that reverts is not enabled.                                     *)
(***************************************************************************)
EXTENDS Integers, LedgerSums

CONSTANTS
  P,            \* the XRP Ledger transactions are 1..P
  N,            \* the traders are 1..N; 0 is address(0)
  Callers,      \* addresses that call the owner's functions
  Deployer,     \* one of them
  Desk,         \* the hash of the XRPL account the gateway answers for
  Ledger,       \* transaction -> what the XRP Ledger says of it
  Responses,    \* what the Data Connector may publish
  LowPrice,     \* the feed's values other than 0 lie in LowPrice..HighPrice
  HighPrice,
  Prices,
  PriceScale,   \* 10^18 in the code
  Amounts,      \* token amounts the owner withdraws or tops up
  MaxFloat      \* bound on the tokens sent to the gateway

Payments == 1..P
Traders == 1..N

\* received may be negative (int256); reference 0 stands for no reference.
Body == [to : {Desk, "someone else"}, status : {0, 1}, received : Int, reference : 0..N]

Response == [type : {"Payment", "other type"}, source : {"XRP", "other chain"},
             round : Nat, tx : Payments, body : Body]

Genuine(r) == r.type = "Payment" /\ r.source = "XRP"

\* The Data Connector attests only what the ledger says, though it may attest
\* one payment in several voting rounds.
ASSUME GatewayAssumption ==
  /\ P \in Nat
  /\ N \in Nat
  /\ Deployer \in Callers
  /\ Ledger \in [Payments -> Body]
  /\ Responses \subseteq Response
  /\ \A r \in Responses : Genuine(r) => r.body = Ledger[r.tx]
  /\ LowPrice \in Nat \ {0}
  /\ HighPrice \in Nat
  /\ Prices \subseteq {0} \union (LowPrice..HighPrice)
  /\ PriceScale \in Nat \ {0}
  /\ Amounts \subseteq Nat
  /\ MaxFloat \in Nat

VARIABLES
  claimed,              \* payment -> BOOLEAN
  totalDropsCredited,
  owner,
  float,                \* QUOTE_TOKEN.balanceOf(gateway)
  credited,             \* trader -> what the venue was told to credit
  published,            \* responses under a published Merkle root
  price                 \* the feed's value, 0 when it has none

record == <<claimed, totalDropsCredited, credited>>
gateway == <<record, owner, float, published, price>>

Init ==
  /\ claimed = [x \in Payments |-> FALSE]
  /\ totalDropsCredited = 0
  /\ owner = Deployer
  /\ float = 0
  /\ credited = [t \in Traders |-> 0]
  /\ published = {}
  /\ price \in Prices

-----------------------------------------------------------------------------
Quote(drops, p) == (drops * p) \div PriceScale

\* The transfer happened, in full or not, and it was to the desk.
Paid(body) == body.status = 0 /\ body.to = Desk /\ body.received > 0

Mutant_Unclaimed_always(r) == TRUE

Unclaimed(r) == ~claimed[r.tx]

Mutant_Covered_always(amount) == amount > 0

Covered(amount) == amount > 0 /\ amount <= float

MayFund(r) ==
  /\ r \in published                 \* verifyPayment
  /\ Genuine(r)
  /\ Paid(r.body)
  /\ Unclaimed(r)
  /\ r.body.reference # 0
  /\ price # 0                       \* _xrpUsd
  /\ Covered(Quote(r.body.received, price))

fund(r) ==
  LET quoteCredited == Quote(r.body.received, price) IN
  /\ MayFund(r)
  /\ claimed' = [claimed EXCEPT ![r.tx] = TRUE]
  /\ totalDropsCredited' = totalDropsCredited + r.body.received
  /\ float' = float - quoteCredited
  /\ credited' = [credited EXCEPT ![r.body.reference] = @ + quoteCredited]
  /\ UNCHANGED <<owner, published, price>>

Mutant_remainingCapacityDrops_roundedUp == (float * PriceScale) \div price + 1

\* What a payer is told the gateway can still honour, in drops; it reverts like
\* fund when the feed has no value.
remainingCapacityDrops == (float * PriceScale) \div price

withdraw(caller, amount) ==
  /\ caller = owner
  /\ amount <= float
  /\ float' = float - amount
  /\ UNCHANGED <<record, owner, published, price>>

transferOwnership(caller, newOwner) ==
  /\ caller = owner
  /\ owner' = newOwner
  /\ UNCHANGED <<record, float, published, price>>

\* Anyone may send the gateway tokens.
topUp(amount) ==
  /\ float + amount <= MaxFloat
  /\ float' = float + amount
  /\ UNCHANGED <<record, owner, published, price>>

publish(r) ==
  /\ published' = published \union {r}
  /\ UNCHANGED <<record, owner, float, price>>

feedUpdate(p) ==
  /\ price' = p
  /\ UNCHANGED <<record, owner, float, published>>

\* The owner, the token and the feed.
FloatNext ==
  \/ \E caller \in Callers, amount \in Amounts : withdraw(caller, amount)
  \/ \E caller, newOwner \in Callers : transferOwnership(caller, newOwner)
  \/ \E amount \in Amounts : topUp(amount)
  \/ \E p \in Prices : feedUpdate(p)

Next ==
  \/ FloatNext
  \/ \E r \in Responses : publish(r) \/ fund(r)

Spec == Init /\ [][Next]_gateway

-----------------------------------------------------------------------------
(* Properties *)

\* Nothing goes out of range; in particular the float is never overdrawn.
TypeOK ==
  /\ claimed \in [Payments -> BOOLEAN]
  /\ totalDropsCredited \in Nat
  /\ owner \in Callers
  /\ float \in Nat
  /\ credited \in [Traders -> Nat]
  /\ published \subseteq Responses
  /\ price \in Prices

\* What the claimed payments that name t are worth when every XRP is at p.
Worth(t, p) ==
  Total(P, [x \in Payments |->
              IF claimed[x] /\ Paid(Ledger[x]) /\ Ledger[x].reference = t
              THEN Quote(Ledger[x].received, p) ELSE 0])

Honoured ==
  Total(P, [x \in Payments |-> IF claimed[x] THEN Ledger[x].received ELSE 0])

\* Each claimed payment was credited exactly once, to the trader it names and
\* at a price the feed had, however often the Data Connector attested it and
\* however many relayers carried it; and a payment whose credit failed is not
\* marked as claimed (fund marks first, and reverts as a whole).
CreditsBacked ==
  /\ \A t \in Traders : credited[t] \in Worth(t, LowPrice)..Worth(t, HighPrice)
  /\ totalDropsCredited = Honoured

\* A payer who sends no more than the gateway said it can honour is not turned
\* away for lack of float, as long as nothing else has changed (the two
\* truncating divisions, in fund and in remainingCapacityDrops, must agree).
CapacityHonoured ==
  price # 0 =>
    \A x \in Payments :
      LET drops == Ledger[x].received IN
      drops \in 1..remainingCapacityDrops /\ Quote(drops, price) > 0
        => Covered(Quote(drops, price))
=============================================================================
