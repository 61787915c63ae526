---------------------------- MODULE MCXrplRelay ----------------------------
(***************************************************************************)
(* A small instance of XrplRelay.  Payment 1 names trader 1; payment 2 did *)
(* not go to the desk.                                                     *)
(***************************************************************************)
EXTENDS XrplRelay

Payment(to, status, received, reference) ==
  [to |-> to, status |-> status, received |-> received, reference |-> reference]

MCLedger == <<Payment(Desk, 0, 3, 1), Payment("someone else", 0, 5, 1)>>

Attested(type, round, tx) ==
  [type |-> type, source |-> "XRP", round |-> round, tx |-> tx, body |-> MCLedger[tx]]

\* The page may try again; what it sent the first time may still be pending.
MCMaxAttempts == [c \in Clients |-> IF c \in Pages THEN 2 ELSE 1]

\* Payment 1 may be attested in two rounds; of payment 2 the Data Connector may
\* also attest something that is no payment, with a body of any content.
MCResponses ==
  {Attested("Payment", 0, 1), Attested("Payment", 1, 1), Attested("Payment", 0, 2),
   [Attested("other type", 1, 2) EXCEPT !.body = MCLedger[1]]}
=============================================================================
