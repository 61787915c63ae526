----------------------------- MODULE MCEnclave -----------------------------
(***************************************************************************)
(* Small instances of Enclave.  Trader 1 offers one unit of base and bids  *)
(* for one, trader 2 bids for one at the same price, and order 4 is        *)
(* trader 1's offer copied and submitted by trader 3.  A ciphertext that   *)
(* does not open is what the decrypt fault makes of any order.             *)
(***************************************************************************)
EXTENDS Enclave, TLC

\* The enclaves are interchangeable.
MachineSymmetry == Permutations(Machines)

Terms(trader, side, limit, size) ==
  [trader |-> trader, side |-> side, limit |-> limit, size |-> size]

MCSealed ==
  <<Terms(1, "sell", 2, 1), Terms(2, "buy", 2, 1), Terms(1, "buy", 2, 1),
    Terms(1, "sell", 2, 1)>>

Submission(order, batch, trader) ==
  [op |-> "SUBMIT_ORDER", order |-> order, batch |-> batch, trader |-> trader,
   ref |-> 0, bps |-> 0]

Clearing(batch, ref) ==
  [op |-> "RUN_BATCH", order |-> 0, batch |-> batch, trader |-> 0, ref |-> ref, bps |-> 500]

MCRequests ==
  {Submission(1, 1, 1), Submission(2, 1, 2), Submission(4, 1, 3),
   Submission(2, 2, 2), Clearing(1, 2)}

MCOverlap ==
  {Submission(1, 1, 1), Submission(2, 1, 2), Submission(3, 1, 1), Clearing(1, 2)}
=============================================================================
