----------------------------- MODULE XrplRelay -----------------------------
(***************************************************************************)
(* Arriving from the XRP Ledger: the clients that carry the attestation of *)
(* a payment to the gateway.  A page of the terminal works through the two *)
(* API routes (claim, settle); the command-line tool (xrpl-fund) does the  *)
(* same steps by itself.  The gateway is module XrplGateway.               *)
(*                                                                         *)
(* A client asks the Data Connector to attest the payment and notes the    *)
(* voting round its request fell into, polls for the proof of that round,  *)
(* and sends it to the gateway.  Between any two of its steps other        *)
(* clients, other relayers, the owner and the feed may move; what it sent  *)
(* to the chain is executed at some later time, or never.                  *)
(* Calls of the chain have a time limit; the HTTP requests of the page and *)
(* the tool's polls of the data-availability layer have none, and a server *)
(* may leave them unanswered.                                              *)
(***************************************************************************)
EXTENDS XrplGateway

CONSTANTS
  Pages, Tools,
  PagePolls,       \* 30 in the code
  ToolPolls,       \* 40 in the code
  MaxRound,        \* bound on voting rounds
  MaxAttempts      \* client -> bound on the times it is started

ASSUME RelayAssumption ==
  /\ Pages \intersect Tools = {}
  /\ PagePolls \in Nat \ {0}
  /\ ToolPolls \in Nat \ {0}

Clients == Pages \union Tools

VARIABLES
  votingRound,     \* the round that is open
  requested,       \* <<payment, round>> for every request the FdcHub took
  stage,           \* client -> where it is
  job,             \* client -> [tx, round] it works on
  polls,           \* client -> fruitless polls so far
  outcome,         \* client -> what it told its user last
  attempt,         \* client -> times it was started
  pending,         \* fund transactions sent and not yet executed
  receipts         \* and the executed ones

chain == <<votingRound, requested, pending, receipts>>
clients == <<stage, job, polls, outcome, attempt>>
vars == <<gateway, chain, clients>>

Stages == {"idle", "attesting", "waiting", "checking", "sending", "mining", "done",
           "unanswered"}
Outcomes == {"none", "credited", "already claimed", "failed", "timed out", "rejected"}

RelayInit ==
  /\ Init
  /\ votingRound = 0
  /\ requested = {}
  /\ stage = [c \in Clients |-> "idle"]
  /\ job = [c \in Clients |-> [tx |-> 0, round |-> 0]]
  /\ polls = [c \in Clients |-> 0]
  /\ outcome = [c \in Clients |-> "none"]
  /\ attempt = [c \in Clients |-> 0]
  /\ pending = {}
  /\ receipts = {}

Busy(c) == stage[c] \notin {"idle", "done"}

Moves(c, from, to) ==
  /\ stage[c] = from
  /\ stage' = [stage EXCEPT ![c] = to]

\* The client ends, and says why.
Ends(c, end, what) ==
  /\ stage' = [stage EXCEPT ![c] = end]
  /\ outcome' = [outcome EXCEPT ![c] = what]

\* The proof of the payment in the round the client asked for.
ProofFor(c) ==
  [type |-> "Payment", source |-> "XRP", round |-> job[c].round, tx |-> job[c].tx,
   body |-> Ledger[job[c].tx]]

ProofReady(c) == ProofFor(c) \in published

-----------------------------------------------------------------------------
(* A client *)

start(c, x) ==
  /\ ~Busy(c)
  /\ attempt[c] < MaxAttempts[c]
  /\ Ends(c, "attesting", "none")
  /\ job' = [job EXCEPT ![c] = [tx |-> x, round |-> 0]]
  /\ polls' = [polls EXCEPT ![c] = 0]
  /\ attempt' = [attempt EXCEPT ![c] = @ + 1]
  /\ UNCHANGED <<gateway, chain>>

\* The verifier prepares the request and FdcHub takes it; its block's time
\* gives the round.
requestAttestation(c) ==
  /\ Moves(c, "attesting", "waiting")
  /\ requested' = requested \union {<<job[c].tx, votingRound>>}
  /\ job' = [job EXCEPT ![c].round = votingRound]
  /\ UNCHANGED <<gateway, votingRound, pending, receipts, polls, outcome, attempt>>

PollLimit(c) == IF c \in Pages THEN PagePolls ELSE ToolPolls

Mutant_pollInVain_forever(c) ==
  /\ stage[c] = "waiting"
  /\ UNCHANGED <<gateway, chain, clients>>

\* One poll that brings nothing: the round is not final, the data-availability
\* layer lags behind, or (for the tool) it cannot be reached.  A poll that does
\* not return is neverAnswered.
pollInVain(c) ==
  /\ stage[c] = "waiting"
  /\ polls' = [polls EXCEPT ![c] = @ + 1]
  /\ IF polls[c] + 1 < PollLimit(c) THEN UNCHANGED <<stage, outcome>>
                                    ELSE Ends(c, "idle", "timed out")
  /\ UNCHANGED <<gateway, chain, job, attempt>>

\* The page looks whether somebody else was faster; the tool does not.
pollProof(c) ==
  /\ Moves(c, "waiting", IF c \in Pages THEN "checking" ELSE "sending")
  /\ ProofReady(c)
  /\ UNCHANGED <<gateway, chain, job, polls, outcome, attempt>>

checkClaimed(c) ==
  /\ stage[c] = "checking"
  /\ IF claimed[job[c].tx] THEN Ends(c, "done", "already claimed")
                           ELSE Moves(c, "checking", "sending") /\ UNCHANGED outcome
  /\ UNCHANGED <<gateway, chain, job, polls, attempt>>

sendFund(c) ==
  /\ Moves(c, "sending", "mining")
  /\ pending' = pending \union {[client |-> c, attempt |-> attempt[c], proof |-> ProofFor(c)]}
  /\ UNCHANGED <<gateway, votingRound, requested, receipts, job, polls, outcome, attempt>>

ReceiptOf(c, ok) == [client |-> c, attempt |-> attempt[c], ok |-> ok] \in receipts

Mutant_receive_unchecked(c) ==
  /\ stage[c] = "mining"
  /\ ReceiptOf(c, TRUE) \/ ReceiptOf(c, FALSE)
  /\ Ends(c, "done", "credited")
  /\ UNCHANGED <<gateway, chain, job, polls, attempt>>

\* A mined transaction may have reverted.
receive(c) ==
  /\ stage[c] = "mining"
  /\ \/ ReceiptOf(c, TRUE)  /\ Ends(c, "done", "credited")
     \/ ReceiptOf(c, FALSE) /\ Ends(c, "idle", "rejected")
  /\ UNCHANGED <<gateway, chain, job, polls, attempt>>

\* Any call may fail, and one with a time limit may run into it; what it had
\* already sent stays sent.  While it polls, the tool takes a failed call for a
\* fruitless one.
fail(c) ==
  /\ Busy(c) /\ stage[c] # "unanswered"
  /\ ~(c \in Tools /\ stage[c] = "waiting")
  /\ Ends(c, "idle", "failed")
  /\ UNCHANGED <<gateway, chain, job, polls, attempt>>

ClientStep(c) ==
  \/ requestAttestation(c) \/ pollInVain(c) \/ pollProof(c)
  \/ checkClaimed(c) \/ sendFund(c) \/ receive(c) \/ fail(c)

\* Where a client waits for an HTTP answer without a time limit: the page from
\* the first to the last, on its two routes, and the tool in http.Post while it
\* polls.  What the tool does before and after has a limit of its own (60 s for
\* the verifier, the context of 15 minutes for the chain).
Untimed(c) == c \in Pages \/ stage[c] = "waiting"

\* The request that the client waits on is never answered.  A route that goes on
\* behind a page that hears no more of it is one that is left at a later stage.
neverAnswered(c) ==
  /\ Busy(c) /\ Untimed(c) /\ stage[c] # "unanswered"
  /\ stage' = [stage EXCEPT ![c] = "unanswered"]
  /\ UNCHANGED <<gateway, chain, job, polls, outcome, attempt>>

-----------------------------------------------------------------------------
(* The chain and the Data Connector *)

execute(t) ==
  /\ pending' = pending \ {t}
  /\ \/ /\ fund(t.proof)
        /\ receipts' = receipts \union {[client |-> t.client, attempt |-> t.attempt, ok |-> TRUE]}
     \/ /\ ~MayFund(t.proof)
        /\ receipts' = receipts \union {[client |-> t.client, attempt |-> t.attempt, ok |-> FALSE]}
        /\ UNCHANGED gateway
  /\ UNCHANGED <<votingRound, requested, clients>>

closeRound ==
  /\ votingRound < MaxRound
  /\ votingRound' = votingRound + 1
  /\ UNCHANGED <<gateway, requested, pending, receipts, clients>>

\* A round that is over becomes final with what was asked in it.
finalise(r) ==
  /\ r.round < votingRound
  /\ Genuine(r) => <<r.tx, r.round>> \in requested
  /\ publish(r)
  /\ UNCHANGED <<chain, clients>>

\* Anybody may carry a proof, and the float and the feed move.
Elsewhere ==
  /\ FloatNext \/ \E r \in published : fund(r)
  /\ UNCHANGED <<chain, clients>>

RelayNext ==
  \/ \E c \in Clients : ClientStep(c) \/ neverAnswered(c) \/ \E x \in Payments : start(c, x)
  \/ \E t \in pending : execute(t)
  \/ closeRound
  \/ \E r \in Responses : finalise(r)
  \/ Elsewhere

\* A client that runs goes on: a call returns, fails or runs into its time limit,
\* and is neverAnswered otherwise.  Nothing obliges a server to answer.
RelaySpec ==
  /\ RelayInit
  /\ [][RelayNext]_vars
  /\ \A c \in Clients : WF_vars(ClientStep(c))

-----------------------------------------------------------------------------
(* Properties *)

\* Who is told that the payment arrived is told the truth, whichever of the
\* relayers carried it: the payment is claimed, and so (CreditsBacked) was
\* credited.
DoneMeansCredited ==
  \A c \in Clients : stage[c] = "done" => claimed[job[c].tx]

\* A client (claimFromXrpl, awaitProof) comes back to its user although rounds
\* may never close, proofs never appear and transactions never be mined: the
\* one thing that can hold it for ever is an HTTP request nobody answers.  The
\* tool cannot be held even by that once it has its proof.
ClaimsEnd ==
  \A c \in Clients :
    /\ Busy(c) ~> (~Busy(c) \/ stage[c] = "unanswered")
    /\ (c \in Tools /\ stage[c] = "sending") ~> ~Busy(c)

\* api/xrpl/settle/route.ts:106-107: "Someone else may have carried the same
\* proof already; that is a success for the payer, not an error".  Then a page
\* would never be told that the gateway rejected a payment it has credited.
RaceIsSuccess ==
  [][\A c \in Pages :
       outcome'[c] = "rejected" /\ outcome[c] # "rejected" => ~claimed[job[c].tx]]_vars
=============================================================================
