---------------------------- MODULE Registration ----------------------------
(***************************************************************************)
(* register-tee: how a machine becomes one the chain sends instructions    *)
(* to.  The tool registers the machine it finds behind the proxy, has it   *)
(* attested, asks the data providers for a proof that it is available and  *)
(* promotes it with that proof.  Each step is a transaction followed by a  *)
(* line in a state file, so that a later run may go on where this one      *)
(* stopped.                                                                *)
(*                                                                         *)
(* The machine may restart, and is then another machine, with an identity  *)
(* nobody has registered.  A transaction the tool gave up waiting for may  *)
(* be mined later.  The tool may be killed anywhere, the write of its      *)
(* state file included.  The registry and the data providers are outside   *)
(* the repository: they appear as the tool uses them.                      *)
(***************************************************************************)
EXTENDS Integers, Sequences

CONSTANTS
  Commands,        \* values of -command, as sets of letters
  MaxRestarts,     \* bound on restarts of the machine
  MaxEpoch,        \* bound on reward epochs
  MaxFaults,       \* bound on faults: lost calls, late blocks, kills
  MaxRuns          \* bound on runs of the tool

ASSUME CommandsAssumption == Commands \subseteq SUBSET {"r", "R", "a", "p"}

VARIABLES
  \* outside the tool
  tee,             \* the machine behind the proxy
  registered,      \* machines in the registry
  production,      \* and those that are sent instructions
  instructions,    \* every attestation and availability check asked for
  spent,           \* attestations used by a check, or expired
  answered,        \* checks whose proof the providers have published
  epoch, policy,   \* reward epoch; the proxy's last signing policy
  pending,         \* transactions sent and not mined, in nonce order
  faults,
  \* on disk
  file,
  \* the tool
  pc,              \* the step it is at, or waits for
  command,         \* -command
  resumed,         \* it goes by a state file an earlier run left
  teeID,           \* the machine it found when it started
  state,           \* its copy of the state file
  attest, instr,   \* the attestation and the check it goes by
  receipt,         \* of the transaction it waits for
  outcome,         \* what it told its user last
  runs

world == <<tee, registered, production, instructions, spent, answered,
           epoch, policy, pending>>
tool == <<pc, command, resumed, teeID, state, attest, instr, receipt, outcome, runs>>
regVars == <<world, faults, file, tool>>

Steps == {"r", "R", "a", "p"}
Waiting == {"r sent", "R sent", "a sent", "p sent"}
NoHash == 0
NoState == [steps |-> {}, attest |-> NoHash, instr |-> NoHash]
NoFile == [status |-> "none", saved |-> NoState]
Torn == [status |-> "torn", saved |-> NoState]
Written(st) == [status |-> "written", saved |-> st]
NoReceipt == [status |-> "none", id |-> NoHash]

RegistrationInit ==
  /\ tee = 1
  /\ registered = {} /\ production = {}
  /\ instructions = <<>> /\ spent = {} /\ answered = {}
  /\ epoch = 0 /\ policy = 0
  /\ pending = <<>>
  /\ faults = 0
  /\ file = NoFile
  /\ pc = "idle" /\ command = {} /\ resumed = FALSE /\ teeID = 0
  /\ state = NoState /\ attest = NoHash /\ instr = NoHash
  /\ receipt = NoReceipt
  /\ outcome = "none"
  /\ runs = 0

Fault == faults < MaxFaults /\ faults' = faults + 1
NoFault == UNCHANGED faults

-----------------------------------------------------------------------------
(* The chain *)

\* An attestation is good for one check of the machine it is about.
Challenges(m) ==
  {i \in DOMAIN instructions \ spent :
     instructions[i].kind = "attest" /\ instructions[i].tee = m}

Succeeds(tx) ==
  \/ tx.kind = "register" /\ tx.tee \notin registered
  \/ tx.kind \in {"attest", "promote"} /\ tx.tee \in registered
  \/ tx.kind = "check" /\ tx.tee \in registered /\ tx.id \in Challenges(tx.tee)

\* A check asked for while proxy and chain disagree is never cosigned.
InSync == policy \in {epoch, epoch + 1}

Instruct(tx) ==
  instructions' = Append(instructions,
    [kind |-> IF tx.kind = "check" THEN "check" ELSE "attest",
     tee |-> tx.tee, cosigned |-> InSync])

Execute(tx) ==
  \/ /\ tx.kind = "register"
     /\ registered' = registered \union {tx.tee}
     /\ Instruct(tx)
     /\ UNCHANGED <<production, spent>>
  \/ /\ tx.kind = "attest"
     /\ Instruct(tx)
     /\ UNCHANGED <<registered, production, spent>>
  \/ /\ tx.kind = "check"
     /\ spent' = spent \union {tx.id}
     /\ Instruct(tx)
     /\ UNCHANGED <<registered, production>>
  \/ /\ tx.kind = "promote"
     /\ production' = production \union {tx.tee}
     /\ UNCHANGED <<registered, instructions, spent>>

\* The oldest transaction is mined.  The tool waits for the newest one only:
\* a nonce comes after all those before it.
mine ==
  /\ pending # <<>>
  /\ LET tx == Head(pending) IN
     /\ IF Succeeds(tx) THEN Execute(tx)
        ELSE UNCHANGED <<registered, production, instructions, spent>>
     /\ receipt' = IF pc \in Waiting /\ Len(pending) = 1
                   THEN [status |-> IF Succeeds(tx) THEN "mined" ELSE "reverted",
                         id |-> Len(instructions')]
                   ELSE receipt
  /\ pending' = Tail(pending)
  /\ UNCHANGED <<tee, answered, epoch, policy, faults, file,
                 pc, command, resumed, teeID, state, attest, instr, outcome, runs>>

expire ==
  /\ Fault
  /\ \E m \in registered : \E i \in Challenges(m) : spent' = spent \union {i}
  /\ UNCHANGED <<tee, registered, production, instructions, answered, epoch,
                 policy, pending, file, tool>>

\* The providers answer a check while the machine it is about is up.
answer ==
  /\ \E i \in DOMAIN instructions \ answered :
       /\ instructions[i] = [kind |-> "check", tee |-> tee, cosigned |-> TRUE]
       /\ answered' = answered \union {i}
  /\ UNCHANGED <<tee, registered, production, instructions, spent, epoch,
                 policy, pending, faults, file, tool>>

restart ==
  /\ tee <= MaxRestarts
  /\ tee' = tee + 1
  /\ UNCHANGED <<registered, production, instructions, spent, answered, epoch,
                 policy, pending, faults, file, tool>>

newEpoch ==
  /\ epoch < MaxEpoch
  /\ epoch' = epoch + 1
  /\ UNCHANGED <<tee, registered, production, instructions, spent, answered,
                 policy, pending, faults, file, tool>>

\* The proxy takes up the next signing policy, at most one epoch early.
newPolicy ==
  /\ policy <= epoch /\ policy <= MaxEpoch
  /\ policy' = policy + 1
  /\ UNCHANGED <<tee, registered, production, instructions, spent, answered,
                 epoch, pending, faults, file, tool>>

-----------------------------------------------------------------------------
(* The tool *)

\* Where a run goes that has done all before the step.
To_p == IF "p" \in command THEN "p" ELSE "end"
To_a == IF "a" \in command THEN "a" ELSE To_p
To_R == IF "R" \in command THEN "R" ELSE To_a
To_r == IF "r" \in command THEN "r" ELSE To_R

After(l) == CASE l = "r" -> To_R [] l = "R" -> To_a [] l = "a" -> To_p

Sent(l) == CASE l = "r" -> "r sent" [] l = "R" -> "R sent" [] l = "a" -> "a sent"

Stops(what) ==
  /\ pc' = "idle"
  /\ outcome' = what
  /\ receipt' = NoReceipt

Mutant_start_keeps_file(c, resume) ==
  /\ pc = "idle" /\ runs < MaxRuns
  /\ runs' = runs + 1
  /\ command' = c
  /\ pc' = "info"
  /\ outcome' = "none"
  /\ resumed' = resume
  /\ attest' = NoHash
  /\ instr' = NoHash
  /\ UNCHANGED <<world, faults, file, teeID, state, receipt>>

\* Without -resume the state file goes first; that it could not be removed is
\* only warned about.
start(c, resume) ==
  /\ pc = "idle" /\ runs < MaxRuns
  /\ runs' = runs + 1
  /\ command' = c
  /\ pc' = "info"
  /\ outcome' = "none"
  /\ \/ ~ resume /\ NoFault /\ file' = NoFile /\ resumed' = FALSE
     \/ ~ resume /\ Fault /\ file # NoFile /\ file' = file /\ resumed' = TRUE
     \/ resume /\ NoFault /\ file' = file /\ resumed' = TRUE
  /\ attest' = NoHash
  /\ instr' = NoHash
  /\ UNCHANGED <<world, teeID, state, receipt>>

\* The identity of a machine is that of the key its proxy publishes.
TeeProxyId == tee

\* A missing file is an empty state; one that does not parse is an error.
loadState ==
  /\ file.status # "torn"
  /\ state' = file.saved

\* It asks the proxy who is running, and reads the state file.  What the file
\* says is about whichever machine wrote it.
info ==
  /\ pc = "info"
  /\ \/ /\ loadState
        /\ teeID' = TeeProxyId
        /\ pc' = To_r
        /\ NoFault
        /\ UNCHANGED <<outcome, receipt>>
     \/ /\ file.status = "torn" /\ NoFault
        /\ Stops("failed")
        /\ UNCHANGED <<teeID, state>>
     \/ /\ Fault
        /\ Stops("failed")
        /\ UNCHANGED <<teeID, state>>
  /\ UNCHANGED <<world, file, command, resumed, attest, instr, runs>>

\* A step the file has is not done again.
skip(l) ==
  /\ pc = l /\ l \in state.steps
  /\ pc' = After(l)
  /\ attest' = IF l = "a" THEN attest ELSE state.attest
  /\ instr' = IF l = "a" THEN state.instr ELSE instr
  /\ UNCHANGED <<world, faults, file, command, resumed, teeID, state, receipt, outcome, runs>>

\* A transaction that would revert now is not sent at all.
Send(tx, wait) ==
  \/ /\ Succeeds(tx)
     /\ pending' = Append(pending, tx)
     /\ pc' = wait
     /\ UNCHANGED <<outcome, receipt>>
  \/ /\ ~ Succeeds(tx)
     /\ Stops("failed")
     /\ UNCHANGED pending

Tx(kind, m, i) == [kind |-> kind, tee |-> m, id |-> i]

PreRegistration == Send(Tx("register", teeID, NoHash), "r sent")
RequestTeeAttestation(wait) == Send(Tx("attest", teeID, NoHash), wait)
RequestFTDCAvailabilityCheck == Send(Tx("check", teeID, attest), "a sent")

\* The proof of a check names the machine it is about.
ToProduction(i) == Send(Tx("promote", instructions[i].tee, NoHash), "p sent")

sending == <<tee, registered, production, instructions, spent, answered, epoch,
             policy, file, command, resumed, teeID, state, attest, instr, runs>>

Mutant_preRegister_unasked ==
  /\ pc = "r" /\ "r" \notin state.steps
  /\ PreRegistration
  /\ UNCHANGED <<sending, faults>>

\* A machine the registry knows is attested anew; a failed lookup counts as
\* not known.
preRegister ==
  /\ pc = "r" /\ "r" \notin state.steps
  /\ \/ teeID \in registered /\ NoFault /\ RequestTeeAttestation("r sent")
     \/ teeID \notin registered /\ NoFault /\ PreRegistration
     \/ Fault /\ PreRegistration
  /\ UNCHANGED sending

requestAttestation ==
  /\ pc = "R" /\ "R" \notin state.steps
  /\ RequestTeeAttestation("R sent")
  /\ UNCHANGED <<sending, faults>>

\* Only a mismatch that was seen stops the check: a lookup that failed lets
\* it through.
policyConsistent ==
  \/ InSync /\ NoFault
  \/ ~ InSync /\ Fault

requestAvailabilityCheck ==
  /\ pc = "a" /\ "a" \notin state.steps
  /\ \/ policyConsistent /\ RequestFTDCAvailabilityCheck
     \/ ~ InSync /\ NoFault /\ Stops("failed") /\ UNCHANGED pending
  /\ UNCHANGED sending

recorded(l, id) ==
  [steps |-> state.steps \union {l},
   attest |-> IF l = "a" THEN state.attest ELSE id,
   instr |-> IF l = "a" THEN id ELSE state.instr]

Mutant_save_unmined(l) ==
  /\ pc = Sent(l)
  /\ state' = recorded(l, Len(instructions) + 1)
  /\ file' = Written(state')
  /\ attest' = IF l = "a" THEN attest ELSE Len(instructions) + 1
  /\ instr' = IF l = "a" THEN Len(instructions) + 1 ELSE instr
  /\ pc' = After(l)
  /\ receipt' = NoReceipt
  /\ UNCHANGED <<world, faults, command, resumed, teeID, outcome, runs>>

\* The step was mined: noted in memory and in the file.  A write that fails
\* is only warned about, and may leave the old file or half of the new one.
save(l) ==
  /\ pc = Sent(l) /\ receipt.status = "mined"
  /\ state' = recorded(l, receipt.id)
  /\ \/ file' = Written(state') /\ NoFault
     \/ Fault /\ file' \in {file, Torn}
  /\ attest' = IF l = "a" THEN attest ELSE receipt.id
  /\ instr' = IF l = "a" THEN receipt.id ELSE instr
  /\ pc' = After(l)
  /\ receipt' = NoReceipt
  /\ UNCHANGED <<world, command, resumed, teeID, outcome, runs>>

reverted ==
  /\ pc \in Waiting /\ receipt.status = "reverted"
  /\ Stops("failed")
  /\ UNCHANGED <<world, faults, file, command, resumed, teeID, state, attest, instr, runs>>

\* Two minutes without a receipt, or a node that does not answer.
timeout ==
  /\ pc \in Waiting
  /\ Fault
  /\ Stops("failed")
  /\ UNCHANGED <<world, file, command, resumed, teeID, state, attest, instr, runs>>

\* -i names the check to promote with when the command does not ask for one.
Given == IF "a" \in command THEN {instr}
         ELSE {i \in DOMAIN instructions : instructions[i].kind = "check"}

GetFTDCAvailabilityCheckResult == Given \intersect answered

\* The proof is promoted as it is, whichever machine the run is about.
promote ==
  /\ pc = "p"
  /\ \E i \in GetFTDCAvailabilityCheckResult :
       /\ instr' = i
       /\ ToProduction(i)
  /\ UNCHANGED <<tee, registered, production, instructions, spent, answered, epoch,
                 policy, faults, file, command, resumed, teeID, state, attest, runs>>

\* Fifteen polls, two seconds apart, brought nothing.
pollsFail ==
  /\ pc = "p"
  /\ \/ /\ \A i \in Given : i \notin DOMAIN instructions
                            \/ instructions[i].tee # tee \/ ~ instructions[i].cosigned
        /\ GetFTDCAvailabilityCheckResult = {}
        /\ NoFault
     \/ Fault
  /\ Stops("failed")
  /\ UNCHANGED <<world, file, command, resumed, teeID, state, attest, instr, runs>>

Finished == pc = "end" \/ (pc = "p sent" /\ receipt.status = "mined")

\* The file has done its work; that it could not be removed is not noticed.
finish ==
  /\ Finished
  /\ \/ file' = NoFile /\ NoFault
     \/ file' = file /\ Fault
  /\ Stops("succeeded")
  /\ UNCHANGED <<world, command, resumed, teeID, state, attest, instr, runs>>

\* The tool is killed; a write it was in the middle of is torn.
kill ==
  /\ pc # "idle"
  /\ Fault
  /\ Stops("failed")
  /\ \/ file' = file
     \/ pc \in Waiting \ {"p sent"} /\ receipt # NoReceipt /\ file' = Torn
  /\ UNCHANGED <<world, command, resumed, teeID, state, attest, instr, runs>>

RegisterNode ==
  \/ info \/ preRegister \/ requestAttestation \/ requestAvailabilityCheck
  \/ \E l \in {"r", "R", "a"} : skip(l) \/ save(l)
  \/ reverted \/ promote \/ finish

Step ==
  \/ mine \/ expire \/ answer \/ restart \/ newEpoch \/ newPolicy
  \/ RegisterNode \/ timeout \/ pollsFail \/ kill

RegistrationNext ==
  \/ Step
  \/ \E c \in Commands, resume \in BOOLEAN : start(c, resume)

\* Blocks are made, providers answer and the proxy follows the chain; the tool
\* goes on as long as it is not killed.
RegistrationFairness ==
  /\ WF_regVars(mine) /\ WF_regVars(answer) /\ WF_regVars(newPolicy)
  /\ WF_regVars(RegisterNode)

RegistrationSpec == RegistrationInit /\ [][RegistrationNext]_regVars /\ RegistrationFairness

-----------------------------------------------------------------------------
(* What is true of it *)

Machines == 1 .. tee

Instructions == [kind : {"attest", "check"}, tee : Machines, cosigned : BOOLEAN]
Transactions == [kind : {"register", "attest", "check", "promote"}, tee : Machines, id : Nat]
States == [steps : SUBSET Steps, attest : Nat, instr : Nat]

\* Every variable has its type; what is on the chain is about machines that
\* existed, and the tool only goes by instructions that were mined.
TypeOK ==
  /\ tee \in Nat \ {0}
  /\ registered \subseteq Machines /\ production \subseteq registered
  /\ instructions \in Seq(Instructions)
  /\ spent \subseteq DOMAIN instructions /\ answered \subseteq DOMAIN instructions
  /\ epoch \in Nat /\ policy \in Nat
  /\ pending \in Seq(Transactions)
  /\ faults \in Nat /\ runs \in Nat
  /\ file \in [status : {"none", "torn", "written"}, saved : States]
  /\ pc \in {"idle", "info", "end"} \union Steps \union Waiting
  /\ command \subseteq Steps
  /\ resumed \in BOOLEAN
  /\ teeID \in 0 .. tee
  /\ state \in States
  /\ attest \in 0 .. Len(instructions) /\ instr \in 0 .. Len(instructions)
  /\ receipt \in [status : {"none", "mined", "reverted"}, id : Nat]
  /\ outcome \in {"none", "succeeded", "failed"}

Names(i, kind) == i \in DOMAIN instructions /\ instructions[i].kind = kind

\* Whatever was lost, late, torn or killed, the state file never claims more
\* than the chain has: the attestation and the check it names were mined, are
\* about one machine, and that machine is registered.
StateFileTrue ==
  file.status = "written" =>
    LET st == file.saved IN
    /\ st.steps \intersect {"r", "R"} # {} => Names(st.attest, "attest")
    /\ "a" \in st.steps => Names(st.instr, "check")
    /\ {"r", "a"} \subseteq st.steps =>
         instructions[st.attest].tee = instructions[st.instr].tee

\* A run that checks and promotes, started without a state file, succeeds only
\* with the machine it found in production.
FreshRunIsTrue ==
  [][finish /\ ~ resumed /\ {"a", "p"} \subseteq command => teeID \in production]_regVars

\* Whatever earlier runs left behind, one full run that starts afresh and meets
\* no fault puts the running machine into production.
Settled ==
  /\ faults = MaxFaults /\ tee > MaxRestarts /\ pending = <<>>
  /\ epoch = MaxEpoch /\ InSync
CleanRunRegisters ==
  (Settled /\ pc = "info" /\ ~ resumed /\ command = Steps) ~> tee \in production
=============================================================================
