--------------------------- MODULE ExtensionSetup ---------------------------
(***************************************************************************)
(* How an extension comes to exist: the jobs an operator runs against the  *)
(* registry.  pre-build deploys an InstructionSender, registers an         *)
(* extension for it, makes the deployer an owner of it and writes the pair *)
(* to config/extension.env; post-build allows the running node's version   *)
(* and sets its governance; run-test has the sender look up its own        *)
(* extension.  register-extension can also be run by itself.               *)
(*                                                                         *)
(* Every job is a sequence of steps, most of them one transaction that is  *)
(* waited for.  Others register extensions at the same time, a wait may    *)
(* end before the transaction is mined, a job may be killed, and a local   *)
(* chain may be started afresh under a configuration that stays on disk.   *)
(***************************************************************************)
EXTENDS Integers, Sequences, FiniteSets

CONSTANTS
  Environments,    \* what .env and the addresses file may say
  MaxForeign,      \* bound on extensions registered by others
  MaxFaults,       \* bound on faults: lost calls, late blocks, kills
  MaxRuns,         \* bound on jobs
  MaxResets        \* bound on fresh local chains

ASSUME SetupAssumption == {MaxForeign, MaxFaults, MaxRuns, MaxResets} \subseteq Nat

VARIABLES
  env,
  \* the chain
  deployed,        \* InstructionSenders deployed: 1 .. deployed
  extensions,      \* the registry; the position of an extension is its id
  latched,         \* sender -> the id setExtensionId found, or 0
  pending,         \* transactions sent and not mined, in nonce order
  resets, faults,
  \* the machine of the operator
  config,          \* extension.env
  node,            \* the extension the running node belongs to, or 0
  \* the job that runs
  job, step, waits, \* waits: the transaction of this step has been sent
  sender, ext, receipt, outcome, runs

chainVars == <<deployed, extensions, latched, pending, resets>>
local == <<config, node>>
jobVars == <<job, step, waits, sender, ext, receipt, outcome, runs>>
setupVars == <<env, chainVars, faults, local, jobVars>>

Foreign == 0
MaxSenders == MaxRuns
Senders == 1 .. MaxSenders

\* The file; era, the chain it was written on, is not part of it.
Config(e, s) == [exists |-> TRUE, ext |-> e, sender |-> s, era |-> resets]
NoConfig == [exists |-> FALSE, ext |-> 0, sender |-> 0, era |-> 0]
NoReceipt == [status |-> "none", id |-> 0]

SetupInit ==
  /\ env \in Environments
  /\ deployed = 0
  /\ extensions = <<>>
  /\ latched = [s \in Senders |-> 0]
  /\ pending = <<>>
  /\ resets = 0 /\ faults = 0
  /\ config = NoConfig
  /\ node = 0
  /\ job = "none" /\ step = "none" /\ waits = FALSE
  /\ sender = 0 /\ ext = 0
  /\ receipt = NoReceipt
  /\ outcome = "none"
  /\ runs = 0

Fault == faults < MaxFaults /\ faults' = faults + 1
NoFault == UNCHANGED faults

-----------------------------------------------------------------------------
(* The registry *)

NewExtension(s) ==
  [sender |-> s, machineOwner |-> FALSE, projectOwner |-> FALSE, keyType |-> FALSE,
   version |-> FALSE, governance |-> {}]

\* A sender has one extension: the registry refuses a second.
ExtensionsOf(s) == {e \in DOMAIN extensions : extensions[e].sender = s}

\* The key post-build signs with.
privKey == IF env.ownerKey = "unset" THEN "deployer" ELSE env.ownerKey

\* GOVERNANCE_SIGNERS and GOVERNANCE_THRESHOLD; 0 stands for unset or not a
\* number.
parseSigners(raw, fallback) == IF raw = {} THEN {fallback} ELSE raw
parseThreshold(raw) == IF raw = 0 THEN 1 ELSE raw

Governance ==
  [signers |-> parseSigners(env.signers, IF env.initialOwner # "unset"
                                         THEN env.initialOwner ELSE privKey),
   threshold |-> parseThreshold(env.threshold)]

\* The first extension whose sender is the contract that asks.
Lookup(s) == CHOOSE e \in ExtensionsOf(s) : \A f \in ExtensionsOf(s) : e <= f

Succeeds(tx) ==
  CASE tx.kind = "deploy"   -> TRUE
    [] tx.kind = "register" -> tx.sender <= deployed /\ ExtensionsOf(tx.sender) = {}
    [] tx.kind = "bind"     -> latched[tx.sender] = 0 /\ ExtensionsOf(tx.sender) # {}
    [] tx.kind \in {"version", "governance"} ->
         tx.ext \in DOMAIN extensions /\ privKey = "deployer"
    [] OTHER -> tx.ext \in DOMAIN extensions

Execute(tx) ==
  CASE tx.kind = "deploy" ->
         deployed' = deployed + 1 /\ UNCHANGED <<extensions, latched>>
    [] tx.kind = "register" ->
         /\ extensions' = Append(extensions, NewExtension(tx.sender))
         /\ UNCHANGED <<deployed, latched>>
    [] tx.kind = "bind" ->
         latched' = [latched EXCEPT ![tx.sender] = Lookup(tx.sender)]
         /\ UNCHANGED <<deployed, extensions>>
    [] tx.kind = "governance" ->
         extensions' = [extensions EXCEPT ![tx.ext].governance = {Governance}]
         /\ UNCHANGED <<deployed, latched>>
    [] OTHER ->
         extensions' = [extensions EXCEPT ![tx.ext][tx.kind] = TRUE]
         /\ UNCHANGED <<deployed, latched>>

\* The job waits for the newest transaction, and a nonce comes after all
\* those before it.
mine ==
  /\ pending # <<>>
  /\ LET tx == Head(pending) IN
     /\ IF Succeeds(tx) THEN Execute(tx)
        ELSE UNCHANGED <<deployed, extensions, latched>>
     /\ receipt' = IF waits /\ Len(pending) = 1
                   THEN [status |-> IF Succeeds(tx) THEN "mined" ELSE "reverted",
                         id |-> IF tx.kind = "deploy" THEN deployed' ELSE Len(extensions')]
                   ELSE receipt
  /\ pending' = Tail(pending)
  /\ UNCHANGED <<env, resets, faults, local, job, step, waits, sender, ext, outcome, runs>>

\* Somebody else registers an extension, for a sender of their own.
registerForeign ==
  /\ Cardinality(ExtensionsOf(Foreign)) < MaxForeign
  /\ extensions' = Append(extensions, NewExtension(Foreign))
  /\ UNCHANGED <<env, deployed, latched, pending, resets, faults, local, jobVars>>

\* A local chain starts afresh; what is on disk stays, and so does a node.
reset ==
  /\ env.localMode # "false" /\ job = "none" /\ resets < MaxResets
  /\ resets' = resets + 1
  /\ deployed' = 0 /\ extensions' = <<>> /\ pending' = <<>>
  /\ latched' = [s \in Senders |-> 0]
  /\ UNCHANGED <<env, faults, local, jobVars>>

-----------------------------------------------------------------------------
(* The jobs *)

Mutant_Steps_no_keyType(j) ==
  CASE j = "pre-build" -> <<"preflight", "deploy", "register", "machineOwner",
                            "projectOwner", "write">>
    [] j = "register-extension" -> <<"register", "machineOwner", "projectOwner">>
    [] j = "post-build" -> <<"version", "governance">>
    [] j = "bind" -> <<"bind">>
    [] OTHER -> <<>>

Steps(j) ==
  CASE j = "pre-build" -> <<"preflight", "deploy", "register", "machineOwner",
                            "projectOwner", "keyType", "write">>
    [] j = "register-extension" -> <<"register", "machineOwner", "projectOwner", "keyType">>
    [] j = "post-build" -> <<"version", "governance">>
    [] j = "bind" -> <<"bind">>
    [] OTHER -> <<>>

\* The next step of the job, or its end.
After(s) ==
  LET k == CHOOSE k \in DOMAIN Steps(job) : Steps(job)[k] = s
  IN IF k = Len(Steps(job)) THEN "end" ELSE Steps(job)[k + 1]

Stops(what) ==
  /\ job' = "none" /\ step' = "none" /\ waits' = FALSE
  /\ outcome' = what
  /\ receipt' = NoReceipt

begin(j, s, e) ==
  /\ job = "none" /\ runs < MaxRuns
  /\ runs' = runs + 1
  /\ job' = j
  /\ step' = Steps(j)[1]
  /\ sender' = s
  /\ ext' = e
  /\ outcome' = "none"
  /\ UNCHANGED <<env, chainVars, faults, local, waits, receipt>>

preBuild == begin("pre-build", 0, 0)

\* It wants a contract at the address it is given.
registerExtension == \E s \in 1 .. deployed : begin("register-extension", s, 0)

\* The extension id comes from the node, not from the file.
postBuild == node # 0 /\ begin("post-build", 0, node)

\* run-test is given the sender of the file.
SetExtensionId == config.sender # 0 /\ begin("bind", config.sender, 0)

\* Containers get the extension id of the file of that moment.
startServices ==
  /\ config.ext # 0 /\ node # config.ext
  /\ node' = config.ext
  /\ UNCHANGED <<env, chainVars, faults, config, jobVars>>

-----------------------------------------------------------------------------
(* Their steps *)

quiet == <<env, deployed, extensions, latched, resets, local, runs>>

At(s) == step = s /\ ~ waits

Goes(to) ==
  /\ step' = to
  /\ UNCHANGED <<job, waits, outcome, receipt>>

\* A transaction that would revert now is not sent.
Send(tx) ==
  \/ /\ Succeeds(tx)
     /\ pending' = Append(pending, tx)
     /\ waits' = TRUE
     /\ UNCHANGED <<job, step, outcome, receipt>>
  \/ ~ Succeeds(tx) /\ Stops("failed") /\ UNCHANGED pending

Tx(kind, s, e) == [kind |-> kind, sender |-> s, ext |-> e]

AddressNotZero == env.manager # "zero"
AddressHasCode == env.manager = "code"
KeyHasFunds == env.funded

preflight ==
  /\ At("preflight")
  /\ IF AddressNotZero /\ AddressHasCode /\ KeyHasFunds
     THEN Goes(After("preflight")) ELSE Stops("failed")
  /\ UNCHANGED <<quiet, faults, pending, sender, ext>>

DeployInstructionSender ==
  /\ At("deploy")
  /\ IF env.tokens THEN Send(Tx("deploy", 0, 0)) ELSE Stops("failed") /\ UNCHANGED pending
  /\ UNCHANGED <<quiet, faults, sender, ext>>

\* Always sent, whatever the registry already has.
register ==
  /\ At("register")
  /\ Send(Tx("register", sender, 0))
  /\ UNCHANGED <<quiet, faults, sender, ext>>

Has(e, k) == e \in DOMAIN extensions /\ extensions[e][k]

\* Owners and key type: looked up, and added when missing.
ensure(k) ==
  /\ At(k)
  /\ IF Has(ext, k) THEN Goes(After(k)) /\ UNCHANGED pending
     ELSE Send(Tx(k, 0, ext))
  /\ UNCHANGED <<quiet, faults, sender, ext>>

allowTeeVersion == ensure("version")

\* A failed lookup is passed over, and the transaction sent again.
SetTeeGovernance ==
  /\ At("governance")
  /\ \/ /\ Governance.threshold > Cardinality(Governance.signers)
        /\ NoFault /\ Stops("failed") /\ UNCHANGED pending
     \/ /\ Governance.threshold <= Cardinality(Governance.signers)
        /\ ext \in DOMAIN extensions /\ extensions[ext].governance = {Governance}
        /\ NoFault /\ Goes(After("governance")) /\ UNCHANGED pending
     \/ /\ Governance.threshold <= Cardinality(Governance.signers)
        /\ \/ ~ (ext \in DOMAIN extensions /\ extensions[ext].governance = {Governance})
              /\ NoFault
           \/ Fault
        /\ Send(Tx("governance", 0, ext))
  /\ UNCHANGED <<quiet, sender, ext>>

bind ==
  /\ At("bind")
  /\ Send(Tx("bind", sender, 0))
  /\ UNCHANGED <<quiet, faults, sender, ext>>

Mutant_Confirmed_last_id ==
  /\ waits /\ receipt.status = "mined"
  /\ sender' = IF step = "deploy" THEN receipt.id ELSE sender
  /\ ext' = IF step = "register" THEN Len(extensions) ELSE ext
  /\ step' = After(step) /\ waits' = FALSE
  /\ receipt' = NoReceipt
  /\ UNCHANGED <<quiet, faults, pending, job, outcome>>

Mutant_Confirmed_first_sender ==
  /\ waits /\ receipt.status = "mined"
  /\ sender' = IF step = "deploy" THEN 1 ELSE sender
  /\ ext' = IF step = "register" THEN receipt.id ELSE ext
  /\ step' = After(step) /\ waits' = FALSE
  /\ receipt' = NoReceipt
  /\ UNCHANGED <<quiet, faults, pending, job, outcome>>

Mutant_Confirmed_any_sender ==
  /\ waits /\ receipt.status = "mined"
  /\ sender' = receipt.id
  /\ ext' = IF step = "register" THEN receipt.id ELSE ext
  /\ step' = After(step) /\ waits' = FALSE
  /\ receipt' = NoReceipt
  /\ UNCHANGED <<quiet, faults, pending, job, outcome>>

\* What the job learns from a receipt: the address, and the id the registry
\* gave in its event.
Confirmed ==
  /\ waits /\ receipt.status = "mined"
  /\ sender' = IF step = "deploy" THEN receipt.id ELSE sender
  /\ ext' = IF step = "register" THEN receipt.id ELSE ext
  /\ step' = After(step) /\ waits' = FALSE
  /\ receipt' = NoReceipt
  /\ UNCHANGED <<quiet, faults, pending, job, outcome>>

Reverted ==
  /\ waits /\ receipt.status = "reverted"
  /\ Stops("failed")
  /\ UNCHANGED <<quiet, faults, pending, sender, ext>>

writeConfig ==
  /\ step = "write"
  /\ config' = Config(ext, sender)
  /\ step' = "end"
  /\ UNCHANGED <<env, chainVars, faults, node, job, waits, sender, ext, receipt, outcome, runs>>

done ==
  /\ step = "end"
  /\ Stops("done")
  /\ UNCHANGED <<quiet, faults, pending, sender, ext>>

\* A lookup fails, two minutes pass without a receipt, or the job is killed;
\* the file may then have no line yet, or only the first.
fail ==
  /\ job # "none" /\ step # "end"
  /\ Fault
  /\ Stops("failed")
  /\ \/ UNCHANGED config
     \/ step = "write" /\ config' \in {Config(0, 0), Config(ext, 0)}
  /\ UNCHANGED <<env, chainVars, node, sender, ext, runs>>

JobStep ==
  \/ preflight \/ DeployInstructionSender \/ register
  \/ \E k \in {"machineOwner", "projectOwner", "keyType"} : ensure(k)
  \/ allowTeeVersion \/ SetTeeGovernance \/ bind
  \/ Confirmed \/ Reverted \/ writeConfig \/ done

Begin == preBuild \/ registerExtension \/ postBuild \/ SetExtensionId \/ startServices

SetupNext == mine \/ registerForeign \/ reset \/ Begin \/ JobStep \/ fail

\* Blocks are made, and a job goes on as long as it is not killed.
SetupFairness == WF_setupVars(mine) /\ WF_setupVars(JobStep)

SetupSpec == SetupInit /\ [][SetupNext]_setupVars /\ SetupFairness

-----------------------------------------------------------------------------
(* What is true of it *)

\* The file has both lines, and is about the chain as it is.
Complete(c) == c.ext # 0 /\ c.sender # 0
Current(c) == Complete(c) /\ c.era = resets

SetupTypeOK ==
  /\ env \in Environments
  /\ deployed \in 0 .. MaxSenders
  /\ extensions \in Seq([sender : 0 .. deployed, machineOwner : BOOLEAN,
       projectOwner : BOOLEAN, keyType : BOOLEAN, version : BOOLEAN,
       governance : SUBSET {Governance}])
  /\ latched \in [Senders -> 0 .. Len(extensions)]
  /\ Len(pending) <= MaxRuns
  /\ config \in [exists : BOOLEAN, ext : Nat, sender : 0 .. MaxSenders, era : Nat]
  /\ node \in Nat
  /\ sender \in 0 .. MaxSenders /\ ext \in Nat
  /\ outcome \in {"none", "done", "failed"}

\* The extension the file names is the one its sender has, and the one the
\* sender latched if it did; the deployer may own machines and wallets there.
Usable(c) ==
  /\ ExtensionsOf(c.sender) = {c.ext}
  /\ latched[c.sender] \in {0, c.ext}
  /\ \A k \in {"machineOwner", "projectOwner", "keyType"} : Has(c.ext, k)

\* Whoever registers at the same time, whatever is mined late and wherever a
\* job was killed: a file with both lines names a usable extension.
ConfigIsUsable == Current(config) => Usable(config)

\* Whatever earlier jobs left behind, a pre-build that meets no fault ends with
\* a new pair in the file.
Sound == AddressNotZero /\ AddressHasCode /\ KeyHasFunds /\ env.tokens
PreBuildConfigures ==
  (Sound /\ faults = MaxFaults /\ resets = MaxResets /\ job = "pre-build"
     /\ step = "preflight")
    ~> (job = "none" /\ outcome = "done" /\ Current(config) /\ config.sender = deployed)
=============================================================================
