---------------------------- MODULE VerifyDeploy ----------------------------
(***************************************************************************)
(* verify-deploy: a report on how far a deployment has come.  It looks at  *)
(* the environment, at extension.env, at the registry and at the services, *)
(* group after group, while jobs of module ExtensionSetup may be at work;  *)
(* every group that needs the file reads it again.  A check passes, warns, *)
(* fails or is skipped, and only failures make the exit code 1.            *)
(***************************************************************************)
EXTENDS ExtensionSetup, SequencesExt

CONSTANTS
  Requests,        \* flags it is run with: [groups, path, ids]
  MaxReports       \* bound on its runs

VARIABLES
  asked,           \* [groups, path, ids]: -step, -config and -checks
  left,            \* the groups still to come
  file,            \* extension.env as the register group read it
  report,          \* the results so far
  lost,            \* the chain failed to answer a lookup
  exitCode,        \* of the last run that ended, or "none"
  reports,
  rewritten        \* history: extension.env was written while the report is made

verifyVars == <<asked, left, file, report, lost, exitCode, reports, rewritten>>
vars == <<setupVars, verifyVars>>

AllGroups == <<"deploy", "register", "registry", "services", "tee-version",
               "tee-machine", "test">>
AllIds == {"D1", "D3", "D5", "D6", "D7", "R1-R7", "R1", "R2", "R3", "R4", "R7", "S2", "S5",
           "S7", "S9", "S10", "V2", "V4", "V6", "T1", "T5", "T10", "E1", "E3", "E6"}

\* What -step may name: one group of checks, or all of them.
Selections ==
  {AllGroups, <<"deploy">>, <<"register", "registry">>, <<"services">>,
   <<"tee-version">>, <<"tee-machine">>, <<"test">>}

ASSUME RequestsAssumption ==
  Requests \subseteq [groups : Selections, path : BOOLEAN, ids : SUBSET AllIds]

Init ==
  /\ SetupInit
  /\ asked = [groups |-> <<>>, path |-> FALSE, ids |-> {}]
  /\ left = <<>>
  /\ file = NoConfig
  /\ report = {} /\ lost = FALSE
  /\ exitCode = "none"
  /\ reports = 0
  /\ rewritten = FALSE

-----------------------------------------------------------------------------
(* The checks *)

Check(id, about, status) == [id |-> id, about |-> about, status |-> status]
PassOr(cond, bad) == IF cond THEN "PASS" ELSE bad

Local == env.localMode \in {"true", ""}

CheckDeployerKeySource ==
  Check("D5", "key source", PassOr(env.deployKey \/ Local, "WARN"))

\* A line is there and well formed, or it is not there at all.
CheckExtensionEnvFormat(c) ==
  IF c.exists
  THEN {Check("D7", "INSTRUCTION_SENDER", PassOr(c.sender # 0, "FAIL")),
        Check("D7", "EXTENSION_ID", PassOr(c.ext # 0, "FAIL"))}
  ELSE {Check("D7", "extension.env", "SKIP")}

\* down: the lookups the chain did not answer.
checkChainID(down) == Check("D6", "chain id", PassOr("D6" \notin down, "FAIL"))

RegisterDeployChecks(down) ==
  {Check("D3", "manager", PassOr(AddressNotZero, "FAIL"))}
    \union (IF AddressNotZero
            THEN {Check("D1", "manager", PassOr(AddressHasCode /\ "D1" \notin down, "FAIL"))}
            ELSE {})
    \union {CheckDeployerKeySource,
            Check("D5", "funds", PassOr(KeyHasFunds /\ "D5" \notin down, "FAIL")),
            checkChainID(down)}
    \union (IF asked.path THEN CheckExtensionEnvFormat(config) ELSE {})

\* A file that is not there and a file without either line look the same.
parseExtensionEnv == [ext |-> config.ext, sender |-> config.sender]
NothingConfigured(c) == c.ext = 0 /\ c.sender = 0

\* The public ids begin far above zero, so the counter is never zero.
R1(down) == {Check("R1", "counter", PassOr("R1" \notin down, "FAIL"))}

OnChainSender(e) == IF e \in DOMAIN extensions THEN extensions[e].sender ELSE Foreign

R2(c, down) ==
  IF c.sender = 0 THEN {}
  ELSE {Check("R2", "sender", PassOr(OnChainSender(c.ext) = c.sender /\ "R2" \notin down, "FAIL"))}

R3(c, down) ==
  {Check("R3", "machine owner", PassOr(Has(c.ext, "machineOwner") /\ "R3" \notin down, "FAIL"))}

Mutant_R4_warns(c, down) ==
  {Check("R4", "key type", PassOr(Has(c.ext, "keyType") /\ "R4" \notin down, "WARN"))}

R4(c, down) ==
  {Check("R4", "key type", PassOr(Has(c.ext, "keyType") /\ "R4" \notin down, "FAIL"))}

\* The senders of all extensions are compared; those it cannot read are left
\* out.  Without the counter nothing is compared.
R7(c, down) ==
  IF c.sender = 0 \/ "R1" \in down THEN {}
  ELSE LET matching == {e \in DOMAIN extensions : extensions[e].sender = c.sender}
       IN {Check("R7", "unique sender",
             PassOr(Cardinality(matching) <= 1 \/ "R7" \in down, "WARN"))}

RegisterRegistrationChecks(c, down) ==
  R1(down) \union
  IF c.ext = 0 THEN {Check("R2", "id format", "FAIL")}
  ELSE R2(c, down) \union R3(c, down) \union R4(c, down) \union R7(c, down)

\* A proxy answers while a node runs behind it.
Reachable(url) == url /\ node # 0
ProxyCheck(id, url) ==
  Check(id, "proxy", IF ~ url THEN "SKIP" ELSE PassOr(Reachable(url), "WARN"))

RegisterServicesChecks(c) ==
  {Check("S2", "EXTENSION_ID", IF ~ asked.path THEN "SKIP" ELSE PassOr(c.ext # 0, "FAIL")),
   Check("S5", "port", PassOr(node = 0, "WARN")),
   Check("S7", "ports", "PASS"),
   ProxyCheck("S9", env.extProxy),
   Check("S10", "proxy key", PassOr(env.localMode # "false" \/ env.proxyKey, "WARN"))}

RegisterTeeVersionChecks(c) ==
  {Check("V2", "owner key",
     PassOr(env.ownerKey # "unset" \/ env.deployKey \/ Local, "WARN")),
   Check("V4", "EXTENSION_ID",
     IF ~ asked.path \/ ~ c.exists THEN "SKIP" ELSE PassOr(c.ext # 0, "FAIL")),
   ProxyCheck("V6", env.extProxy)}

RegisterTeeMachineChecks ==
  {Check("T1", "simulated", PassOr(~ env.simulated \/ env.localMode # "false", "WARN")),
   ProxyCheck("T5", env.normalProxy),
   ProxyCheck("T10", env.extProxy)}

RegisterTestChecks(c) ==
  {Check("E1", "INSTRUCTION_SENDER",
     IF ~ asked.path \/ ~ c.exists THEN "SKIP" ELSE PassOr(c.sender # 0, "FAIL")),
   ProxyCheck("E3", env.extProxy),
   Check("E6", "opcodes", "PASS")}

HasFailures(r) == \E res \in r : res.status = "FAIL"

-----------------------------------------------------------------------------
(* The run *)

Verifying == left # <<>> \/ (reports > 0 /\ exitCode = "none")

begins(request) ==
  /\ ~ Verifying /\ reports < MaxReports
  /\ reports' = reports + 1
  /\ asked' = request
  /\ report' = {} /\ file' = NoConfig
  /\ UNCHANGED <<env, chainVars, local, jobVars, rewritten>>

startVerify(request) ==
  /\ begins(request)
  /\ left' = request.groups /\ exitCode' = "none"
  /\ lost' = FALSE /\ NoFault

\* Whoever asks about the chain needs a node that says which chain it is.
noSupport(request) ==
  /\ begins(request)
  /\ request.groups[1] \in {"deploy", "register"}
  /\ left' = <<>> /\ exitCode' = "1"
  /\ lost' = TRUE /\ Fault

Adds(results) ==
  /\ report' = report \union results
  /\ left' = Tail(left)

\* A group whose lookups the chain answers, all or all but one.
Answered(down) ==
  \/ down = {} /\ NoFault /\ UNCHANGED lost
  \/ Cardinality(down) = 1 /\ Fault /\ lost' = TRUE

verifyOnly == <<env, chainVars, local, jobVars, asked, exitCode, reports, rewritten>>

deployGroup ==
  /\ left # <<>> /\ Head(left) = "deploy"
  /\ \E down \in {{}} \union {{i} : i \in {"D1", "D5", "D6"}} :
       Answered(down) /\ Adds(RegisterDeployChecks(down))
  /\ UNCHANGED <<verifyOnly, file>>

\* The file is read first, the registry afterwards.
registerGroup ==
  /\ left # <<>> /\ Head(left) = "register"
  /\ file' = config
  /\ IF asked.path /\ ~ NothingConfigured(parseExtensionEnv)
     THEN left' = Tail(left) /\ UNCHANGED report
     ELSE /\ report' = report \union {Check("R1-R7", "registration", "SKIP")}
          /\ left' = Tail(Tail(left))
  /\ UNCHANGED <<verifyOnly, faults, lost>>

registryGroup ==
  /\ left # <<>> /\ Head(left) = "registry"
  /\ \E down \in {{}} \union {{i} : i \in {"R1", "R2", "R3", "R4", "R7"}} :
       Answered(down) /\ Adds(RegisterRegistrationChecks(file, down))
  /\ UNCHANGED <<verifyOnly, file>>

otherGroup ==
  /\ left # <<>>
  /\ \/ Head(left) = "services" /\ Adds(RegisterServicesChecks(config))
     \/ Head(left) = "tee-version" /\ Adds(RegisterTeeVersionChecks(config))
     \/ Head(left) = "tee-machine" /\ Adds(RegisterTeeMachineChecks)
     \/ Head(left) = "test" /\ Adds(RegisterTestChecks(config))
  /\ UNCHANGED <<verifyOnly, faults, file, lost>>

\* The filter comes before the verdict.
endVerify ==
  /\ left = <<>> /\ Verifying
  /\ exitCode' = IF HasFailures({res \in report : res.id \in asked.ids}) THEN "1" ELSE "0"
  /\ rewritten' = FALSE
  /\ UNCHANGED <<setupVars, asked, left, file, report, lost, reports>>

VerifyStep == deployGroup \/ registerGroup \/ registryGroup \/ otherGroup \/ endVerify

\* The jobs and the chain go on besides.
Besides ==
  /\ rewritten' = (rewritten \/ (Verifying /\ config' # config))
  /\ UNCHANGED <<asked, left, file, report, lost, exitCode, reports>>

\* Nobody starts a fresh chain while the report is being made.
Next ==
  \/ mine /\ Besides
  \/ registerForeign /\ Besides
  \/ ~ Verifying /\ reset /\ Besides
  \/ Begin /\ Besides
  \/ JobStep /\ Besides
  \/ fail /\ Besides
  \/ \E request \in Requests : startVerify(request) \/ noSupport(request)
  \/ VerifyStep

Fairness ==
  /\ WF_vars(mine /\ Besides)
  /\ WF_vars(JobStep /\ Besides)
  /\ WF_vars(VerifyStep)

Spec == Init /\ [][Next]_vars /\ Fairness

-----------------------------------------------------------------------------
(* What is true of it *)

TypeOK ==
  /\ SetupTypeOK
  /\ asked.groups \in Seq(ToSet(AllGroups)) /\ asked.ids \subseteq AllIds
  /\ left \in Seq(ToSet(AllGroups))
  /\ \A res \in report : res.id \in AllIds /\ res.status \in {"PASS", "WARN", "FAIL", "SKIP"}
  /\ exitCode \in {"none", "0", "1"}
  /\ rewritten \in BOOLEAN

\* verify-deploy after pre-build: of a file with both lines, written on this
\* chain, no registration check fails, whatever other jobs do meanwhile.
VerifyPasses ==
  exitCode # "none" /\ ~ lost /\ Current(file) =>
    \A res \in report : res.id \in {"R1", "R2", "R3", "R4", "R7"} => res.status = "PASS"

Everything == [groups |-> AllGroups, path |-> TRUE, ids |-> AllIds]

\* A full report that exits with 0, on a file nobody rewrote meanwhile, is about
\* a usable extension: also when the file is from an earlier chain, or half
\* written.
VerifyCatches ==
  [][endVerify /\ exitCode' = "0" /\ asked = Everything
       /\ ~ rewritten => Complete(config) /\ Usable(config)]_vars
=============================================================================
