-------------------------- MODULE VerifyDeployProofs --------------------------
(***************************************************************************)
(* Theorems about the setup jobs and verify-deploy, for any environments,  *)
(* any number of jobs, faults, foreign extensions and fresh chains, and    *)
(* any requests for a report.                                              *)
(***************************************************************************)
EXTENDS VerifyDeploy, SequenceTheorems, FunctionTheorems, FiniteSetTheorems, TLAPS

-----------------------------------------------------------------------------
(* The invariant of the jobs *)

Jobs == {"pre-build", "register-extension", "post-build", "bind"}
Flags == {"machineOwner", "projectOwner", "keyType"}
Kinds == Flags \union {"deploy", "register", "version", "governance", "bind"}

Extension == [sender : 0 .. deployed, machineOwner : BOOLEAN, projectOwner : BOOLEAN,
              keyType : BOOLEAN, version : BOOLEAN, governance : SUBSET {Governance}]
Transaction == [kind : Kinds, sender : 0 .. MaxSenders, ext : Nat]
File == [exists : BOOLEAN, ext : Nat, sender : 0 .. MaxSenders, era : Nat]
Receipt == [status : {"none", "mined", "reverted"}, id : Nat]

ChainTypes ==
  /\ deployed \in Nat /\ resets \in Nat /\ faults \in Nat
  /\ extensions \in Seq(Extension)
  /\ latched \in [Senders -> 0 .. Len(extensions)]
  /\ pending \in Seq(Transaction)

\* A step that has sent a transaction waits for it.
JobTypes ==
  /\ env \in Environments
  /\ runs \in 0 .. MaxRuns
  /\ node \in Nat /\ ext \in Nat /\ sender \in 0 .. MaxSenders
  /\ waits \in BOOLEAN /\ (waits => step \in Kinds)
  /\ receipt \in Receipt
  /\ outcome \in {"none", "done", "failed"}
  /\ config \in File /\ (config.exists \/ (config.ext = 0 /\ config.sender = 0))

\* Where a job is.
Placed ==
  \/ job = "none" /\ step = "none" /\ ~ waits
  \/ /\ job \in Jobs /\ runs > 0
     /\ step = "end" \/ \E k \in DOMAIN Steps(job) : step = Steps(job)[k]

\* How many transactions of a sequence deploy a contract.
DeploysOf(txs) == Cardinality({k \in DOMAIN txs : txs[k].kind = "deploy"})

\* Of every job at most one transaction is left behind, and at most one
\* contract comes.
WillDeploy == step = "preflight" \/ At("deploy")
Bounded ==
  /\ Len(pending) + (IF job # "none" /\ ~ waits THEN 1 ELSE 0) <= runs
  /\ deployed + DeploysOf(pending) + (IF WillDeploy THEN 1 ELSE 0) <= runs

\* What the registry holds.  Only a foreign sender has more than one extension;
\* a key type is only ever added after both owners.
Registry ==
  /\ \A e, f \in DOMAIN extensions :
       extensions[e].sender = extensions[f].sender /\ e # f => extensions[e].sender = Foreign
  /\ \A e \in DOMAIN extensions :
       /\ extensions[e].keyType => extensions[e].projectOwner
       /\ extensions[e].projectOwner => extensions[e].machineOwner
  /\ \A s \in Senders : latched[s] # 0 => extensions[latched[s]].sender = s

\* What is on its way keeps it so.
Fits(tx) ==
  /\ tx.kind = "register" => tx.sender # Foreign
  /\ tx.kind = "bind" => tx.sender \in Senders
  /\ tx.kind = "projectOwner" => Has(tx.ext, "machineOwner")
  /\ tx.kind = "keyType" => Has(tx.ext, "projectOwner")
InFlight == \A k \in DOMAIN pending : Fits(pending[k])

\* What a job knows when it is at a step.
OwnExtension ==
  ext \in DOMAIN extensions /\ extensions[ext].sender = sender /\ sender # Foreign
Knows ==
  /\ step = "register" => sender # Foreign
  /\ step \in Flags \union {"write"} => OwnExtension
  /\ step = "projectOwner" => Has(ext, "machineOwner")
  /\ step = "keyType" => Has(ext, "projectOwner")
  /\ step = "write" => Has(ext, "keyType")
  /\ step = "bind" => sender \in Senders

\* The transaction a job waits for is the last one sent.
Awaited(tx) ==
  /\ tx.kind = step
  /\ step = "register" => tx.sender = sender
  /\ step \in Flags => tx.ext = ext
Mined ==
  /\ step = "deploy" => receipt.id \in 1 .. deployed
  /\ step = "register" => /\ receipt.id \in DOMAIN extensions
                          /\ extensions[receipt.id].sender = sender
  /\ step \in Flags => Has(ext, step)
Receipts ==
  /\ receipt.status # "none" => waits /\ pending = <<>>
  /\ receipt.status = "mined" => Mined
  /\ waits /\ receipt.status = "none" => pending # <<>> /\ Awaited(pending[Len(pending)])

\* A file with both lines, written on this chain, names a finished extension.
Names(c) ==
  /\ c.ext \in DOMAIN extensions
  /\ extensions[c.ext].sender = c.sender /\ c.sender # Foreign
  /\ Has(c.ext, "keyType")
Truthful(c) == c.era <= resets /\ (Current(c) => Names(c))

SetupInv ==
  /\ ChainTypes /\ JobTypes /\ Placed
  /\ Bounded
  /\ Registry /\ InFlight
  /\ Knows /\ Receipts
  /\ Truthful(config)

-----------------------------------------------------------------------------
(* The invariant of the report *)

\* rest is the end of groups; what came before it is done.
EndOf(groups, rest) ==
  /\ rest \in Seq(ToSet(AllGroups)) /\ Len(rest) <= Len(groups)
  /\ \A i \in 1 .. Len(rest) : rest[i] = groups[Len(groups) - Len(rest) + i]
DoneOf(groups, rest, g) == \E i \in 1 .. Len(groups) - Len(rest) : groups[i] = g

Position ==
  /\ asked.groups \in Selections \union {<<>>} /\ asked.ids \subseteq AllIds
  /\ EndOf(asked.groups, left)
Passed(g) == DoneOf(asked.groups, left, g)

Registrations == {"R1", "R2", "R3", "R4", "R7"}
AllPass == \A res \in report : res.id \in Registrations => res.status = "PASS"

ReportTypes ==
  /\ \A res \in report : res.id \in AllIds /\ res.status \in {"PASS", "WARN", "FAIL", "SKIP"}
  /\ lost \in BOOLEAN /\ rewritten \in BOOLEAN
  /\ exitCode \in {"none", "0", "1"}
  /\ reports \in Nat /\ file \in File

\* The registration checks are made of the file as it was read.
Registered ==
  /\ (\E res \in report : res.id \in Registrations) => Passed("registry")
  /\ Truthful(file)
  /\ ~ lost /\ Current(file) => AllPass

\* What a full report has found out of the file when nothing failed.
Sees ==
  Verifying /\ asked = Everything /\ ~ rewritten /\ ~ HasFailures(report) =>
    /\ Passed("deploy") /\ config.exists => Complete(config)
    /\ Passed("register") /\ Complete(config) => file = config
    /\ Passed("registry") /\ Complete(config) => Names(config)
    /\ Passed("services") => config.ext # 0

ReportInv == Position /\ ReportTypes /\ Registered /\ Sees

Inv == SetupInv /\ ReportInv
-----------------------------------------------------------------------------
(* The steps of a job, and the groups of a report *)

LEMMA StepOrder ==
  /\ job = "pre-build" =>
       /\ After("preflight") = "deploy" /\ After("deploy") = "register"
       /\ After("register") = "machineOwner" /\ After("machineOwner") = "projectOwner"
       /\ After("projectOwner") = "keyType" /\ After("keyType") = "write"
  /\ job = "register-extension" =>
       /\ After("register") = "machineOwner" /\ After("machineOwner") = "projectOwner"
       /\ After("projectOwner") = "keyType" /\ After("keyType") = "end"
  /\ job = "post-build" => After("version") = "governance" /\ After("governance") = "end"
  /\ job = "bind" => After("bind") = "end"
<1>1. ASSUME job = "pre-build"
      PROVE  /\ After("preflight") = "deploy" /\ After("deploy") = "register"
             /\ After("register") = "machineOwner" /\ After("machineOwner") = "projectOwner"
  BY <1>1 DEF After, Steps
<1>2. ASSUME job = "pre-build"
      PROVE  After("projectOwner") = "keyType" /\ After("keyType") = "write"
  BY <1>2 DEF After, Steps
<1>3. ASSUME job = "register-extension"
      PROVE  /\ After("register") = "machineOwner" /\ After("machineOwner") = "projectOwner"
             /\ After("projectOwner") = "keyType" /\ After("keyType") = "end"
  BY <1>3 DEF After, Steps
<1>4. job = "post-build" => After("version") = "governance" /\ After("governance") = "end"
  BY DEF After, Steps
<1>5. job = "bind" => After("bind") = "end"
  BY DEF After, Steps
<1>. QED BY <1>1, <1>2, <1>3, <1>4, <1>5

\* The steps of each job, one by one.
StepsOf(j) ==
  CASE j = "pre-build" -> Flags \union {"preflight", "deploy", "register", "write"}
    [] j = "register-extension" -> Flags \union {"register"}
    [] j = "post-build" -> {"version", "governance"}
    [] OTHER -> {"bind"}

LEMMA StepNames ==
  ASSUME NEW j \in Jobs
  PROVE  /\ \A k \in DOMAIN Steps(j) : Steps(j)[k] \in StepsOf(j)
         /\ \A s \in StepsOf(j) : \E k \in DOMAIN Steps(j) : Steps(j)[k] = s
         /\ Steps(j)[1] \in StepsOf(j)
<1>1. CASE j = "pre-build"
  <2>1. Steps(j) = <<"preflight", "deploy", "register", "machineOwner", "projectOwner",
                     "keyType", "write">>
    BY <1>1 DEF Steps
  <2>2. StepsOf(j) = Flags \union {"preflight", "deploy", "register", "write"}
    BY <1>1 DEF StepsOf
  <2>. QED BY <2>1, <2>2 DEF Flags
<1>2. CASE j = "register-extension"
  <2>1. Steps(j) = <<"register", "machineOwner", "projectOwner", "keyType">>
    BY <1>2 DEF Steps
  <2>2. StepsOf(j) = Flags \union {"register"}
    BY <1>2 DEF StepsOf
  <2>. QED BY <2>1, <2>2 DEF Flags
<1>3. CASE j = "post-build"
  <2>1. Steps(j) = <<"version", "governance">> /\ StepsOf(j) = {"version", "governance"}
    BY <1>3 DEF Steps, StepsOf
  <2>. QED BY <2>1
<1>4. CASE j = "bind"
  <2>1. Steps(j) = <<"bind">> /\ StepsOf(j) = {"bind"}
    BY <1>4 DEF Steps, StepsOf
  <2>. QED BY <2>1
<1>. QED BY <1>1, <1>2, <1>3, <1>4 DEF Jobs

\* Where a job may be, and where it goes.
LEMMA Places ==
  ASSUME Placed, job # "none"
  PROVE  /\ job \in Jobs /\ runs > 0
         /\ step = "end" \/ step \in StepsOf(job)
BY StepNames DEF Placed

LEMMA NextStep ==
  ASSUME Placed, job # "none", step # "end", step # "write"
  PROVE  /\ After(step) = "end" \/ After(step) \in StepsOf(job)
         /\ After(step) = "deploy" <=> step = "preflight"
         /\ After(step) # "preflight"
         /\ After(step) = "register" <=> step = "deploy"
         /\ After(step) = "machineOwner" <=> step = "register"
         /\ After(step) = "projectOwner" <=> step = "machineOwner"
         /\ After(step) = "keyType" <=> step = "projectOwner"
         /\ After(step) = "write" => step = "keyType"
         /\ After(step) # "bind"
<1>1. job \in Jobs /\ step \in StepsOf(job)
  BY Places
<1>2. CASE job = "pre-build"
  BY <1>1, <1>2, StepOrder DEF StepsOf, Flags
<1>3. CASE job = "register-extension"
  BY <1>1, <1>3, StepOrder DEF StepsOf, Flags
<1>4. CASE job = "post-build"
  BY <1>1, <1>4, StepOrder DEF StepsOf, Flags
<1>5. CASE job = "bind"
  BY <1>1, <1>5, StepOrder DEF StepsOf, Flags
<1>. QED BY <1>1, <1>2, <1>3, <1>4, <1>5 DEF Jobs

\* What may be asked for: groups by their names, and the registry right after
\* the file was read for it.
Selection(g) ==
  /\ g \in Seq(ToSet(AllGroups))
  /\ \A i \in 1 .. Len(g) : g[i] = "register" => i < Len(g) /\ g[i + 1] = "registry"
  /\ \A i, j \in 1 .. Len(g) : g[i] = "register" /\ g[j] = "registry" => j = i + 1

LEMMA FullSelection ==
  /\ Len(AllGroups) = 7 /\ DOMAIN AllGroups = 1 .. 7
  /\ AllGroups[1] = "deploy" /\ AllGroups[2] = "register" /\ AllGroups[3] = "registry"
  /\ AllGroups[4] = "services" /\ AllGroups[5] = "tee-version"
  /\ AllGroups[6] = "tee-machine" /\ AllGroups[7] = "test"
  /\ ToSet(AllGroups) = {"deploy", "register", "registry", "services", "tee-version",
                         "tee-machine", "test"}
  /\ \A i \in 1 .. 7 : i = 1 \/ i = 2 \/ i = 3 \/ i = 4 \/ i = 5 \/ i = 6 \/ i = 7
<1>1. DOMAIN AllGroups = 1 .. 7 /\ Len(AllGroups) = 7
  BY DEF AllGroups
<1>2. \A i \in 1 .. 7 : i = 1 \/ i = 2 \/ i = 3 \/ i = 4 \/ i = 5 \/ i = 6 \/ i = 7
  OBVIOUS
<1>3. /\ AllGroups[1] = "deploy" /\ AllGroups[2] = "register" /\ AllGroups[3] = "registry"
      /\ AllGroups[4] = "services" /\ AllGroups[5] = "tee-version"
      /\ AllGroups[6] = "tee-machine" /\ AllGroups[7] = "test"
  BY DEF AllGroups
<1>4. ToSet(AllGroups) = {"deploy", "register", "registry", "services", "tee-version",
                          "tee-machine", "test"}
  BY <1>1, <1>2, <1>3 DEF ToSet
<1>. QED BY <1>1, <1>2, <1>3, <1>4

LEMMA SelectionShape == \A g \in Selections \union {<<>>} : Selection(g)
<1>1. Selection(AllGroups)
  <2>1. AllGroups \in Seq(ToSet(AllGroups))
    <3>. SUFFICES ASSUME NEW names, names = ToSet(AllGroups) PROVE AllGroups \in Seq(names)
      OBVIOUS
    <3>1. /\ "deploy" \in names /\ "register" \in names /\ "registry" \in names
          /\ "services" \in names /\ "tee-version" \in names /\ "tee-machine" \in names
          /\ "test" \in names
      BY FullSelection
    <3>. QED BY <3>1 DEF AllGroups
  <2>2. \A i \in 1 .. 7 : (AllGroups[i] = "register" => i = 2)
                          /\ (AllGroups[i] = "registry" => i = 3)
    BY FullSelection
  <2>. QED BY <2>1, <2>2, FullSelection DEF Selection
<1>2. \A name \in ToSet(AllGroups) : name # "register" => Selection(<<name>>)
  BY DEF Selection
<1>3. Selection(<<"register", "registry">>)
  <2>1. <<"register", "registry">> \in Seq(ToSet(AllGroups))
    BY FullSelection
  <2>. QED BY <2>1 DEF Selection
<1>4. Selection(<<>>)
  BY DEF Selection
<1>. QED BY <1>1, <1>2, <1>3, <1>4, FullSelection DEF Selections
-----------------------------------------------------------------------------
(* Counting transactions *)

DeploysIn(txs) == {k \in DOMAIN txs : txs[k].kind = "deploy"}

LEMMA DeploysType ==
  ASSUME NEW txs \in Seq(Transaction)
  PROVE  /\ IsFiniteSet(DeploysIn(txs)) /\ DeploysOf(txs) \in Nat
         /\ DeploysOf(txs) = Cardinality(DeploysIn(txs))
<1>1. Len(txs) \in Nat /\ DOMAIN txs = 1 .. Len(txs)
  OBVIOUS
<1>2. IsFiniteSet(DOMAIN txs)
  BY <1>1, FS_Interval
<1>3. DeploysIn(txs) \subseteq DOMAIN txs
  BY DEF DeploysIn
<1>. QED BY <1>2, <1>3, FS_Subset, FS_CardinalityType DEF DeploysOf, DeploysIn

LEMMA DeploysAppend ==
  ASSUME NEW txs \in Seq(Transaction), NEW tx \in Transaction
  PROVE  DeploysOf(Append(txs, tx))
           = DeploysOf(txs) + (IF tx.kind = "deploy" THEN 1 ELSE 0)
<1>. DEFINE all == Append(txs, tx)
<1>1. /\ all \in Seq(Transaction) /\ DOMAIN txs = 1 .. Len(txs) /\ Len(txs) \in Nat
      /\ DOMAIN all = 1 .. Len(txs) + 1
      /\ \A i \in 1 .. Len(txs) : all[i] = txs[i]
      /\ all[Len(txs) + 1] = tx
  BY AppendProperties
<1>. HIDE DEF all
<1>2. DeploysIn(all) = IF tx.kind = "deploy" THEN DeploysIn(txs) \union {Len(txs) + 1}
                       ELSE DeploysIn(txs)
  BY <1>1 DEF DeploysIn
<1>3. Len(txs) + 1 \notin DeploysIn(txs)
  BY <1>1 DEF DeploysIn
<1>4. /\ IsFiniteSet(DeploysIn(txs)) /\ Cardinality(DeploysIn(txs)) = DeploysOf(txs)
      /\ DeploysOf(txs) \in Nat /\ DeploysOf(all) = Cardinality(DeploysIn(all))
  BY <1>1, DeploysType
<1>5. Cardinality(DeploysIn(txs) \union {Len(txs) + 1}) = DeploysOf(txs) + 1
  BY <1>3, <1>4, FS_AddElement
<1>6. DeploysOf(all) = DeploysOf(txs) + (IF tx.kind = "deploy" THEN 1 ELSE 0)
  BY <1>2, <1>4, <1>5
<1>. QED BY <1>6 DEF all

LEMMA DeploysTail ==
  ASSUME NEW txs \in Seq(Transaction), txs # <<>>
  PROVE  DeploysOf(txs)
           = DeploysOf(Tail(txs)) + (IF Head(txs).kind = "deploy" THEN 1 ELSE 0)
<1>. DEFINE rest == Tail(txs)
            later == {k \in DeploysIn(txs) : k # 1}
            shift == [k \in DeploysIn(rest) |-> k + 1]
<1>1. /\ rest \in Seq(Transaction) /\ Len(txs) \in Nat /\ Len(txs) > 0
      /\ DOMAIN txs = 1 .. Len(txs) /\ DOMAIN rest = 1 .. Len(txs) - 1
      /\ \A i \in 1 .. Len(txs) - 1 : rest[i] = txs[i + 1]
      /\ Head(txs) = txs[1]
  BY HeadTailProperties
<1>. HIDE DEF rest
<1>2. DeploysIn(rest) = {k \in 1 .. Len(txs) - 1 : txs[k + 1].kind = "deploy"}
  BY <1>1 DEF DeploysIn
<1>3. later = {k \in 2 .. Len(txs) : txs[k].kind = "deploy"}
  BY <1>1 DEF DeploysIn
<1>4. shift \in Bijection(DeploysIn(rest), later)
  <2>1. shift \in [DeploysIn(rest) -> later]
    BY <1>1, <1>2, <1>3
  <2>2. \A a, b \in DeploysIn(rest) : shift[a] = shift[b] => a = b
    BY <1>2
  <2>3. \A k \in later : \E a \in DeploysIn(rest) : shift[a] = k
    <3>1. SUFFICES ASSUME NEW k \in later PROVE k - 1 \in DeploysIn(rest) /\ shift[k - 1] = k
      OBVIOUS
    <3>. QED BY <1>1, <1>2, <1>3
  <2>. HIDE DEF shift, later
  <2>. QED BY <2>1, <2>2, <2>3, Fun_IsBij
<1>5. Cardinality(later) = Cardinality(DeploysIn(rest)) /\ IsFiniteSet(later)
  <2>1. ExistsBijection(DeploysIn(rest), later) /\ IsFiniteSet(DeploysIn(rest))
    BY <1>1, <1>4, DeploysType DEF ExistsBijection
  <2>. HIDE DEF later, shift
  <2>. QED BY <2>1, FS_Bijection
<1>6. DeploysIn(txs) = IF Head(txs).kind = "deploy" THEN later \union {1} ELSE later
  BY <1>1 DEF DeploysIn
<1>7. Cardinality(later \union {1}) = Cardinality(later) + 1
  <2>1. 1 \notin later
    OBVIOUS
  <2>. HIDE DEF later
  <2>. QED BY <1>5, <2>1, FS_AddElement
<1>8. /\ DeploysOf(rest) = Cardinality(DeploysIn(rest)) /\ DeploysOf(rest) \in Nat
      /\ DeploysOf(txs) = Cardinality(DeploysIn(txs))
  BY <1>1, DeploysType
<1>. HIDE DEF later
<1>9. DeploysOf(txs) = DeploysOf(rest) + (IF Head(txs).kind = "deploy" THEN 1 ELSE 0)
  BY <1>5, <1>6, <1>7, <1>8
<1>. QED BY <1>9 DEF rest
-----------------------------------------------------------------------------
(* The registry *)

\* Extensions are added and get more, and keep what they have.
Grows ==
  /\ resets' = resets /\ deployed' >= deployed
  /\ \A e \in DOMAIN extensions :
       /\ e \in DOMAIN extensions' /\ extensions'[e].sender = extensions[e].sender
       /\ \A k \in Flags : extensions[e][k] => extensions'[e][k]

LEMMA NoneGrows ==
  ASSUME ChainTypes, UNCHANGED <<deployed, extensions, resets>>
  PROVE  Grows
BY DEF Grows, ChainTypes

LEMMA SameTypes ==
  ASSUME UNCHANGED <<env, deployed>>
  PROVE  Extension' = Extension
BY DEF Extension, Governance, privKey

LEMMA DeployEffect ==
  ASSUME ChainTypes, UNCHANGED <<env, extensions, latched>>, deployed' = deployed + 1
  PROVE  extensions' \in Seq(Extension)' /\ latched' \in [Senders -> 0 .. Len(extensions')]
<1>1. 0 .. deployed \subseteq 0 .. deployed'
  BY DEF ChainTypes
<1>2. Governance' = Governance
  BY DEF Governance, privKey
<1>3. Extension \subseteq Extension'
  BY <1>1, <1>2 DEF Extension
<1>4. extensions \in Seq(Extension')
  <2>1. \A i \in 1 .. Len(extensions) : extensions[i] \in Extension'
    BY <1>3 DEF ChainTypes
  <2>. QED BY <1>3, <2>1 DEF ChainTypes
<1>. QED BY <1>4 DEF ChainTypes

LEMMA RegisterEffect ==
  ASSUME ChainTypes, UNCHANGED <<env, deployed, latched>>, NEW s \in 0 .. deployed,
         extensions' = Append(extensions, NewExtension(s))
  PROVE  /\ extensions' \in Seq(Extension)' /\ latched' \in [Senders -> 0 .. Len(extensions')]
         /\ Len(extensions) \in Nat /\ Len(extensions') = Len(extensions) + 1
         /\ DOMAIN extensions = 1 .. Len(extensions)
         /\ DOMAIN extensions' = 1 .. Len(extensions) + 1
         /\ \A e \in DOMAIN extensions : extensions'[e] = extensions[e]
         /\ extensions'[Len(extensions) + 1] = NewExtension(s)
<1>1. NewExtension(s) \in Extension
  BY DEF NewExtension, Extension
<1>2. /\ extensions' \in Seq(Extension) /\ Len(extensions') = Len(extensions) + 1
      /\ \A e \in 1 .. Len(extensions) : extensions'[e] = extensions[e]
      /\ extensions'[Len(extensions) + 1] = NewExtension(s)
  BY <1>1, AppendProperties DEF ChainTypes
<1>3. Len(extensions) \in Nat /\ DOMAIN extensions = 1 .. Len(extensions)
      /\ DOMAIN extensions' = 1 .. Len(extensions')
  BY <1>2 DEF ChainTypes
<1>. QED BY <1>2, <1>3, SameTypes DEF ChainTypes

\* What a transaction about one extension does to the registry.
Marks(e, k) ==
  /\ DOMAIN extensions' = DOMAIN extensions
  /\ \A f \in DOMAIN extensions :
       /\ extensions'[f].sender = extensions[f].sender
       /\ \A j \in Flags : extensions'[f][j] = (extensions[f][j] \/ (f = e /\ j = k))

LEMMA MarkEffect ==
  ASSUME ChainTypes, UNCHANGED <<env, deployed, latched>>, NEW e \in DOMAIN extensions,
         NEW k \in Flags \union {"version"},
         extensions' = [extensions EXCEPT ![e][k] = TRUE]
  PROVE  /\ extensions' \in Seq(Extension)' /\ latched' \in [Senders -> 0 .. Len(extensions')]
         /\ Marks(e, k)
<1>1. extensions \in Seq(Extension)
  BY DEF ChainTypes
<1>2. extensions[e] \in Extension
  BY <1>1
<1>3. [extensions[e] EXCEPT ![k] = TRUE] \in Extension
  BY <1>2 DEF Extension, Flags
<1>4. extensions' \in Seq(Extension)
  BY <1>1, <1>3
<1>5. Len(extensions') = Len(extensions) /\ DOMAIN extensions' = DOMAIN extensions
  BY <1>1, <1>3
<1>6. ASSUME NEW f \in DOMAIN extensions
      PROVE  /\ extensions'[f].sender = extensions[f].sender
             /\ \A j \in Flags : extensions'[f][j] = (extensions[f][j] \/ (f = e /\ j = k))
  <2>1. CASE f = e
    <3>1. extensions'[f] = [extensions[f] EXCEPT ![k] = TRUE]
      BY <1>1, <2>1
    <3>2. extensions'[f].sender = extensions[f].sender
      BY <1>2, <2>1, <3>1 DEF Extension, Flags
    <3>3. \A j \in Flags : j # k => extensions'[f][j] = extensions[f][j]
      BY <1>2, <2>1, <3>1 DEF Extension, Flags
    <3>4. k \in Flags => extensions'[f][k] = TRUE
      BY <1>2, <2>1, <3>1 DEF Extension, Flags
    <3>5. \A j \in Flags : extensions[f][j] \in BOOLEAN
      BY <1>2, <2>1 DEF Extension, Flags
    <3>. QED BY <2>1, <3>2, <3>3, <3>4, <3>5
  <2>2. CASE f # e
    <3>1. extensions'[f] = extensions[f]
      BY <1>1, <2>2
    <3>2. extensions[f] \in Extension
      BY <1>1
    <3>3. \A j \in Flags : extensions[f][j] \in BOOLEAN
      BY <3>2 DEF Extension, Flags
    <3>. QED BY <2>2, <3>1, <3>3
  <2>. QED BY <2>1, <2>2
<1>7. Marks(e, k)
  BY <1>5, <1>6 DEF Marks
<1>8. extensions' \in Seq(Extension)'
  BY <1>4, SameTypes
<1>9. latched' \in [Senders -> 0 .. Len(extensions')]
  BY <1>5 DEF ChainTypes
<1>. QED BY <1>7, <1>8, <1>9

LEMMA GovernanceEffect ==
  ASSUME ChainTypes, UNCHANGED <<env, deployed, latched>>, NEW e \in DOMAIN extensions,
         extensions' = [extensions EXCEPT ![e].governance = {Governance}]
  PROVE  /\ extensions' \in Seq(Extension)' /\ latched' \in [Senders -> 0 .. Len(extensions')]
         /\ Marks(e, "governance")
<1>1. extensions \in Seq(Extension)
  BY DEF ChainTypes
<1>2. extensions[e] \in Extension
  BY <1>1
<1>3. [extensions[e] EXCEPT !.governance = {Governance}] \in Extension
  BY <1>2 DEF Extension
<1>4. extensions' \in Seq(Extension)
  BY <1>1, <1>3
<1>5. Len(extensions') = Len(extensions) /\ DOMAIN extensions' = DOMAIN extensions
  BY <1>1, <1>3
<1>6. ASSUME NEW f \in DOMAIN extensions
      PROVE  /\ extensions'[f].sender = extensions[f].sender
             /\ \A j \in Flags : extensions'[f][j] = extensions[f][j]
                                 /\ extensions[f][j] \in BOOLEAN /\ j # "governance"
  <2>1. extensions[f] \in Extension
    BY <1>1
  <2>2. extensions'[f] = extensions[f]
        \/ extensions'[f] = [extensions[f] EXCEPT !.governance = {Governance}]
    BY <1>1
  <2>. QED BY <2>1, <2>2 DEF Extension, Flags
<1>7. Marks(e, "governance")
  <2>1. ASSUME NEW f \in DOMAIN extensions, NEW j \in Flags
        PROVE  extensions'[f][j] = (extensions[f][j] \/ (f = e /\ j = "governance"))
    <3>1. extensions[f][j] \in BOOLEAN
      BY <1>6
    <3>2. extensions'[f][j] = extensions[f][j] /\ j # "governance"
      BY <1>6
    <3>. QED BY <3>1, <3>2
  <2>. QED BY <1>5, <1>6, <2>1 DEF Marks
<1>8. extensions' \in Seq(Extension)'
  BY <1>4, SameTypes
<1>9. latched' \in [Senders -> 0 .. Len(extensions')]
  BY <1>5 DEF ChainTypes
<1>. QED BY <1>7, <1>8, <1>9
\* Adding an extension keeps the registry in order, if its sender has none or is
\* a foreign one.
LEMMA RegisterKeepsRegistry ==
  ASSUME ChainTypes, Registry, UNCHANGED <<env, deployed, latched, resets>>,
         NEW s \in 0 .. deployed, s # Foreign => ExtensionsOf(s) = {},
         extensions' = Append(extensions, NewExtension(s))
  PROVE  Registry' /\ Grows
<1>. DEFINE n == Len(extensions) + 1
<1>1. /\ Len(extensions) \in Nat
      /\ DOMAIN extensions = 1 .. Len(extensions) /\ DOMAIN extensions' = 1 .. n
      /\ \A e \in DOMAIN extensions : extensions'[e] = extensions[e]
      /\ extensions'[n] = NewExtension(s)
  BY RegisterEffect
<1>2. \A e \in DOMAIN extensions' : e \in DOMAIN extensions \/ e = n
  BY <1>1
<1>3. /\ extensions'[n].sender = s /\ ~ extensions'[n].keyType /\ ~ extensions'[n].projectOwner
  BY <1>1 DEF NewExtension
<1>. HIDE DEF n
<1>4. \A e \in DOMAIN extensions : extensions[e].sender = s => s = Foreign
  BY DEF ExtensionsOf
<1>5. \A e, f \in DOMAIN extensions' :
        extensions'[e].sender = extensions'[f].sender /\ e # f => extensions'[e].sender = Foreign
  BY <1>1, <1>2, <1>3, <1>4 DEF Registry
<1>6. \A e \in DOMAIN extensions' :
        /\ extensions'[e].keyType => extensions'[e].projectOwner
        /\ extensions'[e].projectOwner => extensions'[e].machineOwner
  BY <1>1, <1>2, <1>3 DEF Registry
<1>7. \A a \in Senders : latched'[a] # 0 => extensions'[latched'[a]].sender = a
  BY <1>1 DEF Registry, ChainTypes
<1>8. \A e \in DOMAIN extensions : e \in DOMAIN extensions'
  BY <1>1 DEF n
<1>9. Grows
  BY <1>1, <1>8 DEF Grows, ChainTypes
<1>. QED BY <1>5, <1>6, <1>7, <1>9 DEF Registry

\* So does a flag that comes after those before it.
LEMMA MarkKeepsRegistry ==
  ASSUME ChainTypes, Registry, UNCHANGED <<deployed, latched, resets>>,
         NEW e \in DOMAIN extensions, NEW k, Marks(e, k),
         k = "projectOwner" => extensions[e].machineOwner,
         k = "keyType" => extensions[e].projectOwner
  PROVE  Registry' /\ Grows
<1>1. /\ DOMAIN extensions' = DOMAIN extensions
      /\ \A f \in DOMAIN extensions : extensions'[f].sender = extensions[f].sender
  BY DEF Marks
<1>2. \A f \in DOMAIN extensions :
        /\ extensions'[f].keyType = (extensions[f].keyType \/ (f = e /\ k = "keyType"))
        /\ extensions'[f].projectOwner
             = (extensions[f].projectOwner \/ (f = e /\ k = "projectOwner"))
        /\ extensions'[f].machineOwner
             = (extensions[f].machineOwner \/ (f = e /\ k = "machineOwner"))
  BY DEF Marks, Flags
<1>3. \A f \in DOMAIN extensions' :
        /\ extensions'[f].keyType => extensions'[f].projectOwner
        /\ extensions'[f].projectOwner => extensions'[f].machineOwner
  BY <1>1, <1>2 DEF Registry
<1>4. \A a \in Senders : latched'[a] # 0 => extensions'[latched'[a]].sender = a
  <2>1. \A a \in Senders : latched[a] # 0 => latched[a] \in DOMAIN extensions
    BY DEF ChainTypes
  <2>. QED BY <1>1, <2>1 DEF Registry
<1>5. \A f, g \in DOMAIN extensions' :
        extensions'[f].sender = extensions'[g].sender /\ f # g => extensions'[f].sender = Foreign
  BY <1>1 DEF Registry
<1>6. Grows
  <2>1. \A f \in DOMAIN extensions, j \in Flags : extensions[f][j] => extensions'[f][j]
    BY Zenon DEF Marks
  <2>2. deployed' >= deployed
    BY DEF ChainTypes
  <2>. QED BY <1>1, <2>1, <2>2 DEF Grows
<1>. QED BY <1>3, <1>4, <1>5, <1>6 DEF Registry

LEMMA BindKeepsRegistry ==
  ASSUME ChainTypes, Registry, UNCHANGED <<deployed, extensions, resets>>,
         NEW s \in Senders, ExtensionsOf(s) # {},
         latched' = [latched EXCEPT ![s] = Lookup(s)]
  PROVE  /\ latched' \in [Senders -> 0 .. Len(extensions')]
         /\ Registry' /\ Grows
<1>1. PICK e \in ExtensionsOf(s) : TRUE
  OBVIOUS
<1>2. \A f \in ExtensionsOf(s) : f = e
  <2>1. s # Foreign
    BY SetupAssumption DEF Senders, MaxSenders, Foreign
  <2>. QED BY <2>1 DEF Registry, ExtensionsOf
<1>3. e \in Nat
  BY DEF ExtensionsOf, ChainTypes
<1>4. Lookup(s) \in ExtensionsOf(s)
  <2>1. \A f \in ExtensionsOf(s) : e <= f
    BY <1>2, <1>3
  <2>. QED BY <2>1 DEF Lookup
<1>5. Lookup(s) \in DOMAIN extensions /\ extensions[Lookup(s)].sender = s
  BY <1>4 DEF ExtensionsOf
<1>6. Lookup(s) \in 0 .. Len(extensions)
  BY <1>5 DEF ChainTypes
<1>. HIDE DEF Lookup
<1>7. latched' \in [Senders -> 0 .. Len(extensions')]
  BY <1>6 DEF ChainTypes
<1>8. \A a \in Senders : latched'[a] # 0 => extensions[latched'[a]].sender = a
  BY <1>5 DEF Registry, ChainTypes
<1>. QED BY <1>7, <1>8, NoneGrows DEF Registry
-----------------------------------------------------------------------------
(* A transaction is mined *)

\* What a receipt may tell of a transaction that succeeded.
Done(tx) ==
  /\ tx.kind = "deploy" => deployed' = deployed + 1
  /\ tx.kind = "register" => /\ Len(extensions') \in DOMAIN extensions'
                             /\ extensions'[Len(extensions')].sender = tx.sender
  /\ tx.kind \in Flags => tx.ext \in DOMAIN extensions' /\ extensions'[tx.ext][tx.kind]

LEMMA ExecuteEffect ==
  ASSUME ChainTypes, Registry, UNCHANGED <<env, resets>>,
         NEW tx \in Transaction, Fits(tx), Succeeds(tx), Execute(tx)
  PROVE  /\ extensions' \in Seq(Extension)' /\ latched' \in [Senders -> 0 .. Len(extensions')]
         /\ deployed' = deployed + (IF tx.kind = "deploy" THEN 1 ELSE 0)
         /\ Registry' /\ Grows /\ Done(tx)
<1>1. tx.kind \in Kinds
  BY DEF Transaction
<1>2. CASE tx.kind = "deploy"
  <2>1. deployed' = deployed + 1 /\ UNCHANGED <<extensions, latched>>
    BY <1>2 DEF Execute
  <2>2. Registry'
    BY <2>1 DEF Registry
  <2>3. Grows
    BY <2>1 DEF Grows, ChainTypes
  <2>. QED BY <1>2, <2>1, <2>2, <2>3, DeployEffect DEF Done, Flags
<1>3. CASE tx.kind = "register"
  <2>1. extensions' = Append(extensions, NewExtension(tx.sender)) /\ UNCHANGED <<deployed, latched>>
    BY <1>3 DEF Execute
  <2>2. tx.sender <= deployed /\ ExtensionsOf(tx.sender) = {}
    BY <1>3 DEF Succeeds
  <2>3. tx.sender \in 0 .. deployed
    BY <2>2 DEF Transaction, ChainTypes
  <2>4. /\ extensions' \in Seq(Extension)' /\ latched' \in [Senders -> 0 .. Len(extensions')]
        /\ Len(extensions') \in DOMAIN extensions'
        /\ extensions'[Len(extensions')] = NewExtension(tx.sender)
    BY <2>1, <2>3, RegisterEffect
  <2>5. Registry' /\ Grows
    BY <2>1, <2>2, <2>3, RegisterKeepsRegistry
  <2>6. Done(tx)
    BY <1>3, <2>4 DEF Done, NewExtension, Flags
  <2>. QED BY <1>3, <2>1, <2>4, <2>5, <2>6 DEF ChainTypes
<1>4. CASE tx.kind = "bind"
  <2>1. /\ latched' = [latched EXCEPT ![tx.sender] = Lookup(tx.sender)]
        /\ UNCHANGED <<deployed, extensions>>
    BY <1>4 DEF Execute
  <2>2. tx.sender \in Senders /\ ExtensionsOf(tx.sender) # {}
    BY <1>4 DEF Succeeds, Fits
  <2>3. latched' \in [Senders -> 0 .. Len(extensions')] /\ Registry' /\ Grows
    BY <2>1, <2>2, BindKeepsRegistry
  <2>4. Extension' = Extension
    BY <2>1, SameTypes
  <2>. QED BY <1>4, <2>1, <2>3, <2>4 DEF Done, Flags, ChainTypes
<1>5. CASE tx.kind = "governance"
  <2>1. /\ extensions' = [extensions EXCEPT ![tx.ext].governance = {Governance}]
        /\ UNCHANGED <<deployed, latched>>
    BY <1>5 DEF Execute
  <2>2. tx.ext \in DOMAIN extensions
    BY <1>5 DEF Succeeds
  <2>3. /\ extensions' \in Seq(Extension)' /\ latched' \in [Senders -> 0 .. Len(extensions')]
        /\ Marks(tx.ext, "governance")
    BY <2>1, <2>2, GovernanceEffect
  <2>4. Registry' /\ Grows
    BY <2>1, <2>2, <2>3, MarkKeepsRegistry
  <2>. QED BY <1>5, <2>1, <2>3, <2>4 DEF Done, Flags, ChainTypes
<1>6. CASE tx.kind \in Flags \union {"version"}
  <2>1. extensions' = [extensions EXCEPT ![tx.ext][tx.kind] = TRUE] /\ UNCHANGED <<deployed, latched>>
    BY <1>6 DEF Execute, Flags
  <2>2. tx.ext \in DOMAIN extensions
    BY <1>6 DEF Succeeds, Flags
  <2>3. /\ extensions' \in Seq(Extension)' /\ latched' \in [Senders -> 0 .. Len(extensions')]
        /\ Marks(tx.ext, tx.kind)
    BY <1>6, <2>1, <2>2, MarkEffect
  <2>4. /\ tx.kind = "projectOwner" => extensions[tx.ext].machineOwner
        /\ tx.kind = "keyType" => extensions[tx.ext].projectOwner
    BY DEF Fits, Has
  <2>5. Registry' /\ Grows
    BY <2>1, <2>2, <2>3, <2>4, MarkKeepsRegistry
  <2>6. tx.kind \in Flags => extensions'[tx.ext][tx.kind]
    <3>1. tx.kind \in Flags => extensions'[tx.ext][tx.kind] = TRUE
      BY <2>2, <2>3 DEF Marks
    <3>. QED BY <3>1
  <2>7. Done(tx)
    BY <1>6, <2>2, <2>3, <2>6 DEF Done, Flags, Marks
  <2>8. deployed' = deployed + (IF tx.kind = "deploy" THEN 1 ELSE 0)
    BY <1>6, <2>1 DEF Flags, ChainTypes
  <2>. QED BY <2>3, <2>5, <2>7, <2>8
<1>. QED BY <1>1, <1>2, <1>3, <1>4, <1>5, <1>6 DEF Kinds

\* What is known about the registry stays known while it grows.
LEMMA KnowledgeStays ==
  ASSUME Grows
  PROVE  /\ \A tx : Fits(tx) => Fits(tx)'
         /\ UNCHANGED <<step, sender, ext>> /\ Knows => Knows'
         /\ UNCHANGED config /\ Truthful(config) => Truthful(config)'
         /\ UNCHANGED file /\ Truthful(file) => Truthful(file)'
<1>1. \A tx : Fits(tx) => Fits(tx)'
  BY DEF Fits, Has, Grows, Flags
<1>2. UNCHANGED <<step, sender, ext>> /\ Knows => Knows'
  BY DEF Knows, OwnExtension, Has, Grows, Flags
<1>3. UNCHANGED config /\ Truthful(config) => Truthful(config)'
  BY DEF Truthful, Current, Complete, Names, Has, Grows, Flags
<1>4. UNCHANGED file /\ Truthful(file) => Truthful(file)'
  BY DEF Truthful, Current, Complete, Names, Has, Grows, Flags
<1>. QED BY <1>1, <1>2, <1>3, <1>4
LEMMA MineKeepsInv ==
  ASSUME SetupInv, mine
  PROVE  SetupInv' /\ Grows
<1>1. PICK tx : tx = Head(pending)
  OBVIOUS
<1>2. /\ pending \in Seq(Transaction) /\ pending # <<>> /\ pending' = Tail(pending)
      /\ UNCHANGED <<env, resets, faults, config, node, job, step, waits, sender, ext, outcome, runs>>
  BY DEF SetupInv, ChainTypes, mine, local
<1>3. /\ tx \in Transaction /\ Len(pending) \in Nat /\ Len(pending) > 0
      /\ DOMAIN pending = 1 .. Len(pending) /\ tx = pending[1]
      /\ pending' \in Seq(Transaction) /\ Len(pending') = Len(pending) - 1
      /\ DOMAIN pending' = 1 .. Len(pending) - 1
      /\ \A k \in DOMAIN pending' : k + 1 \in DOMAIN pending /\ pending'[k] = pending[k + 1]
  BY <1>1, <1>2, HeadTailProperties
<1>4. Fits(tx)
  BY <1>3 DEF SetupInv, InFlight
<1>5. Succeeds(tx) => Execute(tx)
  BY <1>1 DEF mine
<1>6. ~ Succeeds(tx) => UNCHANGED <<deployed, extensions, latched>>
  BY <1>1 DEF mine
<1>7. /\ extensions' \in Seq(Extension)' /\ latched' \in [Senders -> 0 .. Len(extensions')]
      /\ deployed' = deployed + (IF tx.kind = "deploy" /\ Succeeds(tx) THEN 1 ELSE 0)
      /\ Registry' /\ Grows
      /\ Succeeds(tx) => Done(tx)
  <2>1. CASE Succeeds(tx)
    BY <1>2, <1>3, <1>4, <1>5, <2>1, ExecuteEffect DEF SetupInv
  <2>2. CASE ~ Succeeds(tx)
    <3>1. UNCHANGED <<env, deployed, extensions, latched, resets>>
      BY <1>2, <1>6, <2>2
    <3>2. Extension' = Extension /\ Grows
      BY <3>1, SameTypes, NoneGrows DEF SetupInv
    <3>3. Registry'
      BY <3>1 DEF SetupInv, Registry
    <3>. QED BY <2>2, <3>1, <3>2, <3>3 DEF SetupInv, ChainTypes
  <2>. QED BY <2>1, <2>2
<1>8. ChainTypes'
  BY <1>2, <1>3, <1>7 DEF SetupInv, ChainTypes
<1>9. PICK r : r = [status |-> IF Succeeds(tx) THEN "mined" ELSE "reverted",
                    id |-> IF tx.kind = "deploy" THEN deployed' ELSE Len(extensions')]
  OBVIOUS
<1>10. receipt' = IF waits /\ Len(pending) = 1 THEN r ELSE receipt
  BY <1>1, <1>9 DEF mine
<1>11. /\ r.status \in {"mined", "reverted"} /\ r.id \in Nat /\ r \in Receipt
       /\ r.status = "mined" => Succeeds(tx)
       /\ r.id = IF tx.kind = "deploy" THEN deployed' ELSE Len(extensions')
  <2>1. deployed' \in Nat /\ Len(extensions') \in Nat
    BY <1>8 DEF ChainTypes
  <2>. QED BY <1>9, <2>1 DEF Receipt
<1>12. JobTypes' /\ Placed'
  BY <1>2, <1>10, <1>11 DEF SetupInv, JobTypes, Placed, File
<1>13. Bounded'
  <2>1. DeploysOf(pending) = DeploysOf(pending') + (IF tx.kind = "deploy" THEN 1 ELSE 0)
    BY <1>1, <1>2, DeploysTail
  <2>2. DeploysOf(pending') \in Nat /\ DeploysOf(pending) \in Nat
    BY <1>2, <1>3, DeploysType
  <2>3. (WillDeploy' <=> WillDeploy) /\ deployed \in Nat /\ runs \in Nat
    BY <1>2 DEF WillDeploy, At, SetupInv, ChainTypes, JobTypes
  <2>4. deployed' + DeploysOf(pending') <= deployed + DeploysOf(pending)
    BY <1>7, <2>1, <2>2, <2>3
  <2>5. deployed' + DeploysOf(pending)' + (IF WillDeploy' THEN 1 ELSE 0) <= runs
    <3>1. DeploysOf(pending)' = DeploysOf(pending')
      BY DEF DeploysOf
    <3>2. deployed + DeploysOf(pending) + (IF WillDeploy THEN 1 ELSE 0) <= runs
      BY DEF SetupInv, Bounded
    <3>3. deployed' \in Nat
      BY <1>8 DEF ChainTypes
    <3>. HIDE DEF WillDeploy
    <3>. QED BY <2>2, <2>3, <2>4, <3>1, <3>2, <3>3
  <2>6. Len(pending') + (IF job # "none" /\ ~ waits THEN 1 ELSE 0) <= runs
    BY <1>3, <2>3 DEF SetupInv, Bounded
  <2>. QED BY <1>2, <2>5, <2>6 DEF Bounded
<1>14. InFlight'
  <2>1. PICK next : next = pending'
    OBVIOUS
  <2>2. \A k \in DOMAIN next : Fits(next[k])
    BY <1>3, <2>1 DEF SetupInv, InFlight
  <2>3. \A k \in DOMAIN next : Fits(next[k])'
    BY <1>7, <2>2, KnowledgeStays
  <2>. QED BY <2>1, <2>3 DEF InFlight, Fits, Has
<1>15. Knows' /\ Truthful(config)'
  BY <1>2, <1>7, KnowledgeStays DEF SetupInv
<1>16. Receipts'
  <2>1. receipt.status = "none"
    BY <1>2 DEF SetupInv, Receipts, JobTypes, Receipt
  <2>2. waits => Awaited(pending[Len(pending)])
    BY <2>1 DEF SetupInv, Receipts
  <2>3. CASE waits /\ Len(pending) = 1
    <3>1. receipt' = r /\ pending' = <<>> /\ waits'
      BY <1>2, <1>3, <1>10, <2>3
    <3>2. Awaited(tx)
      BY <1>3, <2>2, <2>3
    <3>3. ASSUME r.status = "mined" PROVE Mined'
      <4>1. Done(tx) /\ tx.kind = step /\ r.id = IF tx.kind = "deploy" THEN deployed' ELSE Len(extensions')
        BY <1>7, <1>11, <3>2, <3>3 DEF Awaited
      <4>2. step = "deploy" => r.id \in 1 .. deployed'
        BY <1>8, <4>1 DEF Done, SetupInv, ChainTypes
      <4>3. step = "register" => r.id \in DOMAIN extensions' /\ extensions'[r.id].sender = sender
        BY <3>2, <4>1 DEF Done, Awaited
      <4>4. step \in Flags => ext \in DOMAIN extensions' /\ extensions'[ext][step]
        BY <3>2, <4>1 DEF Done, Awaited
      <4>. QED BY <1>2, <3>1, <4>2, <4>3, <4>4 DEF Mined, Has
    <3>. QED BY <1>11, <3>1, <3>3 DEF Receipts
  <2>4. CASE ~ (waits /\ Len(pending) = 1)
    <3>1. receipt' = receipt
      BY <1>10, <2>4
    <3>2. waits => pending' # <<>> /\ pending'[Len(pending')] = pending[Len(pending)]
      BY <1>3, <2>4
    <3>. QED BY <1>2, <2>1, <2>2, <3>1, <3>2 DEF Receipts, Awaited
  <2>. QED BY <2>3, <2>4
<1>. QED BY <1>7, <1>8, <1>12, <1>13, <1>14, <1>15, <1>16 DEF SetupInv
-----------------------------------------------------------------------------
(* Others register, and a chain starts afresh *)

LEMMA ForeignKeepsInv ==
  ASSUME SetupInv, registerForeign
  PROVE  SetupInv' /\ Grows
<1>1. /\ extensions' = Append(extensions, NewExtension(Foreign))
      /\ UNCHANGED <<env, deployed, latched, pending, resets, faults, config, node,
                     job, step, waits, sender, ext, receipt, outcome, runs>>
  BY DEF registerForeign, local, jobVars
<1>2. Foreign \in 0 .. deployed
  BY DEF Foreign, SetupInv, ChainTypes
<1>3. /\ extensions' \in Seq(Extension)' /\ latched' \in [Senders -> 0 .. Len(extensions')]
      /\ \A e \in DOMAIN extensions : e \in DOMAIN extensions' /\ extensions'[e] = extensions[e]
  BY <1>1, <1>2, RegisterEffect DEF SetupInv
<1>4. Registry' /\ Grows
  BY <1>1, <1>2, RegisterKeepsRegistry DEF SetupInv
<1>5. ChainTypes' /\ JobTypes' /\ Placed'
  BY <1>1, <1>3 DEF SetupInv, ChainTypes, JobTypes, Placed, File
<1>6. Bounded'
  BY <1>1 DEF SetupInv, Bounded, WillDeploy, At, DeploysOf
<1>7. \A tx : Fits(tx) => Fits(tx)'
  BY <1>4, KnowledgeStays
<1>8. InFlight'
  <2>1. PICK txs : txs = pending
    OBVIOUS
  <2>2. \A k \in DOMAIN txs : Fits(txs[k])'
    BY <1>7, <2>1 DEF SetupInv, InFlight
  <2>. QED BY <1>1, <2>1, <2>2 DEF InFlight, Fits, Has
<1>9. Knows' /\ Truthful(config)'
  BY <1>1, <1>4, KnowledgeStays DEF SetupInv
<1>10. Receipts'
  BY <1>1, <1>3 DEF SetupInv, Receipts, Mined, Awaited, Has
<1>. QED BY <1>4, <1>5, <1>6, <1>8, <1>9, <1>10 DEF SetupInv

LEMMA NoDeploys == DeploysOf(<<>>) = 0
<1>1. {k \in DOMAIN <<>> : <<>>[k].kind = "deploy"} = {}
  OBVIOUS
<1>. QED BY <1>1, FS_EmptySet DEF DeploysOf

LEMMA ResetKeepsInv ==
  ASSUME SetupInv, reset
  PROVE  SetupInv'
<1>1. /\ job = "none" /\ resets' = resets + 1
      /\ deployed' = 0 /\ extensions' = <<>> /\ pending' = <<>>
      /\ latched' = [s \in Senders |-> 0]
      /\ UNCHANGED <<env, faults, config, node, job, step, waits, sender, ext, receipt,
                     outcome, runs>>
  BY DEF reset, local, jobVars
<1>2. step = "none" /\ ~ waits /\ receipt.status = "none"
  BY <1>1 DEF SetupInv, Placed, Jobs, Receipts, JobTypes, Receipt
<1>3. ChainTypes' /\ JobTypes' /\ Placed'
  BY <1>1 DEF SetupInv, ChainTypes, JobTypes, Placed, File
<1>4. Bounded'
  <2>1. runs \in Nat /\ ~ WillDeploy
    BY <1>2, SetupAssumption DEF SetupInv, JobTypes, WillDeploy, At
  <2>2. DeploysOf(pending)' = 0 /\ ~ WillDeploy'
    BY <1>1, <2>1, NoDeploys DEF DeploysOf, WillDeploy, At
  <2>. QED BY <1>1, <2>1, <2>2 DEF Bounded
<1>5. Registry' /\ InFlight' /\ Knows' /\ Receipts'
  BY <1>1, <1>2 DEF Registry, InFlight, Knows, Receipts, Flags
<1>6. Truthful(config)'
  <2>1. config.era \in Nat /\ resets \in Nat /\ config.era <= resets
    BY DEF SetupInv, Truthful, JobTypes, ChainTypes, File
  <2>2. config.era <= resets + 1 /\ config.era # resets + 1
    BY <2>1
  <2>. QED BY <1>1, <2>2 DEF Truthful, Current
<1>. QED BY <1>3, <1>4, <1>5, <1>6 DEF SetupInv

-----------------------------------------------------------------------------
(* The steps of a job *)

\* A job ends, well or not, and leaves a truthful file.
LEMMA StopKeepsInv ==
  ASSUME SetupInv, NEW what \in {"done", "failed"}, Stops(what),
         UNCHANGED <<env, deployed, extensions, latched, resets, pending, node, sender, ext, runs>>,
         faults' \in Nat, config' \in File,
         config'.exists \/ (config'.ext = 0 /\ config'.sender = 0), Truthful(config)'
  PROVE  SetupInv'
<1>1. /\ job' = "none" /\ step' = "none" /\ waits' = FALSE /\ outcome' = what
      /\ receipt' = NoReceipt
  BY DEF Stops
<1>2. ChainTypes'
  BY SameTypes DEF SetupInv, ChainTypes
<1>3. JobTypes' /\ Placed'
  BY <1>1 DEF SetupInv, JobTypes, Placed, Receipt, NoReceipt, File
<1>4. Bounded'
  <2>1. DeploysOf(pending)' = DeploysOf(pending) /\ ~ WillDeploy'
    BY <1>1 DEF DeploysOf, WillDeploy, At
  <2>2. DeploysOf(pending) \in Nat /\ deployed \in Nat /\ runs \in Nat /\ Len(pending) \in Nat
    BY DeploysType, SetupAssumption DEF SetupInv, ChainTypes, JobTypes
  <2>. HIDE DEF WillDeploy
  <2>. QED BY <1>1, <2>1, <2>2 DEF SetupInv, Bounded
<1>5. Registry' /\ InFlight' /\ Knows' /\ Receipts'
  BY <1>1 DEF SetupInv, Registry, InFlight, Fits, Has, Knows, Receipts, NoReceipt, Flags
<1>. QED BY <1>2, <1>3, <1>4, <1>5 DEF SetupInv
still == <<env, deployed, extensions, latched, resets, config, node, job, outcome, runs>>

\* A job goes on to its next step, knowing what the last one established.
LEMMA AdvanceKeepsInv ==
  ASSUME SetupInv, job # "none", step # "end", step # "write", UNCHANGED <<still, pending>>,
         faults' \in Nat, step' = After(step), waits' = FALSE,
         receipt' \in Receipt, receipt'.status = "none",
         waits => pending = <<>>,
         sender' \in 0 .. MaxSenders, ext' \in Nat,
         sender' = IF step = "deploy" THEN sender' ELSE sender,
         ext' = IF step = "register" THEN ext' ELSE ext,
         step = "deploy" => sender' # Foreign,
         step = "register" =>
           ext' \in DOMAIN extensions /\ extensions[ext'].sender = sender,
         step \in Flags => Has(ext, step)
  PROVE  SetupInv'
<1>1. /\ After(step) = "end" \/ After(step) \in StepsOf(job)
      /\ After(step) = "deploy" <=> step = "preflight"
      /\ After(step) # "preflight"
      /\ After(step) = "register" <=> step = "deploy"
      /\ After(step) = "machineOwner" <=> step = "register"
      /\ After(step) = "projectOwner" <=> step = "machineOwner"
      /\ After(step) = "keyType" <=> step = "projectOwner"
      /\ After(step) = "write" => step = "keyType"
      /\ After(step) # "bind"
  BY NextStep DEF SetupInv
<1>2. job \in Jobs /\ runs > 0 /\ UNCHANGED <<job, runs>>
  BY Places DEF SetupInv, still
<1>3. UNCHANGED <<env, deployed, extensions, latched, resets, config, node, outcome, pending>>
  BY DEF still
<1>4. ChainTypes'
  BY <1>3, SameTypes DEF SetupInv, ChainTypes
<1>5. JobTypes'
  BY <1>2, <1>3 DEF SetupInv, JobTypes, File
<1>6. Placed'
  <2>1. Steps(job)' = Steps(job)
    BY <1>2 DEF Steps
  <2>2. step' = "end" \/ \E k \in DOMAIN Steps(job) : step' = Steps(job)[k]
    BY <1>1, <1>2, StepNames
  <2>. QED BY <1>2, <2>1, <2>2 DEF Placed
<1>7. Bounded'
  <2>1. DeploysOf(pending)' = DeploysOf(pending) /\ (WillDeploy' => WillDeploy)
    BY <1>1, <1>3 DEF DeploysOf, WillDeploy, At
  <2>2. DeploysOf(pending) \in Nat /\ deployed \in Nat /\ runs \in Nat /\ Len(pending) \in Nat
    BY DeploysType, SetupAssumption DEF SetupInv, ChainTypes, JobTypes
  <2>3. Len(pending) + 1 <= runs
    <3>1. CASE waits
      BY <1>2, <2>2, <3>1
    <3>2. CASE ~ waits
      BY <3>2 DEF SetupInv, Bounded
    <3>. QED BY <3>1, <3>2
  <2>. HIDE DEF WillDeploy
  <2>. QED BY <1>2, <1>3, <2>1, <2>2, <2>3 DEF SetupInv, Bounded
<1>8. Registry' /\ InFlight'
  BY <1>3 DEF SetupInv, Registry, InFlight, Fits, Has
<1>9. Truthful(config)'
  BY <1>3 DEF SetupInv, Truthful, Current, Complete, Names, Has
<1>10. Receipts'
  BY DEF Receipts
<1>11. Knows'
  <2>1. step' = "register" => sender' # Foreign
    BY <1>1
  <2>2. step' \in Flags \union {"write"} => OwnExtension'
    <3>1. CASE step = "register"
      BY <1>3, <3>1 DEF SetupInv, Knows, OwnExtension
    <3>2. CASE step \in Flags
      BY <1>3, <3>2 DEF SetupInv, Knows, OwnExtension, Flags
    <3>. QED BY <1>1, <3>1, <3>2 DEF Flags
  <2>3. /\ step' = "projectOwner" => Has(ext, "machineOwner")'
        /\ step' = "keyType" => Has(ext, "projectOwner")'
        /\ step' = "write" => Has(ext, "keyType")'
    BY <1>1, <1>3 DEF Has, Flags
  <2>. QED BY <1>1, <2>1, <2>2, <2>3 DEF Knows
<1>. QED BY <1>4, <1>5, <1>6, <1>7, <1>8, <1>9, <1>10, <1>11 DEF SetupInv

\* A job sends a transaction that fits, or it stops because it would revert.
LEMMA SendKeepsInv ==
  ASSUME SetupInv, At(step), NEW tx \in Transaction, Send(tx),
         step \in Kinds, Awaited(tx), Fits(tx),
         UNCHANGED <<env, deployed, extensions, latched, resets, config, node, runs, sender, ext>>,
         faults' \in Nat
  PROVE  SetupInv'
<1>1. CASE UNCHANGED pending /\ Stops("failed")
  <2>1. config' \in File /\ (config'.exists \/ (config'.ext = 0 /\ config'.sender = 0))
    BY DEF SetupInv, JobTypes
  <2>2. Truthful(config)'
    BY DEF SetupInv, Truthful, Current, Complete, Names, Has
  <2>. QED BY <1>1, <2>1, <2>2, StopKeepsInv
<1>2. CASE /\ pending' = Append(pending, tx) /\ waits' = TRUE
           /\ UNCHANGED <<job, step, outcome, receipt>>
  <2>1. /\ pending' \in Seq(Transaction) /\ Len(pending') = Len(pending) + 1
        /\ Len(pending) \in Nat
        /\ DOMAIN pending' = 1 .. Len(pending) + 1 /\ DOMAIN pending = 1 .. Len(pending)
        /\ \A k \in DOMAIN pending : pending'[k] = pending[k]
        /\ pending'[Len(pending')] = tx
    BY <1>2, AppendProperties DEF SetupInv, ChainTypes
  <2>2. ~ waits /\ receipt.status = "none" /\ job # "none"
    <3>1. job = "none" => step = "none"
      BY DEF SetupInv, Placed, Jobs
    <3>2. step # "none"
      BY DEF Kinds, Flags
    <3>. QED BY <3>1, <3>2 DEF At, SetupInv, Receipts, JobTypes, Receipt
  <2>3. ChainTypes'
    BY <2>1, SameTypes DEF SetupInv, ChainTypes
  <2>4. JobTypes' /\ Placed'
    <3>1. Steps(job)' = Steps(job)
      BY <1>2 DEF Steps
    <3>2. Placed'
      BY <1>2, <2>2, <3>1 DEF SetupInv, Placed
    <3>. QED BY <1>2, <3>2 DEF SetupInv, JobTypes, File
  <2>5. Bounded'
    <3>1. DeploysOf(pending') = DeploysOf(pending) + (IF tx.kind = "deploy" THEN 1 ELSE 0)
      BY <1>2, DeploysAppend DEF SetupInv, ChainTypes
    <3>2. DeploysOf(pending)' = DeploysOf(pending')
      BY DEF DeploysOf
    <3>3. ~ WillDeploy' /\ (tx.kind = "deploy" => WillDeploy)
      BY <1>2, <2>2 DEF WillDeploy, At, Awaited, Kinds, Flags
    <3>4. DeploysOf(pending) \in Nat /\ deployed \in Nat /\ runs \in Nat
      BY DeploysType, SetupAssumption DEF SetupInv, ChainTypes, JobTypes
    <3>5. Len(pending) + 1 <= runs
          /\ deployed + DeploysOf(pending) + (IF WillDeploy THEN 1 ELSE 0) <= runs
      BY <2>2 DEF SetupInv, Bounded
    <3>6. deployed' + DeploysOf(pending)' + (IF WillDeploy' THEN 1 ELSE 0) <= runs'
      <4>. HIDE DEF WillDeploy
      <4>. QED BY <3>1, <3>2, <3>3, <3>4, <3>5
    <3>7. Len(pending') + (IF job' # "none" /\ ~ waits' THEN 1 ELSE 0) <= runs'
      BY <1>2, <2>1, <3>4, <3>5
    <3>. QED BY <3>6, <3>7 DEF Bounded
  <2>6. InFlight'
    <3>1. PICK txs : txs = pending'
      OBVIOUS
    <3>2. \A k \in DOMAIN txs : Fits(txs[k])
      BY <2>1, <3>1 DEF SetupInv, InFlight
    <3>. QED BY <3>1, <3>2 DEF InFlight, Fits, Has
  <2>7. Registry' /\ Truthful(config)' /\ Knows'
    BY <1>2 DEF SetupInv, Registry, Truthful, Current, Complete, Names, Has, Knows, OwnExtension
  <2>8. Receipts'
    <3>1. pending' # <<>>
      BY <2>1
    <3>. QED BY <1>2, <2>1, <2>2, <3>1 DEF Receipts, Awaited
  <2>. QED BY <2>3, <2>4, <2>5, <2>6, <2>7, <2>8 DEF SetupInv
<1>. QED BY <1>1, <1>2 DEF Send
LEMMA DeployedBound ==
  ASSUME SetupInv
  PROVE  deployed \in 0 .. MaxSenders /\ Len(pending) \in Nat /\ Len(pending) <= MaxRuns
<1>1. /\ DeploysOf(pending) \in Nat /\ deployed \in Nat /\ runs \in Nat /\ runs <= MaxRuns
      /\ Len(pending) \in Nat
  BY DeploysType, SetupAssumption DEF SetupInv, ChainTypes, JobTypes
<1>2. deployed + DeploysOf(pending) <= runs /\ Len(pending) <= runs
  <2>. HIDE DEF WillDeploy
  <2>. QED BY <1>1 DEF SetupInv, Bounded
<1>. QED BY <1>1, <1>2, SetupAssumption DEF MaxSenders

LEMMA BeginKeepsInv ==
  ASSUME SetupInv, NEW j \in Jobs, NEW s \in 0 .. MaxSenders, NEW e \in Nat, begin(j, s, e),
         j = "register-extension" => s # Foreign,
         j = "bind" => s \in Senders
  PROVE  SetupInv'
<1>1. /\ job = "none" /\ runs < MaxRuns /\ runs' = runs + 1
      /\ job' = j /\ step' = Steps(j)[1] /\ sender' = s /\ ext' = e /\ outcome' = "none"
      /\ UNCHANGED <<env, deployed, extensions, latched, pending, resets, faults, config, node,
                     waits, receipt>>
  BY DEF begin, chainVars, local
<1>2. step = "none" /\ ~ waits /\ receipt.status = "none"
  BY <1>1 DEF SetupInv, Placed, Jobs, Receipts, JobTypes, Receipt
<1>3. ChainTypes'
  BY <1>1, SameTypes DEF SetupInv, ChainTypes
<1>4. runs \in Nat /\ runs' \in 0 .. MaxRuns /\ runs' > 0
  BY <1>1, SetupAssumption DEF SetupInv, JobTypes
<1>5. JobTypes'
  BY <1>1, <1>2, <1>4 DEF SetupInv, JobTypes, File
<1>6. Placed'
  <2>1. Steps(job)' = Steps(j)
    BY <1>1 DEF Steps
  <2>2. \E k \in DOMAIN Steps(j) : step' = Steps(j)[k]
    BY <1>1, StepNames
  <2>. QED BY <1>1, <1>4, <2>1, <2>2 DEF Placed
<1>7. Bounded'
  <2>1. DeploysOf(pending)' = DeploysOf(pending) /\ ~ WillDeploy
    BY <1>1, <1>2 DEF DeploysOf, WillDeploy, At
  <2>2. DeploysOf(pending) \in Nat /\ deployed \in Nat /\ Len(pending) \in Nat
    BY DeploysType DEF SetupInv, ChainTypes
  <2>3. Len(pending) <= runs /\ deployed + DeploysOf(pending) <= runs
    <3>. HIDE DEF WillDeploy
    <3>. QED BY <1>1, <2>1, <2>2 DEF SetupInv, Bounded
  <2>. HIDE DEF WillDeploy
  <2>. QED BY <1>1, <1>4, <2>1, <2>2, <2>3 DEF Bounded
<1>8. Registry' /\ InFlight' /\ Truthful(config)'
  BY <1>1 DEF SetupInv, Registry, InFlight, Fits, Truthful, Current, Complete, Names, Has
<1>9. Receipts'
  BY <1>1, <1>2 DEF Receipts
<1>10. Knows'
  <2>1. step' \in StepsOf(j) /\ step' = Steps(j)[1]
    BY <1>1, StepNames
  <2>2. step' = CASE j = "pre-build" -> "preflight"
                  [] j = "register-extension" -> "register"
                  [] j = "post-build" -> "version"
                  [] OTHER -> "bind"
    BY <2>1 DEF Steps, Jobs
  <2>. QED BY <1>1, <2>2 DEF Knows, Flags, Jobs
<1>. QED BY <1>3, <1>5, <1>6, <1>7, <1>8, <1>9, <1>10 DEF SetupInv

LEMMA BeginStep ==
  ASSUME SetupInv, Begin
  PROVE  SetupInv' /\ UNCHANGED <<deployed, extensions, resets>>
<1>1. CASE preBuild
  <2>1. 0 \in 0 .. MaxSenders /\ "pre-build" \in Jobs
    BY SetupAssumption DEF MaxSenders, Jobs
  <2>2. SetupInv'
    BY <1>1, <2>1, BeginKeepsInv DEF preBuild
  <2>. QED BY <1>1, <2>2 DEF preBuild, begin, chainVars
<1>2. CASE registerExtension
  <2>1. PICK s \in 1 .. deployed : begin("register-extension", s, 0)
    BY <1>2 DEF registerExtension
  <2>2. s \in 0 .. MaxSenders /\ s # Foreign /\ "register-extension" \in Jobs
    BY DeployedBound, SetupAssumption DEF Jobs, Foreign, MaxSenders
  <2>3. SetupInv'
    BY <2>1, <2>2, BeginKeepsInv
  <2>. QED BY <2>1, <2>3 DEF begin, chainVars
<1>3. CASE postBuild
  <2>1. begin("post-build", 0, node) /\ node \in Nat /\ 0 \in 0 .. MaxSenders /\ "post-build" \in Jobs
    BY <1>3, SetupAssumption DEF postBuild, SetupInv, JobTypes, MaxSenders, Jobs
  <2>2. PICK e \in Nat : begin("post-build", 0, e)
    BY <2>1
  <2>3. SetupInv'
    BY <2>1, <2>2, BeginKeepsInv
  <2>. QED BY <2>1, <2>3 DEF begin, chainVars
<1>4. CASE SetExtensionId
  <2>1. /\ begin("bind", config.sender, 0) /\ config.sender # 0
        /\ config.sender \in 0 .. MaxSenders /\ "bind" \in Jobs
    BY <1>4 DEF SetExtensionId, SetupInv, JobTypes, File, Jobs
  <2>2. PICK s \in 0 .. MaxSenders : begin("bind", s, 0) /\ s # 0
    BY <2>1
  <2>3. s \in Senders
    BY <2>2, SetupAssumption DEF Senders, MaxSenders
  <2>4. SetupInv'
    BY <2>1, <2>2, <2>3, BeginKeepsInv
  <2>. QED BY <2>1, <2>4 DEF begin, chainVars
<1>5. CASE startServices
  <2>1. node' \in Nat /\ UNCHANGED <<env, deployed, extensions, latched, pending, resets, faults,
                                     config, job, step, waits, sender, ext, receipt, outcome, runs>>
    BY <1>5 DEF startServices, SetupInv, JobTypes, File, chainVars, jobVars
  <2>2. ChainTypes' /\ JobTypes'
    BY <2>1, SameTypes DEF SetupInv, ChainTypes, JobTypes, File
  <2>3. Placed'
    <3>1. Steps(job)' = Steps(job)
      BY <2>1 DEF Steps
    <3>. QED BY <2>1, <3>1 DEF SetupInv, Placed
  <2>4. Bounded'
    BY <2>1 DEF SetupInv, Bounded, WillDeploy, At, DeploysOf
  <2>5. Registry' /\ InFlight' /\ Truthful(config)'
    BY <2>1 DEF SetupInv, Registry, InFlight, Fits, Truthful, Current, Complete, Names, Has
  <2>6. Knows' /\ Receipts'
    BY <2>1 DEF SetupInv, Knows, OwnExtension, Receipts, Mined, Awaited, Has
  <2>. QED BY <2>1, <2>2, <2>3, <2>4, <2>5, <2>6 DEF SetupInv
<1>. QED BY <1>1, <1>2, <1>3, <1>4, <1>5 DEF Begin
\* What no step of a job touches but the writing of the file.
LEMMA Untouched ==
  ASSUME quiet' = quiet
  PROVE  /\ UNCHANGED <<env, deployed, extensions, latched, resets, config, node, runs>>
         /\ SetupInv => /\ config' \in File
                        /\ config'.exists \/ (config'.ext = 0 /\ config'.sender = 0)
                        /\ Truthful(config)'
<1>1. UNCHANGED <<env, deployed, extensions, latched, resets, config, node, runs>>
  BY DEF quiet, local
<1>. QED BY <1>1 DEF SetupInv, JobTypes, Truthful, Current, Complete, Names, Has

LEMMA QuietStop ==
  ASSUME SetupInv, NEW what \in {"done", "failed"}, Stops(what), quiet' = quiet,
         UNCHANGED <<pending, sender, ext>>, faults' \in Nat
  PROVE  SetupInv'
BY StopKeepsInv, Untouched

\* A step that finds its work done.
LEMMA PassKeepsInv ==
  ASSUME SetupInv, At(step), step \in StepsOf(job) \ {"deploy", "register", "write"}, job # "none",
         Goes(After(step)), quiet' = quiet, UNCHANGED <<pending, sender, ext>>, faults' \in Nat,
         step \in Flags => Has(ext, step)
  PROVE  SetupInv'
<1>1. step # "end"
  BY DEF StepsOf, Flags
<1>2. UNCHANGED <<still, pending>> /\ waits' = FALSE /\ step' = After(step)
  BY Untouched DEF Goes, still, At, SetupInv, JobTypes
<1>3. receipt' \in Receipt /\ receipt'.status = "none"
  BY DEF Goes, At, SetupInv, JobTypes, Receipts, Receipt
<1>4. sender' \in 0 .. MaxSenders /\ ext' \in Nat
  BY DEF SetupInv, JobTypes
<1>. QED BY <1>1, <1>2, <1>3, <1>4, AdvanceKeepsInv DEF At

LEMMA TxType ==
  ASSUME NEW k \in Kinds, NEW s \in 0 .. MaxSenders, NEW e \in Nat
  PROVE  /\ Tx(k, s, e) \in Transaction
         /\ Tx(k, s, e).kind = k /\ Tx(k, s, e).sender = s /\ Tx(k, s, e).ext = e
BY DEF Tx, Transaction

\* The steps that send a transaction, with what is known when they do.
LEMMA StepSends ==
  ASSUME SetupInv, NEW k \in Kinds, At(k), quiet' = quiet, UNCHANGED <<sender, ext>>,
         faults' \in Nat,
         \/ k \in {"deploy"} /\ Send(Tx(k, 0, 0))
         \/ k \in {"register", "bind"} /\ Send(Tx(k, sender, 0))
         \/ k \in Flags \union {"version", "governance"} /\ Send(Tx(k, 0, ext))
  PROVE  SetupInv'
<1>1. 0 \in 0 .. MaxSenders /\ 0 \in Nat /\ sender \in 0 .. MaxSenders /\ ext \in Nat
  BY SetupAssumption DEF MaxSenders, SetupInv, JobTypes
<1>2. step = k /\ ~ waits /\ At(step)
  BY DEF At
<1>3. PICK s \in 0 .. MaxSenders, e \in Nat :
        /\ Send(Tx(k, s, e))
        /\ k \in {"register", "bind"} => s = sender
        /\ k \in Flags => e = ext
  BY <1>1 DEF Flags
<1>4. /\ Tx(k, s, e) \in Transaction
      /\ Tx(k, s, e).kind = k /\ Tx(k, s, e).sender = s /\ Tx(k, s, e).ext = e
  BY TxType
<1>5. PICK tx \in Transaction : /\ Send(tx) /\ tx.kind = k
                                /\ k \in {"register", "bind"} => tx.sender = sender
                                /\ k \in Flags => tx.ext = ext
  BY <1>3, <1>4
<1>6. Awaited(tx)
  BY <1>2, <1>5 DEF Awaited
<1>7. Fits(tx)
  BY <1>2, <1>5 DEF Fits, SetupInv, Knows, Flags
<1>. QED BY <1>2, <1>5, <1>6, <1>7, SendKeepsInv, Untouched

LEMMA Employed ==
  ASSUME SetupInv, step # "none"
  PROVE  job # "none" /\ (step = "end" \/ step \in StepsOf(job))
BY Places DEF SetupInv, Placed, Jobs
LEMMA ConfirmedKeepsInv ==
  ASSUME SetupInv, Confirmed
  PROVE  SetupInv'
<1>1. /\ waits /\ receipt.status = "mined" /\ quiet' = quiet
      /\ sender' = IF step = "deploy" THEN receipt.id ELSE sender
      /\ ext' = IF step = "register" THEN receipt.id ELSE ext
      /\ step' = After(step) /\ waits' = FALSE /\ receipt' = NoReceipt
      /\ UNCHANGED <<faults, pending, job, outcome>>
  BY DEF Confirmed, quiet
<1>2. step \in Kinds /\ step # "none" /\ step # "end" /\ step # "write"
  BY <1>1 DEF SetupInv, JobTypes, Kinds, Flags
<1>3. job # "none"
  BY <1>2, Employed
<1>4. Mined /\ pending = <<>>
  BY <1>1 DEF SetupInv, Receipts
<1>5. receipt.id \in Nat /\ sender \in 0 .. MaxSenders /\ ext \in Nat /\ faults \in Nat
  BY DEF SetupInv, JobTypes, ChainTypes, Receipt
<1>6. step = "deploy" => receipt.id \in 0 .. MaxSenders /\ receipt.id # Foreign
  <2>1. step = "deploy" => receipt.id \in 1 .. deployed
    BY <1>4 DEF Mined
  <2>. QED BY <2>1, DeployedBound, SetupAssumption DEF Foreign, MaxSenders
<1>7. sender' \in 0 .. MaxSenders /\ ext' \in Nat
  BY <1>1, <1>5, <1>6
<1>8. step = "register" => ext' \in DOMAIN extensions /\ extensions[ext'].sender = sender
  BY <1>1, <1>4 DEF Mined
<1>9. step \in Flags => Has(ext, step)
  BY <1>4 DEF Mined
<1>10. receipt' \in Receipt /\ receipt'.status = "none"
  BY <1>1 DEF NoReceipt, Receipt
<1>11. UNCHANGED <<still, pending>>
  BY <1>1, Untouched DEF still
<1>12. step = "deploy" => sender' # Foreign
  BY <1>1, <1>6
<1>. QED BY <1>1, <1>2, <1>3, <1>4, <1>5, <1>7, <1>8, <1>9, <1>10, <1>11, <1>12, AdvanceKeepsInv

LEMMA WriteKeepsInv ==
  ASSUME SetupInv, writeConfig
  PROVE  SetupInv' /\ UNCHANGED <<deployed, extensions, resets>>
<1>1. /\ step = "write" /\ config' = Config(ext, sender) /\ step' = "end"
      /\ UNCHANGED <<env, deployed, extensions, latched, pending, resets, faults, node, job,
                     waits, sender, ext, receipt, outcome, runs>>
  BY DEF writeConfig, chainVars
<1>2. ~ waits
  BY <1>1 DEF SetupInv, JobTypes, Kinds, Flags
<1>3. OwnExtension /\ Has(ext, "keyType")
  BY <1>1 DEF SetupInv, Knows
<1>4. /\ config' \in File /\ config'.exists /\ config'.era = resets
      /\ config'.ext = ext /\ config'.sender = sender
  BY <1>1 DEF SetupInv, JobTypes, ChainTypes, Config, File
<1>5. ChainTypes' /\ JobTypes'
  BY <1>1, <1>2, <1>4, SameTypes DEF SetupInv, ChainTypes, JobTypes
<1>6. Placed'
  BY <1>1, Employed, Places DEF SetupInv, Placed
<1>7. Bounded'
  BY <1>1 DEF SetupInv, Bounded, WillDeploy, At, DeploysOf
<1>8. Registry' /\ InFlight'
  BY <1>1 DEF SetupInv, Registry, InFlight, Fits, Has
<1>9. Truthful(config)'
  BY <1>1, <1>3, <1>4 DEF SetupInv, ChainTypes, Truthful, Names, OwnExtension, Has
<1>10. Knows' /\ Receipts'
  <2>1. receipt.status = "none"
    BY <1>2 DEF SetupInv, Receipts, JobTypes, Receipt
  <2>. QED BY <1>1, <1>2, <2>1 DEF Knows, Receipts, Flags
<1>. QED BY <1>1, <1>5, <1>6, <1>7, <1>8, <1>9, <1>10 DEF SetupInv

LEMMA FailKeepsInv ==
  ASSUME SetupInv, fail
  PROVE  SetupInv' /\ UNCHANGED <<deployed, extensions, resets>>
<1>1. /\ Stops("failed") /\ faults' = faults + 1
      /\ UNCHANGED <<env, deployed, extensions, latched, pending, resets, node, sender, ext, runs>>
  BY DEF fail, Fault, chainVars
<1>2. faults' \in Nat
  BY <1>1 DEF SetupInv, ChainTypes
<1>3. CASE UNCHANGED config
  BY <1>1, <1>2, <1>3, StopKeepsInv
  DEF SetupInv, JobTypes, Truthful, Current, Complete, Names, Has
<1>4. CASE config' \in {Config(0, 0), Config(ext, 0)}
  <2>1. /\ config'.exists /\ config'.sender = 0 /\ config'.era = resets /\ config' \in File
    <3>1. ext \in Nat /\ resets \in Nat /\ 0 \in 0 .. MaxSenders /\ 0 \in Nat
      BY SetupAssumption DEF SetupInv, JobTypes, ChainTypes, MaxSenders
    <3>2. \/ config' = [exists |-> TRUE, ext |-> 0, sender |-> 0, era |-> resets]
          \/ config' = [exists |-> TRUE, ext |-> ext, sender |-> 0, era |-> resets]
      BY <1>4 DEF Config
    <3>3. PICK e \in Nat : config' = [exists |-> TRUE, ext |-> e, sender |-> 0, era |-> resets]
      BY <3>1, <3>2
    <3>. QED BY <3>1, <3>3 DEF File
  <2>2. Truthful(config)'
    BY <1>1, <2>1 DEF Truthful, Current, Complete, SetupInv, ChainTypes
  <2>. QED BY <1>1, <1>2, <2>1, <2>2, StopKeepsInv
<1>. QED BY <1>1, <1>3, <1>4 DEF fail

LEMMA JobKeepsInv ==
  ASSUME SetupInv, JobStep
  PROVE  SetupInv' /\ UNCHANGED <<deployed, extensions, resets>>
<1>. DEFINE Kept == SetupInv' /\ UNCHANGED <<deployed, extensions, resets>>
<1>1. faults \in Nat
  BY DEF SetupInv, ChainTypes
<1>2. quiet' = quiet => UNCHANGED <<deployed, extensions, resets>>
  BY Untouched
<1>3. CASE preflight
  <2>1. At("preflight") /\ quiet' = quiet /\ UNCHANGED <<faults, pending, sender, ext>>
    BY <1>3 DEF preflight, quiet
  <2>2. Goes(After("preflight")) \/ Stops("failed")
    BY <1>3 DEF preflight
  <2>3. step = "preflight" /\ step \notin Flags
    BY <2>1 DEF At, Flags
  <2>4. job # "none" /\ step \in StepsOf(job)
    BY <2>3, Employed
  <2>. QED BY <1>1, <1>2, <2>1, <2>2, <2>3, <2>4, PassKeepsInv, QuietStop
<1>4. CASE DeployInstructionSender
  <2>1. At("deploy") /\ quiet' = quiet /\ UNCHANGED <<faults, sender, ext>>
    BY <1>4 DEF DeployInstructionSender, quiet
  <2>2. Send(Tx("deploy", 0, 0)) \/ (Stops("failed") /\ UNCHANGED pending)
    BY <1>4 DEF DeployInstructionSender
  <2>3. "deploy" \in Kinds
    BY DEF Kinds
  <2>. QED BY <1>1, <1>2, <2>1, <2>2, <2>3, StepSends, QuietStop
<1>5. CASE register
  <2>1. /\ At("register") /\ quiet' = quiet /\ UNCHANGED <<faults, sender, ext>>
        /\ Send(Tx("register", sender, 0))
    BY <1>5 DEF register, quiet
  <2>2. "register" \in Kinds
    BY DEF Kinds
  <2>. QED BY <1>1, <1>2, <2>1, <2>2, StepSends
<1>6. ASSUME NEW k \in Flags \union {"version"}, ensure(k) PROVE Kept
  <2>1. /\ At(k) /\ quiet' = quiet /\ UNCHANGED <<faults, sender, ext>>
        /\ \/ Has(ext, k) /\ Goes(After(k)) /\ UNCHANGED pending
           \/ Send(Tx(k, 0, ext))
    BY <1>6 DEF ensure, quiet
  <2>2. k \in Kinds /\ k # "none" /\ k # "end" /\ k \notin {"deploy", "register", "write"}
    BY DEF Kinds, Flags
  <2>3. step = k /\ At(step) /\ job # "none" /\ step \in StepsOf(job)
    BY <2>1, <2>2, Employed DEF At
  <2>4. CASE Has(ext, k) /\ Goes(After(k)) /\ UNCHANGED pending
    BY <1>1, <1>2, <2>1, <2>2, <2>3, <2>4, PassKeepsInv
  <2>5. CASE Send(Tx(k, 0, ext))
    BY <1>1, <1>2, <2>1, <2>2, <2>5, StepSends
  <2>. QED BY <2>1, <2>4, <2>5
<1>7. CASE SetTeeGovernance
  <2>1. At("governance") /\ quiet' = quiet /\ UNCHANGED <<sender, ext>> /\ faults' \in Nat
    BY <1>1, <1>7 DEF SetTeeGovernance, quiet, NoFault, Fault
  <2>2. \/ Stops("failed") /\ UNCHANGED pending
        \/ Goes(After("governance")) /\ UNCHANGED pending
        \/ Send(Tx("governance", 0, ext))
    BY <1>7 DEF SetTeeGovernance
  <2>3. "governance" \in Kinds /\ "governance" \notin Flags
    BY DEF Kinds, Flags
  <2>4. step = "governance" /\ At(step) /\ job # "none" /\ step \in StepsOf(job)
    BY <2>1, Employed DEF At
  <2>. QED BY <1>2, <2>1, <2>2, <2>3, <2>4, StepSends, PassKeepsInv, QuietStop
<1>8. CASE bind
  <2>1. /\ At("bind") /\ quiet' = quiet /\ UNCHANGED <<faults, sender, ext>>
        /\ Send(Tx("bind", sender, 0))
    BY <1>8 DEF bind, quiet
  <2>2. "bind" \in Kinds
    BY DEF Kinds
  <2>. QED BY <1>1, <1>2, <2>1, <2>2, StepSends
<1>9. CASE Confirmed
  BY <1>2, <1>9, ConfirmedKeepsInv DEF Confirmed, quiet
<1>10. CASE Reverted
  BY <1>1, <1>2, <1>10, QuietStop DEF Reverted, quiet
<1>11. CASE done
  BY <1>1, <1>2, <1>11, QuietStop DEF done, quiet
<1>. HIDE DEF Kept
<1>12. CASE writeConfig
  BY <1>12, WriteKeepsInv DEF Kept
<1>13. Kept
  <2>1. ASSUME NEW k \in Flags, ensure(k) PROVE Kept
    BY <1>6, <2>1
  <2>2. CASE allowTeeVersion
    BY <1>6, <2>2 DEF allowTeeVersion
  <2>. QED
    BY <1>3, <1>4, <1>5, <1>7, <1>8, <1>9, <1>10, <1>11, <1>12, <2>1, <2>2
    DEF JobStep, Flags, Kept
<1>. QED BY <1>13 DEF Kept
LEMMA SetupInitInv == SetupInit => SetupInv
<1>. SUFFICES ASSUME SetupInit PROVE SetupInv
  OBVIOUS
<1>1. /\ env \in Environments /\ deployed = 0 /\ extensions = <<>> /\ pending = <<>>
      /\ latched = [s \in Senders |-> 0] /\ resets = 0 /\ faults = 0
      /\ config = NoConfig /\ node = 0 /\ job = "none" /\ step = "none" /\ waits = FALSE
      /\ sender = 0 /\ ext = 0 /\ receipt = NoReceipt /\ outcome = "none" /\ runs = 0
  BY DEF SetupInit
<1>2. MaxRuns \in Nat /\ 0 \in 0 .. MaxSenders
  BY SetupAssumption DEF MaxSenders
<1>3. ChainTypes
  BY <1>1 DEF ChainTypes
<1>4. JobTypes /\ Placed
  <2>1. config \in File /\ config.ext = 0 /\ config.sender = 0
    BY <1>1, <1>2 DEF File, NoConfig
  <2>2. receipt \in Receipt
    BY <1>1 DEF Receipt, NoReceipt
  <2>3. Placed
    BY <1>1 DEF Placed
  <2>4. /\ env \in Environments /\ runs \in 0 .. MaxRuns /\ sender \in 0 .. MaxSenders
        /\ node \in Nat /\ ext \in Nat /\ outcome \in {"none", "done", "failed"}
    BY <1>1, <1>2
  <2>5. waits \in BOOLEAN /\ ~ waits
    BY <1>1
  <2>. QED BY <2>1, <2>2, <2>3, <2>4, <2>5 DEF JobTypes
<1>5. Bounded
  <2>1. DeploysOf(pending) = 0 /\ ~ WillDeploy
    BY <1>1, NoDeploys DEF WillDeploy, At
  <2>. QED BY <1>1, <2>1 DEF Bounded
<1>6. Registry /\ InFlight /\ Knows /\ Receipts
  BY <1>1 DEF Registry, InFlight, Knows, Receipts, NoReceipt, Flags
<1>7. Truthful(config)
  BY <1>1 DEF Truthful, Current, Complete, NoConfig
<1>. QED BY <1>3, <1>4, <1>5, <1>6, <1>7 DEF SetupInv

\* Every step keeps the invariant, and all but a fresh chain keep what the
\* registry holds.
LEMMA SetupInvStep ==
  ASSUME SetupInv, SetupNext
  PROVE  SetupInv' /\ (Grows \/ reset)
<1>1. UNCHANGED <<deployed, extensions, resets>> => Grows
  BY NoneGrows DEF SetupInv
<1>. QED
  BY <1>1, MineKeepsInv, ForeignKeepsInv, ResetKeepsInv, BeginStep, JobKeepsInv, FailKeepsInv
  DEF SetupNext

LEMMA SetupStutter ==
  ASSUME SetupInv, UNCHANGED <<env, chainVars, local, jobVars>>, faults' \in Nat
  PROVE  SetupInv' /\ Grows
<1>1. UNCHANGED <<env, deployed, extensions, latched, pending, resets, config, node,
                  job, step, waits, sender, ext, receipt, outcome, runs>>
  BY DEF chainVars, local, jobVars
<1>2. ChainTypes' /\ JobTypes'
  BY <1>1, SameTypes DEF SetupInv, ChainTypes, JobTypes, File
<1>3. Placed'
  <2>1. Steps(job)' = Steps(job)
    BY <1>1 DEF Steps
  <2>. QED BY <1>1, <2>1 DEF SetupInv, Placed
<1>4. Bounded'
  BY <1>1 DEF SetupInv, Bounded, WillDeploy, At, DeploysOf
<1>5. Registry' /\ InFlight' /\ Truthful(config)'
  BY <1>1 DEF SetupInv, Registry, InFlight, Fits, Truthful, Current, Complete, Names, Has
<1>6. Knows' /\ Receipts'
  BY <1>1 DEF SetupInv, Knows, OwnExtension, Receipts, Mined, Awaited, Has
<1>. QED BY <1>1, <1>2, <1>3, <1>4, <1>5, <1>6, NoneGrows DEF SetupInv

\* A file that names a finished extension names a usable one.
LEMMA NamedIsUsable ==
  ASSUME SetupInv, NEW c \in File, Names(c)
  PROVE  Usable(c)
<1>1. /\ c.ext \in DOMAIN extensions /\ extensions[c.ext].sender = c.sender /\ c.sender # Foreign
      /\ extensions[c.ext].keyType
  BY DEF Names, Has
<1>2. /\ extensions[c.ext].machineOwner /\ extensions[c.ext].projectOwner
  BY <1>1 DEF SetupInv, Registry
<1>3. ExtensionsOf(c.sender) = {c.ext}
  BY <1>1 DEF SetupInv, Registry, ExtensionsOf
<1>4. c.sender \in Senders
  BY <1>1, SetupAssumption DEF File, Senders, MaxSenders, Foreign
<1>5. latched[c.sender] \in {0, c.ext}
  <2>1. ASSUME latched[c.sender] # 0
        PROVE  latched[c.sender] \in ExtensionsOf(c.sender)
    <3>1. latched[c.sender] \in DOMAIN extensions
      BY <1>4, <2>1 DEF SetupInv, ChainTypes
    <3>. QED BY <1>4, <2>1, <3>1 DEF SetupInv, Registry, ExtensionsOf
  <2>. QED BY <1>3, <2>1
<1>. QED BY <1>1, <1>2, <1>3, <1>5 DEF Usable, Has

LEMMA InvConfigUsable == SetupInv => ConfigIsUsable
<1>. SUFFICES ASSUME SetupInv, Current(config) PROVE Usable(config)
  BY DEF ConfigIsUsable
<1>1. Names(config) /\ config \in File
  BY DEF SetupInv, Truthful, JobTypes
<1>2. PICK c \in File : c = config
  BY <1>1
<1>3. Usable(c)
  BY <1>1, <1>2, NamedIsUsable
<1>. QED BY <1>2, <1>3

LEMMA InvSetupTypes == SetupInv => SetupTypeOK
<1>. SUFFICES ASSUME SetupInv PROVE SetupTypeOK
  OBVIOUS
<1>1. deployed \in 0 .. MaxSenders /\ Len(pending) <= MaxRuns
  BY DeployedBound
<1>. QED
  BY <1>1 DEF SetupInv, ChainTypes, JobTypes, SetupTypeOK, Extension, File
-----------------------------------------------------------------------------
(* The report, and the jobs besides it *)

LEMMA NextGroup ==
  ASSUME NEW groups, Selection(groups), NEW rest, EndOf(groups, rest), rest # <<>>
  PROVE  /\ EndOf(groups, Tail(rest))
         /\ \A g : DoneOf(groups, Tail(rest), g) <=> DoneOf(groups, rest, g) \/ g = Head(rest)
         /\ Len(groups) - Len(rest) \in Nat
         /\ Len(groups) - Len(rest) + 1 \in 1 .. Len(groups)
         /\ Head(rest) = groups[Len(groups) - Len(rest) + 1]
         /\ Head(rest) = "register" => ~ DoneOf(groups, rest, "registry")
         /\ Head(rest) = "register" => Tail(rest) # <<>> /\ Head(Tail(rest)) = "registry"
<1>1. PICK n, m : n = Len(groups) /\ m = Len(rest)
  OBVIOUS
<1>2. /\ n \in Nat /\ m \in Nat /\ m > 0 /\ m <= n
      /\ Len(Tail(rest)) = m - 1 /\ Tail(rest) \in Seq(ToSet(AllGroups))
      /\ \A i \in 1 .. m - 1 : Tail(rest)[i] = rest[i + 1]
      /\ Head(rest) = rest[1]
  BY <1>1, HeadTailProperties DEF EndOf, Selection
<1>3. \A i \in 1 .. m : rest[i] = groups[n - m + i]
  BY <1>1 DEF EndOf
<1>4. Head(rest) = groups[n - m + 1] /\ n - m \in Nat /\ n - m + 1 \in 1 .. n
  BY <1>2, <1>3
<1>5. EndOf(groups, Tail(rest))
  <2>1. \A i \in 1 .. m - 1 : Tail(rest)[i] = groups[n - (m - 1) + i]
    <3>1. SUFFICES ASSUME NEW i \in 1 .. m - 1 PROVE rest[i + 1] = groups[n - (m - 1) + i]
      BY <1>2
    <3>2. i + 1 \in 1 .. m /\ n - (m - 1) + i = n - m + (i + 1)
      BY <1>2
    <3>. QED BY <1>3, <3>2
  <2>. QED BY <1>1, <1>2, <2>1 DEF EndOf
<1>6. \A g : DoneOf(groups, Tail(rest), g) <=> DoneOf(groups, rest, g) \/ g = Head(rest)
  <2>1. \A i : i \in 1 .. n - (m - 1) <=> i \in 1 .. n - m \/ i = n - m + 1
    BY <1>2
  <2>. QED BY <1>1, <1>2, <1>4, <2>1 DEF DoneOf
<1>7. Head(rest) = "register" => ~ DoneOf(groups, rest, "registry")
  <2>1. \A i \in 1 .. n - m : i \in 1 .. n /\ i # n - m + 1 + 1
    BY <1>2
  <2>. QED BY <1>1, <1>4, <2>1 DEF DoneOf, Selection
<1>8. ASSUME Head(rest) = "register"
      PROVE  Tail(rest) # <<>> /\ Head(Tail(rest)) = "registry"
  <2>1. n - m + 1 < n
    BY <1>1, <1>4, <1>8 DEF Selection
  <2>2. Len(Tail(rest)) > 0 /\ m - 1 > 0
    BY <1>2, <2>1
  <2>3. Tail(rest) # <<>> /\ Head(Tail(rest)) = Tail(rest)[1]
    BY <1>2, <2>2
  <2>4. Tail(rest)[1] = groups[n - m + 2]
    <3>1. Tail(rest)[1] = rest[2] /\ 2 \in 1 .. m
      BY <1>2, <2>2
    <3>. QED BY <1>3, <3>1
  <2>5. groups[n - m + 2] = "registry"
    BY <1>1, <1>4, <1>8, <2>1, <1>2 DEF Selection
  <2>. QED BY <2>3, <2>4, <2>5
<1>. QED BY <1>1, <1>4, <1>5, <1>6, <1>7, <1>8
Statuses == {"PASS", "WARN", "FAIL", "SKIP"}
Result(res) == res.id \in AllIds /\ res.status \in Statuses

LEMMA Made ==
  ASSUME NEW id, NEW about, NEW status
  PROVE  /\ Check(id, about, status).id = id /\ Check(id, about, status).status = status
BY DEF Check

LEMMA MadeOnly ==
  ASSUME NEW id, NEW about, NEW status, NEW results, NEW res,
         results \subseteq {Check(id, about, status)}, res \in results
  PROVE  res.status = status
BY Made

LEMMA MadeToo ==
  ASSUME NEW id, NEW about, NEW status, NEW results, Check(id, about, status) \in results
  PROVE  \E res \in results : res.status = status
BY Made

\* A set of checks with a known id.
Of(ids, results) == \A res \in results : res.id \in ids /\ res.status \in Statuses

LEMMA OfMade ==
  ASSUME NEW id, NEW about, NEW status \in Statuses, NEW ids, id \in ids
  PROVE  Of(ids, {Check(id, about, status)})
BY Made DEF Of

LEMMA OfPassOr ==
  ASSUME NEW id, NEW about, NEW cond, NEW ids, id \in ids
  PROVE  /\ Of(ids, {Check(id, about, PassOr(cond, "FAIL"))})
         /\ Of(ids, {Check(id, about, PassOr(cond, "WARN"))})
<1>1. PassOr(cond, "FAIL") \in Statuses /\ PassOr(cond, "WARN") \in Statuses
  BY DEF PassOr, Statuses
<1>. QED BY <1>1, OfMade

LEMMA ProxyResult ==
  ASSUME NEW id, NEW url, NEW ids, id \in ids
  PROVE  Of(ids, {ProxyCheck(id, url)})
<1>1. \E status \in Statuses : ProxyCheck(id, url) = Check(id, "proxy", status)
  BY DEF ProxyCheck, PassOr, Statuses
<1>. QED BY <1>1, OfMade

LEMMA DeployResults ==
  ASSUME NEW down
  PROVE  Of({"D1", "D3", "D5", "D6", "D7"}, RegisterDeployChecks(down))
<1>. DEFINE ids == {"D1", "D3", "D5", "D6", "D7"}
<1>1. Of(ids, {Check("D3", "manager", PassOr(AddressNotZero, "FAIL"))})
  BY OfPassOr
<1>2. Of(ids, {Check("D1", "manager", PassOr(AddressHasCode /\ "D1" \notin down, "FAIL"))})
  BY OfPassOr
<1>3. Of(ids, {CheckDeployerKeySource})
  BY OfPassOr DEF CheckDeployerKeySource
<1>4. Of(ids, {Check("D5", "funds", PassOr(KeyHasFunds /\ "D5" \notin down, "FAIL"))})
  BY OfPassOr
<1>5. Of(ids, {checkChainID(down)})
  BY OfPassOr DEF checkChainID
<1>6. Of(ids, {Check("D7", "INSTRUCTION_SENDER", PassOr(config.sender # 0, "FAIL")),
               Check("D7", "EXTENSION_ID", PassOr(config.ext # 0, "FAIL")),
               Check("D7", "extension.env", "SKIP")})
  BY Made DEF Of, PassOr, Statuses
<1>7. Of(ids, CheckExtensionEnvFormat(config))
  BY <1>6 DEF Of, CheckExtensionEnvFormat
<1>. HIDE DEF ids
<1>8. Of(ids, RegisterDeployChecks(down))
  BY <1>1, <1>2, <1>3, <1>4, <1>5, <1>7 DEF Of, RegisterDeployChecks
<1>. QED BY <1>8 DEF ids

LEMMA ServicesResults ==
  ASSUME NEW c
  PROVE  Of({"S2", "S5", "S7", "S9", "S10"}, RegisterServicesChecks(c))
<1>. DEFINE ids == {"S2", "S5", "S7", "S9", "S10"}
<1>1. Of(ids, {Check("S2", "EXTENSION_ID", IF ~ asked.path THEN "SKIP" ELSE PassOr(c.ext # 0, "FAIL"))})
  BY Made DEF Of, PassOr, Statuses
<1>2. Of(ids, {Check("S5", "port", PassOr(node = 0, "WARN")), Check("S7", "ports", "PASS")})
  BY Made DEF Of, PassOr, Statuses
<1>3. Of(ids, {ProxyCheck("S9", env.extProxy)})
  BY ProxyResult
<1>4. Of(ids, {Check("S10", "proxy key", PassOr(env.localMode # "false" \/ env.proxyKey, "WARN"))})
  BY OfPassOr
<1>. HIDE DEF ids
<1>5. Of(ids, RegisterServicesChecks(c))
  BY <1>1, <1>2, <1>3, <1>4 DEF Of, RegisterServicesChecks
<1>. QED BY <1>5 DEF ids

LEMMA VersionResults ==
  ASSUME NEW c
  PROVE  Of({"V2", "V4", "V6"}, RegisterTeeVersionChecks(c))
<1>. DEFINE ids == {"V2", "V4", "V6"}
<1>1. Of(ids, {Check("V2", "owner key",
                 PassOr(env.ownerKey # "unset" \/ env.deployKey \/ Local, "WARN"))})
  BY OfPassOr
<1>2. Of(ids, {Check("V4", "EXTENSION_ID",
                 IF ~ asked.path \/ ~ c.exists THEN "SKIP" ELSE PassOr(c.ext # 0, "FAIL"))})
  BY Made DEF Of, PassOr, Statuses
<1>3. Of(ids, {ProxyCheck("V6", env.extProxy)})
  BY ProxyResult
<1>. HIDE DEF ids
<1>4. Of(ids, RegisterTeeVersionChecks(c))
  BY <1>1, <1>2, <1>3 DEF Of, RegisterTeeVersionChecks
<1>. QED BY <1>4 DEF ids

LEMMA MachineResults == Of({"T1", "T5", "T10"}, RegisterTeeMachineChecks)
<1>. DEFINE ids == {"T1", "T5", "T10"}
<1>1. Of(ids, {Check("T1", "simulated",
                 PassOr(~ env.simulated \/ env.localMode # "false", "WARN"))})
  BY OfPassOr
<1>2. Of(ids, {ProxyCheck("T5", env.normalProxy)}) /\ Of(ids, {ProxyCheck("T10", env.extProxy)})
  BY ProxyResult
<1>. HIDE DEF ids
<1>3. Of(ids, RegisterTeeMachineChecks)
  BY <1>1, <1>2 DEF Of, RegisterTeeMachineChecks
<1>. QED BY <1>3 DEF ids

LEMMA TestResults ==
  ASSUME NEW c
  PROVE  Of({"E1", "E3", "E6"}, RegisterTestChecks(c))
<1>. DEFINE ids == {"E1", "E3", "E6"}
<1>1. Of(ids, {Check("E1", "INSTRUCTION_SENDER",
                 IF ~ asked.path \/ ~ c.exists THEN "SKIP" ELSE PassOr(c.sender # 0, "FAIL"))})
  BY Made DEF Of, PassOr, Statuses
<1>2. Of(ids, {ProxyCheck("E3", env.extProxy)})
  BY ProxyResult
<1>3. Of(ids, {Check("E6", "opcodes", "PASS")})
  BY Made DEF Of, Statuses
<1>. HIDE DEF ids
<1>4. Of(ids, RegisterTestChecks(c))
  BY <1>1, <1>2, <1>3 DEF Of, RegisterTestChecks
<1>. QED BY <1>4 DEF ids

\* What a group adds besides the registry's checks.
OtherIds == AllIds \ Registrations
LEMMA OtherResults ==
  /\ \A down : Of(OtherIds, RegisterDeployChecks(down))
  /\ \A c : /\ Of(OtherIds, RegisterServicesChecks(c))
            /\ Of(OtherIds, RegisterTeeVersionChecks(c))
            /\ Of(OtherIds, RegisterTestChecks(c))
  /\ Of(OtherIds, RegisterTeeMachineChecks)
  /\ Of(OtherIds, {Check("R1-R7", "registration", "SKIP")})
<1>1. /\ {"D1", "D3", "D5", "D6", "D7"} \subseteq OtherIds
      /\ {"S2", "S5", "S7", "S9", "S10"} \subseteq OtherIds
      /\ {"V2", "V4", "V6"} \subseteq OtherIds
      /\ {"T1", "T5", "T10"} \subseteq OtherIds
      /\ {"E1", "E3", "E6"} \subseteq OtherIds
      /\ "R1-R7" \in OtherIds
  BY DEF OtherIds, AllIds, Registrations
<1>2. \A ids, results : ids \subseteq OtherIds /\ Of(ids, results) => Of(OtherIds, results)
  BY DEF Of
<1>3. Of(OtherIds, {Check("R1-R7", "registration", "SKIP")})
  BY <1>1, Made DEF Of, Statuses
<1>. QED
  BY <1>1, <1>2, <1>3, DeployResults, ServicesResults, VersionResults, MachineResults, TestResults

LEMMA RegistryResults ==
  ASSUME NEW c, NEW down
  PROVE  /\ Of(AllIds, RegisterRegistrationChecks(c, down))
         /\ Of(Registrations, RegisterRegistrationChecks(c, down))
<1>1. Of(Registrations, R1(down))
  BY OfPassOr DEF R1, Registrations
<1>2. Of(Registrations, {Check("R2", "id format", "FAIL")})
  BY OfMade DEF Statuses, Registrations
<1>3. Of(Registrations, R2(c, down))
  BY Made DEF Of, R2, PassOr, Statuses, Registrations
<1>4. Of(Registrations, R3(c, down))
  BY OfPassOr DEF R3, Registrations
<1>5. Of(Registrations, R4(c, down))
  BY OfPassOr DEF R4, Registrations
<1>6. Of(Registrations, R7(c, down))
  <2>1. \A matching : Of(Registrations, {Check("R7", "unique sender",
                          PassOr(Cardinality(matching) <= 1 \/ "R7" \in down, "WARN"))})
    BY OfPassOr DEF Registrations
  <2>. QED BY <2>1 DEF Of, R7
<1>7. Of(Registrations, RegisterRegistrationChecks(c, down))
  BY <1>1, <1>2, <1>3, <1>4, <1>5, <1>6 DEF Of, RegisterRegistrationChecks
<1>8. Registrations \subseteq AllIds
  BY DEF Registrations, AllIds
<1>. QED BY <1>7, <1>8 DEF Of

\* A finished extension passes every check of the registry that is answered.
LEMMA NamedPasses ==
  ASSUME SetupInv, NEW c \in File, Current(c), Names(c),
         NEW res \in RegisterRegistrationChecks(c, {})
  PROVE  res.status = "PASS"
<1>1. /\ c.ext \in DOMAIN extensions /\ extensions[c.ext].sender = c.sender /\ c.sender # Foreign
      /\ extensions[c.ext].keyType /\ c.ext # 0 /\ c.sender # 0
  BY DEF Names, Has, Current, Complete
<1>2. extensions[c.ext].machineOwner
  BY <1>1 DEF SetupInv, Registry
<1>3. OnChainSender(c.ext) = c.sender
  BY <1>1 DEF OnChainSender
<1>4. {e \in DOMAIN extensions : extensions[e].sender = c.sender} = {c.ext}
  BY <1>1 DEF SetupInv, Registry
<1>5. Cardinality({c.ext}) = 1
  BY FS_Singleton
<1>6. res \in R1({}) => res.status = "PASS"
  <2>1. R1({}) \subseteq {Check("R1", "counter", "PASS")}
    BY DEF R1, PassOr
  <2>. QED BY <2>1, MadeOnly
<1>7. res \in R2(c, {}) => res.status = "PASS"
  <2>1. R2(c, {}) \subseteq {Check("R2", "sender", "PASS")}
    BY <1>3 DEF R2, PassOr
  <2>. QED BY <2>1, MadeOnly
<1>8. res \in R3(c, {}) => res.status = "PASS"
  <2>1. R3(c, {}) \subseteq {Check("R3", "machine owner", "PASS")}
    BY <1>1, <1>2 DEF R3, PassOr, Has
  <2>. QED BY <2>1, MadeOnly
<1>9. res \in R4(c, {}) => res.status = "PASS"
  <2>1. R4(c, {}) \subseteq {Check("R4", "key type", "PASS")}
    BY <1>1 DEF R4, PassOr, Has
  <2>. QED BY <2>1, MadeOnly
<1>10. res \in R7(c, {}) => res.status = "PASS"
  <2>1. Cardinality({e \in DOMAIN extensions : extensions[e].sender = c.sender}) <= 1
    BY <1>4, <1>5
  <2>2. R7(c, {}) \subseteq {Check("R7", "unique sender", "PASS")}
    BY <2>1 DEF R7, PassOr
  <2>. QED BY <2>2, MadeOnly
<1>. QED BY <1>1, <1>6, <1>7, <1>8, <1>9, <1>10 DEF RegisterRegistrationChecks

\* And only a finished extension does.
LEMMA OnlyNamedPasses ==
  ASSUME NEW c, Complete(c), NEW down, ~ HasFailures(RegisterRegistrationChecks(c, down))
  PROVE  Names(c)
<1>1. c.ext # 0 /\ c.sender # 0
  BY DEF Complete
<1>2. /\ R2(c, down) \subseteq RegisterRegistrationChecks(c, down)
      /\ R4(c, down) \subseteq RegisterRegistrationChecks(c, down)
  BY <1>1 DEF RegisterRegistrationChecks
<1>3. \A res \in R2(c, down) \union R4(c, down) : res.status # "FAIL"
  BY <1>2 DEF HasFailures
<1>4. OnChainSender(c.ext) = c.sender
  <2>. SUFFICES ASSUME OnChainSender(c.ext) # c.sender PROVE FALSE
    OBVIOUS
  <2>1. Check("R2", "sender", "FAIL") \in R2(c, down)
    BY <1>1 DEF R2, PassOr
  <2>. QED BY <1>3, <2>1, MadeToo
<1>5. Has(c.ext, "keyType")
  <2>. SUFFICES ASSUME ~ Has(c.ext, "keyType") PROVE FALSE
    OBVIOUS
  <2>1. Check("R4", "key type", "FAIL") \in R4(c, down)
    BY DEF R4, PassOr
  <2>. QED BY <1>3, <2>1, MadeToo
<1>6. c.ext \in DOMAIN extensions
  BY <1>5 DEF Has
<1>. QED BY <1>1, <1>4, <1>5, <1>6 DEF Names, OnChainSender, Foreign

\* While the jobs go on, the report stands still.
LEMMA BesidesKeeps ==
  ASSUME Inv, SetupInv', Besides, Grows \/ (reset /\ ~ Verifying)
  PROVE  ReportInv'
<1>1. UNCHANGED <<asked, left, file, report, lost, exitCode, reports>>
  BY DEF Besides
<1>2. Position' /\ ReportTypes'
  <2>1. rewritten' \in BOOLEAN
    BY DEF Besides
  <2>. QED BY <1>1, <2>1 DEF Inv, ReportInv, Position, ReportTypes, EndOf, File
<1>3. \A g : Passed(g)' = Passed(g)
  BY <1>1 DEF Passed, DoneOf
<1>4. Truthful(file)'
  <2>1. CASE Grows
    BY <1>1, <2>1, KnowledgeStays DEF Inv, ReportInv, Registered
  <2>2. CASE reset
    <3>1. resets' = resets + 1 /\ resets \in Nat /\ file \in File
      BY <2>2 DEF reset, Inv, SetupInv, ChainTypes, ReportInv, ReportTypes
    <3>2. file.era <= resets /\ file.era \in Nat
      BY <3>1 DEF Inv, ReportInv, Registered, Truthful, File
    <3>. QED BY <1>1, <3>1, <3>2 DEF Truthful, Current
  <2>. QED BY <2>1, <2>2
<1>5. Registered'
  <2>1. Current(file)' => Current(file)
    <3>1. CASE Grows
      BY <1>1, <3>1 DEF Grows, Current, Complete
    <3>2. CASE reset
      <4>1. resets' = resets + 1 /\ resets \in Nat /\ file \in File
        BY <3>2 DEF reset, Inv, SetupInv, ChainTypes, ReportInv, ReportTypes
      <4>2. file.era <= resets /\ file.era \in Nat
        BY <4>1 DEF Inv, ReportInv, Registered, Truthful, File
      <4>. QED BY <1>1, <4>1, <4>2 DEF Current
    <3>. QED BY <3>1, <3>2
  <2>. QED BY <1>1, <1>3, <1>4, <2>1 DEF Inv, ReportInv, Registered, AllPass
<1>6. Sees'
  <2>1. Verifying' = Verifying
    BY <1>1 DEF Verifying
  <2>. SUFFICES ASSUME Verifying, asked = Everything, ~ rewritten', ~ HasFailures(report)
                PROVE  /\ Passed("deploy") /\ config'.exists => Complete(config')
                       /\ Passed("register") /\ Complete(config') => file = config'
                       /\ Passed("registry") /\ Complete(config') => Names(config)'
                       /\ Passed("services") => config'.ext # 0
    BY <1>1, <1>3, <2>1 DEF Sees, HasFailures, Complete, Everything
  <2>2. ~ rewritten /\ config' = config /\ Grows
    BY DEF Besides
  <2>3. Names(config) => Names(config)'
    BY <2>2 DEF Names, Has, Grows, Flags
  <2>. QED BY <2>2, <2>3 DEF Inv, ReportInv, Sees
<1>. QED BY <1>2, <1>5, <1>6 DEF ReportInv

\* A step of the report leaves the jobs alone, and moves past groups.
LEMMA ReportAlone ==
  ASSUME Inv, verifyOnly' = verifyOnly, faults' \in Nat
  PROVE  /\ SetupInv' /\ UNCHANGED <<config, extensions, resets>>
         /\ \A c : (Names(c)' <=> Names(c)) /\ (Current(c)' <=> Current(c))
<1>1. UNCHANGED <<env, chainVars, local, jobVars>>
  BY DEF verifyOnly
<1>2. UNCHANGED <<config, extensions, resets>>
  BY <1>1 DEF chainVars, local
<1>. QED BY <1>1, <1>2, SetupStutter DEF Inv, Names, Has, Current

LEMMA GroupPassed ==
  ASSUME Inv, left # <<>>, asked' = asked, left' = Tail(left)
  PROVE  /\ Position'
         /\ \A g : Passed(g)' <=> Passed(g) \/ g = Head(left)
         /\ Head(left) = "register" =>
              /\ ~ Passed("registry")
              /\ left' # <<>> /\ Head(left') = "registry"
<1>1. Selection(asked.groups) /\ EndOf(asked.groups, left)
  BY SelectionShape DEF Inv, ReportInv, Position
<1>2. /\ EndOf(asked.groups, Tail(left))
      /\ \A g : DoneOf(asked.groups, Tail(left), g)
                  <=> DoneOf(asked.groups, left, g) \/ g = Head(left)
      /\ Head(left) = "register" =>
              /\ ~ DoneOf(asked.groups, left, "registry")
              /\ Tail(left) # <<>> /\ Head(Tail(left)) = "registry"
  BY <1>1, NextGroup
<1>3. Position'
  BY <1>2 DEF Inv, ReportInv, Position, EndOf
<1>. QED BY <1>2, <1>3 DEF Passed, DoneOf

\* What a group that is passed adds to the types.
LEMMA ResultTypes ==
  ASSUME ReportTypes, NEW results, Of(AllIds, results), report' = report \union results,
         lost' \in BOOLEAN, rewritten' = rewritten, exitCode' = exitCode, reports' = reports,
         file' \in File
  PROVE  ReportTypes'
<1>1. File' = File
  BY DEF File
<1>2. \A res \in report' : res.id \in AllIds /\ res.status \in {"PASS", "WARN", "FAIL", "SKIP"}
  BY DEF ReportTypes, Of, Statuses
<1>. QED BY <1>1, <1>2 DEF ReportTypes

LEMMA MoreFailures ==
  ASSUME NEW results, report' = report \union results, ~ HasFailures(report')
  PROVE  ~ HasFailures(report) /\ ~ HasFailures(results)
BY DEF HasFailures

\* A group that has nothing to say about the registry.
LEMMA PassedBy ==
  ASSUME Inv, left # <<>>, Head(left) \notin {"register", "registry"},
         verifyOnly' = verifyOnly, UNCHANGED file, faults' \in Nat, lost' \in BOOLEAN,
         ~ lost' => ~ lost, NEW results, Of(OtherIds, results), Adds(results),
         asked = Everything /\ ~ HasFailures(results) =>
           /\ Head(left) = "deploy" /\ config.exists => Complete(config)
           /\ Head(left) = "services" => config.ext # 0
  PROVE  Inv'
<1>1. /\ UNCHANGED <<asked, exitCode, reports, rewritten, file>>
      /\ report' = report \union results /\ left' = Tail(left)
  BY DEF verifyOnly, Adds
<1>2. /\ SetupInv' /\ UNCHANGED <<config, extensions, resets>>
      /\ \A c : (Names(c)' <=> Names(c)) /\ (Current(c)' <=> Current(c))
  BY ReportAlone
<1>3. /\ Position'
      /\ \A g : Passed(g)' <=> Passed(g) \/ g = Head(left)
  BY <1>1, GroupPassed
<1>4. ReportTypes'
  <2>1. Of(AllIds, results)
    BY DEF Of, OtherIds
  <2>2. ReportTypes /\ file' \in File
    BY <1>1 DEF Inv, ReportInv, ReportTypes
  <2>. QED BY <1>1, <2>1, <2>2, ResultTypes
<1>5. Registered'
  <2>1. \A res \in results : res.id \notin Registrations
    BY DEF Of, OtherIds
  <2>2. Truthful(file)'
    BY <1>1, <1>2 DEF Inv, ReportInv, Registered, Truthful
  <2>3. Current(file)' <=> Current(file)
    BY <1>1, <1>2 DEF Current
  <2>4. (\E res \in report' : res.id \in Registrations) => Passed("registry")'
    BY <1>1, <1>3, <2>1 DEF Inv, ReportInv, Registered
  <2>5. ~ lost' /\ Current(file)' => AllPass'
    BY <1>1, <2>1, <2>3 DEF Inv, ReportInv, Registered, AllPass
  <2>. QED BY <2>2, <2>4, <2>5 DEF Registered
<1>6. Sees'
  <2>. SUFFICES ASSUME asked = Everything, ~ rewritten, ~ HasFailures(report')
                PROVE  /\ Passed("deploy")' /\ config.exists => Complete(config)
                       /\ Passed("register")' /\ Complete(config) => file = config
                       /\ Passed("registry")' /\ Complete(config) => Names(config)
                       /\ Passed("services")' => config.ext # 0
    BY <1>1, <1>2 DEF Sees, HasFailures, Complete, Everything, Names, Has
  <2>1. ~ HasFailures(report) /\ ~ HasFailures(results)
    BY <1>1, MoreFailures
  <2>2. Verifying
    BY DEF Verifying
  <2>. QED BY <1>3, <2>1, <2>2 DEF Inv, ReportInv, Sees
<1>. QED BY <1>2, <1>3, <1>4, <1>5, <1>6 DEF Inv, ReportInv

LEMMA AnsweredTypes ==
  ASSUME Inv, NEW down, Answered(down)
  PROVE  /\ faults' \in Nat /\ lost' \in BOOLEAN
         /\ ~ lost' => ~ lost /\ down = {}
<1>1. faults \in Nat /\ lost \in BOOLEAN
  BY DEF Inv, SetupInv, ChainTypes, ReportInv, ReportTypes
<1>2. CASE down = {} /\ NoFault /\ UNCHANGED lost
  <2>1. faults' = faults /\ lost' = lost /\ down = {}
    BY <1>2 DEF NoFault
  <2>. QED BY <1>1, <2>1
<1>3. CASE Fault /\ lost' = TRUE
  <2>1. faults' = faults + 1 /\ lost'
    BY <1>3 DEF Fault
  <2>2. lost' \in BOOLEAN
    BY <1>3
  <2>. QED BY <1>1, <2>1, <2>2
<1>. QED BY <1>2, <1>3 DEF Answered

LEMMA DeployGroupKeeps ==
  ASSUME Inv, deployGroup
  PROVE  Inv'
<1>1. PICK down : Answered(down) /\ Adds(RegisterDeployChecks(down))
  BY DEF deployGroup
<1>2. left # <<>> /\ Head(left) = "deploy" /\ verifyOnly' = verifyOnly /\ UNCHANGED file
  BY DEF deployGroup, verifyOnly
<1>3. ASSUME asked = Everything, ~ HasFailures(RegisterDeployChecks(down)), config.exists
      PROVE  Complete(config)
  <2>1. CheckExtensionEnvFormat(config) \subseteq RegisterDeployChecks(down)
    BY <1>3 DEF RegisterDeployChecks, Everything
  <2>2. \A res \in CheckExtensionEnvFormat(config) : res.status # "FAIL"
    BY <1>3, <2>1 DEF HasFailures
  <2>3. config.sender # 0
    <3>. SUFFICES ASSUME config.sender = 0 PROVE FALSE
      OBVIOUS
    <3>1. Check("D7", "INSTRUCTION_SENDER", "FAIL") \in CheckExtensionEnvFormat(config)
      BY <1>3 DEF CheckExtensionEnvFormat, PassOr
    <3>. QED BY <2>2, <3>1, Made
  <2>4. config.ext # 0
    <3>. SUFFICES ASSUME config.ext = 0 PROVE FALSE
      OBVIOUS
    <3>1. Check("D7", "EXTENSION_ID", "FAIL") \in CheckExtensionEnvFormat(config)
      BY <1>3 DEF CheckExtensionEnvFormat, PassOr
    <3>. QED BY <2>2, <3>1, Made
  <2>. QED BY <2>3, <2>4 DEF Complete
<1>4. PICK results : results = RegisterDeployChecks(down)
  OBVIOUS
<1>5. Of(OtherIds, results) /\ Adds(results)
  BY <1>1, <1>4, OtherResults
<1>6. faults' \in Nat
  BY <1>1, AnsweredTypes
<1>7. lost' \in BOOLEAN
  BY <1>1, AnsweredTypes
<1>8. ~ lost' => ~ lost
  BY <1>1, AnsweredTypes
<1>. QED BY <1>2, <1>3, <1>4, <1>5, <1>6, <1>7, <1>8, PassedBy

LEMMA OtherGroupKeeps ==
  ASSUME Inv, otherGroup
  PROVE  Inv'
<1>1. /\ left # <<>> /\ Head(left) \in {"services", "tee-version", "tee-machine", "test"}
      /\ verifyOnly' = verifyOnly /\ UNCHANGED <<faults, file, lost>>
  BY DEF otherGroup, verifyOnly
<1>2. faults' \in Nat /\ lost' \in BOOLEAN
  BY <1>1 DEF Inv, SetupInv, ChainTypes, ReportInv, ReportTypes
<1>3. ASSUME asked = Everything, ~ HasFailures(RegisterServicesChecks(config))
      PROVE  config.ext # 0
  <2>. SUFFICES ASSUME config.ext = 0 PROVE FALSE
    OBVIOUS
  <2>1. Check("S2", "EXTENSION_ID", "FAIL") \in RegisterServicesChecks(config)
    BY <1>3 DEF RegisterServicesChecks, PassOr, Everything
  <2>. QED BY <1>3, <2>1, Made DEF HasFailures
<1>4. PICK results : /\ Of(OtherIds, results) /\ Adds(results)
                     /\ Head(left) = "services" => results = RegisterServicesChecks(config)
  <2>1. CASE Head(left) = "services" /\ Adds(RegisterServicesChecks(config))
    BY <2>1, OtherResults
  <2>2. CASE Head(left) = "tee-version" /\ Adds(RegisterTeeVersionChecks(config))
    BY <2>2, OtherResults
  <2>3. CASE Head(left) = "tee-machine" /\ Adds(RegisterTeeMachineChecks)
    BY <2>3, OtherResults
  <2>4. CASE Head(left) = "test" /\ Adds(RegisterTestChecks(config))
    BY <2>4, OtherResults
  <2>. QED BY <2>1, <2>2, <2>3, <2>4 DEF otherGroup
<1>. QED BY <1>1, <1>2, <1>3, <1>4, PassedBy

\* The file is read before the registry is asked: nothing is known of it yet.
LEMMA RegisterGroupKeeps ==
  ASSUME Inv, registerGroup
  PROVE  Inv'
<1>1. /\ left # <<>> /\ Head(left) = "register"
      /\ verifyOnly' = verifyOnly /\ UNCHANGED <<faults, lost>> /\ file' = config
      /\ UNCHANGED <<asked, exitCode, reports, rewritten>>
  BY DEF registerGroup, verifyOnly
<1>2. /\ SetupInv' /\ UNCHANGED <<config, extensions, resets>>
      /\ \A c : (Names(c)' <=> Names(c)) /\ (Current(c)' <=> Current(c))
  BY <1>1, ReportAlone DEF Inv, SetupInv, ChainTypes
<1>3. PICK results : /\ Of(OtherIds, results) /\ report' = report \union results
                     /\ \/ left' = Tail(left)
                        \/ left' = Tail(Tail(left)) /\ (asked.path => ~ Complete(config))
  <2>1. CASE asked.path /\ ~ NothingConfigured(parseExtensionEnv)
    <3>1. left' = Tail(left) /\ report' = report \union {} /\ Of(OtherIds, {})
      BY <2>1 DEF registerGroup, Of
    <3>. QED BY <3>1
  <2>2. CASE ~ (asked.path /\ ~ NothingConfigured(parseExtensionEnv))
    <3>1. /\ report' = report \union {Check("R1-R7", "registration", "SKIP")}
          /\ left' = Tail(Tail(left))
      BY <2>2 DEF registerGroup
    <3>2. asked.path => ~ Complete(config)
      BY <2>2 DEF NothingConfigured, parseExtensionEnv, Complete
    <3>. QED BY <3>1, <3>2, OtherResults
  <2>. QED BY <2>1, <2>2
<1>4. Selection(asked.groups) /\ EndOf(asked.groups, left)
  BY SelectionShape DEF Inv, ReportInv, Position
<1>5. /\ EndOf(asked.groups, Tail(left)) /\ Tail(left) # <<>> /\ Head(Tail(left)) = "registry"
      /\ ~ DoneOf(asked.groups, left, "registry")
      /\ \A g : DoneOf(asked.groups, Tail(left), g)
                  <=> DoneOf(asked.groups, left, g) \/ g = "register"
  BY <1>1, <1>4, NextGroup
<1>6. /\ EndOf(asked.groups, Tail(Tail(left)))
      /\ \A g : DoneOf(asked.groups, Tail(Tail(left)), g)
                  <=> DoneOf(asked.groups, Tail(left), g) \/ g = "registry"
  BY <1>4, <1>5, NextGroup
<1>7. Position'
  BY <1>1, <1>3, <1>5, <1>6 DEF Inv, ReportInv, Position, EndOf
<1>8. /\ \A g : g \notin {"register", "registry"} => (Passed(g)' <=> Passed(g))
      /\ Passed("registry")' => left' = Tail(Tail(left))
  BY <1>1, <1>3, <1>5, <1>6 DEF Passed, DoneOf
<1>9. \A res \in report' : res.id \notin Registrations
  BY <1>3, <1>5 DEF Inv, ReportInv, Registered, Passed, Of, OtherIds
<1>10. ReportTypes'
  <2>1. Of(AllIds, results)
    BY <1>3 DEF Of, OtherIds
  <2>2. ReportTypes /\ config \in File /\ lost' \in BOOLEAN
    BY <1>1 DEF Inv, ReportInv, ReportTypes, SetupInv, JobTypes
  <2>. QED BY <1>1, <1>3, <2>1, <2>2, ResultTypes
<1>11. Registered'
  <2>1. Truthful(file)'
    BY <1>1, <1>2 DEF Inv, SetupInv, Truthful, Current, Names, Has
  <2>. QED BY <1>9, <2>1 DEF Registered, AllPass
<1>12. Sees'
  <2>. SUFFICES ASSUME asked = Everything, ~ rewritten, ~ HasFailures(report')
                PROVE  /\ Passed("deploy")' /\ config.exists => Complete(config)
                       /\ Passed("register")' /\ Complete(config) => file' = config
                       /\ Passed("registry")' /\ Complete(config) => Names(config)
                       /\ Passed("services")' => config.ext # 0
    BY <1>1, <1>2 DEF Sees, HasFailures, Complete, Everything, Names, Has
  <2>1. Verifying /\ ~ HasFailures(report)
    BY <1>1, <1>3, MoreFailures DEF Verifying
  <2>2. Passed("registry")' => ~ Complete(config)
    <3>1. left' = Tail(left) => ~ Passed("registry")'
      BY <1>1, <1>5 DEF Passed, DoneOf
    <3>. QED BY <1>3, <3>1 DEF Everything
  <2>. QED BY <1>1, <1>8, <2>1, <2>2 DEF Inv, ReportInv, Sees
<1>. QED BY <1>2, <1>7, <1>10, <1>11, <1>12 DEF Inv, ReportInv

\* In a full report the registry comes right after the file.
LEMMA FileIsRead ==
  ASSUME Inv, asked = Everything, left # <<>>, Head(left) = "registry"
  PROVE  Passed("register")
<1>1. Selection(AllGroups) /\ EndOf(AllGroups, left) /\ asked.groups = AllGroups
  BY SelectionShape DEF Inv, ReportInv, Position, Everything, Selections
<1>2. PICK k : k = Len(AllGroups) - Len(left)
  OBVIOUS
<1>3. k \in Nat /\ k + 1 \in 1 .. 7 /\ AllGroups[k + 1] = "registry"
  <2>1. /\ Len(AllGroups) - Len(left) \in Nat
        /\ Len(AllGroups) - Len(left) + 1 \in 1 .. Len(AllGroups)
        /\ Head(left) = AllGroups[Len(AllGroups) - Len(left) + 1]
    BY <1>1, NextGroup
  <2>. QED BY <1>2, <2>1, FullSelection
<1>4. k + 1 = 3
  BY <1>3, FullSelection
<1>5. 2 \in 1 .. k /\ AllGroups[2] = "register"
  BY <1>3, <1>4, FullSelection
<1>. QED BY <1>1, <1>2, <1>5 DEF Passed, DoneOf

LEMMA RegistryGroupKeeps ==
  ASSUME Inv, registryGroup
  PROVE  Inv'
<1>1. PICK down : Answered(down) /\ Adds(RegisterRegistrationChecks(file, down))
  BY DEF registryGroup
<1>2. /\ left # <<>> /\ Head(left) = "registry"
      /\ verifyOnly' = verifyOnly /\ UNCHANGED <<file, asked, exitCode, reports, rewritten>>
  BY DEF registryGroup, verifyOnly
<1>3. PICK results : results = RegisterRegistrationChecks(file, down)
  OBVIOUS
<1>4. report' = report \union results /\ left' = Tail(left)
  BY <1>1, <1>3 DEF Adds
<1>5. faults' \in Nat
  BY <1>1, AnsweredTypes
<1>11. lost' \in BOOLEAN
  BY <1>1, AnsweredTypes
<1>12. ~ lost' => ~ lost /\ down = {}
  BY <1>1, AnsweredTypes
<1>6. /\ SetupInv' /\ UNCHANGED <<config, extensions, resets>>
      /\ \A c : (Names(c)' <=> Names(c)) /\ (Current(c)' <=> Current(c))
  BY <1>2, <1>5, ReportAlone
<1>7. /\ Position'
      /\ \A g : Passed(g)' <=> Passed(g) \/ g = "registry"
  BY <1>2, <1>4, GroupPassed
<1>8. ReportTypes'
  <2>1. Of(AllIds, results)
    BY <1>3, RegistryResults
  <2>2. ReportTypes /\ file' \in File
    BY <1>2 DEF Inv, ReportInv, ReportTypes
  <2>. QED BY <1>2, <1>4, <1>11, <2>1, <2>2, ResultTypes
<1>9. Registered'
  <2>1. Truthful(file)'
    BY <1>2, <1>6 DEF Inv, ReportInv, Registered, Truthful
  <2>2. ASSUME ~ lost', Current(file)'
        PROVE  AllPass'
    <3>1. ~ lost /\ Current(file) /\ AllPass /\ down = {}
      <4>1. ~ lost /\ down = {}
        BY <1>12, <2>2
      <4>2. Current(file)
        BY <1>2, <1>6, <2>2 DEF Current
      <4>. QED BY <4>1, <4>2 DEF Inv, ReportInv, Registered
    <3>2. SetupInv /\ file \in File /\ Names(file)
      BY <3>1 DEF Inv, ReportInv, ReportTypes, Registered, Truthful
    <3>3. \A res \in results : res.status = "PASS"
      BY <1>3, <3>1, <3>2, NamedPasses
    <3>. QED BY <1>4, <3>1, <3>3 DEF AllPass
  <2>. QED BY <1>7, <2>1, <2>2 DEF Registered
<1>10. Sees'
  <2>. SUFFICES ASSUME asked = Everything, ~ rewritten, ~ HasFailures(report')
                PROVE  /\ Passed("deploy")' /\ config.exists => Complete(config)
                       /\ Passed("register")' /\ Complete(config) => file = config
                       /\ Passed("registry")' /\ Complete(config) => Names(config)
                       /\ Passed("services")' => config.ext # 0
    BY <1>2, <1>6 DEF Sees, HasFailures, Complete, Everything, Names, Has
  <2>1. ~ HasFailures(report) /\ ~ HasFailures(results)
    BY <1>4, MoreFailures
  <2>2. Verifying /\ Passed("register")
    BY <1>2, FileIsRead DEF Verifying
  <2>3. Complete(config) => file = config
    BY <2>1, <2>2 DEF Inv, ReportInv, Sees
  <2>4. Complete(config) => Names(config)
    BY <1>3, <2>1, <2>3, OnlyNamedPasses
  <2>. QED BY <1>7, <2>1, <2>2, <2>3, <2>4 DEF Inv, ReportInv, Sees
<1>. QED BY <1>6, <1>7, <1>8, <1>9, <1>10 DEF Inv, ReportInv

\* A report that begins knows nothing yet, one that cannot begin is over.
LEMMA BeginsKeeps ==
  ASSUME Inv, NEW request \in Requests, begins(request), faults' \in Nat, lost' \in BOOLEAN,
         \/ left' = request.groups /\ exitCode' = "none"
         \/ left' = <<>> /\ exitCode' = "1"
  PROVE  Inv'
<1>1. /\ UNCHANGED <<env, chainVars, local, jobVars>> /\ rewritten' = rewritten
      /\ asked' = request /\ reports' = reports + 1 /\ report' = {} /\ file' = NoConfig
  BY DEF begins
<1>2. SetupInv' /\ resets' = resets
  BY <1>1, SetupStutter DEF Inv, chainVars
<1>3. request.groups \in Selections /\ request.ids \subseteq AllIds
  BY RequestsAssumption
<1>4. request.groups \in Seq(ToSet(AllGroups))
  BY <1>3, SelectionShape DEF Selection
<1>5. PICK n \in Nat : n = Len(request.groups)
  BY <1>4
<1>6. Position'
  <2>1. EndOf(request.groups, request.groups)
    <3>1. n - n = 0 /\ n <= n /\ \A i \in 1 .. n : 0 + i = i
      BY <1>5
    <3>. QED BY <1>4, <1>5, <3>1 DEF EndOf
  <2>2. EndOf(request.groups, <<>>)
    BY <1>5 DEF EndOf
  <2>. QED BY <1>1, <1>3, <2>1, <2>2 DEF Position, EndOf
<1>7. NoConfig \in File /\ File' = File
  BY SetupAssumption DEF NoConfig, File, MaxSenders
<1>8. ReportTypes'
  <2>1. rewritten \in BOOLEAN /\ reports \in Nat
    BY DEF Inv, ReportInv, ReportTypes
  <2>2. rewritten' \in BOOLEAN
    BY <1>1, <2>1
  <2>3. reports' \in Nat /\ file' \in File' /\ exitCode' \in {"none", "1"} /\ report' = {}
    BY <1>1, <1>7, <2>1
  <2>. QED BY <2>2, <2>3 DEF ReportTypes
<1>9. Registered'
  <2>1. Truthful(file)'
    BY <1>1, <1>2 DEF Truthful, Current, Complete, NoConfig, Inv, SetupInv, ChainTypes
  <2>. QED BY <1>1, <2>1 DEF Registered, AllPass
<1>10. Sees'
  <2>1. CASE left' = request.groups
    <3>1. n - n = 0 /\ 1 .. 0 = {}
      BY <1>5
    <3>2. \A g : ~ Passed(g)'
      BY <1>1, <1>5, <2>1, <3>1 DEF Passed, DoneOf
    <3>. QED BY <3>2 DEF Sees
  <2>2. CASE left' = <<>> /\ exitCode' = "1"
    BY <2>2 DEF Sees, Verifying
  <2>. QED BY <2>1, <2>2
<1>. QED BY <1>2, <1>6, <1>8, <1>9, <1>10 DEF Inv, ReportInv

LEMMA StartKeeps ==
  ASSUME Inv, NEW request \in Requests, startVerify(request) \/ noSupport(request)
  PROVE  Inv'
<1>1. faults \in Nat
  BY DEF Inv, SetupInv, ChainTypes
<1>2. CASE startVerify(request)
  <2>1. begins(request) /\ left' = request.groups /\ exitCode' = "none"
    BY <1>2 DEF startVerify
  <2>2. faults' \in Nat /\ lost' \in BOOLEAN
    BY <1>1, <1>2 DEF startVerify, NoFault
  <2>. QED BY <2>1, <2>2, BeginsKeeps
<1>3. CASE noSupport(request)
  <2>1. begins(request) /\ left' = <<>> /\ exitCode' = "1"
    BY <1>3 DEF noSupport
  <2>2. faults' \in Nat /\ lost' \in BOOLEAN
    BY <1>1, <1>3 DEF noSupport, Fault
  <2>. QED BY <2>1, <2>2, BeginsKeeps
<1>. QED BY <1>2, <1>3

LEMMA EndKeeps ==
  ASSUME Inv, endVerify
  PROVE  Inv'
<1>1. /\ UNCHANGED setupVars /\ UNCHANGED <<asked, left, file, report, lost, reports>>
      /\ left = <<>> /\ exitCode' \in {"0", "1"} /\ rewritten' = FALSE
  BY DEF endVerify
<1>2. UNCHANGED <<env, chainVars, local, jobVars, faults>>
  BY <1>1 DEF setupVars
<1>3. SetupInv' /\ UNCHANGED <<extensions, resets>>
  BY <1>2, SetupStutter DEF Inv, SetupInv, ChainTypes, chainVars
<1>4. Position' /\ ReportTypes'
  BY <1>1 DEF Inv, ReportInv, Position, ReportTypes, EndOf, File
<1>5. Registered'
  BY <1>1, <1>3 DEF Inv, ReportInv, Registered, Passed, DoneOf, Truthful, Current, Complete,
                    Names, Has, AllPass
<1>6. Sees'
  BY <1>1 DEF Sees, Verifying
<1>. QED BY <1>3, <1>4, <1>5, <1>6 DEF Inv, ReportInv

LEMMA StandsStill ==
  ASSUME Inv, UNCHANGED vars
  PROVE  Inv'
<1>1. /\ UNCHANGED <<env, chainVars, local, jobVars, faults>>
      /\ UNCHANGED <<asked, left, file, report, lost, exitCode, reports, rewritten>>
  BY DEF vars, setupVars, verifyVars
<1>2. SetupInv' /\ Grows /\ config' = config
  BY <1>1, SetupStutter DEF Inv, SetupInv, ChainTypes, local
<1>3. Besides
  BY <1>1, <1>2 DEF Besides, Inv, ReportInv, ReportTypes
<1>. QED BY <1>2, <1>3, BesidesKeeps DEF Inv

LEMMA InitInv == Init => Inv
<1>. SUFFICES ASSUME Init PROVE Inv
  OBVIOUS
<1>1. SetupInv
  BY SetupInitInv DEF Init
<1>2. Position
  <2>1. asked.groups = <<>> /\ asked.ids = {} /\ left = <<>>
    BY DEF Init
  <2>. QED BY <2>1 DEF Position, EndOf
<1>3. ReportTypes
  <2>1. NoConfig \in File
    BY SetupAssumption DEF NoConfig, File, MaxSenders
  <2>. QED BY <2>1 DEF Init, ReportTypes
<1>4. Registered
  BY <1>1 DEF Init, Registered, AllPass, Truthful, Current, Complete, NoConfig, SetupInv, ChainTypes
<1>5. Sees
  BY DEF Init, Sees, Verifying
<1>. QED BY <1>1, <1>2, <1>3, <1>4, <1>5 DEF Inv, ReportInv

LEMMA InvStep == Inv /\ [Next]_vars => Inv'
<1>. SUFFICES ASSUME Inv, [Next]_vars PROVE Inv'
  OBVIOUS
<1>1. ASSUME Besides, SetupNext, reset => ~ Verifying
      PROVE  Inv'
  <2>1. SetupInv' /\ (Grows \/ reset)
    BY <1>1, SetupInvStep DEF Inv
  <2>. QED BY <1>1, <2>1, BesidesKeeps DEF Inv
<1>2. ASSUME mine \/ registerForeign \/ Begin \/ JobStep \/ fail, Besides
      PROVE  Inv'
  <2>1. SetupInv /\ SetupNext
    BY <1>2 DEF SetupNext, Inv
  <2>2. SetupInv' /\ Grows
    BY <1>2, <2>1, MineKeepsInv, ForeignKeepsInv, BeginStep, JobKeepsInv, FailKeepsInv,
       NoneGrows DEF SetupInv
  <2>. QED BY <1>2, <2>2, BesidesKeeps DEF Inv
<1>3. ASSUME ~ Verifying, reset, Besides
      PROVE  Inv'
  BY <1>1, <1>3 DEF SetupNext
<1>4. ASSUME NEW request \in Requests, startVerify(request) \/ noSupport(request)
      PROVE  Inv'
  BY <1>4, StartKeeps
<1>5. ASSUME VerifyStep
      PROVE  Inv'
  BY <1>5, DeployGroupKeeps, RegisterGroupKeeps, RegistryGroupKeeps, OtherGroupKeeps, EndKeeps
  DEF VerifyStep
<1>6. CASE UNCHANGED vars
  BY <1>6, StandsStill
<1>. QED BY <1>2, <1>3, <1>4, <1>5, <1>6 DEF Next

\* A full report that is about to end with 0 has seen a usable extension.
LEMMA CatchesStep ==
  ASSUME Inv, endVerify, exitCode' = "0", asked = Everything, ~ rewritten
  PROVE  Complete(config) /\ Usable(config)
<1>1. ~ HasFailures(report)
  <2>1. ~ HasFailures({res \in report : res.id \in AllIds})
    BY DEF endVerify, Everything
  <2>2. {res \in report : res.id \in AllIds} = report
    BY DEF Inv, ReportInv, ReportTypes
  <2>. QED BY <2>1, <2>2
<1>2. \A g \in ToSet(AllGroups) : Passed(g)
  <2>1. asked.groups = AllGroups /\ Len(left) = 0 /\ Len(AllGroups) - 0 = 7
    BY FullSelection DEF endVerify, Everything
  <2>2. \A g \in ToSet(AllGroups) : \E i \in 1 .. 7 : AllGroups[i] = g
    BY FullSelection DEF ToSet
  <2>. QED BY <2>1, <2>2 DEF Passed, DoneOf
<1>3. Passed("deploy") /\ Passed("register") /\ Passed("registry") /\ Passed("services")
  BY <1>2, FullSelection
<1>4. Verifying
  BY DEF endVerify
<1>5. config.ext # 0
  BY <1>1, <1>3, <1>4 DEF Inv, ReportInv, Sees
<1>6. config.exists
  BY <1>5 DEF Inv, SetupInv, JobTypes
<1>7. Complete(config) /\ Names(config) /\ config \in File
  BY <1>1, <1>3, <1>4, <1>6 DEF Inv, ReportInv, Sees, SetupInv, JobTypes
<1>8. PICK c \in File : c = config
  BY <1>7
<1>9. Usable(c)
  BY <1>7, <1>8, NamedIsUsable DEF Inv
<1>. QED BY <1>7, <1>8, <1>9

-----------------------------------------------------------------------------
(* The theorems *)

\* What pre-build, register-extension, run-test and verify-deploy rely on, in
\* every state: a job waits for at most one transaction and it is the last one
\* sent, a sender of ours has one extension, owners and key type are added in
\* that order, and the file is written after them.
THEOREM SetupHolds == Spec => []Inv
BY InitInv, InvStep, PTL DEF Spec

\* Whatever the jobs, the chain and a report do in whatever order, the registry,
\* extension.env and the report stay well formed, there are no more contracts
\* than jobs, and no more transactions wait to be mined than there were jobs.
THEOREM TypeCorrect == Spec => []TypeOK
<1>1. Inv => TypeOK
  <2>. SUFFICES ASSUME Inv PROVE TypeOK
    OBVIOUS
  <2>1. SetupTypeOK
    BY InvSetupTypes DEF Inv
  <2>2. asked.groups \in Seq(ToSet(AllGroups)) /\ asked.ids \subseteq AllIds
    BY SelectionShape DEF Inv, ReportInv, Position, Selection
  <2>3. left \in Seq(ToSet(AllGroups))
    BY DEF Inv, ReportInv, Position, EndOf
  <2>. QED BY <2>1, <2>2, <2>3 DEF TypeOK, Inv, ReportInv, ReportTypes
<1>. QED BY <1>1, SetupHolds, PTL

\* extension.env with both lines of this chain names the one extension of its
\* sender, with its owners and its key type, whoever else registers, however
\* late a transaction is mined and wherever pre-build or register-extension was
\* killed.
THEOREM ConfigUsable == Spec => []ConfigIsUsable
<1>1. Inv => ConfigIsUsable
  BY InvConfigUsable DEF Inv
<1>. QED BY <1>1, SetupHolds, PTL

\* verify-deploy finds nothing wrong in the registry with a file pre-build
\* wrote on this chain, when the chain answers.
THEOREM ReportPasses == Spec => []VerifyPasses
<1>1. Inv => VerifyPasses
  BY DEF Inv, ReportInv, Registered, AllPass, Registrations, VerifyPasses
<1>. QED BY <1>1, SetupHolds, PTL

\* And a full report that exits with 0 has not been fooled: the extension
\* extension.env names is there and usable, whatever file it was.
THEOREM ReportCatches == Spec => VerifyCatches
<1>1. Inv /\ [Next]_vars =>
        [endVerify /\ exitCode' = "0" /\ asked = Everything
           /\ ~ rewritten => Complete(config) /\ Usable(config)]_vars
  BY CatchesStep
<1>. QED BY <1>1, SetupHolds, PTL DEF Spec, VerifyCatches

===============================================================================
