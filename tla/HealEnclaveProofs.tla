------------------------- MODULE HealEnclaveProofs --------------------------
(***************************************************************************)
(* Theorems about register-tee and heal-enclave.sh: for any commands, any  *)
(* number of machines, epochs, runs and faults, the state file is true, a  *)
(* fresh run that succeeds promoted the machine it found, and the venue is *)
(* given no machine the registry has not taken.                            *)
(***************************************************************************)
EXTENDS HealEnclave, SequenceTheorems, TLAPS

(* The inductive invariant *)

Active == pc \notin {"idle", "info"}

About(i, kind, m) == Names(i, kind) /\ instructions[i].tee = m

\* A state names nothing the chain has not mined.
SavedTrue(st) ==
  /\ st.steps \intersect {"r", "R"} # {} => Names(st.attest, "attest")
  /\ "a" \in st.steps => Names(st.instr, "check")

\* The transaction the tool waits for.
Own(tx) ==
  /\ pc \in {"r sent", "R sent"} => tx.kind \in {"register", "attest"} /\ tx.tee = teeID
  /\ pc = "R sent" => tx.kind = "attest"
  /\ pc = "a sent" => tx.kind = "check" /\ tx.tee = teeID /\ tx.id = attest
  /\ pc = "p sent" => /\ tx.kind = "promote"
                      /\ instr \in DOMAIN instructions /\ tx.tee = instructions[instr].tee

\* What its receipt says, once it is mined.
OwnMined ==
  /\ pc \in {"r sent", "R sent"} =>
       About(receipt.id, "attest", teeID) /\ teeID \in registered
  /\ pc = "a sent" => About(receipt.id, "check", teeID) /\ About(attest, "attest", teeID)
  /\ pc = "p sent" => instr \in DOMAIN instructions /\ instructions[instr].tee \in production

\* The tool goes by mined instructions: those of its own receipts and those
\* of a true file.
ToolInv ==
  /\ SavedTrue(file.saved) /\ SavedTrue(state)
  /\ file.status # "written" => file.saved = NoState
  /\ receipt.status # "none" => pc \in Waiting /\ pending = <<>>
  /\ pc \in Waiting /\ receipt.status = "none" =>
       pending # <<>> /\ Own(pending[Len(pending)])
  /\ receipt.status = "mined" => OwnMined
  /\ pc = "info" => attest = NoHash
  /\ Active => attest \in {NoHash, state.attest} /\ teeID # 0

\* A run without an earlier state only knows checks of its own machine.
FreshInv ==
  /\ pc = "info" /\ ~ resumed => file = NoFile
  /\ Active /\ ~ resumed /\ "a" \in state.steps => About(state.instr, "check", teeID)
  /\ pc \in {"p", "p sent"} /\ ~ resumed /\ "a" \in command => About(instr, "check", teeID)
  /\ pc = "end" => "p" \notin command

\* The script goes on only from a fresh full run that succeeded.
HealInv ==
  /\ at \in {"idle", "check", "registering", "accept", "list", "retire"}
  /\ at \in {"check", "accept", "list", "retire"} => pc = "idle"
  /\ at = "registering" => command = Steps /\ ~ resumed
  /\ at = "registering" /\ pc = "idle" /\ outcome = "succeeded" => teeID \in production
  /\ at = "accept" => teeID \in production

\* No machine above m is registered, or about to be.
AllBelow(m) ==
  /\ registered \subseteq 1 .. m
  /\ \A k \in DOMAIN pending : pending[k].kind = "register" => pending[k].tee <= m

\* A state with any step has the first one, is about one machine, and no later
\* machine is registered while it lasts.
OneMachine(st) ==
  /\ st.steps # {} => "r" \in st.steps /\ AllBelow(instructions[st.attest].tee)
  /\ st.steps = {} => st.attest = NoHash
  /\ "a" \in st.steps => instructions[st.attest].tee = instructions[st.instr].tee

\* Commands that request an attestation also register.
RegisterFirst == \A c \in Commands : "R" \in c => "r" \in c

FileInv ==
  /\ OneMachine(file.saved)
  /\ "R" \in command => "r" \in command
  /\ Active =>
       /\ OneMachine(state)
       /\ AllBelow(teeID)
       /\ state.steps # {} => instructions[state.attest].tee <= teeID
       /\ file.saved.steps \subseteq state.steps
  /\ pc = "r sent" => "r" \notin state.steps
  /\ pc \in {"R", "R sent"} => "r" \in state.steps

-----------------------------------------------------------------------------
(* Type correctness, and what the tool knows *)

LEMMA InitTool == RegistrationInit => TypeOK /\ ToolInv
<1>. SUFFICES ASSUME RegistrationInit PROVE TypeOK /\ ToolInv
  OBVIOUS
<1>. USE DEF RegistrationInit
<1>1. NoState \in States /\ NoFile.saved = NoState /\ NoFile.status = "none"
  BY DEF NoState, States, NoFile, NoHash, Steps
<1>2. NoFile \in [status : {"none", "torn", "written"}, saved : States]
  BY <1>1 DEF NoFile
<1>3. NoReceipt \in [status : {"none", "mined", "reverted"}, id : Nat] /\ NoReceipt.status = "none"
  BY DEF NoReceipt, NoHash
<1>4. SavedTrue(NoState)
  BY DEF SavedTrue, NoState
<1>5. TypeOK
  <2>1. pending \in Seq(Transactions) /\ instructions \in Seq(Instructions) /\ Len(instructions) = 0
    OBVIOUS
  <2>2. /\ tee \in Nat \ {0} /\ 0 \in 0 .. tee /\ NoHash \in 0 .. Len(instructions)
    BY <2>1, SMT DEF NoHash
  <2>3. pc \in {"idle", "info", "end"} /\ resumed \in BOOLEAN
    BY Zenon
  <2>. QED BY <1>1, <1>2, <1>3, <2>1, <2>2, <2>3 DEF TypeOK
<1>6. ToolInv
  BY <1>1, <1>3, <1>4 DEF ToolInv, Active, Waiting
<1>. QED BY <1>5, <1>6

\* The log of instructions only grows.
Grows ==
  /\ Len(instructions) <= Len(instructions')
  /\ \A i \in DOMAIN instructions : i \in DOMAIN instructions' /\ instructions'[i] = instructions[i]

LEMMA ExecuteGrows ==
  ASSUME TypeOK, NEW tx \in Transactions, Execute(tx), Succeeds(tx)
  PROVE  /\ instructions' \in Seq(Instructions)
         /\ Grows
         /\ registered \subseteq registered' /\ registered' \subseteq Machines
         /\ production \subseteq production' /\ production' \subseteq registered'
         /\ spent' \subseteq DOMAIN instructions'
<1>1. CASE tx.kind = "promote"
  BY <1>1, SMT DEF Execute, Succeeds, TypeOK, Transactions, Grows
<1>2. CASE tx.kind # "promote"
  <2>. DEFINE i == [kind |-> IF tx.kind = "check" THEN "check" ELSE "attest",
                    tee |-> tx.tee, cosigned |-> InSync]
  <2>1. i \in Instructions
    <3>1. InSync \in BOOLEAN
      BY SMT DEF InSync
    <3>2. tx.tee \in Machines
      BY DEF Transactions
    <3>. QED BY <3>1, <3>2, Zenon DEF Instructions
  <2>2. instructions' = Append(instructions, i)
    BY <1>2, Zenon DEF Execute, Instruct
  <2>. HIDE DEF i
  <2>3. instructions' \in Seq(Instructions) /\ Grows
        /\ DOMAIN instructions \subseteq DOMAIN instructions'
    BY <2>1, <2>2, SMT DEF TypeOK, Grows
  <2>4. /\ registered' = registered \/ registered' = registered \union {tx.tee}
        /\ production' = production
        /\ spent' = spent \/ (spent' = spent \union {tx.id} /\ tx.id \in DOMAIN instructions)
    BY <1>2, Zenon DEF Execute, Succeeds, Challenges
  <2>5. tx.tee \in Machines
    BY DEF Transactions
  <2>. QED BY <2>3, <2>4, <2>5 DEF TypeOK
<1>. QED BY <1>1, <1>2

\* What comes of it, by the kind of the transaction.
LEMMA ExecuteDoes ==
  ASSUME TypeOK, NEW tx \in Transactions, Execute(tx), Succeeds(tx)
  PROVE  /\ tx.tee \in registered'
         /\ tx.kind = "promote" => tx.tee \in production' /\ instructions' = instructions
         /\ tx.kind # "promote" =>
              /\ Len(instructions') \in DOMAIN instructions'
              /\ instructions'[Len(instructions')].tee = tx.tee
              /\ instructions'[Len(instructions')].kind
                   = IF tx.kind = "check" THEN "check" ELSE "attest"
         /\ tx.kind = "check" => About(tx.id, "attest", tx.tee)
<1>1. tx.tee \in registered' /\ (tx.kind = "check" => About(tx.id, "attest", tx.tee))
  BY Zenon DEF Execute, Succeeds, Challenges, About, Names
<1>2. CASE tx.kind = "promote"
  BY <1>1, <1>2 DEF Execute
<1>3. CASE tx.kind # "promote"
  <2>. DEFINE i == [kind |-> IF tx.kind = "check" THEN "check" ELSE "attest",
                    tee |-> tx.tee, cosigned |-> InSync]
  <2>1. instructions' = Append(instructions, i)
    BY <1>3, Zenon DEF Execute, Instruct
  <2>2. i.tee = tx.tee /\ i.kind = IF tx.kind = "check" THEN "check" ELSE "attest"
    BY Zenon
  <2>. HIDE DEF i
  <2>3. /\ Len(instructions') \in DOMAIN instructions'
        /\ instructions'[Len(instructions')] = i
    BY <2>1, SMT DEF TypeOK
  <2>. QED BY <1>1, <1>3, <2>2, <2>3, Zenon
<1>. QED BY <1>2, <1>3

LEMMA NamesGrow ==
  ASSUME Grows, NEW i, NEW kind, Names(i, kind)
  PROVE  Names(i, kind)' /\ instructions'[i] = instructions[i]
BY DEF Grows, Names

\* What the tool knows is not disturbed by what happens around it.
LEMMA ToolStays ==
  ASSUME ToolInv, Grows, registered \subseteq registered',
         pc = "p sent" => production \subseteq production',
         UNCHANGED <<pending, file, tool>>
  PROVE  ToolInv'
<1>. USE DEF tool
<1>1. SavedTrue(file.saved)' /\ SavedTrue(state)'
  BY NamesGrow DEF ToolInv, SavedTrue
<1>2. ASSUME NEW tx, Own(tx), pc \in Waiting PROVE Own(tx)'
  BY <1>2 DEF Own, Grows
<1>3. (pc \in Waiting /\ receipt.status = "none" => pending # <<>> /\ Own(pending[Len(pending)]))'
  BY <1>2 DEF ToolInv
<1>4. (receipt.status = "mined" => OwnMined)'
  BY NamesGrow DEF ToolInv, OwnMined, About, Grows
<1>. QED BY <1>1, <1>3, <1>4 DEF ToolInv, Active

\* The last element stays the last while an earlier one goes.
LEMMA TailLast ==
  ASSUME NEW S, NEW s \in Seq(S), Len(s) # 1, s # <<>>
  PROVE  Tail(s) # <<>> /\ Tail(s)[Len(Tail(s))] = s[Len(s)]
<1>1. Len(s) \in Nat /\ Len(s) > 1
  <2>1. Len(s) \in Nat \ {0}
    BY EmptySeq
  <2>. QED BY <2>1
<1>2. Tail(s) \in Seq(S) /\ Len(Tail(s)) = Len(s) - 1
  BY <1>1
<1>3. \A k \in 1 .. Len(s) - 1 : Tail(s)[k] = s[k + 1]
  BY <1>1
<1>. QED BY <1>1, <1>2, <1>3, EmptySeq

\* A transaction is mined: if it is the tool's own, the receipt is about it.
LEMMA MineTool ==
  ASSUME TypeOK, ToolInv, mine
  PROVE  TypeOK' /\ ToolInv'
<1>. DEFINE tx == Head(pending)
<1>1. tx \in Transactions /\ pending' \in Seq(Transactions) /\ pending' = Tail(pending)
      /\ pending # <<>>
  BY DEF mine, TypeOK
<1>2. \/ Succeeds(tx) /\ Execute(tx)
      \/ ~ Succeeds(tx) /\ UNCHANGED <<registered, production, instructions, spent>>
  BY DEF mine
<1>3. /\ instructions' \in Seq(Instructions)
      /\ Grows
      /\ registered \subseteq registered' /\ registered' \subseteq Machines
      /\ production \subseteq production' /\ production' \subseteq registered'
      /\ spent' \subseteq DOMAIN instructions'
  BY <1>1, <1>2, ExecuteGrows DEF Grows, TypeOK
<1>4. UNCHANGED <<tee, answered, epoch, policy, faults, file, pc, command, resumed,
                  teeID, state, attest, instr, outcome, runs>>
  BY DEF mine
<1>5. receipt' \in [status : {"none", "mined", "reverted"}, id : Nat]
  BY <1>3 DEF mine, TypeOK
<1>6. TypeOK'
  <2>1. Machines' = Machines /\ Instructions' = Instructions /\ Transactions' = Transactions
        /\ States' = States
    BY <1>4 DEF Machines, Instructions, Transactions, States
  <2>2. Len(instructions) \in Nat /\ Len(instructions') \in Nat /\ Len(instructions) <= Len(instructions')
        /\ DOMAIN instructions \subseteq DOMAIN instructions'
    BY <1>3 DEF TypeOK, Grows
  <2>. QED BY <1>1, <1>3, <1>4, <1>5, <2>1, <2>2 DEF TypeOK
<1>7. SavedTrue(file.saved)' /\ SavedTrue(state)'
  BY <1>3, <1>4, NamesGrow DEF ToolInv, SavedTrue
<1>8. CASE pc \in Waiting /\ Len(pending) = 1
  <2>1. receipt.status = "none" /\ Own(tx)
    BY <1>1, <1>8 DEF ToolInv, TypeOK
  <2>2. receipt' = [status |-> IF Succeeds(tx) THEN "mined" ELSE "reverted",
                    id |-> Len(instructions')]
    BY <1>8 DEF mine
  <2>3. pending' = <<>>
    BY <1>1, <1>8 DEF TypeOK
  <2>4. ASSUME Succeeds(tx) PROVE OwnMined'
    <3>. DEFINE n == Len(instructions')
    <3>1. receipt'.id = n /\ Execute(tx)
      BY <1>2, <2>2, <2>4
    <3>. HIDE DEF tx
    <3>2. CASE pc \in {"r sent", "R sent"}
      <4>1. tx.kind \in {"register", "attest"} /\ tx.tee = teeID
        BY <2>1, <3>2 DEF Own
      <4>2. About(receipt.id, "attest", teeID)' /\ teeID \in registered'
        BY <1>1, <1>4, <2>4, <3>1, <4>1, ExecuteDoes DEF About, Names
      <4>. QED BY <1>4, <3>2, <4>2 DEF OwnMined
    <3>3. CASE pc = "a sent"
      <4>1. tx.kind = "check" /\ tx.tee = teeID /\ tx.id = attest
        BY <2>1, <3>3 DEF Own
      <4>2. About(receipt.id, "check", teeID)'
        BY <1>1, <1>4, <2>4, <3>1, <4>1, ExecuteDoes DEF About, Names
      <4>3. About(attest, "attest", teeID)
        BY <1>1, <2>4, <3>1, <4>1, ExecuteDoes
      <4>4. About(attest, "attest", teeID)'
        BY <1>3, <1>4, <4>3 DEF About, Names, Grows
      <4>. QED BY <1>4, <3>3, <4>2, <4>4 DEF OwnMined
    <3>4. CASE pc = "p sent"
      <4>1. tx.kind = "promote" /\ instr \in DOMAIN instructions
            /\ tx.tee = instructions[instr].tee
        BY <2>1, <3>4 DEF Own
      <4>2. tx.tee \in production' /\ instructions' = instructions
        BY <1>1, <2>4, <3>1, <4>1, ExecuteDoes
      <4>. QED BY <1>4, <3>4, <4>1, <4>2 DEF OwnMined
    <3>. QED BY <1>4, <1>8, <3>2, <3>3, <3>4 DEF Waiting
  <2>. QED BY <1>4, <1>6, <1>7, <1>8, <2>2, <2>3, <2>4 DEF ToolInv, Active
<1>9. CASE ~ (pc \in Waiting /\ Len(pending) = 1)
  <2>1. receipt' = receipt
    BY <1>9 DEF mine
  <2>2. receipt.status = "none"
    BY <1>1, <1>9 DEF ToolInv
  <2>3. pc \in Waiting =>
          /\ pending' # <<>> /\ pending'[Len(pending')] = pending[Len(pending)]
          /\ Own(pending[Len(pending)])
    <3>1. pending \in Seq(Transactions)
      BY DEF TypeOK
    <3>2. SUFFICES ASSUME pc \in Waiting PROVE /\ pending' # <<>>
               /\ pending'[Len(pending')] = pending[Len(pending)]
      BY <2>2 DEF ToolInv
    <3>. QED BY <1>1, <1>9, <3>1, <3>2, TailLast
  <2>4. ASSUME NEW t, Own(t), pc \in Waiting PROVE Own(t)'
    BY <2>4, <1>3, <1>4 DEF Own, Grows
  <2>. QED BY <1>4, <1>6, <1>7, <2>1, <2>2, <2>3, <2>4 DEF ToolInv, Active
<1>. QED BY <1>6, <1>8, <1>9

\* Time, the machine and the providers.
LEMMA AroundTool ==
  ASSUME TypeOK, ToolInv, expire \/ answer \/ restart \/ newEpoch \/ newPolicy
  PROVE  TypeOK' /\ ToolInv'
<1>1. UNCHANGED <<registered, production, instructions, pending, file, tool>>
  BY DEF expire, answer, restart, newEpoch, newPolicy
<1>2. ToolInv'
  BY <1>1, ToolStays DEF Grows
<1>3. /\ faults' \in Nat /\ epoch' \in Nat /\ policy' \in Nat
      /\ spent' \subseteq DOMAIN instructions /\ answered' \subseteq DOMAIN instructions
  BY SMTT(30) DEF expire, answer, restart, newEpoch, newPolicy, TypeOK, Fault, Challenges
<1>4. tee' \in Nat \ {0} /\ tee <= tee'
  BY DEF expire, answer, restart, newEpoch, newPolicy, TypeOK
<1>5. States' = States /\ Machines \subseteq Machines'
  BY <1>4 DEF States, Machines, TypeOK
<1>6. instructions \in Seq(Instructions') /\ pending \in Seq(Transactions')
  <2>1. Instructions \subseteq Instructions' /\ Transactions \subseteq Transactions'
    BY <1>5 DEF Instructions, Transactions
  <2>. QED BY <2>1 DEF TypeOK
<1>7. teeID \in 0 .. tee'
  BY <1>4 DEF TypeOK
<1>. QED BY <1>1, <1>2, <1>3, <1>4, <1>5, <1>6, <1>7 DEF TypeOK, tool

\* The steps of the tool leave the chain as it is, but for what they send.
chain == <<tee, registered, production, instructions, spent, answered, epoch, policy>>

ToolTypes ==
  /\ pending \in Seq(Transactions)
  /\ faults \in Nat /\ runs \in Nat
  /\ file \in [status : {"none", "torn", "written"}, saved : States]
  /\ pc \in {"idle", "info", "end"} \union Steps \union Waiting
  /\ command \subseteq Steps
  /\ resumed \in BOOLEAN
  /\ teeID \in 0 .. tee
  /\ state \in States
  /\ attest \in 0 .. Len(instructions) /\ instr \in 0 .. Len(instructions)
  /\ receipt \in [status : {"none", "mined", "reverted"}, id : Nat]
  /\ outcome \in {"none", "succeeded", "failed"}

LEMMA SameTypes ==
  ASSUME UNCHANGED chain
  PROVE  Transactions' = Transactions /\ States' = States
BY DEF chain, Transactions, Machines, States

LEMMA ChainTypes ==
  ASSUME TypeOK, UNCHANGED chain, ToolTypes'
  PROVE  TypeOK'
BY DEF TypeOK, ToolTypes, chain, Machines, Instructions

LEMMA Constants ==
  /\ NoState \in States /\ NoFile.saved = NoState /\ NoFile.status = "none"
  /\ Torn.saved = NoState /\ Torn.status = "torn"
  /\ NoFile \in [status : {"none", "torn", "written"}, saved : States]
  /\ Torn \in [status : {"none", "torn", "written"}, saved : States]
  /\ NoReceipt \in [status : {"none", "mined", "reverted"}, id : Nat]
  /\ NoReceipt.status = "none"
  /\ SavedTrue(NoState)
<1>1. NoState \in States /\ NoFile.saved = NoState /\ NoFile.status = "none"
      /\ Torn.saved = NoState /\ Torn.status = "torn"
  BY DEF NoState, States, NoFile, NoHash, Steps, Torn
<1>2. NoFile \in [status : {"none", "torn", "written"}, saved : States]
      /\ Torn \in [status : {"none", "torn", "written"}, saved : States]
  BY <1>1 DEF NoFile, Torn
<1>3. NoReceipt \in [status : {"none", "mined", "reverted"}, id : Nat] /\ NoReceipt.status = "none"
  BY DEF NoReceipt, NoHash
<1>4. SavedTrue(NoState)
  BY DEF SavedTrue, NoState
<1>. QED BY <1>1, <1>2, <1>3, <1>4

\* A run that starts, stops or fails.
LEMMA StartTool ==
  ASSUME TypeOK, ToolInv, NEW c \in SUBSET Steps, NEW resume \in BOOLEAN, start(c, resume)
  PROVE  TypeOK' /\ ToolInv'
<1>. USE DEF start
<1>1. UNCHANGED <<chain, pending, teeID, state, receipt>>
  BY DEF world, chain
<1>2. c \subseteq Steps
  OBVIOUS
<1>3. file' = file \/ file' = NoFile
  OBVIOUS
<1>4. ToolTypes'
  <2>1. resumed' \in BOOLEAN
    BY Zenon
  <2>2. faults' \in Nat /\ runs' \in Nat
    BY SMT DEF TypeOK, Fault, NoFault
  <2>3. NoHash \in 0 .. Len(instructions)
    BY DEF NoHash, TypeOK
  <2>. QED BY <1>1, <1>2, <1>3, <2>1, <2>2, <2>3, Constants, SameTypes DEF TypeOK, ToolTypes, chain
<1>5. SavedTrue(file.saved)' /\ SavedTrue(state)' /\ (file.status # "written" => file.saved = NoState)'
  BY <1>1, <1>3, Constants DEF ToolInv, SavedTrue, Names, chain
<1>6. ToolInv'
  BY <1>1, <1>5 DEF ToolInv, Active, Waiting
<1>. QED BY <1>1, <1>4, <1>6, ChainTypes

LEMMA StopTool ==
  ASSUME TypeOK, ToolInv, NEW what \in {"failed", "succeeded"}, Stops(what),
         UNCHANGED <<chain, pending, command, resumed, teeID, state, attest, runs>>,
         instr' \in 0 .. Len(instructions),
         file' \in {file, NoFile, Torn}, Fault \/ NoFault
  PROVE  TypeOK' /\ ToolInv'
<1>1. pc' = "idle" /\ outcome' = what /\ receipt' = NoReceipt
  BY DEF Stops
<1>2. faults' \in Nat
  BY DEF Fault, NoFault, TypeOK
<1>3. ToolTypes'
  BY <1>1, <1>2, Constants, SameTypes DEF TypeOK, ToolTypes, chain
<1>4. SavedTrue(file.saved)' /\ SavedTrue(state)' /\ (file.status # "written" => file.saved = NoState)'
  BY Constants DEF ToolInv, SavedTrue, Names, chain
<1>5. ToolInv'
  BY <1>1, <1>4, Constants DEF ToolInv, Active, Waiting
<1>. QED BY <1>3, <1>5, ChainTypes

\* Where the tool goes next is a step of it, or its end.
LEMMA Going ==
  ASSUME command \subseteq Steps
  PROVE  /\ To_r \in Steps \union {"end"}
         /\ To_R \in {"R", "a", "p", "end"}
         /\ To_a \in {"a", "p", "end"}
         /\ To_p \in {"p", "end"}
BY DEF To_r, To_R, To_a, To_p, Steps

LEMMA InfoTool ==
  ASSUME TypeOK, ToolInv, info
  PROVE  TypeOK' /\ ToolInv'
<1>. USE DEF info
<1>1. UNCHANGED <<chain, pending, command, resumed, attest, instr, runs, file>>
  BY DEF world, chain
<1>2. CASE loadState /\ teeID' = TeeProxyId /\ pc' = To_r /\ NoFault /\ UNCHANGED <<outcome, receipt>>
  <2>1. state' = file.saved /\ file.saved \in States
    BY <1>2 DEF loadState, TypeOK
  <2>2. pc' \in Steps \union {"end"}
    BY <1>2, Going DEF TypeOK
  <2>3. teeID' \in 0 .. tee
    BY <1>2 DEF TeeProxyId, TypeOK
  <2>4. ToolTypes'
    BY <1>1, <1>2, <2>1, <2>2, <2>3, SameTypes DEF TypeOK, ToolTypes, chain, NoFault
  <2>5. SavedTrue(file.saved)' /\ SavedTrue(state)' /\ (file.status # "written" => file.saved = NoState)'
    BY <1>1, <2>1 DEF ToolInv, SavedTrue, Names, chain
  <2>6. receipt.status = "none" /\ attest = NoHash
    BY DEF ToolInv, Waiting
  <2>7. ToolInv'
    <3>1. teeID' # 0
      BY <1>2 DEF TeeProxyId, TypeOK
    <3>. QED BY <1>1, <1>2, <2>2, <2>5, <2>6, <3>1 DEF ToolInv, Active, Waiting, Steps
  <2>. QED BY <1>1, <2>4, <2>7, ChainTypes
<1>3. CASE Stops("failed") /\ UNCHANGED <<teeID, state>>
  <2>1. instr' \in 0 .. Len(instructions) /\ file' = file /\ (Fault \/ NoFault)
    BY <1>1 DEF TypeOK
  <2>. QED BY <1>1, <1>3, <2>1, StopTool
<1>. QED BY <1>2, <1>3

LEMMA SkipTool ==
  ASSUME TypeOK, ToolInv, NEW l \in {"r", "R", "a"}, skip(l)
  PROVE  TypeOK' /\ ToolInv'
<1>. USE DEF skip
<1>1. UNCHANGED <<chain, pending, command, resumed, teeID, state, runs, file, outcome, receipt, faults>>
  BY DEF world, chain
<1>2. receipt.status = "none"
  BY DEF ToolInv, Waiting
<1>3. pc' \in Steps \union {"end"}
  BY Going DEF TypeOK, After, Steps
<1>4. attest' \in 0 .. Len(instructions) /\ attest' \in {NoHash, state.attest}
  BY DEF ToolInv, TypeOK, Active, SavedTrue, Names
<1>5. instr' \in 0 .. Len(instructions)
  BY DEF ToolInv, TypeOK, SavedTrue, Names
<1>6. ToolTypes'
  BY <1>1, <1>3, <1>4, <1>5, SameTypes DEF TypeOK, ToolTypes, chain
<1>7. SavedTrue(file.saved)' /\ SavedTrue(state)'
  BY <1>1 DEF ToolInv, SavedTrue, Names, chain
<1>8. ToolInv'
  BY <1>1, <1>2, <1>3, <1>4, <1>7 DEF ToolInv, Active, Waiting, Steps
<1>. QED BY <1>1, <1>6, <1>8, ChainTypes

\* A transaction is sent and waited for.
LEMMA SendTool ==
  ASSUME TypeOK, ToolInv, NEW tx \in Transactions, pc \in Steps,
         pending' = Append(pending, tx), pc' \in Waiting, Own(tx)',
         UNCHANGED <<chain, file, command, resumed, teeID, state, attest, receipt, outcome, runs>>,
         instr' \in 0 .. Len(instructions), Fault \/ NoFault
  PROVE  TypeOK' /\ ToolInv'
<1>1. receipt.status = "none"
  BY DEF ToolInv, Waiting, Steps
<1>2. faults' \in Nat
  BY DEF Fault, NoFault, TypeOK
<1>3. pending' \in Seq(Transactions) /\ pending' # <<>> /\ pending'[Len(pending')] = tx
  BY AppendProperties DEF TypeOK
<1>4. ToolTypes'
  BY <1>2, <1>3, SameTypes DEF TypeOK, ToolTypes, chain
<1>5. SavedTrue(file.saved)' /\ SavedTrue(state)'
  BY DEF ToolInv, SavedTrue, Names, chain
<1>6. ToolInv'
  BY <1>1, <1>3, <1>5 DEF ToolInv, Active, Waiting, Steps
<1>. QED BY <1>4, <1>6, ChainTypes

LEMMA TxType ==
  ASSUME NEW kind \in {"register", "attest", "check", "promote"}, NEW m \in Machines, NEW i \in Nat
  PROVE  /\ Tx(kind, m, i) \in Transactions
         /\ Tx(kind, m, i).kind = kind /\ Tx(kind, m, i).tee = m /\ Tx(kind, m, i).id = i
BY DEF Tx, Transactions

\* A step that sends a transaction, or fails because it would revert.
LEMMA AskTool ==
  ASSUME TypeOK, ToolInv, pc \in Steps,
         NEW kind \in {"register", "attest", "check", "promote"}, NEW m, NEW i \in Nat,
         NEW wait \in Waiting, Send(Tx(kind, m, i), wait),
         Succeeds(Tx(kind, m, i)) => m \in Machines,
         UNCHANGED <<chain, file, command, resumed, teeID, state, attest, runs>>,
         instr' \in 0 .. Len(instructions), Fault \/ NoFault,
         pc' = wait => Own(Tx(kind, m, i))'
  PROVE  TypeOK' /\ ToolInv'
<1>1. CASE Succeeds(Tx(kind, m, i))
  <2>1. /\ pending' = Append(pending, Tx(kind, m, i)) /\ pc' = wait
        /\ UNCHANGED <<outcome, receipt>>
    BY <1>1 DEF Send
  <2>2. Tx(kind, m, i) \in Transactions
    BY <1>1, TxType
  <2>. QED BY <2>1, <2>2, SendTool
<1>2. CASE ~ Succeeds(Tx(kind, m, i))
  BY <1>2, StopTool DEF Send
<1>. QED BY <1>1, <1>2

LEMMA SucceedsRegistered ==
  ASSUME TypeOK, NEW kind \in {"attest", "check", "promote"}, NEW m, NEW i, Succeeds(Tx(kind, m, i))
  PROVE  m \in Machines
BY DEF Succeeds, Tx, TypeOK

LEMMA TeeIDKnown ==
  ASSUME TypeOK, ToolInv, pc \in Steps
  PROVE  /\ teeID \in Machines
         /\ attest \in Nat /\ instr \in 0 .. Len(instructions)
<1>1. Active
  BY DEF Active, Steps
<1>. QED BY <1>1 DEF TypeOK, Machines, ToolInv

LEMMA PreRegisterTool ==
  ASSUME TypeOK, ToolInv, preRegister
  PROVE  TypeOK' /\ ToolInv'
<1>1. /\ pc = "r" /\ (Fault \/ NoFault)
      /\ UNCHANGED <<chain, file, command, resumed, teeID, state, attest, instr, runs>>
  BY DEF preRegister, sending, chain
<1>2. /\ pc \in Steps /\ "r sent" \in Waiting
      /\ teeID \in Machines /\ attest \in Nat /\ instr' \in 0 .. Len(instructions)
  <2>1. pc \in Steps /\ "r sent" \in Waiting
    BY <1>1 DEF Waiting, Steps
  <2>. QED BY <1>1, <2>1, TeeIDKnown
<1>3. PICK kind \in {"register", "attest"} : Send(Tx(kind, teeID, NoHash), "r sent")
  BY DEF preRegister, RequestTeeAttestation, PreRegistration
<1>4. pc' = "r sent" => Own(Tx(kind, teeID, NoHash))'
  BY <1>1 DEF Own, Tx
<1>. QED BY <1>1, <1>2, <1>3, <1>4, AskTool DEF NoHash

LEMMA RequestAttestationTool ==
  ASSUME TypeOK, ToolInv, requestAttestation
  PROVE  TypeOK' /\ ToolInv'
<1>1. /\ pc = "R" /\ NoFault
      /\ UNCHANGED <<chain, file, command, resumed, teeID, state, attest, instr, runs>>
      /\ Send(Tx("attest", teeID, NoHash), "R sent")
  BY DEF requestAttestation, sending, chain, NoFault, RequestTeeAttestation
<1>2. /\ pc \in Steps /\ "R sent" \in Waiting
      /\ teeID \in Machines /\ attest \in Nat /\ instr' \in 0 .. Len(instructions)
  <2>1. pc \in Steps /\ "R sent" \in Waiting
    BY <1>1 DEF Waiting, Steps
  <2>. QED BY <1>1, <2>1, TeeIDKnown
<1>3. pc' = "R sent" => Own(Tx("attest", teeID, NoHash))'
  BY <1>1 DEF Own, Tx
<1>. QED BY <1>1, <1>2, <1>3, AskTool DEF NoHash

LEMMA RequestCheckTool ==
  ASSUME TypeOK, ToolInv, requestAvailabilityCheck
  PROVE  TypeOK' /\ ToolInv'
<1>1. /\ pc = "a" /\ (Fault \/ NoFault)
      /\ UNCHANGED <<chain, file, command, resumed, teeID, state, attest, instr, runs>>
  BY DEF requestAvailabilityCheck, sending, chain, policyConsistent
<1>2. /\ pc \in Steps /\ "a sent" \in Waiting
      /\ teeID \in Machines /\ attest \in Nat /\ instr' \in 0 .. Len(instructions)
  <2>1. pc \in Steps /\ "a sent" \in Waiting
    BY <1>1 DEF Waiting, Steps
  <2>. QED BY <1>1, <2>1, TeeIDKnown
<1>3. CASE Send(Tx("check", teeID, attest), "a sent")
  <2>1. pc' = "a sent" => Own(Tx("check", teeID, attest))'
    BY <1>1 DEF Own, Tx
  <2>. QED BY <1>1, <1>2, <1>3, <2>1, AskTool
<1>4. CASE Stops("failed") /\ UNCHANGED pending
  BY <1>1, <1>2, <1>4, StopTool
<1>. QED BY <1>3, <1>4 DEF requestAvailabilityCheck, RequestFTDCAvailabilityCheck

LEMMA PromoteTool ==
  ASSUME TypeOK, ToolInv, promote
  PROVE  TypeOK' /\ ToolInv'
<1>1. /\ pc = "p" /\ NoFault
      /\ UNCHANGED <<chain, file, command, resumed, teeID, state, attest, runs>>
  BY DEF promote, chain, NoFault
<1>2. PICK i \in GetFTDCAvailabilityCheckResult :
        instr' = i /\ Send(Tx("promote", instructions[i].tee, NoHash), "p sent")
  BY DEF promote, ToProduction
<1>3. i \in DOMAIN instructions /\ i \in 0 .. Len(instructions) /\ instructions[i].tee \in Machines
  <2>1. i \in DOMAIN instructions /\ instructions \in Seq(Instructions)
    BY DEF GetFTDCAvailabilityCheckResult, TypeOK
  <2>2. instructions[i].tee \in Machines
    <3>1. instructions[i] \in Instructions
      BY <2>1
    <3>. QED BY <3>1 DEF Instructions
  <2>3. i \in 0 .. Len(instructions)
    BY <2>1
  <2>. QED BY <2>1, <2>2, <2>3
<1>7. PICK m : m = instructions[i].tee
  OBVIOUS
<1>4. pc' = "p sent" => Own(Tx("promote", m, NoHash))'
  BY <1>1, <1>2, <1>3, <1>7 DEF Own, Tx, chain
<1>5. "p sent" \in Waiting /\ pc \in Steps
  BY <1>1 DEF Waiting, Steps
<1>6. "promote" \in {"register", "attest", "check", "promote"} /\ NoHash \in Nat
  BY DEF NoHash
<1>. QED BY <1>1, <1>2, <1>3, <1>4, <1>5, <1>6, <1>7, AskTool

LEMMA RecordedIs ==
  ASSUME NEW l \in {"r", "R", "a"}, NEW id \in Nat, state \in States
  PROVE  /\ recorded(l, id) \in States
         /\ recorded(l, id).steps = state.steps \union {l}
         /\ recorded(l, id).attest = IF l = "a" THEN state.attest ELSE id
         /\ recorded(l, id).instr = IF l = "a" THEN id ELSE state.instr
         /\ Written(recorded(l, id)) \in [status : {"none", "torn", "written"}, saved : States]
         /\ Written(recorded(l, id)).saved = recorded(l, id)
         /\ Written(recorded(l, id)).status = "written"
<1>1. /\ recorded(l, id).steps = state.steps \union {l}
      /\ recorded(l, id).attest = IF l = "a" THEN state.attest ELSE id
      /\ recorded(l, id).instr = IF l = "a" THEN id ELSE state.instr
  BY DEF recorded
<1>2. recorded(l, id) \in States
  <2>1. state.steps \union {l} \in SUBSET Steps
    BY DEF States, Steps
  <2>2. (IF l = "a" THEN state.attest ELSE id) \in Nat /\ (IF l = "a" THEN id ELSE state.instr) \in Nat
    BY DEF States
  <2>. QED BY <2>1, <2>2, Zenon DEF recorded, States
<1>3. /\ Written(recorded(l, id)) \in [status : {"none", "torn", "written"}, saved : States]
      /\ Written(recorded(l, id)).saved = recorded(l, id)
      /\ Written(recorded(l, id)).status = "written"
  BY <1>2 DEF Written
<1>. QED BY <1>1, <1>2, <1>3

\* What a mined step leaves the tool with.
LEMMA SaveMined ==
  ASSUME TypeOK, ToolInv, NEW l \in {"r", "R", "a"}, save(l)
  PROVE  /\ pc \in Waiting /\ receipt.status = "mined" /\ pending = <<>>
         /\ l \in {"r", "R"} => About(receipt.id, "attest", teeID) /\ teeID \in registered
         /\ l = "a" => About(receipt.id, "check", teeID) /\ About(attest, "attest", teeID)
         /\ receipt.id \in 1 .. Len(instructions)
<1>1. receipt.status = "mined" /\ pc = Sent(l) /\ pc \in Waiting /\ pending = <<>> /\ OwnMined
  BY DEF save, ToolInv
<1>2. /\ l = "r" => pc = "r sent"
      /\ l = "R" => pc = "R sent"
      /\ l = "a" => pc = "a sent"
  BY <1>1 DEF Sent
<1>3. /\ l \in {"r", "R"} => About(receipt.id, "attest", teeID) /\ teeID \in registered
      /\ l = "a" => About(receipt.id, "check", teeID) /\ About(attest, "attest", teeID)
  BY <1>1, <1>2 DEF OwnMined
<1>4. receipt.id \in DOMAIN instructions
  BY <1>3 DEF About, Names
<1>5. DOMAIN instructions = 1 .. Len(instructions)
  BY DEF TypeOK
<1>. QED BY <1>1, <1>3, <1>4, <1>5

LEMMA SaveTool ==
  ASSUME TypeOK, ToolInv, NEW l \in {"r", "R", "a"}, save(l)
  PROVE  TypeOK' /\ ToolInv'
<1>1. UNCHANGED <<chain, pending, command, resumed, teeID, outcome, runs>>
  BY DEF save, world, chain
<1>2. /\ pc \in Waiting /\ receipt.status = "mined" /\ pending = <<>>
      /\ l \in {"r", "R"} => About(receipt.id, "attest", teeID)
      /\ l = "a" => About(receipt.id, "check", teeID)
      /\ receipt.id \in 1 .. Len(instructions)
  BY SaveMined
<1>3. receipt.id \in Nat /\ state \in States
  BY DEF TypeOK
<1>4. /\ state' \in States
      /\ state'.steps = state.steps \union {l}
      /\ state'.attest = IF l = "a" THEN state.attest ELSE receipt.id
      /\ state'.instr = IF l = "a" THEN receipt.id ELSE state.instr
  BY <1>3, RecordedIs DEF save
<1>5. /\ file' \in [status : {"none", "torn", "written"}, saved : States]
      /\ file' = file \/ file' = Torn \/ (file'.saved = state' /\ file'.status = "written")
  BY <1>3, RecordedIs, Constants DEF save, TypeOK
<1>6. pc' \in Steps \union {"end"}
  <2>1. pc' = After(l)
    BY DEF save
  <2>2. l = "r" => pc' = To_R
    BY <2>1 DEF After
  <2>3. l = "R" => pc' = To_a
    BY <2>1 DEF After
  <2>4. l = "a" => pc' = To_p
    BY <2>1 DEF After
  <2>. QED BY <2>2, <2>3, <2>4, Going DEF TypeOK, Steps
<1>7. receipt' = NoReceipt /\ faults' \in Nat
  BY DEF save, Fault, NoFault, TypeOK
<1>8. /\ attest' = IF l = "a" THEN attest ELSE receipt.id
      /\ instr' = IF l = "a" THEN receipt.id ELSE instr
  BY DEF save
<1>9. attest' \in 0 .. Len(instructions) /\ instr' \in 0 .. Len(instructions)
  BY <1>2, <1>8 DEF TypeOK
<1>10. ToolTypes'
  BY <1>1, <1>4, <1>5, <1>6, <1>7, <1>9, Constants, SameTypes DEF TypeOK, ToolTypes, chain
<1>11. SavedTrue(state)'
  <2>1. SavedTrue(state) /\ Names(receipt.id, IF l = "a" THEN "check" ELSE "attest")
    BY <1>2 DEF ToolInv, About
  <2>. QED BY <1>1, <1>4, <2>1 DEF SavedTrue, Names, chain
<1>12. SavedTrue(file.saved)' /\ (file.status # "written" => file.saved = NoState)'
  BY <1>1, <1>5, <1>11, Constants DEF ToolInv, SavedTrue, Names, chain
<1>13. Active /\ attest \in {NoHash, state.attest} /\ teeID # 0
  BY <1>2 DEF ToolInv, Active, Waiting
<1>14. attest' \in {NoHash, state'.attest}
  BY <1>4, <1>8, <1>13
<1>15. ToolInv'
  BY <1>1, <1>6, <1>7, <1>11, <1>12, <1>13, <1>14, Constants DEF ToolInv, Active, Waiting, Steps
<1>. QED BY <1>1, <1>10, <1>15, ChainTypes

\* The ways a run ends.
LEMMA EndTool ==
  ASSUME TypeOK, ToolInv, reverted \/ timeout \/ pollsFail \/ finish \/ kill
  PROVE  TypeOK' /\ ToolInv'
<1>1. /\ UNCHANGED <<chain, pending, command, resumed, teeID, state, attest, runs>>
      /\ instr' = instr /\ (Fault \/ NoFault)
      /\ file' \in {file, NoFile, Torn}
      /\ Stops("failed") \/ Stops("succeeded")
  BY DEF reverted, timeout, pollsFail, finish, kill, world, chain, NoFault
<1>2. instr' \in 0 .. Len(instructions)
  BY <1>1 DEF TypeOK
<1>. QED BY <1>1, <1>2, StopTool

LEMMA StepTool ==
  ASSUME TypeOK, ToolInv, Step
  PROVE  TypeOK' /\ ToolInv'
<1>1. CASE mine
  BY <1>1, MineTool
<1>2. CASE expire \/ answer \/ restart \/ newEpoch \/ newPolicy
  BY <1>2, AroundTool
<1>3. CASE info
  BY <1>3, InfoTool
<1>4. CASE preRegister
  BY <1>4, PreRegisterTool
<1>5. CASE requestAttestation
  BY <1>5, RequestAttestationTool
<1>6. CASE requestAvailabilityCheck
  BY <1>6, RequestCheckTool
<1>7. CASE \E l \in {"r", "R", "a"} : skip(l)
  BY <1>7, SkipTool
<1>8. CASE \E l \in {"r", "R", "a"} : save(l)
  BY <1>8, SaveTool
<1>9. CASE promote
  BY <1>9, PromoteTool
<1>10. CASE reverted \/ timeout \/ pollsFail \/ finish \/ kill
  BY <1>10, EndTool
<1>. QED BY <1>1, <1>2, <1>3, <1>4, <1>5, <1>6, <1>7, <1>8, <1>9, <1>10 DEF Step, RegisterNode

\* The script takes machines out of production while register-tee is idle.
LEMMA ScriptTool ==
  ASSUME TypeOK, ToolInv, HealInv,
         \/ readRunning \/ inSync \/ registerEnded \/ accept \/ listOthers
         \/ retire \/ repaired \/ killed
  PROVE  TypeOK' /\ ToolInv'
<1>1. /\ UNCHANGED <<tee, registered, instructions, spent, answered, epoch, policy,
                     pending, file, tool>>
      /\ production' \subseteq production /\ faults' \in Nat
      /\ pc = "p sent" => production' = production
  <2>1. CASE readRunning \/ inSync \/ registerEnded \/ accept \/ repaired
    <3>1. UNCHANGED regVars
      BY <2>1 DEF readRunning, inSync, registerEnded, accept, repaired
    <3>. QED BY <3>1 DEF regVars, world, TypeOK
  <2>2. CASE listOthers \/ killed
    <3>1. UNCHANGED <<world, file, tool>> /\ (Fault \/ NoFault)
      BY <2>2 DEF listOthers, killed
    <3>. QED BY <3>1 DEF world, TypeOK, Fault, NoFault
  <2>3. CASE retire
    <3>1. pc = "idle" /\ (Fault \/ NoFault) /\ production' \subseteq production
      BY <2>3 DEF retire, HealInv
    <3>2. UNCHANGED <<tee, registered, instructions, spent, answered, epoch, policy,
                     pending, file, tool>>
      BY <2>3 DEF retire
    <3>. QED BY <3>1, <3>2 DEF TypeOK, Fault, NoFault
  <2>. QED BY <2>1, <2>2, <2>3
<1>2. ToolInv'
  <2>1. Len(instructions) \in Nat /\ instructions' = instructions
    <3>1. Len(instructions) \in Nat
      BY DEF TypeOK
    <3>. QED BY <1>1, <3>1
  <2>2. Grows
    BY <2>1 DEF Grows
  <2>. QED BY <1>1, <2>2, ToolStays
<1>3. Machines' = Machines /\ Instructions' = Instructions /\ Transactions' = Transactions
      /\ States' = States
  BY <1>1 DEF Machines, Instructions, Transactions, States
<1>. QED BY <1>1, <1>2, <1>3 DEF TypeOK, tool

-----------------------------------------------------------------------------
(* What a run that starts afresh knows *)

LEMMA AboutGrows ==
  ASSUME Grows, NEW i, NEW kind, NEW m, About(i, kind, m)
  PROVE  About(i, kind, m)'
BY DEF Grows, About, Names

LEMMA StepGrows ==
  ASSUME TypeOK, Step
  PROVE  /\ Grows
         /\ registered \subseteq registered' /\ production \subseteq production'
<1>1. CASE mine
  <2>1. Head(pending) \in Transactions
    BY <1>1 DEF mine, TypeOK
  <2>2. CASE Succeeds(Head(pending))
    BY <1>1, <2>1, <2>2, ExecuteGrows DEF mine
  <2>3. CASE ~ Succeeds(Head(pending))
    BY <1>1, <2>3 DEF mine, Grows, TypeOK
  <2>. QED BY <2>2, <2>3
<1>2. CASE ~ mine
  <2>1. UNCHANGED <<instructions, registered, production>>
    BY <1>2 DEF Step, RegisterNode, expire, answer, restart, newEpoch, newPolicy, info,
      preRegister, requestAttestation, requestAvailabilityCheck, sending, skip, save,
      reverted, promote, finish, timeout, pollsFail, kill, world
  <2>. QED BY <2>1 DEF Grows, TypeOK
<1>. QED BY <1>1, <1>2

\* Fresh knowledge stays while the tool does nothing.
LEMMA FreshStays ==
  ASSUME FreshInv, Grows, UNCHANGED <<pc, resumed, command, teeID, state, instr, file>>
  PROVE  FreshInv'
BY AboutGrows DEF FreshInv, Active

LEMMA FreshStep ==
  ASSUME TypeOK, ToolInv, FreshInv, Step
  PROVE  FreshInv'
<1>1. Grows
  BY StepGrows
<1>2. CASE mine \/ expire \/ answer \/ restart \/ newEpoch \/ newPolicy
  BY <1>1, <1>2, FreshStays DEF mine, expire, answer, restart, newEpoch, newPolicy, tool
<1>3. CASE pc' = "idle"
  BY <1>3 DEF FreshInv, Active
<1>4. CASE info /\ pc' # "idle"
  <2>1. state' = file.saved /\ pc' = To_r /\ resumed' = resumed /\ command' = command
    BY <1>4 DEF info, Stops, loadState
  <2>2. ~ resumed => state'.steps = {}
    BY <1>4, <2>1 DEF FreshInv, info, NoFile, NoState
  <2>3. /\ To_r = "end" => "p" \notin command
        /\ To_r \in {"p", "p sent"} => "a" \notin command
        /\ To_r # "info"
    BY DEF To_r, To_R, To_a, To_p
  <2>. QED BY <2>1, <2>2, <2>3 DEF FreshInv
<1>5. CASE (preRegister \/ requestAttestation \/ requestAvailabilityCheck) /\ pc' # "idle"
  <2>1. UNCHANGED <<resumed, command, teeID, state, instr, file, instructions>>
    BY <1>5 DEF preRegister, requestAttestation, requestAvailabilityCheck, sending
  <2>2. pc' \in {"r sent", "R sent", "a sent"} /\ Active
    BY <1>5 DEF preRegister, requestAttestation, requestAvailabilityCheck, Send, Stops, Active,
      RequestTeeAttestation, PreRegistration, RequestFTDCAvailabilityCheck
  <2>. QED BY <1>1, <2>1, <2>2, AboutGrows DEF FreshInv
<1>6. ASSUME NEW l \in {"r", "R", "a"}, skip(l) PROVE FreshInv'
  <2>1. /\ UNCHANGED <<resumed, command, teeID, state, file, instructions>>
        /\ pc = l /\ l \in state.steps /\ pc' = After(l)
        /\ instr' = IF l = "a" THEN state.instr ELSE instr
    BY <1>6 DEF skip, world
  <2>2. /\ l = "r" => pc' = To_R
        /\ l = "R" => pc' = To_a
        /\ l = "a" => pc' = To_p
    BY <2>1 DEF After
  <2>. QED BY <1>1, <2>1, <2>2, AboutGrows DEF FreshInv, Active, To_R, To_a, To_p
<1>7. ASSUME NEW l \in {"r", "R", "a"}, save(l) PROVE FreshInv'
  <2>1. /\ UNCHANGED <<resumed, command, teeID, instructions>>
        /\ pc \in Waiting /\ pc' = After(l)
        /\ state' = recorded(l, receipt.id)
        /\ instr' = IF l = "a" THEN receipt.id ELSE instr
        /\ l = "a" => About(receipt.id, "check", teeID)
    BY <1>7, SaveMined DEF save, world
  <2>2. /\ l = "r" => pc' = To_R
        /\ l = "R" => pc' = To_a
        /\ l = "a" => pc' = To_p
    BY <2>1 DEF After
  <2>3. /\ state'.steps = state.steps \union {l}
        /\ state'.instr = IF l = "a" THEN receipt.id ELSE state.instr
    BY <2>1, RecordedIs DEF TypeOK
  <2>4. Active
    BY <2>1 DEF Active, Waiting
  <2>. QED BY <1>1, <2>1, <2>2, <2>3, <2>4, AboutGrows DEF FreshInv, Active, To_R, To_a, To_p
<1>8. CASE promote /\ pc' # "idle"
  <2>1. /\ UNCHANGED <<resumed, command, teeID, state, file, instructions>>
        /\ pc = "p" /\ pc' = "p sent"
        /\ instr' \in Given
    BY <1>8 DEF promote, ToProduction, Send, Stops, GetFTDCAvailabilityCheckResult
  <2>2. "a" \in command => instr' = instr
    BY <2>1 DEF Given
  <2>. QED BY <1>1, <2>1, <2>2, AboutGrows DEF FreshInv, Active
<1>9. CASE reverted \/ timeout \/ pollsFail \/ finish \/ kill
  BY <1>3, <1>9 DEF reverted, timeout, pollsFail, finish, kill, Stops
<1>. QED BY <1>2, <1>3, <1>4, <1>5, <1>6, <1>7, <1>8, <1>9 DEF Step, RegisterNode

-----------------------------------------------------------------------------
(* The script *)

\* A run that has finished afresh, with every step asked for, has promoted the
\* machine it found.
LEMMA FinishPromoted ==
  ASSUME ToolInv, FreshInv, finish, ~ resumed, {"a", "p"} \subseteq command
  PROVE  teeID \in production
<1>1. pc = "p sent" /\ receipt.status = "mined"
  BY DEF finish, Finished, FreshInv
<1>2. instructions[instr].tee = teeID /\ instructions[instr].tee \in production
  BY <1>1 DEF FreshInv, ToolInv, OwnMined, About
<1>. QED BY <1>2

LEMMA HealStep ==
  ASSUME TypeOK, ToolInv, FreshInv, HealInv, Step, UNCHANGED healing
  PROVE  HealInv'
<1>1. production \subseteq production'
  BY StepGrows
<1>2. UNCHANGED <<command, resumed>>
  BY DEF Step, RegisterNode, mine, expire, answer, restart, newEpoch, newPolicy, info,
      preRegister, requestAttestation, requestAvailabilityCheck, sending, skip, save,
      reverted, promote, finish, timeout, pollsFail, kill, world, tool
<1>3. pc = "idle" => UNCHANGED <<pc, teeID, outcome>>
  BY DEF Step, RegisterNode, mine, expire, answer, restart, newEpoch, newPolicy, info,
      preRegister, requestAttestation, requestAvailabilityCheck, skip, save, Sent,
      reverted, promote, finish, Finished, timeout, pollsFail, kill, tool, Waiting
<1>4. pc # "idle" /\ pc' = "idle" /\ outcome' = "succeeded" => finish
  BY DEF Step, RegisterNode, mine, expire, answer, restart, newEpoch, newPolicy, info, tool,
      preRegister, requestAttestation, requestAvailabilityCheck, skip, save, Send, Stops, To_r,
      To_R, To_a, To_p, After, ToProduction,
      RequestTeeAttestation, PreRegistration, RequestFTDCAvailabilityCheck,
      reverted, promote, timeout, pollsFail, kill
<1>5. at = "registering" /\ pc' = "idle" /\ outcome' = "succeeded" => teeID' \in production'
  <2>1. CASE pc = "idle"
    BY <1>1, <1>3, <2>1 DEF HealInv
  <2>2. CASE pc # "idle" /\ at = "registering" /\ finish
    BY <1>1, <2>2, FinishPromoted DEF HealInv, Steps, finish
  <2>. QED BY <1>4, <2>1, <2>2
<1>. QED BY <1>1, <1>2, <1>3, <1>5 DEF HealInv, healing

\* A step of the script, and what it leaves of the run.
LEMMA HealScript ==
  ASSUME HealInv, FreshInv,
         \/ readRunning \/ inSync \/ registerEnded \/ accept \/ listOthers
         \/ retire \/ repaired \/ killed
  PROVE  HealInv' /\ UNCHANGED <<pc, resumed, command, teeID, state, instr, attest, file,
                                 registered, pending, instructions, receipt>>
<1>1. UNCHANGED <<file, tool, registered, pending, instructions>>
  BY DEF readRunning, inSync, registerEnded, accept, listOthers, retire, repaired, killed,
         regVars, world
<1>2. at # "retire" => production' = production
  BY DEF readRunning, inSync, registerEnded, accept, listOthers, retire, repaired, killed,
         regVars, world
<1>3. HealInv'
  BY <1>1, <1>2 DEF HealInv, tool, readRunning, inSync, registerEnded, accept, listOthers, retire,
     repaired, killed, Says
<1>. QED BY <1>1, <1>3 DEF tool

LEMMA StartFresh ==
  ASSUME FreshInv, NEW c, NEW resume \in BOOLEAN, start(c, resume)
  PROVE  FreshInv'
BY DEF start, FreshInv, Active, NoFile

LEMMA RegisterHeal ==
  ASSUME HealInv, register
  PROVE  HealInv'
BY DEF HealInv, register, start, Steps

LEMMA ByHandHeal ==
  ASSUME HealInv, NEW c, NEW resume, byHand(c, resume)
  PROVE  HealInv'
BY DEF HealInv, byHand, start, healing

-----------------------------------------------------------------------------
(* The state file is about one machine *)

LEMMA OneMachineStays ==
  ASSUME NEW st, SavedTrue(st), OneMachine(st), Grows,
         \A m : AllBelow(m) => AllBelow(m)'
  PROVE  OneMachine(st)'
<1>1. st.steps # {} =>
        /\ "r" \in st.steps /\ instructions'[st.attest].tee = instructions[st.attest].tee
        /\ AllBelow(instructions[st.attest].tee)
  BY DEF OneMachine, SavedTrue, Names, Grows
<1>2. PICK m : m = instructions[st.attest].tee
  OBVIOUS
<1>3. st.steps # {} => AllBelow(m)'
  BY <1>1, <1>2
<1>4. st.steps # {} => (AllBelow(instructions[st.attest].tee))'
  BY <1>1, <1>2, <1>3 DEF AllBelow
<1>5. "a" \in st.steps => instructions'[st.instr] = instructions[st.instr]
  BY DEF SavedTrue, Names, Grows
<1>. QED BY <1>1, <1>4, <1>5 DEF OneMachine

LEMMA BelowMine ==
  ASSUME TypeOK, mine, NEW m, AllBelow(m)
  PROVE  AllBelow(m)'
<1>1. pending \in Seq(Transactions) /\ pending # <<>> /\ pending' = Tail(pending)
  BY DEF mine, TypeOK
<1>2. \A k \in DOMAIN pending' : k + 1 \in DOMAIN pending /\ pending'[k] = pending[k + 1]
  BY <1>1, HeadTailProperties
<1>3. Head(pending) \in Transactions /\ Head(pending) = pending[1] /\ 1 \in DOMAIN pending
  <2>1. Len(pending) \in Nat \ {0}
    BY <1>1, EmptySeq
  <2>. QED BY <1>1, <2>1
<1>4. registered' = registered \/ (Head(pending).kind = "register"
                                    /\ registered' = registered \union {Head(pending).tee})
  BY DEF mine, Execute
<1>5. Head(pending).tee \in Nat /\ Head(pending).tee >= 1
  BY <1>3 DEF Transactions, Machines, TypeOK
<1>6. registered' \subseteq 1 .. m
  <2>1. CASE registered' = registered
    BY <2>1 DEF AllBelow
  <2>2. CASE Head(pending).kind = "register"
    <3>1. Head(pending).tee <= m
      BY <1>3, <2>2 DEF AllBelow
    <3>2. Head(pending).tee \in 1 .. m
      BY <1>5, <3>1
    <3>. QED BY <1>4, <3>2 DEF AllBelow
  <2>. QED BY <1>4, <2>1, <2>2
<1>7. \A k \in DOMAIN pending' : pending'[k].kind = "register" => pending'[k].tee <= m
  BY <1>2 DEF AllBelow
<1>. QED BY <1>6, <1>7 DEF AllBelow

LEMMA NothingSaved == OneMachine(NoState)
BY DEF OneMachine, NoState, NoHash

\* Steps that leave the tool alone.
LEMMA FileStays ==
  ASSUME ToolInv, FileInv, Grows, \A m : AllBelow(m) => AllBelow(m)',
         UNCHANGED <<file, state, pc, command, teeID>>
  PROVE  FileInv'
<1>1. OneMachine(file.saved)'
  BY OneMachineStays DEF ToolInv, FileInv
<1>2. Active => OneMachine(state)'
  BY OneMachineStays DEF ToolInv, FileInv
<1>3. Active => AllBelow(teeID)'
  <2>1. PICK m : m = teeID
    OBVIOUS
  <2>2. Active => AllBelow(m)'
    BY <2>1 DEF FileInv
  <2>. QED BY <2>1, <2>2 DEF AllBelow
<1>4. Active /\ state.steps # {} => instructions'[state.attest].tee <= teeID
  BY DEF FileInv, ToolInv, SavedTrue, OneMachine, Names, Grows
<1>. QED BY <1>1, <1>2, <1>3, <1>4 DEF FileInv, Active

\* The end of a run.
LEMMA FileEnds ==
  ASSUME FileInv, UNCHANGED <<registered, pending, instructions, command>>,
         pc' \in {"idle", "info"}, file' \in {file, NoFile, Torn}
  PROVE  FileInv'
<1>1. OneMachine(file.saved)'
  BY NothingSaved, Constants DEF FileInv, OneMachine, AllBelow
<1>. QED BY <1>1 DEF FileInv, Active

LEMMA FileInfo ==
  ASSUME TypeOK, ToolInv, FileInv, info, pc' # "idle"
  PROVE  FileInv'
<1>1. /\ UNCHANGED <<registered, pending, instructions, command, file, tee>>
      /\ state' = file.saved /\ teeID' = tee /\ pc' = To_r
  BY DEF info, world, loadState, TeeProxyId, Stops
<1>2. OneMachine(file.saved)' /\ OneMachine(state)'
  BY <1>1 DEF FileInv, OneMachine, AllBelow
<1>3. AllBelow(teeID)'
  <2>1. registered \subseteq 1 .. tee
    BY DEF TypeOK, Machines
  <2>2. \A k \in DOMAIN pending : pending[k].tee <= tee
    <3>1. \A k \in DOMAIN pending : pending[k] \in Transactions
      BY DEF TypeOK
    <3>. QED BY <3>1 DEF Transactions, Machines, TypeOK
  <2>. QED BY <1>1, <2>1, <2>2 DEF AllBelow
<1>4. state'.steps # {} => instructions'[state'.attest].tee <= teeID'
  <2>1. file.saved.steps # {} => file.saved.attest \in DOMAIN instructions
    BY DEF ToolInv, FileInv, OneMachine, SavedTrue, Names
  <2>2. \A k \in DOMAIN instructions : instructions[k].tee <= tee
    <3>1. \A k \in DOMAIN instructions : instructions[k] \in Instructions
      BY DEF TypeOK
    <3>. QED BY <3>1 DEF Instructions, Machines, TypeOK
  <2>. QED BY <1>1, <2>1, <2>2
<1>5. pc' \notin {"r sent", "R", "R sent"}
  BY <1>1 DEF FileInv, To_r, To_R, To_a, To_p
<1>. QED BY <1>1, <1>2, <1>3, <1>4, <1>5 DEF FileInv

LEMMA FileSkip ==
  ASSUME FileInv, NEW l \in {"r", "R", "a"}, skip(l)
  PROVE  FileInv'
<1>1. /\ UNCHANGED <<registered, pending, instructions, command, file, state, teeID>>
      /\ pc = l /\ l \in state.steps /\ pc' = After(l)
  BY DEF skip, world
<1>2. Active
  BY <1>1 DEF Active
<1>3. OneMachine(file.saved)' /\ OneMachine(state)' /\ AllBelow(teeID)'
  BY <1>1, <1>2 DEF FileInv, OneMachine, AllBelow
<1>4. pc' \notin {"r sent", "R sent"} /\ (pc' = "R" => l = "r")
  <2>1. /\ l = "r" => pc' = To_R
        /\ l = "R" => pc' = To_a
        /\ l = "a" => pc' = To_p
    BY <1>1 DEF After
  <2>. QED BY <2>1 DEF To_R, To_a, To_p
<1>. QED BY <1>1, <1>2, <1>3, <1>4 DEF FileInv

LEMMA AppendIs ==
  ASSUME NEW S, NEW s \in Seq(S), NEW e \in S
  PROVE  \A k \in DOMAIN Append(s, e) :
           Append(s, e)[k] = e \/ (k \in DOMAIN s /\ Append(s, e)[k] = s[k])
<1>1. Len(s) \in Nat /\ DOMAIN s = 1 .. Len(s) /\ DOMAIN Append(s, e) = 1 .. Len(s) + 1
  BY AppendProperties, LenProperties
<1>2. SUFFICES ASSUME NEW k \in 1 .. Len(s) + 1, k # Len(s) + 1
               PROVE  k \in 1 .. Len(s) /\ Append(s, e)[k] = s[k]
  BY <1>1, AppendProperties
<1>. QED BY <1>1, <1>2, AppendProperties

LEMMA PendingIs ==
  ASSUME pending \in Seq(Transactions), NEW tx \in Transactions, pending' = Append(pending, tx)
  PROVE  \A k \in DOMAIN pending' : pending'[k] = tx \/ (k \in DOMAIN pending /\ pending'[k] = pending[k])
<1>1. \A k \in DOMAIN Append(pending, tx) :
         Append(pending, tx)[k] = tx \/ (k \in DOMAIN pending /\ Append(pending, tx)[k] = pending[k])
  BY AppendIs
<1>. QED BY <1>1, Zenon

\* Something that registers nobody is sent.
LEMMA FileSends ==
  ASSUME TypeOK, FileInv, Active, NEW tx \in Transactions, pending' = Append(pending, tx), tx.kind # "register",
         UNCHANGED <<registered, instructions, command, file, state, teeID>>,
         pc' = "r sent" => pc = "r" /\ "r" \notin state.steps,
         pc' = "R sent" => pc = "R", pc' \notin {"R", "idle", "info"}
  PROVE  FileInv'
<1>1. ASSUME NEW m, AllBelow(m) PROVE AllBelow(m)'
  <2>1. \A k \in DOMAIN pending' : pending'[k] = tx \/ (k \in DOMAIN pending /\ pending'[k] = pending[k])
    <3>1. pending \in Seq(Transactions)
      BY DEF TypeOK
    <3>. QED BY <3>1, PendingIs
  <2>. QED BY <1>1, <2>1 DEF AllBelow
<1>2. OneMachine(file.saved)' /\ OneMachine(state)'
  BY <1>1 DEF FileInv, OneMachine, AllBelow
<1>3. AllBelow(teeID)'
  BY <1>1 DEF FileInv, AllBelow
<1>. QED BY <1>2, <1>3 DEF FileInv

LEMMA FilePreRegister ==
  ASSUME TypeOK, FileInv, ToolInv, preRegister, pc' # "idle"
  PROVE  FileInv'
<1>1. /\ pc = "r" /\ "r" \notin state.steps
      /\ UNCHANGED <<registered, instructions, command, file, state, teeID>>
  BY DEF preRegister, sending
<1>2. PICK kind \in {"register", "attest"} :
        pending' = Append(pending, Tx(kind, teeID, NoHash)) /\ pc' = "r sent"
  BY DEF preRegister, RequestTeeAttestation, PreRegistration, Send, Stops
<1>3. Active /\ teeID \in Machines
  BY <1>1, TeeIDKnown DEF Active, Steps
<1>4. /\ Tx(kind, teeID, NoHash) \in Transactions
      /\ Tx(kind, teeID, NoHash).kind = kind /\ Tx(kind, teeID, NoHash).tee = teeID
  BY <1>3, TxType DEF NoHash
<1>5. \A k \in DOMAIN pending' : \/ pending'[k] = Tx(kind, teeID, NoHash)
                                 \/ k \in DOMAIN pending /\ pending'[k] = pending[k]
  <2>1. pending \in Seq(Transactions)
    BY DEF TypeOK
  <2>. QED BY <1>2, <1>4, <2>1, PendingIs
<1>6. state.steps = {} /\ file.saved.steps = {}
  BY <1>1, <1>3 DEF FileInv, OneMachine
<1>7. AllBelow(teeID)'
  <2>1. teeID <= teeID
    BY DEF TypeOK
  <2>. QED BY <1>1, <1>3, <1>4, <1>5, <2>1 DEF FileInv, AllBelow
<1>8. OneMachine(file.saved)' /\ OneMachine(state)'
  BY <1>1, <1>3, <1>6 DEF FileInv, OneMachine
<1>. QED BY <1>1, <1>2, <1>6, <1>7, <1>8 DEF FileInv

LEMMA FileAsks ==
  ASSUME TypeOK, FileInv, ToolInv, pc' # "idle",
         requestAttestation \/ requestAvailabilityCheck \/ promote
  PROVE  FileInv'
<1>1. UNCHANGED <<registered, instructions, command, file, state, teeID>>
  BY DEF requestAttestation, requestAvailabilityCheck, promote, sending
<1>2. CASE requestAttestation
  <2>1. pc = "R" /\ pc' = "R sent" /\ pending' = Append(pending, Tx("attest", teeID, NoHash))
    BY <1>2 DEF requestAttestation, RequestTeeAttestation, Send, Stops
  <2>2. Active /\ teeID \in Machines
    BY <2>1, TeeIDKnown DEF Active, Steps
  <2>3. Tx("attest", teeID, NoHash) \in Transactions /\ Tx("attest", teeID, NoHash).kind = "attest"
    BY <2>2, TxType DEF NoHash
  <2>. QED BY <1>1, <2>1, <2>2, <2>3, FileSends
<1>3. CASE requestAvailabilityCheck
  <2>1. pc = "a" /\ pc' = "a sent" /\ pending' = Append(pending, Tx("check", teeID, attest))
    BY <1>3 DEF requestAvailabilityCheck, RequestFTDCAvailabilityCheck, Send, Stops
  <2>2. Active /\ teeID \in Machines /\ attest \in Nat
    BY <2>1, TeeIDKnown DEF Active, Steps
  <2>3. Tx("check", teeID, attest) \in Transactions /\ Tx("check", teeID, attest).kind = "check"
    BY <2>2, TxType
  <2>. QED BY <1>1, <2>1, <2>2, <2>3, FileSends
<1>4. CASE promote
  <2>1. PICK i \in GetFTDCAvailabilityCheckResult :
          /\ pc = "p" /\ pc' = "p sent"
          /\ Succeeds(Tx("promote", instructions[i].tee, NoHash))
          /\ pending' = Append(pending, Tx("promote", instructions[i].tee, NoHash))
    BY <1>4 DEF promote, ToProduction, Send, Stops
  <2>2. instructions[i].tee \in Machines
    BY <2>1, SucceedsRegistered
  <2>3. /\ Tx("promote", instructions[i].tee, NoHash) \in Transactions
        /\ Tx("promote", instructions[i].tee, NoHash).kind = "promote"
    BY <2>2, TxType DEF NoHash
  <2>. QED BY <1>1, <2>1, <2>3, FileSends DEF Active
<1>. QED BY <1>2, <1>3, <1>4

LEMMA FileSave ==
  ASSUME TypeOK, ToolInv, FileInv, NEW l \in {"r", "R", "a"}, save(l)
  PROVE  FileInv'
<1>1. /\ UNCHANGED <<registered, pending, instructions, command, teeID>>
      /\ pc = Sent(l) /\ pc' = After(l)
      /\ file' = file \/ file' = Torn \/ file' = Written(state')
      /\ state' = recorded(l, receipt.id)
  BY DEF save, world
<1>2. /\ l \in {"r", "R"} => About(receipt.id, "attest", teeID) /\ teeID \in registered
      /\ l = "a" => About(receipt.id, "check", teeID) /\ About(attest, "attest", teeID)
      /\ receipt.id \in 1 .. Len(instructions) /\ pc \in Waiting
  BY SaveMined
<1>3. Active
  BY <1>2 DEF Active, Waiting
<1>4. /\ state'.steps = state.steps \union {l}
      /\ state'.attest = IF l = "a" THEN state.attest ELSE receipt.id
      /\ state'.instr = IF l = "a" THEN receipt.id ELSE state.instr
      /\ Written(state').saved = state'
  BY <1>1, RecordedIs DEF TypeOK
<1>5. /\ OneMachine(state) /\ AllBelow(teeID)
      /\ state.steps # {} => instructions[state.attest].tee <= teeID
      /\ file.saved.steps \subseteq state.steps
  BY <1>3 DEF FileInv
<1>6. OneMachine(state') /\ "r" \in state'.steps /\ instructions[state'.attest].tee <= teeID
  <2>0. teeID \in Nat
    BY DEF TypeOK
  <2>1. CASE l = "r"
    <3>1. pc = "r sent"
      BY <1>1, <2>1 DEF Sent
    <3>2. state.steps = {}
      BY <1>5, <3>1 DEF FileInv, OneMachine
    <3>3. state'.steps = {"r"} /\ instructions[state'.attest].tee = teeID
      BY <1>2, <1>4, <2>1, <3>2 DEF About
    <3>. QED BY <1>5, <2>0, <3>3 DEF OneMachine
  <2>2. CASE l = "R"
    <3>1. pc = "R sent"
      BY <1>1, <2>2 DEF Sent
    <3>2. "r" \in state.steps
      BY <3>1 DEF FileInv
    <3>3. AllBelow(instructions[state.attest].tee) /\ instructions[state.attest].tee <= teeID
      BY <1>5, <3>2 DEF OneMachine
    <3>4. instructions[state.attest].tee \in Nat
      <4>1. state.attest \in DOMAIN instructions
        BY <3>2 DEF ToolInv, SavedTrue, Names
      <4>2. instructions[state.attest] \in Instructions
        BY <4>1 DEF TypeOK
      <4>. QED BY <4>2 DEF Instructions, Machines, TypeOK
    <3>5. teeID <= instructions[state.attest].tee
      <4>1. teeID \in registered /\ registered \subseteq 1 .. instructions[state.attest].tee
        BY <1>2, <2>2, <3>3 DEF AllBelow
      <4>. QED BY <2>0, <3>4, <4>1
    <3>6. instructions[state.attest].tee = teeID
      BY <2>0, <3>3, <3>4, <3>5
    <3>7. instructions[state'.attest].tee = teeID /\ state'.instr = state.instr
      BY <1>2, <1>4, <2>2 DEF About
    <3>. QED BY <1>4, <1>5, <2>0, <2>2, <3>2, <3>6, <3>7 DEF OneMachine
  <2>3. CASE l = "a"
    <3>1. attest = state.attest /\ attest # NoHash
      <4>1. attest \in DOMAIN instructions
        BY <1>2, <2>3 DEF About, Names
      <4>2. attest # 0
        BY <4>1 DEF TypeOK
      <4>. QED BY <1>3, <4>2 DEF ToolInv, NoHash
    <3>2. "r" \in state.steps
      BY <1>5, <3>1 DEF OneMachine
    <3>3. state'.attest = state.attest /\ instructions[state'.attest].tee = teeID
          /\ instructions[state'.instr].tee = teeID
      BY <1>2, <1>4, <2>3, <3>1 DEF About
    <3>. QED BY <1>4, <1>5, <2>0, <2>3, <3>2, <3>3 DEF OneMachine
  <2>. QED BY <2>1, <2>2, <2>3
<1>7. OneMachine(state)' /\ AllBelow(teeID)'
  BY <1>1, <1>5, <1>6 DEF OneMachine, AllBelow
<1>8. OneMachine(file.saved)' /\ file'.saved.steps \subseteq state'.steps
  <2>1. CASE file' = file
    BY <1>1, <1>4, <1>5, <2>1 DEF FileInv, OneMachine, AllBelow
  <2>2. CASE file' = Torn
    <3>1. file'.saved = NoState /\ NoState.steps = {}
      BY <2>2, Constants DEF NoState
    <3>. QED BY <3>1, NothingSaved DEF OneMachine, AllBelow
  <2>3. CASE file' = Written(state')
    BY <1>4, <1>7, <2>3 DEF OneMachine, AllBelow
  <2>. QED BY <1>1, <2>1, <2>2, <2>3
<1>9. pc' \notin {"r sent", "R sent"}
  <2>1. /\ l = "r" => pc' = To_R
        /\ l = "R" => pc' = To_a
        /\ l = "a" => pc' = To_p
    BY <1>1 DEF After
  <2>. QED BY <2>1 DEF To_R, To_a, To_p
<1>. QED BY <1>1, <1>6, <1>7, <1>8, <1>9 DEF FileInv

LEMMA FileStep ==
  ASSUME TypeOK, ToolInv, FileInv, Step
  PROVE  FileInv'
<1>1. Grows
  BY StepGrows
<1>2. CASE mine
  <2>1. \A m : AllBelow(m) => AllBelow(m)'
    BY <1>2, BelowMine
  <2>2. UNCHANGED <<file, state, pc, command, teeID>>
    BY <1>2 DEF mine
  <2>. QED BY <1>1, <2>1, <2>2, FileStays
<1>3. CASE expire \/ answer \/ restart \/ newEpoch \/ newPolicy
  <2>1. UNCHANGED <<registered, pending, file, state, pc, command, teeID>>
    BY <1>3 DEF expire, answer, restart, newEpoch, newPolicy, tool
  <2>2. \A m : AllBelow(m) => AllBelow(m)'
    BY <2>1 DEF AllBelow
  <2>. QED BY <1>1, <2>1, <2>2, FileStays
<1>4. CASE pc # "idle" /\ pc' = "idle"
  <2>1. /\ UNCHANGED <<registered, pending, instructions, command>>
        /\ file' \in {file, NoFile, Torn}
    BY <1>4 DEF Step, RegisterNode, mine, expire, answer, restart, newEpoch, newPolicy, info, tool,
      world, preRegister, requestAttestation, requestAvailabilityCheck, sending, skip, save, Send,
      To_r, To_R, To_a, To_p, After, ToProduction, RequestTeeAttestation, PreRegistration,
      RequestFTDCAvailabilityCheck, reverted, promote, finish, timeout, pollsFail, kill
  <2>. QED BY <1>4, <2>1, FileEnds
<1>5. CASE info /\ pc' # "idle"
  BY <1>5, FileInfo
<1>6. CASE preRegister /\ pc' # "idle"
  BY <1>6, FilePreRegister
<1>7. CASE (requestAttestation \/ requestAvailabilityCheck \/ promote) /\ pc' # "idle"
  BY <1>7, FileAsks
<1>8. CASE \E l \in {"r", "R", "a"} : skip(l)
  BY <1>8, FileSkip
<1>9. CASE \E l \in {"r", "R", "a"} : save(l)
  BY <1>9, FileSave
<1>10. CASE reverted \/ timeout \/ pollsFail \/ finish \/ kill
  <2>1. pc # "idle" /\ pc' = "idle"
    BY <1>10 DEF reverted, timeout, pollsFail, finish, kill, Stops, Waiting, Finished
  <2>. QED BY <1>4, <2>1
<1>11. info \/ preRegister \/ requestAttestation \/ requestAvailabilityCheck \/ promote => pc # "idle"
  BY DEF info, preRegister, requestAttestation, requestAvailabilityCheck, promote
<1>. QED BY <1>2, <1>3, <1>4, <1>5, <1>6, <1>7, <1>8, <1>9, <1>10, <1>11 DEF Step, RegisterNode

LEMMA FileStart ==
  ASSUME FileInv, NEW c, NEW resume, start(c, resume), "R" \in c => "r" \in c
  PROVE  FileInv'
<1>1. UNCHANGED <<registered, pending, instructions>> /\ pc' = "info" /\ command' = c
      /\ file' \in {file, NoFile}
  BY DEF start, world
<1>2. OneMachine(file.saved)'
  BY <1>1, NothingSaved, Constants DEF FileInv, OneMachine, AllBelow
<1>. QED BY <1>1, <1>2 DEF FileInv, Active

-----------------------------------------------------------------------------
(* The theorems *)

Inv == TypeOK /\ ToolInv /\ FreshInv /\ HealInv

LEMMA Initially == Init => Inv /\ FileInv
<1>. SUFFICES ASSUME Init PROVE Inv /\ FileInv
  OBVIOUS
<1>. USE DEF Init
<1>1. TypeOK /\ ToolInv
  BY InitTool
<1>2. FreshInv /\ HealInv
  BY DEF RegistrationInit, FreshInv, HealInv, Active
<1>3. FileInv
  BY NothingSaved, Constants DEF RegistrationInit, FileInv, Active
<1>. QED BY <1>1, <1>2, <1>3 DEF Inv

LEMMA Inductive == Inv /\ [Next]_vars => Inv'
<1>. SUFFICES ASSUME Inv, [Next]_vars PROVE Inv'
  OBVIOUS
<1>. USE DEF Inv
<1>1. CASE Step /\ UNCHANGED healing
  BY <1>1, StepTool, FreshStep, HealStep
<1>2. ASSUME NEW c \in Commands, NEW resume \in BOOLEAN, byHand(c, resume)
      PROVE  Inv'
  <2>1. start(c, resume) /\ c \in SUBSET Steps
    BY <1>2, CommandsAssumption DEF byHand, Steps
  <2>. QED BY <1>2, <2>1, StartTool, StartFresh, ByHandHeal
<1>3. CASE register
  <2>1. start(Steps, FALSE) /\ Steps \in SUBSET Steps /\ FALSE \in BOOLEAN
    BY <1>3 DEF register
  <2>. QED BY <1>3, <2>1, StartTool, StartFresh, RegisterHeal
<1>4. CASE \/ readRunning \/ inSync \/ registerEnded \/ accept \/ listOthers
           \/ retire \/ repaired \/ killed
  <2>1. HealInv' /\ UNCHANGED <<pc, resumed, command, teeID, state, instr, file, instructions>>
    BY <1>4, HealScript
  <2>2. Grows
    <3>1. Len(instructions) \in Nat
      BY DEF TypeOK
    <3>. QED BY <2>1, <3>1 DEF Grows
  <2>3. FreshInv'
    BY <2>1, <2>2, FreshStays
  <2>. QED BY <1>4, <2>1, <2>3, ScriptTool
<1>5. CASE UNCHANGED vars
  <2>1. UNCHANGED <<tee, registered, production, instructions, spent, answered, epoch, policy,
                    pending, faults, file, tool, healing>>
    BY <1>5 DEF vars, regVars, world
  <2>2. Len(instructions) \in Nat
    BY DEF TypeOK
  <2>3. Grows
    BY <2>1, <2>2 DEF Grows
  <2>4. ToolInv'
    BY <2>1, <2>3, ToolStays
  <2>5. FreshInv'
    BY <2>1, <2>3, FreshStays DEF tool
  <2>6. HealInv'
    BY <2>1 DEF HealInv, tool, healing
  <2>7. TypeOK'
    BY <2>1 DEF TypeOK, tool, Machines, Instructions, Transactions, States
  <2>. QED BY <2>4, <2>5, <2>6, <2>7
<1>. QED BY <1>1, <1>2, <1>3, <1>4, <1>5 DEF Next, Heal

\* Every variable has its type: what is on the chain is about machines that
\* existed, and the tool goes only by instructions that were mined, whatever is
\* lost, late, torn or killed.
THEOREM TypeCorrect == Spec => []TypeOK
<1>1. Inv => TypeOK
  BY DEF Inv
<1>. QED BY <1>1, Initially, Inductive, PTL DEF Spec

\* The state file never claims more than the chain has, and is about one
\* machine, as long as who asks for an attestation also asks for registration,
\* as post-build.sh and heal-enclave.sh do.
THEOREM StateFile == RegisterFirst /\ Spec => []StateFileTrue
<1>. SUFFICES ASSUME RegisterFirst PROVE Spec => []StateFileTrue
  BY DEF RegisterFirst
<1>1. Inv /\ FileInv /\ [Next]_vars => FileInv'
  <2>. SUFFICES ASSUME Inv, FileInv, [Next]_vars PROVE FileInv'
    OBVIOUS
  <2>. USE DEF Inv
  <2>1. CASE Step
    BY <2>1, FileStep
  <2>2. ASSUME NEW c \in Commands, NEW resume \in BOOLEAN, byHand(c, resume)
        PROVE  FileInv'
    BY <2>2, FileStart DEF byHand, RegisterFirst
  <2>3. CASE register
    BY <2>3, FileStart DEF register, Steps
  <2>4. CASE \/ readRunning \/ inSync \/ registerEnded \/ accept \/ listOthers
             \/ retire \/ repaired \/ killed \/ UNCHANGED vars
    <3>1. UNCHANGED <<pc, command, teeID, state, file, instructions, registered, pending>>
      BY <2>4, HealScript DEF vars, regVars, world, tool
    <3>2. OneMachine(file.saved)' /\ (Active => OneMachine(state)' /\ AllBelow(teeID)')
      BY <3>1 DEF FileInv, OneMachine, AllBelow
    <3>. QED BY <3>1, <3>2 DEF FileInv, Active
  <2>. QED BY <2>1, <2>2, <2>3, <2>4 DEF Next, Heal
<1>2. Inv /\ FileInv => StateFileTrue
  <2>. SUFFICES ASSUME Inv, FileInv, file.status = "written" PROVE
         LET st == file.saved IN
         /\ st.steps \intersect {"r", "R"} # {} => Names(st.attest, "attest")
         /\ "a" \in st.steps => Names(st.instr, "check")
         /\ {"r", "a"} \subseteq st.steps =>
              instructions[st.attest].tee = instructions[st.instr].tee
    BY DEF StateFileTrue
  <2>. QED BY DEF Inv, ToolInv, SavedTrue, FileInv, OneMachine
<1>. QED BY <1>1, <1>2, Initially, Inductive, PTL DEF Spec

\* A run of register-tee that checks and promotes, started without a state
\* file, succeeds only with the machine it found in production.
THEOREM FreshRun == Spec => FreshRunIsTrue
<1>1. Inv => [finish /\ ~ resumed /\ {"a", "p"} \subseteq command => teeID \in production]_regVars
  BY FinishPromoted DEF Inv
<1>. QED BY <1>1, Initially, Inductive, PTL DEF Spec, FreshRunIsTrue

\* heal-enclave.sh has the venue accept only a machine that its run of
\* register-tee put into production, unless the machine restarted while the
\* script was at work.
THEOREM Accepted == Spec => AcceptedIsRegistered
<1>1. Inv /\ [Next]_vars => [accepted' # accepted /\ teeID = running => running \in production]_vars
  <2>. SUFFICES ASSUME Inv, Next, accepted' # accepted, teeID = running
                PROVE  running \in production
    BY DEF vars, healing
  <2>1. accept
    BY DEF Next, Heal, byHand, healing, readRunning, inSync, register, registerEnded, listOthers,
       retire, repaired, killed
  <2>. QED BY <2>1 DEF Inv, HealInv, accept
<1>. QED BY <1>1, Initially, Inductive, PTL DEF Spec, AcceptedIsRegistered
=============================================================================
