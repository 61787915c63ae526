---------------------------- MODULE HealEnclave -----------------------------
(***************************************************************************)
(* heal-enclave.sh: what an operator, or a timer, runs when the machine    *)
(* behind the proxy is no longer the one the venue accepts.  It asks who   *)
(* is running, and unless the venue accepts that machine it has            *)
(* register-tee register it (module Registration), adds it to the venue,   *)
(* and pauses every other machine the registry would still send            *)
(* instructions to.  It may be killed anywhere; a pause that fails is      *)
(* passed over.                                                            *)
(***************************************************************************)
EXTENDS Registration

VARIABLES
  accepted,        \* the machines the venue accepts (isTee)
  at,              \* where the script is
  running,         \* the machine it read from the proxy
  others,          \* the machines it has still to pause
  verdict          \* what it said last

healing == <<accepted, at, running, others, verdict>>
vars == <<regVars, healing>>

Init ==
  /\ RegistrationInit
  /\ accepted = {}
  /\ at = "idle" /\ running = 0 /\ others = {}
  /\ verdict = "none"

Says(what) ==
  /\ at' = "idle"
  /\ verdict' = what

\* MaxRuns bounds the runs of register-tee, so also the repairs.
readRunning ==
  /\ at = "idle" /\ pc = "idle"
  /\ runs < MaxRuns \/ tee \in accepted
  /\ running' = tee
  /\ at' = "check"
  /\ verdict' = "none"
  /\ UNCHANGED <<regVars, accepted, others>>

Mutant_inSync_registered ==
  /\ at = "check" /\ running \in registered
  /\ Says("in sync")
  /\ UNCHANGED <<regVars, accepted, running, others>>

inSync ==
  /\ at = "check" /\ running \in accepted
  /\ Says("in sync")
  /\ UNCHANGED <<regVars, accepted, running, others>>

\* The state file is removed and register-tee started with its four steps.
register ==
  /\ at = "check" /\ running \notin accepted
  /\ start(Steps, FALSE) /\ ~ resumed'
  /\ at' = "registering"
  /\ UNCHANGED <<accepted, running, others, verdict>>

Mutant_registerEnded_no_pipefail ==
  /\ at = "registering" /\ pc = "idle"
  /\ at' = "accept"
  /\ UNCHANGED <<regVars, accepted, running, others, verdict>>

registerEnded ==
  /\ at = "registering" /\ pc = "idle"
  /\ \/ outcome = "succeeded" /\ at' = "accept" /\ UNCHANGED verdict
     \/ outcome = "failed" /\ Says("failed")
  /\ UNCHANGED <<regVars, accepted, running, others>>

\* It is the machine read at the beginning that is added.
accept ==
  /\ at = "accept"
  /\ accepted' = accepted \union {running}
  /\ at' = "list"
  /\ UNCHANGED <<regVars, running, others, verdict>>

Mutant_listOthers_itself ==
  /\ at = "list"
  /\ \/ others' = production /\ NoFault
     \/ others' = {} /\ Fault
  /\ at' = "retire"
  /\ UNCHANGED <<world, file, tool, accepted, running, verdict>>

\* query-tee lists the active machines; when it fails, there is nothing to
\* pause.
listOthers ==
  /\ at = "list"
  /\ \/ others' = production \ {running} /\ NoFault
     \/ others' = {} /\ Fault
  /\ at' = "retire"
  /\ UNCHANGED <<world, file, tool, accepted, running, verdict>>

\* A paused machine is sent nothing until it is promoted again.
retire ==
  /\ at = "retire"
  /\ \E m \in others :
       /\ others' = others \ {m}
       /\ \/ production' = production \ {m} /\ NoFault
          \/ UNCHANGED production /\ Fault
  /\ UNCHANGED <<tee, registered, instructions, spent, answered, epoch, policy,
                 pending, file, tool, accepted, at, running, verdict>>

repaired ==
  /\ at = "retire" /\ others = {}
  /\ Says("repaired")
  /\ UNCHANGED <<regVars, accepted, running, others>>

\* Killed, or stopped by a command that failed (set -e).
killed ==
  /\ at \notin {"idle", "registering"}
  /\ Fault
  /\ Says("failed")
  /\ UNCHANGED <<world, file, tool, accepted, running, others>>

Heal ==
  \/ inSync \/ register \/ registerEnded \/ accept \/ listOthers \/ retire \/ repaired

\* Besides the script, the operator runs register-tee by hand.
byHand(c, resume) == at = "idle" /\ start(c, resume) /\ UNCHANGED healing

Next ==
  \/ Step /\ UNCHANGED healing
  \/ \E c \in Commands, resume \in BOOLEAN : byHand(c, resume)
  \/ readRunning \/ Heal \/ killed

\* Blocks are made, providers answer and the proxy follows the chain; the tool
\* and the script go on as long as they are not killed.
Fairness ==
  /\ WF_vars(mine /\ UNCHANGED healing) /\ WF_vars(answer /\ UNCHANGED healing)
  /\ WF_vars(newPolicy /\ UNCHANGED healing)
  /\ WF_vars(RegisterNode /\ UNCHANGED healing)
  /\ WF_vars(Heal)

Spec == Init /\ [][Next]_vars /\ Fairness

-----------------------------------------------------------------------------
(* What is true of it *)

\* Once faults, restarts and epochs are over, one run of the script that finds
\* the registry quiet leaves the running machine accepted by the venue and in
\* production, whatever earlier runs left undone.
HealAccepts ==
  (Settled /\ at = "check" /\ running = tee) ~> (tee \in accepted /\ tee \in production)

\* A machine the venue accepts went through the registry first, unless the
\* machine restarted while the script was at work.
AcceptedIsRegistered == [][accepted' # accepted /\ teeID = running => running \in production]_vars

\* A repair that meets no fault pauses every other machine that is sent
\* instructions, those that earlier runs promoted late included, and not the one
\* it registered: the list is made after the last transaction of register-tee,
\* and with it all earlier ones, has been mined.
HealRetires ==
  (Settled /\ at = "check" /\ running = tee /\ tee \notin accepted)
    ~> (verdict = "repaired" /\ production = {tee})
=============================================================================
