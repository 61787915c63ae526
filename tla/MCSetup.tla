------------------------------ MODULE MCSetup -------------------------------
(***************************************************************************)
(* Instances of the setup jobs and of verify-deploy for TLC.               *)
(***************************************************************************)
EXTENDS VerifyDeploy

\* A developer's machine with a local chain and nothing configured.
LocalEnv ==
  [manager |-> "code", funded |-> TRUE, tokens |-> TRUE, localMode |-> "", deployKey |-> FALSE,
   ownerKey |-> "unset", initialOwner |-> "unset", signers |-> {}, threshold |-> 0,
   proxyKey |-> FALSE, simulated |-> TRUE, extProxy |-> TRUE, normalProxy |-> FALSE]

\* The public test network, with an owner and three governance signers.
Coston2Env ==
  [LocalEnv EXCEPT !.localMode = "false", !.deployKey = TRUE, !.ownerKey = "deployer",
     !.initialOwner = "owner", !.signers = {"a", "b", "c"}, !.threshold = 2,
     !.proxyKey = TRUE, !.normalProxy = TRUE]

\* The same with an addresses file of another network, or with a threshold
\* nobody can meet and somebody else's key.
MCEnvironments ==
  {LocalEnv, Coston2Env, [Coston2Env EXCEPT !.manager = "no code"],
   [Coston2Env EXCEPT !.threshold = 4], [Coston2Env EXCEPT !.ownerKey = "other"]}

\* Everything; nothing but the environment, as without -config; one group with
\* some checks hidden; and one group.
MCRequests ==
  {Everything, [Everything EXCEPT !.path = FALSE],
   [groups |-> <<"register", "registry">>, path |-> TRUE, ids |-> {"R2", "R3"}],
   [groups |-> <<"deploy">>, path |-> TRUE, ids |-> AllIds]}
=============================================================================
