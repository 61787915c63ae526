--------------------------- MODULE MCRegistration ---------------------------
(***************************************************************************)
(* Instances of register-tee and heal-enclave.sh for TLC.                  *)
(***************************************************************************)
EXTENDS HealEnclave

\* As post-build.sh runs it, the default, and the last steps by themselves.
MCCommands == {{"r", "R", "a", "p"}, {"r", "a", "p"}, {"a", "p"}, {"p"}}
=============================================================================
