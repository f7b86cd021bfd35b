------------------------------ MODULE MCStartup ------------------------------
(***************************************************************************)
(* Instances of Startup for TLC.                                           *)
(***************************************************************************)
EXTENDS Startup

BothPrograms == {"fredshell", "xtask"}
AnyFailure   == {"tty", "pipe", "handlers", "ignore"}
=============================================================================
