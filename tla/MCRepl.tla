------------------------------- MODULE MCRepl -------------------------------
(***************************************************************************)
(* Instances of Repl for TLC.  Each .cfg picks the signals, keys and       *)
(* commands of one question; the sets they share are named here.           *)
(***************************************************************************)
EXTENDS Repl

EveryKey       == AllKeys
StrictCommands == {"return", "exit"}     \* default policy: nothing is spawned
AnyCommand     == {"return", "exit", "spawn"}
=============================================================================
