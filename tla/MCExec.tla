-------------------------------- MODULE MCExec --------------------------------
(***************************************************************************)
(* Instances of Exec for TLC.                                              *)
(***************************************************************************)
EXTENDS Exec

Work    == <<"w">>
Sub     == <<"w", "a">>
Dirs    == {Work, Sub}
Start   == Work
CaseDirs == {<<"a">>}

CdSub   == [op |-> "cd", abs |-> FALSE, path |-> <<"a">>]
CdUp    == [op |-> "cd", abs |-> FALSE, path |-> <<"..">>]
CdOver  == [op |-> "cd", abs |-> FALSE, path |-> <<"..", "w">>]
CdBack  == [op |-> "cd", abs |-> FALSE, path |-> <<"a", "..">>]
CdWork  == [op |-> "cd", abs |-> TRUE, path |-> Work]
CdHome  == [op |-> "home"]
ExitNow == [op |-> "exit", code |-> {}]
Exit3   == [op |-> "exit", code |-> {3}]
Exit256 == [op |-> "exit", code |-> {256}]
NoLine  == [op |-> "blank"]
Command == [op |-> "cmd"]
Unbalanced == [op |-> "bad"]
Nul     == [op |-> "nul"]

Common == {CdSub, CdUp, CdHome, Exit3, NoLine, Command}
Lines  == Common \union {CdBack, CdOver, CdWork, ExitNow, Exit256, Unbalanced, Nul}

UpTo(n, L) == UNION {[1 .. k -> L] : k \in 0 .. n}

EveryLine == {<<l>> : l \in Lines}
Texts     == UpTo(2, Lines) \union UpTo(3, Common)
=============================================================================
