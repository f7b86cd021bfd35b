---------------------------- MODULE TerminalLease ----------------------------
(***************************************************************************)
(* What fredshell promises about the controlling terminal, wherever it     *)
(* reads from it: the terminal is borrowed in raw mode and given back as   *)
(* its user had it; keystrokes are taken only while it is borrowed, and    *)
(* none is carried over from one holder to the next.                       *)
(*                                                                         *)
(* Repl and Probe implement this.  Keystrokes are counted, not told apart. *)
(***************************************************************************)
EXTENDS Naturals

CONSTANT Modes   \* the settings a user may choose; not "raw"

VARIABLES
  settings,  \* the settings in force
  choice,    \* the settings the user, or a command of theirs, last chose
  lent,      \* the shell has the terminal
  unread,    \* keystrokes waiting in the terminal
  held,      \* keystrokes the shell has taken and may still act on
  gone       \* the terminal has hung up, or an I/O error ends the shell

leaseVars == <<settings, choice, lent, unread, held, gone>>

Init ==
  /\ settings \in Modes
  /\ choice = settings
  /\ lent = FALSE
  /\ unread = 0
  /\ held = 0
  /\ gone = FALSE

(* A key waits to be read; in the settings of the user it may instead flush *)
(* what waits (^C).                                                         *)
Type ==
  /\ \/ unread' = unread + 1
     \/ settings # "raw" /\ unread' = 0
  /\ UNCHANGED <<settings, choice, lent, held, gone>>

Choose(m) ==
  /\ ~lent /\ ~gone
  /\ settings' = m
  /\ choice' = m
  /\ UNCHANGED <<lent, unread, held, gone>>

Borrow ==
  /\ ~lent /\ ~gone
  /\ lent' = TRUE
  /\ settings' = "raw"
  /\ unread' = 0
  /\ UNCHANGED <<choice, held, gone>>

Take ==
  /\ lent
  /\ \E n \in 1..unread :
       /\ unread' = unread - n
       /\ held' = held + n
  /\ UNCHANGED <<settings, choice, lent, gone>>

(* Keystrokes that were taken are erased, answered or discarded.            *)
Forget ==
  /\ lent
  /\ held' \in 0..held
  /\ UNCHANGED <<settings, choice, lent, unread, gone>>

(* A terminal that is gone can be given back in any state.                  *)
GiveBack ==
  /\ lent
  /\ lent' = FALSE
  /\ held' = 0
  /\ \/ settings' = choice /\ unread' = 0
     \/ gone /\ UNCHANGED <<settings, unread>>
  /\ UNCHANGED <<choice, gone>>

Lose ==
  /\ gone' = TRUE
  /\ unread' \in {0, unread}
  /\ UNCHANGED <<settings, choice, lent, held>>

Next ==
  \/ Type \/ Borrow \/ Take \/ Forget \/ GiveBack \/ Lose
  \/ \E m \in Modes : Choose(m)

Spec == Init /\ [][Next]_leaseVars
=============================================================================
