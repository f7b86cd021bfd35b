------------------------------- MODULE MCProbe -------------------------------
(***************************************************************************)
(* Instances of Probe for TLC.                                             *)
(***************************************************************************)
EXTENDS Probe

(* One environment for each color tier, with and without the rest. *)
Tiers ==
  {[colorterm |-> "unset",     term |-> "dumb",     program |-> "other"],
   [colorterm |-> "other",     term |-> "other",    program |-> "known"],
   [colorterm |-> "truecolor", term |-> "256color", program |-> "other"]}
=============================================================================
