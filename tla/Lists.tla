-------------------------------- MODULE Lists --------------------------------
(***************************************************************************)
(* Iterator::filter, as the code uses it on lists of lines and of cells.   *)
(***************************************************************************)
EXTENDS SequencesExt

(* The elements of s that are in S, in their order. *)
Keep(s, S) ==
  FoldLeft(LAMBDA kept, x : IF x \in S THEN Append(kept, x) ELSE kept, <<>>, s)
=============================================================================
