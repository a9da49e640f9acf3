---------------------------- MODULE MCSystemTask ----------------------------
(***************************************************************************)
(* Instances of SystemTask for TLC.                                        *)
(***************************************************************************)
EXTENDS SystemTask, TLC

(* Runners and rows differ only by name. *)
Symmetry == Permutations(Runners) \cup Permutations(Rows)
=============================================================================
