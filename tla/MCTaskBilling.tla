--------------------------- MODULE MCTaskBilling ---------------------------
(***************************************************************************)
(* Instances of TaskBilling for TLC.                                       *)
(***************************************************************************)
EXTENDS TaskBilling, TLC

(* Runners and tasks differ only by name (no task is a realtime task, or   *)
(* all are).                                                               *)
Symmetry == Permutations(Pollers) \cup Permutations(Tasks)
=============================================================================
