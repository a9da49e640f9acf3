-------------------------- MODULE MCPlaygroundChat --------------------------
(***************************************************************************)
(* Instances of PlaygroundChat for TLC.                                    *)
(***************************************************************************)
EXTENDS PlaygroundChat

(* An answer of two chunks, and one whose second chunk repeats the first.  *)
Distinct == {<<"a", "b">>}
Repeated == {<<"a", "a">>}
=============================================================================
