-------------------------- MODULE MCBillingSession --------------------------
(***************************************************************************)
(* Instances of BillingSession for TLC, with the sums of BillingTotals     *)
(* over the requests.                                                      *)
(***************************************************************************)
EXTENDS BillingTotals, TLC

Symmetry == Permutations(Reqs)
=============================================================================
