------------------------------ MODULE QuotaHold ------------------------------
(***************************************************************************)
(* What a billing session promises about one account (the funding source   *)
(* or the API token), with no statement, retry or goroutine in sight: a    *)
(* hold on the account is adjusted while the request is open, and ends in  *)
(* one of two ways.  It is captured, for the actual cost and once; or it   *)
(* is released, and what was taken is given back, never more.              *)
(*                                                                         *)
(* It is the contract that the comments of service/billing_session.go and  *)
(* service/funding_source.go describe; BillingSession implements it twice, *)
(* for the funding source and for the token.                               *)
(***************************************************************************)
EXTENDS Integers

CONSTANT Reqs

VARIABLES
    phase,      \* phase[r]: "open", "captured" or "releasing"
    taken,      \* taken[r]: what the account has been debited for r
    unsafe      \* requests whose release lost its own record

hold == <<phase, taken, unsafe>>

Init ==
    /\ phase = [r \in Reqs |-> "open"]
    /\ taken = [r \in Reqs |-> 0]
    /\ unsafe = {}

Become(r, p) == phase' = [phase EXCEPT ![r] = p]
Take(r)      == taken' = [taken EXCEPT ![r] = taken'[r]] /\ taken'[r] \in Nat

(* Pre-consume, reserve and their rollbacks. *)
Adjust(r) == phase[r] = "open" /\ Take(r) /\ UNCHANGED <<phase, unsafe>>

(* Settle: the hold becomes the actual cost. *)
Capture(r) == phase[r] = "open" /\ Become(r, "captured") /\ Take(r) /\ UNCHANGED unsafe

(* Refund is decided ... *)
Release(r) == phase[r] = "open" /\ Become(r, "releasing") /\ UNCHANGED <<taken, unsafe>>

(* ... and carried out, in one or in several parts, each at most what is   *)
(* left, unless a part was returned without a trace and returns again.     *)
Return(r) ==
    /\ phase[r] = "releasing"
    /\ taken' = [taken EXCEPT ![r] = taken'[r]]
    /\ taken'[r] \in Int /\ taken'[r] <= taken[r]
    /\ unsafe' \in {unsafe, unsafe \cup {r}}
    /\ r \in unsafe' \/ taken'[r] >= 0
    /\ UNCHANGED phase

Next == \E r \in Reqs : Adjust(r) \/ Capture(r) \/ Release(r) \/ Return(r)

Spec == Init /\ [][Next]_hold
=============================================================================
