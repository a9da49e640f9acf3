--------------------------- MODULE BillingTotals ---------------------------
(***************************************************************************)
(* What the billing sessions of all requests together have done to the     *)
(* three balances they share.                                              *)
(***************************************************************************)
EXTENDS BillingSession, FiniteSets, Functions

ASSUME FiniteReqs == IsFiniteSet(Reqs)

Source(r) == IF Opened(r) THEN funding[r] ELSE "wallet"
Total(src) == SumFunctionOnSet([r \in Reqs |-> Bill(r) + posted[r]],
                               {r \in Reqs : Source(r) = src})
TokenTotal == SumFunction([r \in Reqs |-> OnToken(r, Bill(r)) + tokenPosted[r]])

AllClean == \A r \in Reqs : Finished(r) /\ hit[r] = {}

(* When every request has finished and no statement failed, the three      *)
(* balances have moved by exactly the bills of the requests: no lost       *)
(* update, no double debit, and the clamp of                               *)
(* PostConsumeUserSubscriptionDelta at zero never hid a difference within  *)
(* a period of the subscription.                                           *)
Reconciled ==
    AllClean =>
        /\ WalletInit - wallet = Total("wallet")
        /\ TokenInit - token = TokenTotal
        /\ ~reset => subUsed = Total("sub")

(* Requests that hold quota of the subscription when its period is reset   *)
(* settle and refund against the new period                                *)
(* (maybeResetUserSubscriptionWithPlanTx sets the used amount to zero,     *)
(* PostConsumeUserSubscriptionDelta applies the difference to whatever     *)
(* period is running, clamped at zero).  The new period is then charged    *)
(* for no request that had finished in the old one and for no request more *)
(* than its bill; and it forgoes no more than what the old period paid.    *)
OnSub == {r \in Reqs : Source(r) = "sub"}
PeriodReconciled ==
    AllClean /\ reset =>
        /\ subUsed <= SumFunctionOnSet([r \in Reqs |-> Bill(r) + posted[r]], OnSub \ closed)
        /\ subUsed >= SumFunctionOnSet([r \in Reqs |-> Bill(r) + posted[r] - carried[r]], OnSub)

-----------------------------------------------------------------------------
(* The strengthening that makes the two inductive: at every moment, the    *)
(* balances have moved by what the requests have taken of them.            *)

Taken(r) == spent[r] + posted[r]
WalletPart(r) == IF Source(r) = "wallet" THEN Taken(r) ELSE 0
SubPart(r)    == IF Source(r) = "sub" THEN Taken(r) ELSE 0
TokenPart(r)  == tokenSpent[r] + tokenPosted[r]
(* What the new period may be charged for, and what it must be. *)
NewPart(r) == IF Source(r) = "sub" /\ r \notin closed THEN Taken(r) ELSE 0
DuePart(r) == IF Source(r) = "sub" THEN Taken(r) - carried[r] ELSE 0

Sum(f) == SumFunctionOnSet(f, Reqs)
Wallets == [r \in Reqs |-> WalletPart(r)]
Subs    == [r \in Reqs |-> SubPart(r)]
Tokens  == [r \in Reqs |-> TokenPart(r)]
News    == [r \in Reqs |-> NewPart(r)]
Dues    == [r \in Reqs |-> DuePart(r)]

(* A refund transaction that lost its record may have been repeated. *)
Unharmed == \A r \in Reqs : "subRecord" \notin hit[r]

(* PostConsumeQuota comes last, requests that finished in the old period   *)
(* stay finished, and only a session of the subscription carries over.     *)
PostInv(r) ==
    /\ posted[r] >= 0
    /\ posted[r] # 0 => pc[r] \in {"postToken", "done", "dead"}
    /\ r \in closed => Finished(r)
    /\ carried[r] # 0 => funding[r] = "sub"
PostAll == \A r \in Reqs : PostInv(r)

BalanceInv ==
    /\ WalletInit - wallet = Sum(Wallets)
    /\ TokenInit - token = Sum(Tokens)
    /\ Unharmed /\ ~reset => subUsed = Sum(Subs)
    /\ Unharmed /\ reset => Sum(Dues) <= subUsed /\ subUsed <= Sum(News)

TotalsInv == IndInv /\ PostAll /\ BalanceInv
=============================================================================
