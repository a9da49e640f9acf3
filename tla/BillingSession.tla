--------------------------- MODULE BillingSession ---------------------------
(***************************************************************************)
(* The life of the billing sessions of concurrent relay requests that      *)
(* share one user wallet, one API token and one subscription:              *)
(* service/billing_session.go, service/funding_source.go,                  *)
(* service/billing.go and the control flow of controller/relay.go that     *)
(* opens, reserves, settles and refunds a session.                         *)
(*                                                                         *)
(* Every database statement or transaction is one step, so the steps of    *)
(* two requests, and of a request and the refund goroutine it started,     *)
(* interleave at every statement.  A database statement may fail           *)
(* (FaultPoints, MaxFaults) and the process may crash (MayCrash).          *)
(*                                                                         *)
(* The three balances are read and written directly: this is the gateway   *)
(* with the Redis cache and the batch updater switched off.                *)
(***************************************************************************)
EXTENDS Integers

CONSTANTS
    Reqs,           \* the requests, all of one user and one token
    Kinds,          \* kinds of request: subset of {"relay", "playground", "task"}
    Prefs,          \* billing preferences the user may have
    Estimates,      \* pre-consume estimates the price helper may return
    Actuals,        \* quota a finished request may turn out to cost
    WalletInit, TokenInit,  \* quota at the start
    TokenUnlimited, \* Token.UnlimitedQuota
    SubTotal,       \* UserSubscription.AmountTotal; 0 means unlimited
    WalletOverflow, \* Subscription.AllowWalletOverflow
    TrustQuota,     \* common.GetTrustQuota(); 0 disables the bypass
    ViolationFee,   \* fee of a policy violation; 0 disables it
    RetryTimes,     \* common.RetryTimes
    FaultPoints,    \* which statements may fail
    MaxFaults,      \* bound on the number of failing statements
    MayCrash,       \* may the process crash?
    MayReset        \* may the period of the subscription end (once)?

AllKinds  == {"relay", "playground", "task"}
AllPrefs  == {"subscription_only", "wallet_only", "wallet_first", "subscription_first"}
AllFaults == {"wallet", "token", "sub", "subRecord"}
Sources   == {"wallet", "sub"}

ASSUME BillingAssumption ==
    /\ Kinds \subseteq AllKinds
    /\ Prefs \subseteq AllPrefs
    /\ Estimates \subseteq Nat
    /\ Actuals \subseteq Nat
    /\ WalletInit \in Int
    /\ TokenInit \in Int
    /\ TokenUnlimited \in BOOLEAN
    /\ SubTotal \in Nat
    /\ WalletOverflow \in BOOLEAN
    /\ TrustQuota \in Nat
    /\ ViolationFee \in Nat
    /\ RetryTimes \in Nat
    /\ FaultPoints \subseteq AllFaults
    /\ MaxFaults \in Nat
    /\ MayCrash \in BOOLEAN
    /\ MayReset \in BOOLEAN

VARIABLES
    \* rows of the database
    wallet,     \* User.Quota (may become negative: debt)
    token,      \* Token.RemainQuota (may become negative)
    subUsed,    \* UserSubscription.AmountUsed
    subActive,  \* does the subscription still count as active?
    rec,        \* rec[r]: status of the SubscriptionPreConsumeRecord of r
    \* the request: its kind, billing preference and token quota seen at auth
    kind, pref, authToken,
    \* the BillingSession of each request; funding is "none" before it exists
    funding,    \* FundingSource.Source()
    pre,        \* preConsumedQuota
    tok,        \* tokenConsumed
    extra,      \* extraReserved
    held,       \* WalletFunding.consumed or SubscriptionFunding.preConsumed
    trusted, fundingSettled, settled, refunded,
    \* the handler: where it is, and its local values
    pc,
    est,        \* the estimate handed to PreConsumeBilling
    try,        \* the source NewBillingSession is trying
    fallback,   \* may it still fall back to the other one?
    amt,        \* the amount in hand: pre-consume, reserve, actual cost or fee
    err,        \* why opening failed
    retry,      \* RetryParam.Retry
    \* the refund goroutine: where it is, and the failed tries of refundWithRetry
    job, attempts,
    \* history: what each session has debited from its funding source and from
    \* the token, what PostConsumeQuota has, and the statements that failed
    spent, tokenSpent, posted, tokenPosted,
    faults, hit,
    \* the period of the subscription: has it been reset; and, as history, what
    \* each request had taken of the old period, and which had finished in it
    reset, carried, closed

rows    == <<wallet, token, subUsed, subActive, rec>>
input   == <<kind, pref, authToken>>
amounts == <<pre, tok, extra, held>>
flags   == <<fundingSettled, settled, refunded>>
session == <<funding, amounts, trusted, flags>>
opening == <<est, try, fallback, err>>
locals  == <<opening, amt, retry>>
goroutine == <<job, attempts>>
ledger  == <<spent, tokenSpent>>
post    == <<posted, tokenPosted>>
flt     == <<faults, hit>>
period  == <<reset, carried, closed>>
vars    == <<rows, input, session, pc, locals, goroutine, ledger, post, flt,
             period>>

PCs == {"idle", "loop", "open", "readWallet", "readToken", "debitToken", "preFunding",
        "rollbackToken", "openFailed", "reserveFunding", "reserveRead", "reserveDebit",
        "reserveRollback", "upstream", "settleFunding", "settleToken", "failed",
        "violation", "postFunding", "postToken", "done", "unsettled", "rejected", "dead"}
Jobs == {"none", "funding", "extra", "token", "done", "dead"}

(* A handler ends "unsettled" when Settle has returned the error of the    *)
(* funding source.                                                         *)
Ended(r) == pc[r] \in {"done", "unsettled", "rejected", "dead"}
Finished(r) == pc[r] \in {"done", "unsettled", "rejected"} /\ job[r] \in {"none", "done"}
Opened(r) == funding[r] # "none"
Playground(r) == kind[r] = "playground"

Init ==
    /\ wallet = WalletInit
    /\ token = TokenInit
    /\ subUsed = 0
    /\ subActive \in BOOLEAN
    /\ rec = [r \in Reqs |-> "none"]
    /\ kind = [r \in Reqs |-> "relay"]
    /\ pref = [r \in Reqs |-> "wallet_only"]
    /\ authToken = [r \in Reqs |-> 0]
    /\ funding = [r \in Reqs |-> "none"]
    /\ pre = [r \in Reqs |-> 0]
    /\ tok = [r \in Reqs |-> 0]
    /\ extra = [r \in Reqs |-> 0]
    /\ held = [r \in Reqs |-> 0]
    /\ trusted = [r \in Reqs |-> FALSE]
    /\ fundingSettled = [r \in Reqs |-> FALSE]
    /\ settled = [r \in Reqs |-> FALSE]
    /\ refunded = [r \in Reqs |-> FALSE]
    /\ pc = [r \in Reqs |-> "idle"]
    /\ est = [r \in Reqs |-> 0]
    /\ try = [r \in Reqs |-> "wallet"]
    /\ fallback = [r \in Reqs |-> FALSE]
    /\ amt = [r \in Reqs |-> 0]
    /\ err = [r \in Reqs |-> "none"]
    /\ retry = [r \in Reqs |-> 0]
    /\ job = [r \in Reqs |-> "none"]
    /\ attempts = [r \in Reqs |-> 0]
    /\ spent = [r \in Reqs |-> 0]
    /\ tokenSpent = [r \in Reqs |-> 0]
    /\ posted = [r \in Reqs |-> 0]
    /\ tokenPosted = [r \in Reqs |-> 0]
    /\ faults = 0
    /\ hit = [r \in Reqs |-> {}]
    /\ reset = FALSE
    /\ carried = [r \in Reqs |-> 0]
    /\ closed = {}

-----------------------------------------------------------------------------
(* Faults and the statements of the model package.                         *)

Goto(r, l) == pc' = [pc EXCEPT ![r] = l]

Ok == UNCHANGED flt
(* A statement of request r fails.  *)
Fails(r, p) ==
    /\ p \in FaultPoints
    /\ faults < MaxFaults
    /\ faults' = faults + 1
    /\ hit' = [hit EXCEPT ![r] = @ \cup {p}]
(* A query that fails changes nothing, and is no excuse for a wrong bill.  *)
QueryFails(p) ==
    /\ p \in FaultPoints
    /\ faults < MaxFaults
    /\ faults' = faults + 1
    /\ UNCHANGED hit

(* Mutant: the wallet stops at zero instead of going into debt. *)
DecreaseUserQuotaClamped(n) ==
    /\ wallet' = IF n > wallet THEN 0 ELSE wallet - n
    /\ UNCHANGED <<token, subUsed, subActive, rec>>

(* DecreaseUserQuota (n > 0) and IncreaseUserQuota (n < 0). *)
DecreaseUserQuota(n) == wallet' = wallet - n /\ UNCHANGED <<token, subUsed, subActive, rec>>
(* DecreaseTokenQuota (n > 0) and IncreaseTokenQuota (n < 0). *)
DecreaseTokenQuota(n) == token' = token - n /\ UNCHANGED <<wallet, subUsed, subActive, rec>>

(* Mutant: the used amount is not clamped. *)
NewUsedUnclamped(n) == subUsed + n

(* PostConsumeUserSubscriptionDelta refuses to exceed the total and clamps *)
(* at zero; it looks the row up by id, whether it is active or not.        *)
NewUsed(n) == IF subUsed + n < 0 THEN 0 ELSE subUsed + n
SubAccepts(n) == SubTotal > 0 => NewUsed(n) <= SubTotal
PostConsumeUserSubscriptionDelta(n) ==
    subUsed' = NewUsed(n) /\ UNCHANGED <<wallet, token, subActive, rec>>

(* funding.Settle, reserveFunding and PostConsumeQuota change the source   *)
(* by a signed amount; only a subscription can refuse.                     *)
SourceAccepts(src, n) == src = "sub" => SubAccepts(n)
DebitSource(src, n) ==
    \/ src = "wallet" /\ DecreaseUserQuota(n)
    \/ src = "sub" /\ PostConsumeUserSubscriptionDelta(n)

Spend(r, n)      == spent' = [spent EXCEPT ![r] = @ + n] /\ UNCHANGED tokenSpent
SpendToken(r, n) == tokenSpent' = [tokenSpent EXCEPT ![r] = @ + n] /\ UNCHANGED spent

-----------------------------------------------------------------------------
(* The request arrives.  Authentication has put the token's remaining      *)
(* quota into the request context (a playground request has a temporary    *)
(* token with none); ValidateUserToken turns an exhausted token away.  A   *)
(* free model skips the pre-consume and goes straight to the retry loop,   *)
(* as does a task, which opens its session inside the loop.                *)

Begin(r) ==
    /\ pc[r] = "idle"
    /\ \E k \in Kinds, p \in Prefs :
         /\ k # "playground" => (TokenUnlimited \/ token > 0)
         /\ kind' = [kind EXCEPT ![r] = k]
         /\ pref' = [pref EXCEPT ![r] = p]
         /\ authToken' = [authToken EXCEPT ![r] =
                            IF k = "playground" \/ TokenUnlimited THEN 0 ELSE token]
         /\ \/ /\ k # "task"
               /\ \E e \in Estimates : est' = [est EXCEPT ![r] = e]
               /\ Goto(r, "open")
            \/ UNCHANGED est /\ Goto(r, "loop")
    /\ UNCHANGED <<rows, session, try, fallback, err, amt, retry, goroutine, ledger, post, flt,
                   period>>

(* NewBillingSession: the preference picks the source tried first and      *)
(* whether the other one is a fallback.  trySubscription asks for at       *)
(* least 1.  Each try starts with a new BillingSession.                    *)
OpenWith(r, s, fb) ==
    /\ try' = [try EXCEPT ![r] = s]
    /\ fallback' = [fallback EXCEPT ![r] = fb]
    /\ err' = [err EXCEPT ![r] = "none"]
    /\ amt' = [amt EXCEPT ![r] = IF s = "sub" /\ est[r] = 0 THEN 1 ELSE est[r]]
    /\ Goto(r, IF s = "wallet" THEN "readWallet" ELSE "readToken")

OpenError(r, e) ==
    /\ err' = [err EXCEPT ![r] = e]
    /\ Goto(r, "openFailed")
    /\ UNCHANGED <<try, fallback, amt>>

FirstSource(r) ==
    IF \/ pref[r] \in {"wallet_only", "wallet_first"}
       \/ pref[r] = "subscription_first" /\ ~subActive
    THEN "wallet" ELSE "sub"

HasFallback(r) ==
    \/ pref[r] = "wallet_first"
    \/ pref[r] = "subscription_first" /\ subActive

NewBillingSession(r) ==
    /\ pc[r] = "open"
    /\ \/ Ok /\ OpenWith(r, FirstSource(r), HasFallback(r))
       \/ pref[r] = "subscription_first" /\ QueryFails("sub") /\ OpenError(r, "other")
    /\ UNCHANGED <<rows, input, session, est, retry, goroutine, ledger, post>>

(* shouldTrust: never a task or a subscription, and both the token quota   *)
(* seen at auth and the wallet quota just read exceed the trust quota.     *)
ShouldTrust(r, quota) ==
    /\ kind[r] # "task"
    /\ TrustQuota > 0
    /\ (TokenUnlimited /\ ~Playground(r)) \/ authToken[r] > TrustQuota
    /\ quota > TrustQuota

(* tryWallet: reads the balance and refuses a request it does not cover.   *)
(* A trusted request pre-consumes nothing.                                 *)
ReadWallet(r) ==
    /\ pc[r] = "readWallet"
    /\ \/ /\ wallet <= 0 \/ wallet < amt[r]
          /\ Ok /\ OpenError(r, "insufficient") /\ UNCHANGED trusted
       \/ QueryFails("wallet") /\ OpenError(r, "other") /\ UNCHANGED trusted
       \/ /\ wallet > 0 /\ wallet >= amt[r] /\ Ok
          /\ trusted' = [trusted EXCEPT ![r] = ShouldTrust(r, wallet)]
          /\ amt' = [amt EXCEPT ![r] = IF ShouldTrust(r, wallet) THEN 0 ELSE @]
          /\ Goto(r, "readToken")
          /\ UNCHANGED <<try, fallback, err>>
    /\ UNCHANGED <<rows, input, funding, amounts, flags, est, retry, goroutine, ledger, post>>

(* PreConsumeTokenQuota, first half: the token is read and compared.  A    *)
(* zero amount skips the token; the playground has no token to debit.      *)
TokenCovers(n) == TokenUnlimited \/ token >= n

ReadToken(r) ==
    /\ pc[r] = "readToken"
    /\ \/ /\ amt[r] = 0 \/ Playground(r)
          /\ tok' = [tok EXCEPT ![r] = amt[r]]
          /\ Ok /\ Goto(r, "preFunding") /\ UNCHANGED err
       \/ /\ amt[r] > 0 /\ ~Playground(r) /\ TokenCovers(amt[r])
          /\ Ok /\ Goto(r, "debitToken") /\ UNCHANGED <<tok, err>>
       \/ /\ amt[r] > 0 /\ ~Playground(r)
          /\ (~TokenCovers(amt[r]) /\ Ok) \/ QueryFails("token")
          /\ OpenError(r, "other") /\ UNCHANGED tok
    /\ UNCHANGED <<rows, input, funding, pre, extra, held, trusted, flags,
                   est, try, fallback, amt, retry, goroutine, ledger, post>>

(* PreConsumeTokenQuota, second half: the unconditional debit.             *)
DebitToken(r) ==
    /\ pc[r] = "debitToken"
    /\ \/ /\ Ok /\ DecreaseTokenQuota(amt[r]) /\ SpendToken(r, amt[r])
          /\ tok' = [tok EXCEPT ![r] = amt[r]]
          /\ Goto(r, "preFunding") /\ UNCHANGED err
       \/ /\ Fails(r, "token") /\ OpenError(r, "other")
          /\ UNCHANGED <<rows, ledger, tok>>
    /\ UNCHANGED <<input, funding, pre, extra, held, trusted, flags,
                   est, try, fallback, amt, retry, goroutine, post>>

(* funding.PreConsume succeeded: the session exists. *)
SessionOpens(r) ==
    /\ funding' = [funding EXCEPT ![r] = try[r]]
    /\ pre' = [pre EXCEPT ![r] = amt[r]]
    /\ held' = [held EXCEPT ![r] = amt[r]]
    /\ Goto(r, IF kind[r] = "task" THEN "upstream" ELSE "loop")
    /\ UNCHANGED err

FundingFails(r, e) ==
    /\ err' = [err EXCEPT ![r] = e]
    /\ Goto(r, "rollbackToken")
    /\ UNCHANGED <<rows, ledger, funding, pre, held>>

(* WalletFunding.PreConsume *)
PreConsumeWallet(r) ==
    /\ pc[r] = "preFunding" /\ try[r] = "wallet"
    /\ \/ Ok /\ DecreaseUserQuota(amt[r]) /\ Spend(r, amt[r]) /\ SessionOpens(r)
       \/ amt[r] > 0 /\ Fails(r, "wallet") /\ FundingFails(r, "other")
    /\ UNCHANGED <<input, tok, extra, trusted, flags, est, try, fallback, amt, retry,
                   goroutine, post>>

(* SubscriptionFunding.PreConsume: one transaction that writes the record  *)
(* of the request and raises the used amount.  An error of the locking     *)
(* query is answered like the lack of a subscription, and so falls back;   *)
(* the other statements of the transaction return their own error.         *)
SubCovers(n) == subActive /\ (SubTotal > 0 => subUsed + n <= SubTotal)

PreConsumeSubscription(r) ==
    /\ pc[r] = "preFunding" /\ try[r] = "sub"
    /\ \/ /\ Ok /\ SubCovers(amt[r])
          /\ subUsed' = subUsed + amt[r]
          /\ rec' = [rec EXCEPT ![r] = "consumed"]
          /\ UNCHANGED <<wallet, token, subActive>>
          /\ Spend(r, amt[r]) /\ SessionOpens(r)
       \/ /\ (~SubCovers(amt[r]) /\ Ok) \/ QueryFails("sub")
          /\ FundingFails(r, "insufficient")
       \/ Fails(r, "sub") /\ FundingFails(r, "other")
    /\ UNCHANGED <<input, tok, extra, trusted, flags, est, try, fallback, amt, retry,
                   goroutine, post>>

(* Mutant: the token keeps the debit of a try that failed. *)
RollbackTokenForgotten(r) ==
    /\ pc[r] = "rollbackToken" /\ Ok
    /\ tok' = [tok EXCEPT ![r] = 0]
    /\ Goto(r, "openFailed")
    /\ UNCHANGED <<rows, ledger, input, funding, pre, extra, held, trusted, flags, locals,
                   goroutine, post>>

(* preConsume: the funding source failed, the token debit is taken back.   *)
RollbackToken(r) ==
    /\ pc[r] = "rollbackToken"
    /\ \/ /\ tok[r] > 0 /\ ~Playground(r)
          /\ \/ Ok /\ DecreaseTokenQuota(-tok[r]) /\ SpendToken(r, -tok[r])
             \/ Fails(r, "token") /\ UNCHANGED <<rows, ledger>>
       \/ /\ tok[r] = 0 \/ Playground(r)
          /\ Ok /\ UNCHANGED <<rows, ledger>>
    /\ tok' = [tok EXCEPT ![r] = 0]
    /\ Goto(r, "openFailed")
    /\ UNCHANGED <<input, funding, pre, extra, held, trusted, flags, locals, goroutine, post>>

(* NewBillingSession: only a lack of user quota falls back to the other    *)
(* source, and a subscription only if it allows wallet overflow, which is  *)
(* a query of its own.  A relay request without a session then ends;       *)
(* inside the retry loop (a free model that became paid, or a task) the    *)
(* error ends the loop, except that a task may try again.                  *)
WantsFallBack(r) == err[r] = "insufficient" /\ fallback[r]
MayFallBack(r) == WantsFallBack(r) /\ (try[r] = "sub" => (WalletOverflow \/ ~subActive))

OpenFailed(r) ==
    /\ pc[r] = "openFailed"
    /\ \/ /\ MayFallBack(r) /\ Ok
          /\ OpenWith(r, IF try[r] = "wallet" THEN "sub" ELSE "wallet", FALSE)
          /\ UNCHANGED retry
       \/ /\ \/ ~MayFallBack(r) /\ Ok
             \/ WantsFallBack(r) /\ try[r] = "sub" /\ QueryFails("sub")
          /\ \/ Goto(r, "rejected") /\ UNCHANGED retry
             \/ /\ kind[r] = "task" /\ retry[r] < RetryTimes
                /\ retry' = [retry EXCEPT ![r] = @ + 1]
                /\ Goto(r, "loop")
          /\ UNCHANGED <<try, fallback, err, amt>>
    /\ trusted' = [trusted EXCEPT ![r] = FALSE]
    /\ UNCHANGED <<rows, input, funding, amounts, flags, est, goroutine, ledger, post>>

-----------------------------------------------------------------------------
(* The retry loop of Relay and RelayTask.                                  *)

(* getChannel finds no channel. *)
NoChannel(r) ==
    /\ pc[r] = "loop"
    /\ Goto(r, "failed")
    /\ UNCHANGED <<rows, input, session, locals, goroutine, ledger, post, flt>>

(* A price without tiers, or a group that is free: nothing to reserve.     *)
SelectChannel(r) ==
    /\ pc[r] = "loop"
    /\ Goto(r, "upstream")
    /\ UNCHANGED <<rows, input, session, locals, goroutine, ledger, post, flt>>

(* RelayTaskSubmit prices the attempt and opens a session unless an        *)
(* earlier attempt has.                                                    *)
PrepareTask(r) ==
    /\ pc[r] = "loop" /\ kind[r] = "task" /\ ~Opened(r)
    /\ \E e \in Estimates : est' = [est EXCEPT ![r] = e]
    /\ Goto(r, "open")
    /\ UNCHANGED <<rows, input, session, try, fallback, err, amt, retry, goroutine, ledger,
                   post, flt>>

(* PrepareTieredBillingForSelectedGroup for a paid group: opens a session  *)
(* if the first group was free, otherwise BillingSession.Reserve, which    *)
(* does nothing for a trusted session or a target already held.            *)
PrepareTieredBilling(r) ==
    /\ pc[r] = "loop" /\ kind[r] # "task"
    /\ \E target \in Estimates :
         \/ /\ ~Opened(r)
            /\ est' = [est EXCEPT ![r] = target]
            /\ Goto(r, "open") /\ UNCHANGED amt
         \/ /\ Opened(r) /\ (trusted[r] \/ target <= pre[r])
            /\ Goto(r, "upstream") /\ UNCHANGED <<est, amt>>
         \/ /\ Opened(r) /\ ~trusted[r] /\ target > pre[r]
            /\ amt' = [amt EXCEPT ![r] = target - pre[r]]
            /\ Goto(r, "reserveFunding") /\ UNCHANGED est
    /\ UNCHANGED <<rows, input, session, try, fallback, err, retry, goroutine, ledger, post, flt>>

(* reserveFunding: the wallet goes into debt rather than refuse. *)
ReserveFunding(r) ==
    /\ pc[r] = "reserveFunding"
    /\ \/ /\ Ok /\ SourceAccepts(funding[r], amt[r])
          /\ DebitSource(funding[r], amt[r]) /\ Spend(r, amt[r])
          /\ held' = [held EXCEPT ![r] = IF funding[r] = "wallet" THEN @ + amt[r] ELSE @]
          /\ Goto(r, "reserveRead")
       \/ /\ (~SourceAccepts(funding[r], amt[r]) /\ Ok) \/ Fails(r, funding[r])
          /\ Goto(r, "failed")
          /\ UNCHANGED <<rows, ledger, held>>
    /\ UNCHANGED <<input, funding, pre, tok, extra, trusted, flags, locals, goroutine, post>>

Reserved(r) ==
    /\ pre' = [pre EXCEPT ![r] = @ + amt[r]]
    /\ tok' = [tok EXCEPT ![r] = @ + amt[r]]
    /\ extra' = [extra EXCEPT ![r] = @ + amt[r]]
    /\ Goto(r, "upstream")

(* reserveToken: PreConsumeTokenQuota again, read then debit. *)
ReserveRead(r) ==
    /\ pc[r] = "reserveRead"
    /\ \/ Playground(r) /\ Ok /\ Reserved(r)
       \/ /\ ~Playground(r) /\ TokenCovers(amt[r])
          /\ Ok /\ Goto(r, "reserveDebit") /\ UNCHANGED <<pre, tok, extra>>
       \/ /\ ~Playground(r)
          /\ (~TokenCovers(amt[r]) /\ Ok) \/ QueryFails("token")
          /\ Goto(r, "reserveRollback") /\ UNCHANGED <<pre, tok, extra>>
    /\ UNCHANGED <<rows, input, funding, held, trusted, flags, locals, goroutine, ledger, post>>

ReserveDebit(r) ==
    /\ pc[r] = "reserveDebit"
    /\ \/ Ok /\ DecreaseTokenQuota(amt[r]) /\ SpendToken(r, amt[r]) /\ Reserved(r)
       \/ /\ Fails(r, "token") /\ Goto(r, "reserveRollback")
          /\ UNCHANGED <<rows, ledger, pre, tok, extra>>
    /\ UNCHANGED <<input, funding, held, trusted, flags, locals, goroutine, post>>

(* Mutant: the rollback of the wallet leaves consumed as it was. *)
ReserveRollbackKeepsHeld(r) ==
    /\ pc[r] = "reserveRollback"
    /\ Ok /\ DebitSource(funding[r], -amt[r]) /\ Spend(r, -amt[r])
    /\ Goto(r, "failed")
    /\ UNCHANGED <<input, session, locals, goroutine, post>>

(* Mutant: the rollback also returns token quota that was never debited. *)
ReserveRollbackWithToken(r) ==
    /\ pc[r] = "reserveRollback" /\ funding[r] = "wallet"
    /\ Ok /\ wallet' = wallet + amt[r] /\ token' = token + amt[r]
    /\ spent' = [spent EXCEPT ![r] = @ - amt[r]]
    /\ tokenSpent' = [tokenSpent EXCEPT ![r] = @ - amt[r]]
    /\ held' = [held EXCEPT ![r] = @ - amt[r]]
    /\ Goto(r, "failed")
    /\ UNCHANGED <<subUsed, subActive, rec, input, funding, pre, tok, extra, trusted, flags,
                   locals, goroutine, post>>

(* rollbackFundingReserve: a failed wallet rollback stays in consumed, so  *)
(* that Refund returns it; a failed subscription rollback is only logged.  *)
ReserveRollback(r) ==
    /\ pc[r] = "reserveRollback"
    /\ \/ /\ Ok /\ DebitSource(funding[r], -amt[r]) /\ Spend(r, -amt[r])
          /\ held' = [held EXCEPT ![r] = IF funding[r] = "wallet" THEN @ - amt[r] ELSE @]
       \/ Fails(r, funding[r]) /\ UNCHANGED <<rows, ledger, held>>
    /\ Goto(r, "failed")
    /\ UNCHANGED <<input, funding, pre, tok, extra, trusted, flags, locals, goroutine, post>>

(* The upstream answered: the usage is priced and SettleBilling follows.   *)
(* A request without a session settles with PostConsumeQuota.              *)
UpstreamOk(r) ==
    /\ pc[r] = "upstream"
    /\ \E a \in Actuals :
         /\ amt' = [amt EXCEPT ![r] = a]
         /\ Goto(r, IF Opened(r) THEN "settleFunding"
                    ELSE IF a = 0 THEN "done" ELSE "postFunding")
    /\ UNCHANGED <<rows, input, session, opening, retry, goroutine, ledger, post, flt>>

(* The upstream failed: shouldRetry goes round the loop, or the request    *)
(* fails, perhaps for a policy violation that carries a fee.               *)
UpstreamError(r) ==
    /\ pc[r] = "upstream"
    /\ \/ /\ retry[r] < RetryTimes
          /\ retry' = [retry EXCEPT ![r] = @ + 1]
          /\ Goto(r, "loop")
       \/ UNCHANGED retry /\ Goto(r, "failed")
       \/ kind[r] # "task" /\ ViolationFee > 0 /\ UNCHANGED retry /\ Goto(r, "violation")
    /\ UNCHANGED <<rows, input, session, opening, amt, goroutine, ledger, post, flt>>

-----------------------------------------------------------------------------
(* BillingSession.Settle holds the session's mutex throughout; its two     *)
(* statements interleave with other requests.  An error of the funding     *)
(* source leaves the session unsettled (the caller only logs it); an error *)
(* of the token statement is logged and the session is settled.  Every     *)
(* caller settles once, at the end of its handler, so the early returns of *)
(* Settle for a session already settled decide nothing.                    *)

(* Mutant: the settlement forgets what Reserve added. *)
SettleDeltaWithoutReserve(r) == amt[r] - (pre[r] - extra[r])

SettleDelta(r) == amt[r] - pre[r]

SettleFunding(r) ==
    /\ pc[r] = "settleFunding"
    /\ \/ /\ SettleDelta(r) = 0 /\ Ok
          /\ settled' = [settled EXCEPT ![r] = TRUE]
          /\ Goto(r, "done")
          /\ UNCHANGED <<rows, ledger, fundingSettled>>
       \/ /\ SettleDelta(r) # 0 /\ Ok /\ SourceAccepts(funding[r], SettleDelta(r))
          /\ DebitSource(funding[r], SettleDelta(r)) /\ Spend(r, SettleDelta(r))
          /\ fundingSettled' = [fundingSettled EXCEPT ![r] = TRUE]
          /\ Goto(r, "settleToken")
          /\ UNCHANGED settled
       \/ /\ SettleDelta(r) # 0
          /\ (~SourceAccepts(funding[r], SettleDelta(r)) /\ Ok) \/ Fails(r, funding[r])
          /\ Goto(r, "unsettled")
          /\ UNCHANGED <<rows, ledger, settled, fundingSettled>>
    /\ UNCHANGED <<input, funding, amounts, trusted, refunded, locals, goroutine, post>>

(* Mutant: a failed token statement sends the whole settlement round again. *)
SettleTokenRetries(r) ==
    /\ pc[r] = "settleToken"
    /\ \/ /\ Ok /\ DecreaseTokenQuota(SettleDelta(r)) /\ SpendToken(r, SettleDelta(r))
          /\ settled' = [settled EXCEPT ![r] = TRUE]
          /\ Goto(r, "done")
       \/ /\ Fails(r, "token") /\ UNCHANGED <<rows, ledger, settled>>
          /\ Goto(r, "settleFunding")
    /\ UNCHANGED <<input, funding, amounts, trusted, fundingSettled, refunded, locals,
                   goroutine, post>>

(* Mutant: the settlement of a playground request charges the token. *)
SettleTokenOfPlayground(r) ==
    /\ pc[r] = "settleToken"
    /\ \/ Ok /\ DecreaseTokenQuota(SettleDelta(r)) /\ SpendToken(r, SettleDelta(r))
       \/ Fails(r, "token") /\ UNCHANGED <<rows, ledger>>
    /\ settled' = [settled EXCEPT ![r] = TRUE]
    /\ Goto(r, "done")
    /\ UNCHANGED <<input, funding, amounts, trusted, fundingSettled, refunded, locals,
                   goroutine, post>>

SettleToken(r) ==
    /\ pc[r] = "settleToken"
    /\ \/ Playground(r) /\ Ok /\ UNCHANGED <<rows, ledger>>
       \/ /\ ~Playground(r) /\ Ok
          /\ DecreaseTokenQuota(SettleDelta(r)) /\ SpendToken(r, SettleDelta(r))
       \/ ~Playground(r) /\ Fails(r, "token") /\ UNCHANGED <<rows, ledger>>
    /\ settled' = [settled EXCEPT ![r] = TRUE]
    /\ Goto(r, "done")
    /\ UNCHANGED <<input, funding, amounts, trusted, fundingSettled, refunded, locals,
                   goroutine, post>>

-----------------------------------------------------------------------------
(* The deferred error path: Refund marks the session and starts a          *)
(* goroutine; the handler goes on without waiting for it.                  *)

(* Mutant: what a subscription holds is forgotten. *)
NeedsRefundOfWallet(r) ==
    /\ Opened(r)
    /\ ~settled[r] /\ ~refunded[r] /\ ~fundingSettled[r]
    /\ funding[r] = "wallet" /\ tok[r] > 0

NeedsRefund(r) ==
    /\ Opened(r)
    /\ ~settled[r] /\ ~refunded[r] /\ ~fundingSettled[r]
    /\ tok[r] > 0 \/ (funding[r] = "sub" /\ held[r] > 0)

Refund(r) ==
    /\ pc[r] \in {"failed", "violation"}
    /\ \/ /\ NeedsRefund(r)
          /\ refunded' = [refunded EXCEPT ![r] = TRUE]
          /\ job' = [job EXCEPT ![r] = "funding"]
       \/ ~NeedsRefund(r) /\ UNCHANGED <<refunded, job>>
    /\ \/ pc[r] = "violation" /\ amt' = [amt EXCEPT ![r] = ViolationFee] /\ Goto(r, "postFunding")
       \/ pc[r] = "failed" /\ UNCHANGED amt /\ Goto(r, "done")
    /\ UNCHANGED <<rows, input, funding, amounts, trusted, fundingSettled, settled,
                   opening, retry, attempts, ledger, post, flt>>

(* Mutant: the fee is always taken from the wallet. *)
PostSourceWallet(r) == "wallet"

(* PostConsumeQuota, for the violation fee and for a settlement without a  *)
(* session: the funding source the session used, then the token.           *)
PostSource(r) == IF Opened(r) THEN funding[r] ELSE "wallet"

PostFunding(r) ==
    /\ pc[r] = "postFunding"
    /\ \/ /\ Ok /\ SourceAccepts(PostSource(r), amt[r])
          /\ DebitSource(PostSource(r), amt[r])
          /\ posted' = [posted EXCEPT ![r] = @ + amt[r]]
          /\ Goto(r, IF Playground(r) THEN "done" ELSE "postToken")
       \/ /\ (~SourceAccepts(PostSource(r), amt[r]) /\ Ok) \/ Fails(r, PostSource(r))
          /\ Goto(r, "done")
          /\ UNCHANGED <<rows, posted>>
    /\ UNCHANGED <<input, session, locals, goroutine, ledger, tokenPosted>>

PostToken(r) ==
    /\ pc[r] = "postToken"
    /\ \/ /\ Ok /\ DecreaseTokenQuota(amt[r])
          /\ tokenPosted' = [tokenPosted EXCEPT ![r] = @ + amt[r]]
       \/ Fails(r, "token") /\ UNCHANGED <<rows, tokenPosted>>
    /\ Goto(r, "done")
    /\ UNCHANGED <<input, session, locals, goroutine, ledger, posted>>

-----------------------------------------------------------------------------
(* The refund goroutine.                                                   *)

JobGoto(r, l) == job' = [job EXCEPT ![r] = l]

(* WalletFunding.Refund: tried once, because it is not idempotent. *)
RefundWallet(r) ==
    /\ job[r] = "funding" /\ funding[r] = "wallet"
    /\ \/ Ok /\ DecreaseUserQuota(-held[r]) /\ Spend(r, -held[r])
       \/ held[r] > 0 /\ Fails(r, "wallet") /\ UNCHANGED <<rows, ledger>>
    /\ JobGoto(r, "extra")
    /\ UNCHANGED <<input, session, pc, locals, attempts, post>>

(* SubscriptionFunding.Refund: refundWithRetry makes three tries of        *)
(* RefundSubscriptionPreConsume.                                           *)
MaxAttempts == 3

TryAgain(r) ==
    /\ attempts' = [attempts EXCEPT ![r] = @ + 1]
    /\ JobGoto(r, IF attempts[r] + 1 < MaxAttempts THEN "funding" ELSE "extra")

(* A try that succeeds returns the quota and marks the record. *)
RefundSubscription(r) ==
    /\ job[r] = "funding" /\ funding[r] = "sub" /\ rec[r] # "refunded"
    /\ Ok
    /\ subUsed' = NewUsed(-held[r])
    /\ rec' = [rec EXCEPT ![r] = "refunded"]
    /\ UNCHANGED <<wallet, token, subActive>>
    /\ Spend(r, -held[r])
    /\ JobGoto(r, "extra")
    /\ UNCHANGED <<input, session, pc, locals, attempts, post>>

(* A try that fails before PostConsumeUserSubscriptionDelta commits. *)
RefundSubscriptionFails(r) ==
    /\ job[r] = "funding" /\ funding[r] = "sub"
    /\ Fails(r, "sub")
    /\ TryAgain(r)
    /\ UNCHANGED <<rows, input, session, pc, locals, ledger, post>>

(* PostConsumeUserSubscriptionDelta runs in a transaction of its own on    *)
(* another connection: it has committed when the save of the record, or    *)
(* the commit of the enclosing transaction, fails.                         *)
RefundSubscriptionHalf(r) ==
    /\ job[r] = "funding" /\ funding[r] = "sub" /\ rec[r] # "refunded"
    /\ Fails(r, "subRecord")
    /\ PostConsumeUserSubscriptionDelta(-held[r])
    /\ Spend(r, -held[r])
    /\ TryAgain(r)
    /\ UNCHANGED <<input, session, pc, locals, post>>

(* Mutant: the reserved quota is returned on its own for a wallet too. *)
HasExtraAlways(r) == extra[r] > 0

(* The quota Reserve added to a subscription has no record: it is returned *)
(* by its own statement.                                                   *)
HasExtra(r) == extra[r] > 0 /\ funding[r] = "sub"

RefundExtra(r) ==
    /\ job[r] = "extra"
    /\ \/ /\ HasExtra(r) /\ Ok
          /\ PostConsumeUserSubscriptionDelta(-extra[r]) /\ Spend(r, -extra[r])
       \/ HasExtra(r) /\ Fails(r, "sub") /\ UNCHANGED <<rows, ledger>>
       \/ ~HasExtra(r) /\ Ok /\ UNCHANGED <<rows, ledger>>
    /\ JobGoto(r, "token")
    /\ UNCHANGED <<input, session, pc, locals, attempts, post>>

(* Mutant: the playground gets back token quota it never paid. *)
HasTokenAlways(r) == tok[r] > 0

HasToken(r) == tok[r] > 0 /\ ~Playground(r)

RefundToken(r) ==
    /\ job[r] = "token"
    /\ \/ HasToken(r) /\ Ok /\ DecreaseTokenQuota(-tok[r]) /\ SpendToken(r, -tok[r])
       \/ HasToken(r) /\ Fails(r, "token") /\ UNCHANGED <<rows, ledger>>
       \/ ~HasToken(r) /\ Ok /\ UNCHANGED <<rows, ledger>>
    /\ JobGoto(r, "done")
    /\ UNCHANGED <<input, session, pc, locals, attempts, post>>

-----------------------------------------------------------------------------
(* The environment.                                                        *)

(* The subscription reaches its end time.                                  *)
SubscriptionExpires ==
    /\ subActive
    /\ subActive' = FALSE
    /\ UNCHANGED <<wallet, token, subUsed, rec, input, session, pc, locals, goroutine, ledger,
                   post, flt, period>>

(* Mutant: a new period starts with the amount used in the old one. *)
ResetKeepsUsed ==
    /\ MayReset /\ ~reset /\ subActive /\ subUsed > 0
    /\ reset' = TRUE
    /\ carried' = [r \in Reqs |-> IF funding[r] = "sub" THEN spent[r] + posted[r] ELSE 0]
    /\ closed' = {r \in Reqs : Finished(r)}
    /\ UNCHANGED <<rows, input, session, pc, locals, goroutine, ledger, post, flt>>

(* The period of the subscription ends, while requests hold quota of it:   *)
(* the reset task, an administrator, or the head of a pre-consume, which   *)
(* is the same as a reset just before it.  (A reset of an unused           *)
(* subscription changes nothing.)                                          *)
SubscriptionResets ==
    /\ MayReset /\ ~reset /\ subActive /\ subUsed > 0
    /\ subUsed' = 0
    /\ reset' = TRUE
    /\ carried' = [r \in Reqs |-> IF funding[r] = "sub" THEN spent[r] + posted[r] ELSE 0]
    /\ closed' = {r \in Reqs : Finished(r)}
    /\ UNCHANGED <<wallet, token, subActive, rec, input, session, pc, locals, goroutine,
                   ledger, post, flt>>

(* The process crashes: sessions and refund goroutines live in memory.     *)
Crash ==
    /\ MayCrash
    /\ \E r \in Reqs : ~(pc[r] = "idle" \/ Ended(r)) \/ job[r] \notin {"none", "done", "dead"}
    /\ pc' = [r \in Reqs |-> IF pc[r] = "idle" \/ Ended(r) THEN pc[r] ELSE "dead"]
    /\ job' = [r \in Reqs |-> IF job[r] \in {"none", "done"} THEN job[r] ELSE "dead"]
    /\ UNCHANGED <<rows, input, session, locals, attempts, ledger, post, flt, period>>

Handler(r) ==
    /\ UNCHANGED period
    /\ \/ NewBillingSession(r) \/ ReadWallet(r) \/ ReadToken(r) \/ DebitToken(r)
       \/ PreConsumeWallet(r) \/ PreConsumeSubscription(r) \/ RollbackToken(r) \/ OpenFailed(r)
       \/ NoChannel(r) \/ SelectChannel(r) \/ PrepareTask(r) \/ PrepareTieredBilling(r)
       \/ ReserveFunding(r) \/ ReserveRead(r) \/ ReserveDebit(r) \/ ReserveRollback(r)
       \/ UpstreamOk(r) \/ UpstreamError(r)
       \/ SettleFunding(r) \/ SettleToken(r)
       \/ Refund(r) \/ PostFunding(r) \/ PostToken(r)

RefundJob(r) ==
    /\ UNCHANGED period
    /\ \/ RefundWallet(r) \/ RefundSubscription(r) \/ RefundSubscriptionFails(r)
       \/ RefundSubscriptionHalf(r) \/ RefundExtra(r) \/ RefundToken(r)

(* Nobody is obliged to send another request.                              *)
Quiescent ==
    /\ \A r \in Reqs : (pc[r] = "idle" \/ Ended(r)) /\ job[r] \in {"none", "done", "dead"}
    /\ UNCHANGED vars

Next ==
    \/ \E r \in Reqs : Begin(r) \/ Handler(r) \/ RefundJob(r)
    \/ SubscriptionExpires
    \/ SubscriptionResets
    \/ Crash
    \/ Quiescent

(* Handlers and goroutines are scheduled by the Go runtime, statements and *)
(* upstream calls return (the HTTP client has timeouts) and the retry loop *)
(* is bounded.  Nothing makes a request arrive.                            *)
Fairness == \A r \in Reqs : WF_vars(Handler(r)) /\ WF_vars(RefundJob(r))

Spec == Init /\ [][Next]_vars /\ Fairness

-----------------------------------------------------------------------------
(* Properties.                                                             *)

TypeRows ==
    /\ wallet \in Int /\ token \in Int /\ subUsed \in Nat /\ subActive \in BOOLEAN
    /\ rec \in [Reqs -> {"none", "consumed", "refunded"}]
TypeInput ==
    /\ kind \in [Reqs -> AllKinds]
    /\ pref \in [Reqs -> AllPrefs]
    /\ authToken \in [Reqs -> Int]
TypeSession ==
    /\ funding \in [Reqs -> Sources \cup {"none"}]
    /\ pre \in [Reqs -> Nat] /\ tok \in [Reqs -> Nat] /\ extra \in [Reqs -> Nat]
    /\ held \in [Reqs -> Int]
TypeFlags ==
    /\ trusted \in [Reqs -> BOOLEAN] /\ fundingSettled \in [Reqs -> BOOLEAN]
    /\ settled \in [Reqs -> BOOLEAN] /\ refunded \in [Reqs -> BOOLEAN]
    /\ fallback \in [Reqs -> BOOLEAN]
TypeHandler ==
    /\ pc \in [Reqs -> PCs]
    /\ est \in [Reqs -> Nat] /\ amt \in [Reqs -> Nat] /\ retry \in [Reqs -> Nat]
    /\ try \in [Reqs -> Sources]
    /\ err \in [Reqs -> {"none", "insufficient", "other"}]
    /\ job \in [Reqs -> Jobs] /\ attempts \in [Reqs -> Nat]
TypeHistory ==
    /\ spent \in [Reqs -> Int] /\ tokenSpent \in [Reqs -> Int]
    /\ posted \in [Reqs -> Int] /\ tokenPosted \in [Reqs -> Int]
    /\ faults \in Nat
    /\ hit \in [Reqs -> SUBSET FaultPoints]
TypePeriod ==
    /\ reset \in BOOLEAN /\ carried \in [Reqs -> Int] /\ closed \subseteq Reqs

(* Types; beyond plain types, pre-consumed, token and reserved amounts     *)
(* never go below zero and the subscription's used amount is clamped.      *)
TypeOK == TypeRows /\ TypeInput /\ TypeSession /\ TypeFlags /\ TypeHandler /\ TypeHistory
          /\ TypePeriod

(* Whatever fails or crashes, no request ever gets back more than was      *)
(* taken for it, from its funding source or from the token: the rollbacks  *)
(* of preConsume and Reserve, the refund goroutine and the negative        *)
(* settlement never stack up.  (A refund transaction that fails after its  *)
(* nested transaction committed is what RefundIdempotent is about.)        *)
NoOverRefund ==
    \A r \in Reqs :
        /\ "subRecord" \notin hit[r] => spent[r] >= 0
        /\ tokenSpent[r] >= 0

(* RefundSubscriptionPreConsume is called up to three times by             *)
(* refundWithRetry because it "is idempotent" by request id: the tries of  *)
(* one request together return no more of the subscription than it took.   *)
RefundIdempotent == \A r \in Reqs : funding[r] = "sub" => spent[r] >= 0

OnToken(r, n) == IF Playground(r) THEN 0 ELSE n

(* A settled session has charged its funding source exactly the actual     *)
(* cost, however often it was reserved, retried or fell back before; so    *)
(* has the token unless one of its statements failed (Settle logs that).   *)
SettledExact ==
    \A r \in Reqs : settled[r] =>
        /\ spent[r] = amt[r]
        /\ "token" \notin hit[r] => tokenSpent[r] = OnToken(r, amt[r])

(* What a request owes in the end: the actual cost; what it had            *)
(* pre-consumed if Settle returned an error; otherwise nothing.            *)
Bill(r) == IF settled[r] THEN amt[r]
           ELSE IF pc[r] = "unsettled" THEN pre[r]
           ELSE 0

(* A finished request none of whose statements failed has paid exactly its *)
(* bill, from its source and from the token; and it keeps a pre-consumed   *)
(* amount only when the subscription had no room left for the settlement:  *)
(* on every other way out of the handler what was held is given back.      *)

FinishedExact ==
    \A r \in Reqs : Finished(r) /\ hit[r] = {} =>
        /\ spent[r] = Bill(r) /\ tokenSpent[r] = OnToken(r, Bill(r))
        /\ ~settled[r] /\ spent[r] > 0 => pc[r] = "unsettled" /\ funding[r] = "sub"

(* Once the funding source is committed, nothing touches it again for this *)
(* request: no refund starts and no second settlement is applied           *)
(* (fundingSettled in BillingSession.Settle).                              *)
CommittedFrozen ==
    [][\A r \in Reqs : fundingSettled[r] \/ settled[r] =>
          spent'[r] = spent[r] /\ job'[r] = job[r]]_vars

(* Quota that a request holds, of the wallet or of the subscription, is    *)
(* settled or given back in the end, unless the process dies or the        *)
(* settlement itself was refused or failed (an error SettleBilling only    *)
(* logs): no path through the handler forgets the session.                 *)
HoldsResolve ==
    \A r \in Reqs :
        (Opened(r) /\ pre[r] > 0)
            ~> \/ settled[r]
               \/ job[r] = "done" /\ (hit[r] = {} => spent[r] = 0 /\ tokenSpent[r] = 0)
               \/ pc[r] = "dead" \/ job[r] = "dead"
               \/ pc[r] = "unsettled"

(* The session as a hold on its funding source, and as a hold on the       *)
(* token.  The source is captured as soon as it is settled, the token only *)
(* when Settle has come to its end.                                        *)
SourcePhase(r) ==
    IF fundingSettled[r] \/ settled[r] THEN "captured"
    ELSE IF refunded[r] THEN "releasing" ELSE "open"
TokenPhase(r) ==
    IF settled[r] THEN "captured"
    ELSE IF refunded[r] THEN "releasing" ELSE "open"
LostRecord == {r \in Reqs : "subRecord" \in hit[r]}

SourceHold == INSTANCE QuotaHold WITH
    phase <- [r \in Reqs |-> SourcePhase(r)], taken <- spent, unsafe <- LostRecord
TokenHold == INSTANCE QuotaHold WITH
    phase <- [r \in Reqs |-> TokenPhase(r)], taken <- tokenSpent, unsafe <- {}

(* A session implements the hold on its funding source: while it is open   *)
(* the source is never overdrawn by rollbacks, it is captured or released  *)
(* and never both, a capture is final, and a release only gives back, at   *)
(* most what was taken.                                                    *)
SourceIsHold == SourceHold!Spec

(* The same of the token, whose statements follow those of the source in   *)
(* every one of preConsume, Reserve, Settle and Refund.                    *)
TokenIsHold == TokenHold!Spec

-----------------------------------------------------------------------------
(* The strengthening that makes NoOverRefund, SettledExact and             *)
(* FinishedExact inductive: what a request still has to give back is       *)
(* covered by what was taken for it, and is equal to it as long as none of *)
(* its statements failed.                                                  *)

Reserving == {"reserveRead", "reserveDebit", "reserveRollback"}
Live      == {"loop", "reserveFunding", "upstream", "settleFunding"} \cup Reserving
Leaving   == {"failed", "violation", "postFunding", "postToken", "done"}
Opening   == {"open", "readWallet", "readToken", "debitToken", "preFunding",
              "rollbackToken", "openFailed"}

InFlight(r) == IF pc[r] \in Reserving THEN amt[r] ELSE 0
Owed(r)     == IF funding[r] = "wallet" THEN held[r] ELSE held[r] + extra[r] + InFlight(r)

(* There is no session yet: no funding source was touched, and the token   *)
(* was debited by what preConsume would roll back.                         *)
Unopened(r) ==
    funding[r] = "none" =>
      /\ pre[r] = 0 /\ extra[r] = 0 /\ held[r] = 0
      /\ ~fundingSettled[r] /\ ~settled[r] /\ ~refunded[r]
      /\ job[r] = "none"
      /\ pc[r] \in {"idle", "loop", "upstream", "rejected", "dead"} \cup Opening \cup Leaving
      /\ spent[r] = 0
      /\ tok[r] # 0 => pc[r] \in {"preFunding", "rollbackToken", "dead"}
      /\ pc[r] = "preFunding" => tok[r] = amt[r]
      /\ pc[r] = "debitToken" => ~Playground(r)
      /\ tokenSpent[r] >= OnToken(r, tok[r])
      /\ "token" \notin hit[r] => tokenSpent[r] = OnToken(r, tok[r])

(* Which flags go with which place in the handler. *)
OpenShape(r) ==
    Opened(r) =>
      /\ pc[r] \in Live \cup Leaving \cup {"settleToken", "unsettled", "dead"}
      /\ tok[r] = pre[r]
      /\ refunded[r] <=> job[r] # "none"
      /\ pc[r] \in Live \cup {"settleToken", "unsettled", "failed", "violation"} =>
            job[r] = "none"
      /\ pc[r] = "settleToken" => fundingSettled[r]
      /\ pc[r] = "reserveDebit" => ~Playground(r)
      /\ settled[r] => pc[r] = "done"
      /\ fundingSettled[r] /\ ~settled[r] => pc[r] \in {"settleToken", "dead"}
      /\ fundingSettled[r] \/ settled[r] => job[r] = "none"

(* An open session before settlement and refund. *)
Holding(r) ==
    Opened(r) /\ job[r] = "none" /\ ~fundingSettled[r] /\ ~settled[r] =>
      /\ held[r] >= 0
      /\ spent[r] >= Owed(r)
      /\ (funding[r] = "wallet" \/ pc[r] \in Live \/ (pc[r] # "dead" /\ hit[r] = {})) =>
            spent[r] = Owed(r)
      /\ pc[r] \in Live \/ (pc[r] # "dead" /\ hit[r] = {}) => Owed(r) = pre[r] + InFlight(r)
      /\ tokenSpent[r] >= OnToken(r, tok[r])
      /\ "token" \notin hit[r] => tokenSpent[r] = OnToken(r, tok[r])
      /\ funding[r] = "sub" => rec[r] = "consumed"
      /\ pc[r] \in {"postFunding", "postToken", "done"} => pre[r] = 0
      /\ pc[r] = "unsettled" /\ hit[r] = {} => funding[r] = "sub"

(* Settlement under way or finished. *)
Settling(r) ==
    Opened(r) /\ (fundingSettled[r] \/ settled[r]) =>
      /\ spent[r] = amt[r]
      /\ tokenSpent[r] >= 0
      /\ pc[r] = "settleToken" => tokenSpent[r] >= OnToken(r, tok[r])
      /\ pc[r] = "settleToken" /\ "token" \notin hit[r] => tokenSpent[r] = OnToken(r, tok[r])
      /\ settled[r] /\ "token" \notin hit[r] => tokenSpent[r] = OnToken(r, amt[r])

(* The refund goroutine under way: what is left for it to return. *)
FundingLeft(r) ==
    IF job[r] = "funding" THEN Owed(r)
    ELSE IF job[r] = "extra" /\ funding[r] = "sub" THEN extra[r]
    ELSE 0
TokenLeft(r) == IF job[r] \in {"funding", "extra", "token"} THEN OnToken(r, tok[r]) ELSE 0

Refunding(r) ==
    Opened(r) /\ job[r] # "none" =>
      /\ pc[r] \in {"postFunding", "postToken", "done", "dead"}
      /\ held[r] >= 0
      /\ "subRecord" \notin hit[r] => spent[r] >= FundingLeft(r)
      /\ job[r] # "dead" /\ hit[r] = {} => spent[r] = FundingLeft(r)
      /\ tokenSpent[r] >= TokenLeft(r)
      /\ job[r] # "dead" /\ hit[r] = {} => tokenSpent[r] = TokenLeft(r)
      /\ job[r] = "funding" /\ funding[r] = "sub" => rec[r] = "consumed"

ReqInv(r) == Unopened(r) /\ OpenShape(r) /\ Holding(r) /\ Settling(r) /\ Refunding(r)

(* The inductive invariant. *)
IndInv == TypeOK /\ \A r \in Reqs : ReqInv(r)
=============================================================================
