# Formal model of new-api: quota billing, tasks, leases, login sessions and the playground

new-api is a gateway in front of AI providers.  It authenticates a request by
its API token, picks an upstream channel, forwards the request and charges the
quota it cost.  The charge goes to a *funding source* (the user's wallet or a
subscription) and to the token's own allowance.  The core of the program, and
the part where an error costs somebody money, is the bookkeeping around a
request: hold an estimate, forward, retry, and then settle the actual cost or
give everything back.  Long-running tasks (video, music) are charged at
submission and settled or refunded minutes later by a polling job.

The web panel in front of it has two parts with a concurrency of their own: the
login session that all tabs of a browser share through one rotating cookie, and
the playground, where streams, timers, React's update queue and the user all
write to one conversation.

This directory models these parts in TLA+, checks them with TLC and proves the
safety properties with TLAPS.

## Inventory

| Component | State | Operations | Interacts with |
|---|---|---|---|
| Billing session (`service/billing_session.go`, `funding_source.go`, `billing.go`) | per request: amounts held, flags settled / refunded / fundingSettled / trusted | NewBillingSession, Reserve, Settle, Refund | wallet, token and subscription rows; a refund goroutine |
| Relay handler (`controller/relay.go`, `service/tiered_settle.go`, `violation_fee.go`) | retry counter, session | pre-consume, retry loop, deferred refund, violation fee | session, channel selection, upstream |
| User and token quota (`model/user.go`, `model/token.go`) | `users.quota`, `tokens.remain_quota` | increase, decrease (unconditional) | Redis cache, batch updater |
| Subscriptions (`model/subscription.go`) | amount used and total, period, pre-consume records | pre-consume, post-consume delta, refund, reset, expiry | session; reset task |
| Asynchronous tasks (`service/task_polling.go`, `task_billing.go`, `model/task.go`) | task rows: status, progress, quota | submit, sweep, poll, bulk failure, refund, recalculate | billing session (submission), upstream, system tasks |
| Realtime status query (`relay/relay_task.go`) | a copy of the task row | fetch and write the row | the same rows as polling |
| System tasks (`model/system_task.go`, `service/system_task.go`) | task rows, one lease per type | create, claim, renew, expire, finish | runs the polling passes |
| Quota cache and batch updater (`model/utils.go`, `user_cache.go`, `token_cache.go`) | cached balances, pending increments | fill, increment, flush | the quota statements |
| Realtime (websocket) billing (`service/quota.go`) | session, per-turn usage | charge per turn, settle the total | billing session |
| Midjourney polling (`controller/midjourney.go`) | task rows | poll, refund | system tasks |
| Channel selection (`service/channel_select.go`, `model/channel_cache.go`) | channel cache, auto-group index, affinity | select, disable, rotate keys | relay handler |
| Login sessions, server (`service/auth_session.go`, `model/user_session.go`) | session rows: status, current and previous secret | create, rotate, revoke | the browser's cookie |
| Login session, browser (`web/src/lib/auth-session.ts`, `auth-session-sync.ts`, `http-client.ts`) | per tab: store, epoch, refresh promise; per browser: cookie, lock | bootstrap, refresh, login, logout, events | every call of the panel |
| Playground (`web/src/features/playground`) | messages, generations, buffer, timers, localStorage | send, stream, stop, edit, delete, save, load | relay handler, React |
| Authentication cache (`model/user_auth_cache.go`) | cached user, version | fill, invalidate | every request |
| Payments (`model/topup.go`, `redemption.go`, `checkin.go`) | orders, codes | credit the wallet once | wallet |
| Rate limits, logs, pricing, adaptors, settings, pages of the panel | | | see PROJECT.json |

What is hard here, and what the properties are aimed at (PROJECT.json lists each
hazard at its line):

- a request touches two or three rows in separate statements, with no
  transaction around them, while other requests of the same user do the same;
- balances are read, compared and then debited unconditionally;
- the refund runs in a goroutine beside the handler, which may still charge a fee;
- every statement can fail, and most failures are only logged;
- a session falls back from one source to another, opens late, or is raised
  between retries, and every partial step has its own rollback;
- polling passes overlap (a runner keeps going for a while after losing its
  lease), race the timeout sweep and the user's own status query, and all of them
  write whole rows from copies;
- tabs that know nothing of each other rotate one cookie, and a secret presented
  too late counts as stolen;
- an answer that was asked for before a sign-out, a stop or a new message arrives
  after it.

Correct means: a request that ends has paid its cost or nothing; nothing is
returned that was not taken; a committed settlement is final; no hold is
forgotten; a task is billed once, its row says what it was charged, and a
terminal status is final (two things the code does not always achieve, see the
violation runs); a session that was given up does not come back, and
the tabs do not revoke it themselves; an answer is whole, of its own request, and
not lost or left open.

## Modules

| Module | Role |
|---|---|
| `BillingSession` | the sessions of concurrent requests on one wallet, one token, one subscription |
| `BillingTotals` | the reconciliation of the balances with the sums over all requests |
| `MCBillingSession` | instances for TLC |
| `BillingSessionProofs` | theorems about single requests |
| `SumLemmas` | sums of a function over a finite set |
| `BillingTotalsProofs` | the theorems of `BillingTotals` |
| `QuotaHold` | abstract specification: a hold on one account, captured once or released |
| `BillingHoldProofs` | the theorems that a session implements `QuotaHold` on its source and on its token |
| `TaskBilling` | task rows, polling passes, sweep, status queries and the billing of tasks |
| `MCTaskBilling` | instances for TLC |
| `TaskBillingProofs` | its theorems |
| `SystemTask` | rows, lease, runners and goroutines of one type of system task |
| `MCSystemTask` | instances for TLC |
| `SystemTaskProofs` | its theorems |
| `AuthTabs` | the tabs of a browser, their cookie, and the refresh and logout endpoints |
| `AuthTabsProofs` | its theorems |
| `PlaygroundChat` | one conversation: requests, buffer, timers, React's queue, storage |
| `MCPlaygroundChat` | instances for TLC |
| `PlaygroundProofs` | its theorems |

### BillingSession

Every request has a program counter `pc`; one step is one database statement or
transaction, or one call of the upstream.  The variables are the rows
(`wallet`, `token`, `subUsed`, `subActive`, `rec`), the fields of the Go
`BillingSession` struct under their own or shortened names (`pre` is
`preConsumedQuota`, `tok` is `tokenConsumed`, `extra` is `extraReserved`, `held`
is the `consumed` / `preConsumed` of the funding source), the locals of the
handler, and the refund goroutine (`job`, `attempts`).  `spent`, `tokenSpent`,
`posted`, `tokenPosted`, `faults` and `hit` are history: they record what really
went through, and the code does not have them.

| Steps | Code |
|---|---|
| `Begin` | authentication and the head of `Relay`: the token's quota seen at authentication, the estimate |
| `NewBillingSession`, `ReadWallet`, `ReadToken`, `DebitToken`, `PreConsumeWallet`, `PreConsumeSubscription`, `RollbackToken`, `OpenFailed` | `NewBillingSession` and `preConsume`, with fallback |
| `NoChannel`, `SelectChannel`, `PrepareTask`, `PrepareTieredBilling`, `UpstreamOk`, `UpstreamError` | one turn of the retry loop of `Relay` or `RelayTask` |
| `ReserveFunding`, `ReserveRead`, `ReserveDebit`, `ReserveRollback` | `Reserve` |
| `SettleFunding`, `SettleToken` | `Settle` |
| `Refund`, `RefundWallet`, `RefundSubscription*`, `RefundExtra`, `RefundToken` | `Refund` and its goroutine, with `refundWithRetry` |
| `PostFunding`, `PostToken` | `PostConsumeQuota`, for the violation fee and for a cost without a session |
| `SubscriptionResets` | `maybeResetUserSubscriptionWithPlanTx`, from the reset task or the head of a pre-consume, and `resetUserSubscriptionTx` of an administrator |
| `SubscriptionExpires`, `Crash` | the environment |

The mutex of a session is not modelled as a lock: the calls on one session come
from one handler and its goroutine, and the goroutine works on copies.  A handler
settles its session once, so the guards at the head of `Settle` (already settled,
already refunded) decide nothing here.

A request's bill is its actual cost once the session is settled.  If the
subscription refuses the settlement, `Settle` returns the error, which is only
logged: the handler ends as `unsettled`, is not refunded, and has paid what it had
pre-consumed.  `FinishedExact` and `HoldsResolve` except exactly this end; every
other session that ends without a settlement must have its hold back, on the
wallet or on the subscription.

`QuotaHold` is what a session promises about one account, with no statement,
retry or goroutine in sight: while it is open the amount taken is adjusted and
never negative; then it is captured, for good, or released, and a release only
gives back.  `BillingSession` implements it twice.  `SourceHold` maps the phase
to `fundingSettled` / `settled` / `refunded` and the amount to `spent`;
`TokenHold` uses the token's flags and `tokenSpent`, since in every operation
the token follows the source by a separate statement.  `unsafe` names the
requests whose subscription refund lost its own record: it may return the quota
again, which is the finding of `billing_refund_retry`, and nothing else may.

Abstractions: prices are small numbers (`Estimates`, `Actuals`) where the code
computes them; a user has one subscription, whose period is reset at most once
(`MayReset`; `carried` and `closed` are history, kept to say what each period
paid); Redis cache and batch updater are off, so a quota statement is one atomic
increment.  After a reset, a request of the old period settles and refunds
against the new one: `PeriodReconciled` bounds what that shifts.

### TaskBilling

`status` and `quota` are the columns that matter of the task row, with `full[t]`,
whether progress is 100%, since the listings skip such rows.  A pass of
poller `p` loads copies (`copyStatus`, `copyQuota`), works on the task `cur[p]`
and, after a CAS to a terminal status, goes through `AdjustFunding`,
`AdjustToken` and `UpdateQuota`.  `harmed[t]` records that a statement of t's
billing was lost, `bulk` which tasks a bulk failure has hit; `charged` and
`tokenCharged` record the money.

An error of `CacheGetChannel` fails all listed tasks of the channel in one
unconditional update, with no refund.  It needs no deleted channel: without the
memory cache the lookup is a SELECT, and any error of it has this effect
(`LookupMayFail`).  `FailedRefunded` and `TerminalKept` except the tasks it hits
and hold for the others; `NoDoubleRefund` and `QuotaIsCharge` hold for all, also
for a task that is failed in bulk while another pass is billing it.

| Steps | Code |
|---|---|
| `SettleSubmission`, `InsertTask` | the success path of `RelayTask` |
| `StartPass`, `SweepTask` | `sweepTimedOutTasks` |
| `ListTasks`, `CheckChannel`, `EndPass` | `RunTaskPollingOnce`, `UpdateVideoTasks`, the head of `updateVideoTasks` / `updateSunoTasks` |
| `FetchTask`, `UpdateTask` | `updateVideoSingleTask` and the loop of `updateSunoTasks` |
| `AdjustFunding`, `AdjustToken`, `UpdateQuota` | `RefundTaskQuota`, `RecalculateTaskQuota` |
| `LoadTask`, `AskUpstream`, `WriteTask` | `tryRealtimeFetch` |
| `Crash`, `UpstreamEnds`, `TaskTimesOut`, `ChannelVanishes` | the environment |

Abstractions: `SUBMITTED`, `QUEUED` and `UNKNOWN` are like `NOT_START` and
`IN_PROGRESS` here; all unfinished tasks are on one channel; the limits of 100 and
1000 rows per query are not reached.  An adaptor reports 100% only together with a
terminal status, but an answer in this gateway's own format (`NewApiTasks`) has its
progress copied as it is: an unfinished row at 100% is in no listing any more and
stays as it is, which `TasksEnd` excepts.  Rows without an upstream id, which a pass
would fail in bulk, are left out: `InitTask` gives every row one.

### SystemTask

The jobs that run `TaskBilling`'s passes are rows of `system_tasks`; a lease row
per type is to keep two runners from working at once.  The types share nothing,
so one is modelled.  Time is relative: `left` is `locked_until` minus the clock,
`age[r]` is how long ago runner r read the `now` that its statements use.  A
runner's pass is a sequence of statements (`pc`); `handler[r][x]` is the
goroutine with its heartbeat.

| Steps | Code |
|---|---|
| `Enqueue`, `Schedule` | `EnqueueSystemTask`, `StartLogCleanupTask`, `runSystemTaskScheduler`; the unique index on `active_key` decides |
| `BeginPass`, `SkipStale`, `ReadStale`, `MarkStale`, `DeleteStale` | `runPass` and `ExpireStaleSystemTaskLocks` |
| `FindPending`, `NothingPending`, `CreateLock`, `ReadLock`, `TakeOver`, `MarkOld`, `StartTask`, `GiveUp`, `Dispatch` | `runSystemTaskClaimPass`, `ClaimSystemTask`, `acquireSystemTaskLock` |
| `Heartbeat`, `FinishSystemTask`, `Release` | the goroutine of `runWithLeaseHeartbeat` and the handler |
| `Tick`, `Crash` | the environment |

Abstractions: the intervals of scheduler and stale-lock pass are a choice to skip
them; a single statement of a handler or heartbeat reads the clock when it is
executed; `UpdateSystemTaskState` (progress) is left out.  There is one clock: every
node writes and compares `locked_until` by its own `common.GetTimestamp`, and a
skew between the nodes is not modelled; it would shorten the TTL that `Timely`
speaks of.  The rows have no order:
at most one of a type is active, so the earliest pending and the latest active
row are that one.

### AuthTabs

`store[t]` is `useAuthStore` of tab t (session, whether the access token is
still valid, bootstrap state), `refresh[t]` its `refreshPromise` with the run
behind it, `call[t]` a call that was answered 401 or a logout, `inbox[t]` the
events it has not handled.  `cookie` is shared by the tabs, `sess` are the rows
of `user_sessions`.

| Steps | Code |
|---|---|
| `Load`, `Navigate` | `beforeLoad` of the root route and `bootstrapAuthentication` |
| `GrantLock`, `ReceiveRefresh`, `SettleRefresh` | `performRefreshWithBrowserLock`, the runner of `createRefreshRunner`, and what waited for it |
| `CallApi`, `ReceiveDenied` | the interceptors of `http-client.ts` |
| `Logout`, `ReceiveLogout` | `executeLogout` and the sign-out dialog |
| `ReceiveLogin` | `handleLoginSuccess`, `applyAuthBundle` |
| `ReceiveEvent` | the listener of the root route |
| `ServeRefresh`, `ServeOrphan`, `ServeLogout`, `ServeLogin` | `RefreshAuth`, `AuthLogout`, `createLoginSession`, with the transactions under them |
| `GraceEnds`, `RevokeElsewhere`, `Expire`, `FailRefresh`, `FailLogout`, `FailLogin`, `Reload` | the environment |

Abstractions.  A secret is its session and its age (0 current, 1 previous, 2
older), because the next secret is derived from the one presented and the server
knows only the last two.  `authEpoch` only grows and is only compared with the
value at the start of a refresh, so the refresh carries that comparison
(`current`).  The server decides an api call when it is sent, and only calls it
denies are followed.  The code 409 `AUTH_REFRESH_RACE`, which the client
handles, is never sent by this server.  `RefreshLoginSession` checks the cached
session and then rotates the secret; the two are one decision here.  A revocation
between them makes the code answer 500 instead of 401, and the next refresh is
refused; an error of the lookup, which the code answers with a 401 that clears the
cookie of a living session (`service/auth_session.go:218`), is left out.  A request takes less than
`RefreshReplayWindow` on its way.  A page that goes away leaves its request
under way (`orphans`).  `ended` and `lost` are history.

### PlaygroundChat

Text is a sequence of tokens that name their request.  `requestGeneration`,
`pending`, `flushTimer` and `abort` are the refs of `useChatHandler`,
`generation` and `source` those of the stream controller, `messages` and `flags`
React's state, `queue` the updaters that have not run, `view` what is rendered,
`latest`, `saveTimer` and `stored` the saving.

| Steps | Code |
|---|---|
| `Send`, `Regenerate`, `SaveEdit` with `sendChat` | `use-playground-conversation.ts`, `sendStreamingChat`, `sendNonStreamingChat` |
| `ReceiveHeaders`, `ReceiveChunk`, `ReceiveDone`, `StreamError`, `CloseQuietly` | the stream controller and the three handlers of `useChatHandler` |
| `ReceiveResponse` | the rest of `sendNonStreamingChat` |
| `FlushTimer`, `Save`, `Render` | timers and React |
| `Stop`, `Delete`, `Clear`, `OpenEditor` | the user |
| `Unmount`, `CloseTab`, `Mount` | the cleanups of the hooks, the browser, `loadMessages` |

React 19 puts updates from events, timers and promises into a queue.  Those of a
click are rendered before anything else runs; the others later, in order, and the
guard `isGenerating` is the rendered one.  An updater runs when it is rendered or,
if nothing is scheduled, possibly at once: the model allows both, and an updater
reads `requestGenerationRef` when it runs.  Generations go on counting over
mounts, since they are only compared with each other.  Reasoning text goes
through the same statements as content and is left out, and so are the
collapsing and size limits of stored text.

## Runs

| Run | What it shows |
|---|---|
| `billing_wallet` | two interleaved requests from the subscription, or from the wallet with the subscription to fall back on, with trust bypass, free groups, a session opened late on a retry, playground and violation fee: bills are exact, balances add up, also across a reset of the subscription's period, every hold is resolved |
| `billing_faults` | fallback from the subscription to the wallet, task requests, holds raised once the group is known, a subscription that expires or fills up meanwhile, with up to two failing statements and a crash at any step; source and token implement `QuotaHold` |
| `billing_refund_retry` | **violation**: the subscription refund is not idempotent when it fails half way |
| `task_poll` | two overlapping passes, sweep, error answers, a vanishing channel and failing lookups of it, faults, crashes: one billing per task, refunds of failures, and only the bulk failure overwrites a terminal status |
| `task_query` | status queries between the steps of two passes, also with bulk failures, while no task is failed whose upstream is at work: no over-refund |
| `task_live` | every task that is listed ends, except at 100% without a terminal status |
| `task_query_refund` | **violation**: a status query moves a task to FAILURE and nobody refunds it |
| `task_bulk_fail` | **violation**: one failing lookup of an existing channel, and the bulk failure overwrites a terminal status |
| `sys_lease` | two runners with a fault or a crash, everybody within the TTL: no two live goroutines, a row is dispatched once and its result final, every running row has its lease, every created row ends |
| `auth_tabs` | two tabs, two logins, with and without `navigator.locks`, and one event from outside: no session comes back, no self-inflicted reuse revocation, no tab waits for ever, a revoked session is left |
| `playground` | two requests of any kind and one further act of the user: whole, unmixed, final, saved answers, and an end of every generation |
| `playground_repeat` | **violation**: the second of two equal deltas is lost |

The violation runs check one property each, the one a comment of the repository
states; `findings` in PROJECT.json quotes it.  They differ from the passing runs
only in the constants that admit the behaviour (`FaultPoints`, `RealtimeTasks`,
`Answers`), or, for `task_bulk_fail`, in stating the property without the exception
that `TerminalKept` makes.

Six more behaviours of the code that no passing run contains, and that have no
run of their own:

- with `RealtimeTasks = Tasks` and `MayTimeOut`, `NoDoubleRefund` of `TaskBilling`
  fails: a status query that read a failed task between the sweep's CAS and its
  `UpdateQuota` brings the task and its quota back to life
  (`relay/relay_task.go:486`);
- it fails in the same way with `ErrorAnswers`: an error body makes a polling pass
  fail and refund a task whose upstream is still at work
  (`service/task_polling.go:501-518`), a query that read the row before
  `UpdateQuota` revives it, and the next pass that fails it refunds it again;
- with `SettleMayFail`, it fails too: a refused settlement of a submission leaves
  a quota in the row that was never charged (`controller/relay.go:605`);
- in `SystemTask`, a stale-lock pass that read a lapsed lease fails its row even
  when another claim has taken the lease over and started the row in between
  (`model/system_task.go:354`; only the delete at 357 asks again).  The goroutine
  works on under a valid lease, and its result is refused;
- with `MaxPause` above `TTL`, `RowsEnd` of `SystemTask` fails: `ClaimSystemTask`
  moves the row to running without asking whether the lease it acquired is still
  there (`model/system_task.go:234`).  If another runner's stale-lock pass has
  found the row still pending and deleted the lease, the row stays running, and
  its type blocked, for ever;
- in `AuthTabs` a login is outside the browser lock: the answer of another tab's
  refresh or logout that comes after it clears the new cookie
  (`features/auth/hooks/use-auth-redirect.ts:44`).

### Bounds

Two requests (or two passes) are enough for every interleaving of a pair of
actors; the state of a third would meet the first two only through the same
three counters.  The proofs then remove the bound.  Estimates and actual costs
are chosen around each other and around the balances, so that a request is
covered, not covered, covered alone but not together with the other, raised,
settled up and settled down, and the subscription has room for one hold but not
for two settlements.  `RetryTimes` is 0 or 1: one retry reaches a late open;
a hold is raised when the group that is picked turns out dearer.  `MaxFaults` is 2
where a rollback or a retry has to fail as well.  `MaxAttempts` is the code's 3.

In `SystemTask` two rows are enough for a row to follow another whose lease or
goroutine is still there.  One tick stands for any time: with `TTL` 1 or 2 and
`MaxPause` equal to it or one more, a step comes before, at and after the last
moment of a lease.  The proofs hold for every `TTL` and `MaxPause`; stalls
beyond the TTL are left to them (`ClaimedOnce` and `TerminalFinal` do not need
time at all).

In `AuthTabs` one tab signs in and out and the other makes calls; both refresh,
load again and receive events.  Two logins are the least in which cookie and
store are of different sessions.  `MaxUpsets` 1 allows one lost answer, expiry,
reload or foreign revocation in a behaviour.  In `PlaygroundChat` a second
request is what the first can be mixed up with; an answer has two chunks, so that
one can be flushed and one pending; `MaxActs` 1 puts one stop, deletion, edit,
leave or closing at every point; `MaxStored` 3 is less than two full exchanges.
Symmetry is used in `billing_faults` only, which checks no liveness.

### Fairness

`BillingSession`: weak fairness of each handler and each refund goroutine.  The
Go scheduler runs them, statements return or fail, upstream calls have timeouts
and the retry loop is bounded.  No request is obliged to arrive, no subscription
to expire, and no fault or crash is fair.

`TaskBilling`: weak fairness of the steps of a runner (the scheduler creates a
pass every 15 seconds while an unfinished task exists), of the passage of time
and of the insert that follows a settlement.  The upstream is not fair: it may
never answer.

`SystemTask`: weak fairness of each runner's pass (a ticker starts one every 15
seconds), strong fairness of its reading a lapsed lease (stale-lock passes are
throttled to one in 30 seconds but never given up), weak fairness of the end of a
handler and of the clock.  Heartbeats need none.  One runner never crashes.

`AuthTabs`: weak fairness of the server's answers, of the event loop of each tab
(a lock that is free is granted, what is queued runs), and of the panel's calls:
its queries refetch by themselves.  Nobody has to sign in, navigate or lose a
message.

`PlaygroundChat`: weak fairness of rendering, of the flush timer and of the
network, which answers, fails or closes.  The user owes nothing; a stream closed
without `[DONE]` is excepted by `GenerationEnds`, because no handler notices it.

## Proofs

`BillingSessionProofs` proves for every set of requests, every amount, limit,
preference and number of faults, from `BillingAssumption` (the constants have
their types):

- `TypeCorrect`, `NoOverRefundCorrect`, `SettledExactCorrect`,
  `FinishedExactCorrect`, `CommittedFrozenCorrect`, all from `IndInvCorrect`.

None of these properties is inductive: whether a refund returns too much depends
on what was debited many steps before.  `IndInv` adds what links the session's
own amounts to the history.  `Unopened`: before a session exists the funding
source is untouched and the token was debited exactly what the rollback will
return.  `Holding`: an open session owes `Owed(r)` (for a wallet `held`, for a
subscription the recorded amount plus what Reserve added, plus an amount in
flight inside Reserve), never more than was spent, and exactly that while no
statement failed.  `Settling` and `Refunding` follow the debt through the two
statements of a settlement and the three of a refund; `OpenShape` says which
flags go with which place in the code.  The invariant of a request mentions only
that request, so each action needs one case for its own request and the others
are unchanged.

`BillingHoldProofs` proves the refinement: `SourceIsHoldCorrect` and
`TokenIsHoldCorrect`.  `StepKind` sorts the steps of a request into seven kinds by
what they do to the flags and the ledger (nothing, adjust, capture the source,
the token or both, decide a refund, return); `AllCovered` takes from `IndInv`
that no account of an open session is below zero; `SourceStep` and `TokenStep`
then map each kind to an action of `QuotaHold` or a stutter.

`TaskBillingProofs` proves `TypeCorrect` without further assumption, and
`NoDoubleRefundCorrect`, `QuotaIsChargeCorrect`, `FailedRefundedCorrect` and
`TerminalKeptCorrect` under `PollOnly`: no task is on a realtime channel, and
submissions settle.  Channels may vanish and lookups may fail.  Each of the two
exclusions is one of the behaviours described above that break `NoDoubleRefund`.
The invariant: a pass works on rows it read unfinished; while a row stays
unfinished nobody changes its quota, so that a copy that wins the CAS agrees with
the row (`CopyInv`); only the winner of the CAS to a terminal status bills, so
there is one biller per task and its stage determines the books (`AdjustInv`,
`TaskInv`).

`SystemTaskProofs` proves `TypeCorrect`, `ClaimedOnceCorrect` and
`TerminalFinalCorrect` with no assumption on time, and `NoOverlapCorrect` and
`RunningGuardedCorrect` under `Timely`: nobody takes longer than the TTL between
reading the clock and acting on it, and heartbeats are on time; the stalled claim
described above shows that the first half is needed.  `IndInv` ties a goroutine to
the runner stored in its row, and a claim to a row that its runner has not
started.  `TimeInv` says that an acquired lease is still there when the row is
started (`LockInv`) and while a goroutine works (`RunInv`), and, for the
statements that end leases, that the lease of a running row is younger than every
clock reading still in use (`CapInv`): a claim read the clock while its row was
pending, and a stale-lock pass, before it deletes the lease, has made sure that
the row is not running.

`BillingTotalsProofs` proves `ReconciledCorrect` and `PeriodReconciledCorrect`
for every finite set of requests (`FiniteReqs`).  Both speak of the end, when all
requests have finished cleanly; `TotalsInv` speaks of every moment: each balance
has moved by the sum of what the histories of the requests say, and the
subscription by the sum of those of its period, including `carried`.  A step
changes the history of one request and a balance by the same amount, so that the
sums follow (`SumChange`, `StepSums`).  The clamp of
`PostConsumeUserSubscriptionDelta` at zero needs the inductive invariant of
`BillingSessionProofs`: within a period what is returned was taken before, so the
clamp never hides a difference.  `SumLemmas` holds what is needed of sums over
finite sets; their induction is on a set of numbers of which a least element is
taken, since the library's induction theorems cannot be instantiated here.

`AuthTabsProofs` proves `TypeCorrect`, `NoResurrectionCorrect`,
`NoReuseRevocationCorrect` and `CookieCurrentCorrect` for every set of tabs,
number of logins and of upsets.  `LoginInv` keeps the
session of a login under way apart from every session already seen in a tab, the
cookie or a request.  `EndedInv` says that a session a tab has given up is revoked
at the server for good, and that no answered refresh which `isSuperseded` lets
through carries one; this is what `NoResurrection` lacks to be inductive.
`SyncInv` says, for a browser with locks, that at most one refresh runs at a time
and, as long as no answer was lost, that it presents the current secret and that
the cookie is behind the server only while an answer with the successor is on its
way.  The actions are sorted into steps of a tab, of the
server, and steps that end sessions (`TabStep`, `ServerStep`, `EndingStep`), and
each kind is shown once to preserve the invariant.

`PlaygroundProofs` proves `TypeCorrect`, `OwnTextCorrect`, `NoStuckAnswerCorrect`,
`SavedOnLeaveCorrect`, `FullAnswerCorrect` and the action property
`FinalStaysCorrect`, for every set
of answers and number of requests and acts.  The invariant says where the one
message is that updates may change (`FocusInv`): while a generation is shown it
is the last of the list, belongs to the request of the current generation, and
the updaters in React's queue are reports of that request, of which only the last
may close it; every other message is closed (`StuckInv`).  `FlowInv` ties buffer,
timer and flags to the place of the request, and says that an unrendered update
implies a rendered generation, which is why the guard `isGenerating`, although it
is the rendered one, keeps a second request from starting beside the first.
Steps are then of two kinds: a report is scheduled, eagerly or not (`Scheduled`,
`ReportStep`), or everything is rendered (`Committed`, with `CommittedBusy` and
`CommittedIdle`).  What a queue of updaters makes of the messages is proved for
queues of any length (`RunEnds`, `QueueRuns`, `StopRuns`).

`FullAnswerCorrect` has a hypothesis, `Echoless`: no answer delivered in deltas has
a token equal to the one before it, or begins with a piece that is repeated at once
(`NoEcho`).  Nothing is asked of snapshots or of plain answers.  `playground_repeat`
shows that some such condition is needed, because the code tells a delta from a
repetition of the text so far by comparing texts; the answers of `playground`
satisfy it.  The proof adds an invariant of its own.  `StreamInv` says of the
request under way that what it has got is a beginning, which is in the message once
React's queue has run (`Outcome`), and a rest in the buffer (`Split`); chunks extend
the rest (`ChunkGoodIs`) and flushes move it into the text (`FlushGoodIs`).
`ToldInv` says that every message that counts as a full answer is one, or that the
user interfered with its request, for the rendered, the unrendered and the stored
messages; the last two are needed because a stored message comes back as complete
when the page is opened again.

Only model-checked: the liveness properties (`HoldsResolve`, `TasksEnd`,
`RowsEnd`, `LoadingEnds`, `DeadSessionLeft`, `GenerationEnds`), which need
fairness, and `NoDoubleRefund` of `TaskBilling` with realtime tasks
(`task_query`), which `PollOnly` excludes.  Every other property of the passing
runs is a theorem.

## Not modelled, and the plan

The order follows what a wrong step would cost.

1. `Subscription`: several subscriptions of a user and the choice among them,
   purchases and plans.
2. `QuotaStore`: the quota statements with the Redis cache and the batch updater,
   and what a crash or a racing fill costs; an abstract counter as its
   specification.
3. `RealtimeBilling`: the per-turn charges of a websocket session beside its
   settlement.
4. `AuthCache`: the version fence of the cached user and of cached sessions.
5. `ChannelSelect`: priorities, auto groups and affinity across retries.
6. Midjourney polling, payments, rate limits.

Out of reach or without a state of their own: price arithmetic in floating point
and the expression language (the modules take the resulting amounts from small
sets), provider adaptors and format conversion, settings (they are the modules'
constants), logs and metrics.  Most of the repository's lines are pages of the web
panel: forms, tables and charts that render what the server sent and make one
request per button.  They keep no state that two steps could disagree about, and
a model of them would restate their markup.
