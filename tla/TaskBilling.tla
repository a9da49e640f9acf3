----------------------------- MODULE TaskBilling -----------------------------
(***************************************************************************)
(* Asynchronous tasks (Suno, video): the task row written by RelayTask     *)
(* after the submission was settled, the polling passes that advance it,   *)
(* the sweep of timed-out tasks, the status query of the user, and the     *)
(* billing that follows a terminal status.  service/task_polling.go,       *)
(* service/task_billing.go, model/task.go, the success path of RelayTask   *)
(* (controller/relay.go) and tryRealtimeFetch (relay/relay_task.go).       *)
(*                                                                         *)
(* Polling passes overlap: a runner whose lease expired goes on until it   *)
(* looks at its context, while another runner starts a pass.  A pass works *)
(* on copies of the rows it read, and a row is written by an UPDATE of all *)
(* its columns guarded by the status that was read (CAS).  Two writes are  *)
(* not: UpdateQuota and the bulk failure of the tasks of a channel.        *)
(***************************************************************************)
EXTENDS Integers

CONSTANTS
    Tasks,
    Pollers,          \* runners of polling passes
    Fetchers,         \* handlers of the user's status queries
    RealtimeTasks,    \* tasks on Gemini and Vertex channels
    NewApiTasks,      \* tasks on channels that answer in this gateway's own format
    LegacyTasks,      \* tasks submitted before TaskRefundLegacyCutoff
    Quotas,           \* quotas a submission may be charged
    Actuals,          \* quotas a finished task may turn out to cost; 0: no change
    ErrorAnswers,     \* may the upstream answer with an error body?
    MayTimeOut,       \* may a task reach TaskTimeoutMinutes?
    ChannelMayVanish, \* may the channel be deleted while tasks are pending?
    LookupMayFail,    \* may the lookup of a channel that exists fail?
    SettleMayFail,    \* may the subscription refuse the settlement of a submission?
    MaxFaults,        \* bound on the number of failing statements and crashes
    MayCrash          \* may a runner crash?

ASSUME TaskAssumption ==
    /\ RealtimeTasks \subseteq Tasks
    /\ NewApiTasks \subseteq Tasks
    /\ LegacyTasks \subseteq Tasks
    /\ Quotas \subseteq Nat
    /\ Actuals \subseteq Nat
    /\ ErrorAnswers \in BOOLEAN
    /\ MayTimeOut \in BOOLEAN
    /\ ChannelMayVanish \in BOOLEAN
    /\ LookupMayFail \in BOOLEAN
    /\ SettleMayFail \in BOOLEAN
    /\ MaxFaults \in Nat
    /\ MayCrash \in BOOLEAN

VARIABLES
    \* rows of the database
    status,     \* Task.Status; "none", "settled", "lost" before or without a row
    quota,      \* Task.Quota: what the refund of the task will return
    full,       \* is Task.Progress "100%"?
    bulk,       \* history: the tasks TaskBulkUpdateByID has failed
    channelGone,
    \* the world outside
    upstream,   \* what the provider has made of the task
    expired,    \* is the task older than TaskTimeoutMinutes?
    \* each polling pass: where it is, the tasks left, its copies of the rows,
    \* the task in hand, the status the upstream gave, the adjustment under way
    pc, todo, copyStatus, copyQuota, cur, seen, delta, newQuota, back,
    \* each status query: where it is, its task and its copy of the row
    fpc, ftask, fstatus, fquota, fseen,
    \* history: net debit of the funding source and of the token for a task, was
    \* a statement of its billing lost, and the faults so far
    charged, tokenCharged, harmed, faults

rowVars  == <<status, quota, full, bulk, channelGone>>
world    == <<upstream, expired>>
copies   == <<copyStatus, copyQuota>>
adjust   == <<delta, newQuota, back>>
pass     == <<pc, todo, copies, cur, seen, adjust>>
query    == <<fpc, ftask, fstatus, fquota, fseen>>
money    == <<charged, tokenCharged>>
flt      == <<harmed, faults>>
vars     == <<rowVars, world, pass, query, money, flt>>

Unfinished == {"NOT_START", "IN_PROGRESS"}
Terminal   == {"SUCCESS", "FAILURE"}
Statuses   == Unfinished \cup Terminal
NoTask     == "none"

Init ==
    /\ status = [t \in Tasks |-> "none"]
    /\ quota = [t \in Tasks |-> 0]
    /\ full = [t \in Tasks |-> FALSE]
    /\ bulk = {}
    /\ channelGone = FALSE
    /\ upstream = [t \in Tasks |-> "IN_PROGRESS"]
    /\ expired = [t \in Tasks |-> FALSE]
    /\ pc = [p \in Pollers |-> "idle"]
    /\ todo = [p \in Pollers |-> {}]
    /\ copyStatus = [p \in Pollers |-> [t \in Tasks |-> "none"]]
    /\ copyQuota = [p \in Pollers |-> [t \in Tasks |-> 0]]
    /\ cur = [p \in Pollers |-> NoTask]
    /\ seen = [p \in Pollers |-> "IN_PROGRESS"]
    /\ delta = [p \in Pollers |-> 0]
    /\ newQuota = [p \in Pollers |-> 0]
    /\ back = [p \in Pollers |-> "poll"]
    /\ fpc = [f \in Fetchers |-> "idle"]
    /\ ftask = [f \in Fetchers |-> NoTask]
    /\ fstatus = [f \in Fetchers |-> "none"]
    /\ fquota = [f \in Fetchers |-> 0]
    /\ fseen = [f \in Fetchers |-> "IN_PROGRESS"]
    /\ charged = [t \in Tasks |-> 0]
    /\ tokenCharged = [t \in Tasks |-> 0]
    /\ harmed = [t \in Tasks |-> FALSE]
    /\ faults = 0

Goto(p, l) == pc' = [pc EXCEPT ![p] = l]

Ok == UNCHANGED flt
Fault == faults < MaxFaults /\ faults' = faults + 1
(* A statement fails, and the billing of task t is left incomplete. *)
Fails(t) == Fault /\ harmed' = [harmed EXCEPT ![t] = TRUE]
(* A statement fails before any billing. *)
FailsEarly == Fault /\ UNCHANGED harmed

-----------------------------------------------------------------------------
(* RelayTask after a successful submission.  The billing session is        *)
(* settled for result.Quota; a subscription with too little left refuses   *)
(* and the submission stays charged what was pre-consumed (the error is    *)
(* only logged).                                                           *)
SettleSubmission(t) ==
    /\ status[t] = "none"
    /\ \E q \in Quotas :
         /\ quota' = [quota EXCEPT ![t] = q]
         /\ \E c \in IF SettleMayFail THEN {x \in Quotas : x <= q} ELSE {q} :
              /\ charged' = [charged EXCEPT ![t] = c]
              /\ tokenCharged' = [tokenCharged EXCEPT ![t] = c]
    /\ status' = [status EXCEPT ![t] = "settled"]
    /\ UNCHANGED <<full, bulk, channelGone, world, pass, query, flt>>

(* Task.Insert with Quota = result.Quota; an error is only logged. *)
InsertTask(t) ==
    /\ status[t] = "settled"
    /\ \/ Ok /\ status' = [status EXCEPT ![t] = "NOT_START"]
       \/ Fails(t) /\ status' = [status EXCEPT ![t] = "lost"]
    /\ UNCHANGED <<quota, full, bulk, channelGone, world, pass, query, money>>

-----------------------------------------------------------------------------
(* A polling pass.                                                         *)

Loads(p, ts) ==
    /\ todo' = [todo EXCEPT ![p] = ts]
    /\ copyStatus' = [copyStatus EXCEPT ![p] = [t \in Tasks |-> IF t \in ts THEN status[t] ELSE "none"]]
    /\ copyQuota' = [copyQuota EXCEPT ![p] = [t \in Tasks |-> IF t \in ts THEN quota[t] ELSE 0]]

(* The pass is over and its local variables are gone. *)
Returns(p) ==
    /\ Loads(p, {})
    /\ cur' = [cur EXCEPT ![p] = NoTask]
    /\ seen' = [seen EXCEPT ![p] = "IN_PROGRESS"]
    /\ delta' = [delta EXCEPT ![p] = 0]
    /\ newQuota' = [newQuota EXCEPT ![p] = 0]
    /\ back' = [back EXCEPT ![p] = "poll"]
    /\ Goto(p, "idle")

(* The rows that HasUnfinishedSyncTasks, GetTimedOutUnfinishedTasks and    *)
(* GetAllUnFinishSyncTasks look at: unfinished, and progress not at 100%.  *)
(* (Every row InitTask writes has an id, so none is failed for want of an  *)
(* upstream id.)                                                           *)
Listed(t) == status[t] \in Unfinished /\ ~full[t]

(* Mutant: the sweep overlooks the tasks that have started. *)
StartPassNotStarted(p) ==
    /\ pc[p] = "idle"
    /\ \E t \in Tasks : Listed(t)
    /\ Loads(p, {t \in Tasks : status[t] = "NOT_START" /\ ~full[t] /\ expired[t]})
    /\ Goto(p, "sweep")
    /\ UNCHANGED <<rowVars, world, cur, seen, adjust, query, money, flt>>

(* GetTimedOutUnfinishedTasks *)
StartPass(p) ==
    /\ pc[p] = "idle"
    /\ \E t \in Tasks : Listed(t)
    /\ Loads(p, {t \in Tasks : Listed(t) /\ expired[t]})
    /\ Goto(p, "sweep")
    /\ UNCHANGED <<rowVars, world, cur, seen, adjust, query, money, flt>>

(* Mutant: the UPDATE has no condition on the status. *)
WinsAlways(p, t) == TRUE

(* UpdateWithStatus wrote the row of task t if its status was still the    *)
(* one that was read: every column, from the copy.                         *)
Wins(p, t) == status[t] = copyStatus[p][t]
UpdateWithStatus(t, s, q, f) ==
    /\ status' = [status EXCEPT ![t] = s]
    /\ quota' = [quota EXCEPT ![t] = q]
    /\ full' = [full EXCEPT ![t] = f]
    /\ UNCHANGED <<bulk, channelGone>>

Drop(p, t) == todo' = [todo EXCEPT ![p] = @ \ {t}]

(* Mutants: the quota of the row stays what it was, or becomes the change. *)
StartAdjustKeepsQuota(p, t, d, q, l) ==
    /\ cur' = [cur EXCEPT ![p] = t]
    /\ delta' = [delta EXCEPT ![p] = d]
    /\ newQuota' = [newQuota EXCEPT ![p] = copyQuota[p][t]]
    /\ back' = [back EXCEPT ![p] = l]
    /\ Goto(p, "funding")
StartAdjustStoresDelta(p, t, d, q, l) ==
    /\ cur' = [cur EXCEPT ![p] = t]
    /\ delta' = [delta EXCEPT ![p] = d]
    /\ newQuota' = [newQuota EXCEPT ![p] = d]
    /\ back' = [back EXCEPT ![p] = l]
    /\ Goto(p, "funding")

(* The billing of a task changes the funding source by d, then the token,  *)
(* then sets the quota of the row to q; l is where the pass goes on.       *)
StartAdjust(p, t, d, q, l) ==
    /\ cur' = [cur EXCEPT ![p] = t]
    /\ delta' = [delta EXCEPT ![p] = d]
    /\ newQuota' = [newQuota EXCEPT ![p] = q]
    /\ back' = [back EXCEPT ![p] = l]
    /\ Goto(p, "funding")

(* Mutant: only a polled failure is refunded, not a swept one. *)
RefundTaskQuotaPolled(p, t, l) ==
    \/ l = "poll" /\ StartAdjust(p, t, -copyQuota[p][t], 0, l)
    \/ l = "sweep" /\ Goto(p, l) /\ UNCHANGED <<cur, adjust>>

(* RefundTaskQuota: nothing to do for a quota of zero. *)
RefundTaskQuota(p, t, l) ==
    \/ copyQuota[p][t] # 0 /\ StartAdjust(p, t, -copyQuota[p][t], 0, l)
    \/ copyQuota[p][t] = 0 /\ Goto(p, l) /\ UNCHANGED <<cur, adjust>>

(* settleTaskBillingOnComplete and RecalculateTaskQuota: a price per call, *)
(* no new price or the same price change nothing.                          *)
SettleTask(p, t) ==
    \E a \in Actuals :
        \/ /\ a > 0 /\ a # copyQuota[p][t]
           /\ StartAdjust(p, t, a - copyQuota[p][t], a, "poll")
        \/ /\ a = 0 \/ a = copyQuota[p][t]
           /\ Goto(p, "poll") /\ UNCHANGED <<cur, adjust>>

(* sweepTimedOutTasks, one task: CAS to FAILURE, then the refund.  A task  *)
(* of the old system gets no refund and its quota is cleared.              *)
SweepTask(p) ==
    /\ pc[p] = "sweep"
    /\ \E t \in todo[p] :
         /\ Drop(p, t)
         /\ \/ /\ Wins(p, t) /\ Ok /\ t \notin LegacyTasks
               /\ UpdateWithStatus(t, "FAILURE", copyQuota[p][t], TRUE)
               /\ RefundTaskQuota(p, t, "sweep")
            \/ /\ Wins(p, t) /\ Ok /\ t \in LegacyTasks
               /\ UpdateWithStatus(t, "FAILURE", 0, TRUE)
               /\ UNCHANGED <<pc, cur, adjust>>
            \/ /\ (~Wins(p, t) /\ Ok) \/ FailsEarly
               /\ UNCHANGED <<pc, cur, adjust, rowVars>>
    /\ UNCHANGED <<world, copies, seen, query, money>>

(* Mutant: finished tasks are polled too. *)
ListTasksAll(p) ==
    /\ pc[p] = "sweep" /\ todo[p] = {}
    /\ Loads(p, {t \in Tasks : status[t] \in Statuses})
    /\ Goto(p, "channel")
    /\ UNCHANGED <<rowVars, world, cur, seen, adjust, query, money, flt>>

(* GetAllUnFinishSyncTasks, after the sweep. *)
ListTasks(p) ==
    /\ pc[p] = "sweep" /\ todo[p] = {}
    /\ Loads(p, {t \in Tasks : Listed(t)})
    /\ Goto(p, "channel")
    /\ UNCHANGED <<rowVars, world, cur, seen, adjust, query, money, flt>>

(* CacheGetChannel, once for the tasks of a channel.  Any error of it      *)
(* makes TaskBulkUpdateByID fail them all, whatever their status is now:   *)
(* the channel is gone, or it exists and the lookup fails (without the     *)
(* memory cache it is a SELECT; a cache may not have the channel yet).  An *)
(* outage that fails both the lookup and the update is one fault.          *)
CheckChannel(p) ==
    /\ pc[p] = "channel"
    /\ \/ /\ ~channelGone /\ Ok
          /\ Goto(p, "poll") /\ UNCHANGED <<rowVars, todo, copies, cur, seen, adjust>>
       \/ /\ (channelGone /\ Ok) \/ (LookupMayFail /\ FailsEarly)
          /\ status' = [t \in Tasks |-> IF t \in todo[p] THEN "FAILURE" ELSE status[t]]
          /\ full' = [t \in Tasks |-> t \in todo[p] \/ full[t]]
          /\ bulk' = bulk \cup todo[p]
          /\ Returns(p) /\ UNCHANGED <<quota, channelGone>>
       \/ /\ (channelGone \/ LookupMayFail) /\ FailsEarly
          /\ Returns(p) /\ UNCHANGED rowVars
    /\ UNCHANGED <<world, query, money>>

(* FetchTask and ParseTaskResult.  The pass goes on with the next task if  *)
(* the call fails, the upstream answers 429 or the answer is not           *)
(* understood; any other error body counts as the failure of the task.  An *)
(* answer that came with a batch (Suno) may be older than the task's turn. *)
FetchTask(p) ==
    /\ pc[p] = "poll"
    /\ \E t \in todo[p] :
         /\ Drop(p, t)
         /\ \/ /\ \E s \in {upstream[t], "IN_PROGRESS"} \cup (IF ErrorAnswers THEN {"FAILURE"} ELSE {}) :
                    seen' = [seen EXCEPT ![p] = s]
               /\ cur' = [cur EXCEPT ![p] = t]
               /\ Goto(p, "update")
            \/ UNCHANGED <<seen, cur, pc>>
    /\ UNCHANGED <<rowVars, world, copies, adjust, query, money, flt>>

(* The progress that goes with a status: an adaptor gives 100% to what has *)
(* ended and only to that, but an answer in the gateway's own format has   *)
(* its Progress copied as it is, unless the task failed.                   *)
Progresses(t, s) ==
    IF s = "FAILURE" THEN {TRUE}
    ELSE IF t \in NewApiTasks THEN BOOLEAN
    ELSE {s = "SUCCESS"}

(* updateVideoSingleTask and updateSunoTasks, the write.  Only the winner  *)
(* of the CAS to a terminal status goes on to the billing.  A status that  *)
(* is not new is written again when other columns changed.                 *)
UpdateTask(p) ==
    /\ pc[p] = "update"
    /\ LET t == cur[p] IN
         \/ /\ Wins(p, t) /\ Ok
            /\ \E f \in Progresses(t, seen[p]) :
                 UpdateWithStatus(t, seen[p], copyQuota[p][t], f)
            /\ \/ seen[p] = "FAILURE" /\ RefundTaskQuota(p, t, "poll")
               \/ seen[p] = "SUCCESS" /\ SettleTask(p, t)
               \/ seen[p] \in Unfinished /\ Goto(p, "poll") /\ UNCHANGED <<cur, adjust>>
         \/ /\ \/ ~Wins(p, t) /\ Ok
               \/ seen[p] = copyStatus[p][t] /\ Ok
               \/ FailsEarly
            /\ Goto(p, "poll") /\ UNCHANGED <<rowVars, cur, adjust>>
    /\ UNCHANGED <<world, todo, copies, seen, query, money>>

(* taskAdjustFunding: an error, or a subscription without room for a       *)
(* surcharge, ends the billing and leaves the quota of the row as it was.  *)
AdjustFunding(p) ==
    /\ pc[p] = "funding"
    /\ LET t == cur[p] IN
         \/ /\ Ok
            /\ charged' = [charged EXCEPT ![t] = @ + delta[p]]
            /\ Goto(p, "token")
         \/ /\ (delta[p] > 0 /\ Ok) \/ Fails(t)
            /\ Goto(p, back[p]) /\ UNCHANGED charged
    /\ UNCHANGED <<rowVars, world, todo, copies, cur, seen, adjust, query, tokenCharged>>

(* taskAdjustTokenQuota: an error is only logged. *)
AdjustToken(p) ==
    /\ pc[p] = "token"
    /\ LET t == cur[p] IN
         \/ Ok /\ tokenCharged' = [tokenCharged EXCEPT ![t] = @ + delta[p]]
         \/ Fails(t) /\ UNCHANGED tokenCharged
    /\ Goto(p, "quota")
    /\ UNCHANGED <<rowVars, world, todo, copies, cur, seen, adjust, query, charged>>

(* Task.UpdateQuota writes the one column, whatever the status is now. *)
UpdateQuota(p) ==
    /\ pc[p] = "quota"
    /\ LET t == cur[p] IN
         \/ Ok /\ quota' = [quota EXCEPT ![t] = newQuota[p]]
         \/ Fails(t) /\ UNCHANGED quota
    /\ Goto(p, back[p])
    /\ UNCHANGED <<status, full, bulk, channelGone, world, todo, copies, cur, seen, adjust,
                   query, money>>

(* The pass is finished, or the runner lost its lease and notices before a *)
(* channel or between two tasks that its context is cancelled.             *)
EndPass(p) ==
    /\ pc[p] \in {"channel", "poll"}
    /\ Returns(p)
    /\ UNCHANGED <<rowVars, world, query, money, flt>>

(* The runner's process dies; a later pass starts from the rows. *)
Crash(p) ==
    /\ MayCrash /\ pc[p] # "idle" /\ Fault
    /\ harmed' = [t \in Tasks |-> harmed[t] \/ (pc[p] \in {"funding", "token", "quota"} /\ t = cur[p])]
    /\ Returns(p)
    /\ UNCHANGED <<rowVars, world, query, money>>

-----------------------------------------------------------------------------
(* tryRealtimeFetch: a status query for a task on a Gemini or Vertex       *)
(* channel, finished or not, asks the upstream and writes the row, with    *)
(* the status and the progress the adaptor gives (its ParseTaskResult      *)
(* takes an error body for the failure of the task).  No billing follows.  *)

LoadTask(f) ==
    /\ fpc[f] = "idle"
    /\ \E t \in RealtimeTasks :
         /\ status[t] \in Statuses
         /\ ftask' = [ftask EXCEPT ![f] = t]
         /\ fstatus' = [fstatus EXCEPT ![f] = status[t]]
         /\ fquota' = [fquota EXCEPT ![f] = quota[t]]
    /\ fpc' = [fpc EXCEPT ![f] = "fetch"]
    /\ UNCHANGED <<rowVars, world, pass, fseen, money, flt>>

AskUpstream(f) ==
    /\ fpc[f] = "fetch"
    /\ \/ /\ ~channelGone
          /\ \E s \in {upstream[ftask[f]]} \cup (IF ErrorAnswers THEN {"FAILURE"} ELSE {}) :
               fseen' = [fseen EXCEPT ![f] = s]
          /\ fpc' = [fpc EXCEPT ![f] = "write"]
       \/ fpc' = [fpc EXCEPT ![f] = "idle"] /\ UNCHANGED fseen
    /\ UNCHANGED <<rowVars, world, pass, ftask, fstatus, fquota, money, flt>>

(* Mutant: the row is written whatever its status is now. *)
FetchWinsAlways(f) == TRUE

FetchWins(f) == status[ftask[f]] = fstatus[f]

WriteTask(f) ==
    /\ fpc[f] = "write"
    /\ \/ /\ FetchWins(f) /\ Ok
          /\ UpdateWithStatus(ftask[f], fseen[f], fquota[f], fseen[f] \in Terminal)
       \/ /\ \/ ~FetchWins(f) /\ Ok
             \/ fseen[f] = fstatus[f] /\ Ok
             \/ FailsEarly
          /\ UNCHANGED rowVars
    /\ fpc' = [fpc EXCEPT ![f] = "idle"]
    /\ UNCHANGED <<world, pass, ftask, fstatus, fquota, fseen, money>>

-----------------------------------------------------------------------------
(* The world outside.                                                      *)

UpstreamEnds(t) ==
    /\ upstream[t] = "IN_PROGRESS" /\ status[t] \in Statuses
    /\ \E s \in Terminal : upstream' = [upstream EXCEPT ![t] = s]
    /\ UNCHANGED <<rowVars, expired, pass, query, money, flt>>

TaskTimesOut(t) ==
    /\ MayTimeOut /\ ~expired[t] /\ status[t] \in Statuses
    /\ expired' = [expired EXCEPT ![t] = TRUE]
    /\ UNCHANGED <<rowVars, upstream, pass, query, money, flt>>

ChannelVanishes ==
    /\ ChannelMayVanish /\ ~channelGone
    /\ channelGone' = TRUE
    /\ UNCHANGED <<status, quota, full, bulk, world, pass, query, money, flt>>

PassStep(p) ==
    \/ StartPass(p) \/ SweepTask(p) \/ ListTasks(p) \/ CheckChannel(p) \/ FetchTask(p)
    \/ UpdateTask(p) \/ AdjustFunding(p) \/ AdjustToken(p) \/ UpdateQuota(p) \/ EndPass(p)
Query(f) == LoadTask(f) \/ AskUpstream(f) \/ WriteTask(f)

(* Nothing is left to poll. *)
Quiescent ==
    /\ \A t \in Tasks : status[t] \in Statuses \cup {"lost"} /\ ~Listed(t)
    /\ \A p \in Pollers : pc[p] = "idle"
    /\ UNCHANGED vars

Next ==
    \/ \E t \in Tasks : SettleSubmission(t) \/ InsertTask(t) \/ UpstreamEnds(t) \/ TaskTimesOut(t)
    \/ \E p \in Pollers : PassStep(p) \/ Crash(p)
    \/ \E f \in Fetchers : Query(f)
    \/ ChannelVanishes
    \/ Quiescent

(* The scheduler starts a pass every 15 seconds while a task is unfinished *)
(* and runs it to its end; time passes; a submission that was settled goes *)
(* on to its insert.                                                       *)
Fairness ==
    /\ \A p \in Pollers : WF_vars(PassStep(p))
    /\ \A t \in Tasks : WF_vars(TaskTimesOut(t)) /\ WF_vars(InsertTask(t))

Spec == Init /\ [][Next]_vars /\ Fairness

-----------------------------------------------------------------------------
(* Properties.                                                             *)

Billing == {"funding", "token", "quota"}

TypeRows ==
    /\ status \in [Tasks -> Statuses \cup {"none", "settled", "lost"}]
    /\ quota \in [Tasks -> Nat]
TypeFlags ==
    /\ channelGone \in BOOLEAN
    /\ full \in [Tasks -> BOOLEAN]
    /\ bulk \subseteq Tasks
    /\ expired \in [Tasks -> BOOLEAN]
    /\ harmed \in [Tasks -> BOOLEAN]
TypePass ==
    /\ pc \in [Pollers -> {"idle", "sweep", "channel", "poll", "update"} \cup Billing]
    /\ todo \in [Pollers -> SUBSET Tasks]
    /\ cur \in [Pollers -> Tasks \cup {NoTask}]
    /\ seen \in [Pollers -> Statuses]
    /\ back \in [Pollers -> {"sweep", "poll"}]
TypeCopies ==
    /\ copyStatus \in [Pollers -> [Tasks -> Statuses \cup {"none", "settled", "lost"}]]
    /\ copyQuota \in [Pollers -> [Tasks -> Nat]]
TypeAmounts ==
    /\ delta \in [Pollers -> Int] /\ newQuota \in [Pollers -> Nat]
    /\ charged \in [Tasks -> Int] /\ tokenCharged \in [Tasks -> Int]
    /\ faults \in Nat
TypeQuery ==
    /\ fpc \in [Fetchers -> {"idle", "fetch", "write"}]
    /\ ftask \in [Fetchers -> Tasks \cup {NoTask}]
    /\ fstatus \in [Fetchers -> Statuses \cup {"none"}]
    /\ fquota \in [Fetchers -> Nat]
    /\ fseen \in [Fetchers -> Statuses]
    /\ upstream \in [Tasks -> Statuses]
(* A pass or a query that is busy with a task has one in hand. *)
InHand ==
    /\ \A p \in Pollers : pc[p] \in Billing \cup {"update"} => cur[p] \in Tasks
    /\ \A f \in Fetchers : fpc[f] # "idle" => ftask[f] \in Tasks

(* Types; the quota of a row never goes below zero. *)
TypeOK ==
    /\ TypeRows /\ TypeFlags /\ TypePass /\ TypeCopies /\ TypeAmounts /\ TypeQuery
    /\ InHand

Adjusting(p, t) == pc[p] \in Billing /\ cur[p] = t
Idle(t) == \A p \in Pollers : ~Adjusting(p, t)

(* Overlapping passes, the sweep, lost statements and crashes never refund *)
(* a task more than it was charged (the comment in updateSunoTasks: the    *)
(* CAS is there to prevent double refunds).                                *)
NoDoubleRefund == \A t \in Tasks : charged[t] >= 0 /\ tokenCharged[t] >= 0

(* The quota of a row that no pass is billing is what the task has been    *)
(* charged: the next refund or settlement starts from the truth.           *)
QuotaIsCharge ==
    \A t \in Tasks \ LegacyTasks : status[t] # "none" /\ Idle(t) /\ ~harmed[t] =>
        charged[t] = quota[t] /\ tokenCharged[t] = quota[t]

(* A failed task has its quota back (RefundTaskQuota: "when an             *)
(* asynchronous task fails, the pre-consumed quota is returned"), unless   *)
(* it was failed in bulk because its channel could not be looked up: no    *)
(* refund follows TaskBulkUpdateByID.                                      *)
FailedRefunded ==
    \A t \in Tasks \ (LegacyTasks \cup bulk) :
        status[t] = "FAILURE" /\ Idle(t) /\ ~harmed[t] => charged[t] = 0

(* A terminal status is final (updateSunoTasks: the CAS is there to        *)
(* prevent overwriting a terminal status).                                 *)
TerminalFinal ==
    [][\A t \in Tasks : status[t] \in Terminal => status'[t] = status[t]]_vars

(* Of overlapping passes, the sweep, error answers and crashes, nothing    *)
(* but the bulk failure of a channel's tasks overwrites a terminal status  *)
(* (of the writes of a row, only TaskBulkUpdateByID is not a CAS).         *)
TerminalKept ==
    [][\A t \in Tasks : status[t] \in Terminal =>
          status'[t] = status[t] \/ (status'[t] = "FAILURE" /\ t \in bulk')]_vars

(* Every task that is listed for polling ends, whatever the upstream does: *)
(* the sweep gets what polling does not.  One task is out of their reach:  *)
(* unfinished, but reported at 100% by an upstream in this gateway's       *)
(* format (it is in no listing any more).                                  *)
TasksEnd ==
    \A t \in Tasks :
        Listed(t) ~> (status[t] \in Terminal \/ (t \in NewApiTasks /\ full[t]))

-----------------------------------------------------------------------------
(* The strengthening that makes NoDoubleRefund, QuotaIsCharge and          *)
(* FailedRefunded inductive when rows are written by polling passes only   *)
(* (no realtime channel) and submissions settle.                           *)

PollOnly == RealtimeTasks = {} /\ ~SettleMayFail

Handles(p, t) == t \in todo[p] \/ (pc[p] = "update" /\ cur[p] = t)

(* A pass works on rows it read unfinished; as long as a row stays         *)
(* unfinished nobody changes its quota, so a CAS that wins writes back the *)
(* quota it finds.                                                         *)
CopyInv(p, t) ==
    Handles(p, t) =>
        /\ copyStatus[p][t] \in Unfinished
        /\ status[t] \in Statuses
        /\ status[t] \in Unfinished => copyQuota[p][t] = quota[t]

(* The three stages of an adjustment, which only the winner of the CAS to  *)
(* a terminal status makes.                                                *)
AdjustInv(p, t) ==
    Adjusting(p, t) =>
        /\ status[t] \in Terminal
        /\ status[t] = "FAILURE" => newQuota[p] = 0 \/ t \in bulk
        /\ delta[p] = newQuota[p] - quota[t]
        /\ charged[t] = IF pc[p] = "funding" THEN quota[t] ELSE newQuota[p]
        /\ pc[p] \in {"funding", "token"} => tokenCharged[t] = quota[t]
        /\ pc[p] = "quota" => tokenCharged[t] >= 0 /\ (~harmed[t] => tokenCharged[t] = newQuota[p])

(* The books of a task: exact before the terminal status and, when no      *)
(* statement was lost, after it.                                           *)
TaskInv(t) ==
    /\ status[t] \in Unfinished \cup {"settled"} =>
          Idle(t) /\ charged[t] = quota[t] /\ tokenCharged[t] = quota[t]
    /\ status[t] \notin Statuses => Idle(t)
    /\ Idle(t) /\ ~harmed[t] /\ t \notin LegacyTasks /\ status[t] # "none" =>
          /\ charged[t] = quota[t] /\ tokenCharged[t] = quota[t]
          /\ status[t] = "FAILURE" => quota[t] = 0 \/ t \in bulk
    /\ charged[t] >= 0 /\ tokenCharged[t] >= 0

Books(t) ==
    /\ TaskInv(t)
    /\ \A p \in Pollers : CopyInv(p, t) /\ AdjustInv(p, t)
    /\ \A p, q \in Pollers : Adjusting(p, t) /\ Adjusting(q, t) => p = q

(* The inductive invariant. *)
IndInv ==
    /\ TypeOK
    /\ \A f \in Fetchers : fpc[f] = "idle"
    /\ \A t \in Tasks : Books(t)
=============================================================================
