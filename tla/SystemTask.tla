------------------------------ MODULE SystemTask ------------------------------
(***************************************************************************)
(* System tasks of one type: the rows the scheduler and the API create,    *)
(* the runners (one per master node) that claim them, the lease row that   *)
(* is to keep two runners from working at once, the heartbeat that renews  *)
(* it, the pass that expires it and the handler that finishes the row.     *)
(* model/system_task.go and service/system_task.go.                        *)
(*                                                                         *)
(* A step is one statement.  The types do not share rows or leases, so one *)
(* type is modelled.  Time is relative: left is locked_until minus the     *)
(* clock, age[r] is the clock minus the value of now that runner r read,   *)
(* so that the code's locked_until < now is left < -age[r].                *)
(***************************************************************************)
EXTENDS Integers

CONSTANTS
    Rows,         \* the rows that may be created: a bound
    NoRow,
    Runners,
    NoRunner,
    TTL,          \* systemTaskLockTTL, in ticks
    MaxPause,     \* the longest time between reading the clock and using it
    MayMissBeats, \* may a heartbeat come too late?
    MaxFaults,    \* bound on the number of failing statements and crashes
    MayCrash      \* may a runner crash?

ASSUME SystemTaskAssumption ==
    /\ NoRow \notin Rows
    /\ NoRunner \notin Runners
    /\ TTL \in Nat
    /\ MaxPause \in Nat
    /\ MayMissBeats \in BOOLEAN
    /\ MaxFaults \in Nat
    /\ MayCrash \in BOOLEAN

VARIABLES
    \* SystemTask rows: Status, ActiveKey (is it set?), LockedBy
    status, key, by,
    \* the SystemTaskLock row of the type: TaskID, LockedBy, LockedUntil
    lockTask, lockBy, left,
    \* each runner's pass: where it is, the age of its now, the row it claims,
    \* the row whose lease it took over, the lapsed lease it read
    pc, age, task, old, seenTask, seenBy,
    \* the goroutine of runner r that works on row x
    handler,
    faults

rowVars  == <<status, key, by>>
lockVars == <<lockTask, lockBy, left>>
local    == <<task, old, seenTask, seenBy>>
vars     == <<rowVars, lockVars, pc, age, local, handler, faults>>

Active   == {"pending", "running"}
Terminal == {"succeeded", "failed"}
Statuses == {"none"} \cup Active \cup Terminal

(* Places where a pass still uses a now it read earlier, or holds a claim. *)
StalePass == {"stale", "mark", "delete"}
Claiming  == {"lock", "readLock", "takeOver", "markOld", "start", "dispatch"}
Timed     == StalePass \cup Claiming
Places    == {"idle", "schedule", "find", "giveUp", "dead"} \cup Timed

(* A goroutine runs with a live context, or with one the heartbeat has     *)
(* cancelled; after FinishSystemTask has committed it releases the lease.  *)
Phases == {"none", "run", "cancelled", "release", "ended"}

Init ==
    /\ status = [x \in Rows |-> "none"]
    /\ key = [x \in Rows |-> FALSE]
    /\ by = [x \in Rows |-> NoRunner]
    /\ lockTask = NoRow /\ lockBy = NoRunner /\ left = 0
    /\ pc = [r \in Runners |-> "idle"]
    /\ age = [r \in Runners |-> 0]
    /\ task = [r \in Runners |-> NoRow]
    /\ old = [r \in Runners |-> NoRow]
    /\ seenTask = [r \in Runners |-> NoRow]
    /\ seenBy = [r \in Runners |-> NoRunner]
    /\ handler = [r \in Runners |-> [x \in Rows |-> "none"]]
    /\ faults = 0

-----------------------------------------------------------------------------
(* Statements.                                                             *)

Goto(r, place) == pc' = [pc EXCEPT ![r] = place]

Fault ==
    /\ faults < MaxFaults
    /\ faults' = faults + 1

(* Does the lease row name row x and runner r? *)
Holds(x, r) == lockTask = x /\ lockBy = r

(* ... and locked_until >= the clock, in a statement that reads it now. *)
HoldsValid(x, r) == Holds(x, r) /\ left >= 0

(* Mutant: the lease is taken for lapsed whenever there is one. *)
LapsedAlways(r) == lockTask # NoRow

(* locked_until < now, for the now runner r read before. *)
Lapsed(r) == lockTask # NoRow /\ left < -age[r]

DeleteLock ==
    /\ lockTask' = NoRow
    /\ lockBy' = NoRunner
    /\ left' = 0

(* The lease for row x, with the locked_until r computed from its now. *)
WriteLock(x, r) ==
    /\ lockTask' = x
    /\ lockBy' = r
    /\ left' = TTL - age[r]

(* Mutant: the DELETE does not ask whose lease it is. *)
ReleaseOfAnyone(x, r) ==
    IF lockTask = x THEN DeleteLock ELSE UNCHANGED lockVars

(* ReleaseSystemTaskLock: DELETE ... WHERE task_id = x AND locked_by = r. *)
ReleaseSystemTaskLock(x, r) ==
    IF Holds(x, r) THEN DeleteLock ELSE UNCHANGED lockVars

(* Mutant: the UPDATE has no condition on the status. *)
MarkWhateverStatus(x) ==
    IF x \in Rows
    THEN /\ status' = [status EXCEPT ![x] = "failed"]
         /\ key' = [key EXCEPT ![x] = FALSE]
         /\ UNCHANGED by
    ELSE UNCHANGED rowVars

(* Mutant: a row whose lease expired is queued again. *)
MarkPending(x) ==
    IF x \in Rows /\ status[x] = "running"
    THEN status' = [status EXCEPT ![x] = "pending"] /\ UNCHANGED <<key, by>>
    ELSE UNCHANGED rowVars

(* MarkSystemTaskLeaseExpired: only a running row is failed. *)
MarkSystemTaskLeaseExpired(x) ==
    IF x \in Rows /\ status[x] = "running"
    THEN /\ status' = [status EXCEPT ![x] = "failed"]
         /\ key' = [key EXCEPT ![x] = FALSE]
         /\ UNCHANGED by
    ELSE UNCHANGED rowVars

(* CreateSystemTask: the unique index on active_key refuses a second active *)
(* row of the type.                                                        *)
CreateSystemTask ==
    /\ \A x \in Rows : ~key[x]
    /\ \E x \in Rows :
         /\ status[x] = "none"
         /\ status' = [status EXCEPT ![x] = "pending"]
         /\ key' = [key EXCEPT ![x] = TRUE]
    /\ UNCHANGED by

-----------------------------------------------------------------------------
(* EnqueueSystemTask, StartLogCleanupTask: a call of the API. An active    *)
(* row, seen before or after the insert was refused, is returned instead.  *)
Enqueue ==
    /\ CreateSystemTask
    /\ UNCHANGED <<lockVars, pc, age, local, handler, faults>>

(* The runner wakes up; ExpireStaleSystemTaskLocks is called with the time. *)
BeginPass(r) ==
    /\ pc[r] = "idle"
    /\ Goto(r, "stale")
    /\ age' = [age EXCEPT ![r] = 0]
    /\ UNCHANGED <<rowVars, lockVars, local, handler, faults>>

(* Not yet due (systemTaskStaleLockInterval), no lapsed lease, or the query *)
(* failed.                                                                 *)
SkipStale(r) ==
    /\ pc[r] = "stale"
    /\ Goto(r, "schedule")
    /\ age' = [age EXCEPT ![r] = 0]
    /\ UNCHANGED <<rowVars, lockVars, local, handler, faults>>

(* ExpireStaleSystemTaskLocks reads the lapsed lease ... *)
ReadStale(r) ==
    /\ pc[r] = "stale"
    /\ Lapsed(r)
    /\ Goto(r, "mark")
    /\ seenTask' = [seenTask EXCEPT ![r] = lockTask]
    /\ seenBy' = [seenBy EXCEPT ![r] = lockBy]
    /\ UNCHANGED <<rowVars, lockVars, age, task, old, handler, faults>>

(* ... fails its row ... *)
MarkStale(r) ==
    /\ pc[r] = "mark"
    /\ \/ /\ MarkSystemTaskLeaseExpired(seenTask[r])
          /\ Goto(r, "delete")
          /\ UNCHANGED <<age, seenTask, seenBy, faults>>
       \/ /\ Fault
          /\ Goto(r, "schedule")
          /\ age' = [age EXCEPT ![r] = 0]
          /\ seenTask' = [seenTask EXCEPT ![r] = NoRow]
          /\ seenBy' = [seenBy EXCEPT ![r] = NoRunner]
          /\ UNCHANGED rowVars
    /\ UNCHANGED <<lockVars, task, old, handler>>

(* Mutant: the DELETE does not ask whether the lease is still lapsed. *)
DeleteStaleUnchecked(r) ==
    /\ pc[r] = "delete"
    /\ IF Holds(seenTask[r], seenBy[r]) THEN DeleteLock ELSE UNCHANGED lockVars
    /\ Goto(r, "schedule")
    /\ age' = [age EXCEPT ![r] = 0]
    /\ seenTask' = [seenTask EXCEPT ![r] = NoRow]
    /\ seenBy' = [seenBy EXCEPT ![r] = NoRunner]
    /\ UNCHANGED <<rowVars, task, old, handler, faults>>

(* ... and deletes the lease, if it is still the one that was read. *)
DeleteStale(r) ==
    /\ pc[r] = "delete"
    /\ \/ /\ Holds(seenTask[r], seenBy[r]) /\ Lapsed(r)
          /\ DeleteLock
          /\ UNCHANGED faults
       \/ /\ ~(Holds(seenTask[r], seenBy[r]) /\ Lapsed(r))
          /\ UNCHANGED <<lockVars, faults>>
       \/ Fault /\ UNCHANGED lockVars
    /\ Goto(r, "schedule")
    /\ age' = [age EXCEPT ![r] = 0]
    /\ seenTask' = [seenTask EXCEPT ![r] = NoRow]
    /\ seenBy' = [seenBy EXCEPT ![r] = NoRunner]
    /\ UNCHANGED <<rowVars, task, old, handler>>

(* runSystemTaskScheduler: a new row if the handler is enabled, the latest *)
(* row is not active and the interval is over.                             *)
Schedule(r) ==
    /\ pc[r] = "schedule"
    /\ CreateSystemTask \/ UNCHANGED rowVars
    /\ Goto(r, "find")
    /\ UNCHANGED <<lockVars, age, local, handler, faults>>

-----------------------------------------------------------------------------
(* runSystemTaskClaimPass and ClaimSystemTask.                             *)

(* The claim is over without a lease. *)
NotClaimed(r) ==
    /\ Goto(r, "idle")
    /\ age' = [age EXCEPT ![r] = 0]
    /\ task' = [task EXCEPT ![r] = NoRow]
    /\ old' = [old EXCEPT ![r] = NoRow]

(* FindEarliestPendingSystemTasks, the time, and the second read of the row *)
(* in ClaimSystemTask; there is at most one pending row.                   *)
FindPending(r) ==
    /\ pc[r] = "find"
    /\ \E x \in Rows :
         /\ status[x] = "pending"
         /\ task' = [task EXCEPT ![r] = x]
    /\ Goto(r, "lock")
    /\ age' = [age EXCEPT ![r] = 0]
    /\ UNCHANGED <<rowVars, lockVars, old, seenTask, seenBy, handler, faults>>

(* No pending row, or the query failed. *)
NothingPending(r) ==
    /\ pc[r] = "find"
    /\ \/ (\A x \in Rows : status[x] # "pending") /\ UNCHANGED faults
       \/ Fault
    /\ NotClaimed(r)
    /\ UNCHANGED <<rowVars, lockVars, seenTask, seenBy, handler>>

(* acquireSystemTaskLock inserts the lease of the type; a failed insert is *)
(* taken for a duplicate.                                                  *)
CreateLock(r) ==
    /\ pc[r] = "lock"
    /\ \/ /\ lockTask = NoRow
          /\ WriteLock(task[r], r)
          /\ Goto(r, "start")
          /\ UNCHANGED faults
       \/ /\ lockTask # NoRow
          /\ Goto(r, "readLock")
          /\ UNCHANGED <<lockVars, faults>>
       \/ /\ Fault
          /\ Goto(r, "readLock")
          /\ UNCHANGED lockVars
    /\ UNCHANGED <<rowVars, age, local, handler>>

(* It reads the existing lease, which may be gone, or valid. *)
ReadLock(r) ==
    /\ pc[r] = "readLock"
    /\ \/ /\ Lapsed(r)
          /\ Goto(r, "takeOver")
          /\ old' = [old EXCEPT ![r] = lockTask]
          /\ UNCHANGED <<age, task, faults>>
       \/ ~Lapsed(r) /\ NotClaimed(r) /\ UNCHANGED faults
       \/ Fault /\ NotClaimed(r)
    /\ UNCHANGED <<rowVars, lockVars, seenTask, seenBy, handler>>

(* It overwrites the lease if that is still lapsed. *)
TakeOver(r) ==
    /\ pc[r] = "takeOver"
    /\ \/ /\ Lapsed(r)
          /\ WriteLock(task[r], r)
          /\ Goto(r, IF old[r] # task[r] THEN "markOld" ELSE "start")
          /\ UNCHANGED <<age, task, old, faults>>
       \/ ~Lapsed(r) /\ NotClaimed(r) /\ UNCHANGED <<lockVars, faults>>
       \/ Fault /\ NotClaimed(r) /\ UNCHANGED lockVars
    /\ UNCHANGED <<rowVars, seenTask, seenBy, handler>>

(* ClaimSystemTask fails the row of the lease it took over. *)
MarkOld(r) ==
    /\ pc[r] = "markOld"
    /\ \/ /\ MarkSystemTaskLeaseExpired(old[r])
          /\ Goto(r, "start")
          /\ UNCHANGED faults
       \/ /\ Fault
          /\ Goto(r, "giveUp")
          /\ UNCHANGED rowVars
    /\ UNCHANGED <<lockVars, age, local, handler>>

(* Mutant: the UPDATE stores the row's own id as its runner. *)
StartTaskWrongColumn(r) ==
    /\ pc[r] = "start"
    /\ status[task[r]] = "pending"
    /\ status' = [status EXCEPT ![task[r]] = "running"]
    /\ by' = [by EXCEPT ![task[r]] = task[r]]
    /\ Goto(r, "dispatch")
    /\ UNCHANGED <<key, lockVars, age, local, handler, faults>>

(* pending -> running, whatever has become of the lease. *)
StartTask(r) ==
    /\ pc[r] = "start"
    /\ \/ /\ status[task[r]] = "pending"
          /\ status' = [status EXCEPT ![task[r]] = "running"]
          /\ by' = [by EXCEPT ![task[r]] = r]
          /\ Goto(r, "dispatch")
          /\ UNCHANGED <<key, faults>>
       \/ /\ status[task[r]] # "pending"
          /\ Goto(r, "giveUp")
          /\ UNCHANGED <<rowVars, faults>>
       \/ /\ Fault
          /\ Goto(r, "giveUp")
          /\ UNCHANGED rowVars
    /\ UNCHANGED <<lockVars, age, local, handler>>

(* The claim failed: the lease is released, as far as that works. *)
GiveUp(r) ==
    /\ pc[r] = "giveUp"
    /\ \/ ReleaseSystemTaskLock(task[r], r) /\ UNCHANGED faults
       \/ Fault /\ UNCHANGED lockVars
    /\ NotClaimed(r)
    /\ UNCHANGED <<rowVars, seenTask, seenBy, handler>>

(* The row is read again and handed to a goroutine; if that read fails the *)
(* running row and its lease are left behind.                              *)
Dispatch(r) ==
    /\ pc[r] = "dispatch"
    /\ \/ /\ handler' = [handler EXCEPT ![r][task[r]] = "run"]
          /\ UNCHANGED faults
       \/ Fault /\ UNCHANGED handler
    /\ NotClaimed(r)
    /\ UNCHANGED <<rowVars, lockVars, seenTask, seenBy>>

-----------------------------------------------------------------------------
(* The goroutine of a claimed row.                                         *)

(* RenewSystemTaskLock; a lost lease or an error cancels the context. *)
Heartbeat(r, x) ==
    /\ handler[r][x] = "run"
    /\ \/ /\ HoldsValid(x, r)
          /\ left' = TTL
          /\ UNCHANGED <<handler, faults>>
       \/ /\ ~HoldsValid(x, r)
          /\ handler' = [handler EXCEPT ![r][x] = "cancelled"]
          /\ UNCHANGED <<left, faults>>
       \/ /\ Fault
          /\ handler' = [handler EXCEPT ![r][x] = "cancelled"]
          /\ UNCHANGED left
    /\ UNCHANGED <<rowVars, lockTask, lockBy, pc, age, local>>

(* FinishSystemTask, with whichever result: only for the running row of    *)
(* this runner, under a valid lease.  A failure is logged; a panic of the  *)
(* handler ends the goroutine in the same way.                             *)
FinishSystemTask(r, x) ==
    /\ handler[r][x] \in {"run", "cancelled"}
    /\ \/ /\ status[x] = "running" /\ by[x] = r /\ HoldsValid(x, r)
          /\ \E s \in Terminal : status' = [status EXCEPT ![x] = s]
          /\ key' = [key EXCEPT ![x] = FALSE]
          /\ handler' = [handler EXCEPT ![r][x] = "release"]
          /\ UNCHANGED <<by, faults>>
       \/ /\ ~(status[x] = "running" /\ by[x] = r /\ HoldsValid(x, r))
          /\ handler' = [handler EXCEPT ![r][x] = "ended"]
          /\ UNCHANGED <<rowVars, faults>>
       \/ /\ Fault
          /\ handler' = [handler EXCEPT ![r][x] = "ended"]
          /\ UNCHANGED rowVars
    /\ UNCHANGED <<lockVars, pc, age, local>>

(* The lease is released after the result was stored. *)
Release(r, x) ==
    /\ handler[r][x] = "release"
    /\ \/ ReleaseSystemTaskLock(x, r) /\ UNCHANGED faults
       \/ Fault /\ UNCHANGED lockVars
    /\ handler' = [handler EXCEPT ![r][x] = "ended"]
    /\ UNCHANGED <<rowVars, pc, age, local>>

-----------------------------------------------------------------------------
(* The environment.                                                        *)

(* Is the heartbeat of every live holder early enough for one more tick?   *)
BeatsInTime ==
    \A r \in Runners, x \in Rows :
        handler[r][x] = "run" /\ Holds(x, r) => left > 0

(* The clock advances, by at most MaxPause between the steps of a pass that *)
(* share one reading of it.  Below -MaxPause, left compares like any lower *)
(* value.  There is one clock: every node writes and compares locked_until *)
(* by its own common.GetTimestamp, and a skew between nodes is not         *)
(* modelled (one that runs ahead sees leases lapse early, by the skew).    *)
Tick ==
    /\ \A r \in Runners : pc[r] \in Timed => age[r] < MaxPause
    /\ MayMissBeats \/ BeatsInTime
    /\ age' = [r \in Runners |-> IF pc[r] \in Timed THEN age[r] + 1 ELSE age[r]]
    /\ left' = IF lockTask # NoRow /\ left >= -MaxPause THEN left - 1 ELSE left
    /\ UNCHANGED <<rowVars, lockTask, lockBy, pc, local, handler, faults>>

(* A runner is gone with its goroutines; some other stays.  A restarted    *)
(* process has a new runner id.                                            *)
Crash(r) ==
    /\ MayCrash /\ Fault
    /\ pc[r] # "dead"
    /\ \E s \in Runners \ {r} : pc[s] # "dead"
    /\ Goto(r, "dead")
    /\ age' = [age EXCEPT ![r] = 0]
    /\ task' = [task EXCEPT ![r] = NoRow]
    /\ old' = [old EXCEPT ![r] = NoRow]
    /\ seenTask' = [seenTask EXCEPT ![r] = NoRow]
    /\ seenBy' = [seenBy EXCEPT ![r] = NoRunner]
    /\ handler' = [handler EXCEPT ![r] =
                     [x \in Rows |-> IF handler[r][x] = "none" THEN "none" ELSE "ended"]]
    /\ UNCHANGED <<rowVars, lockVars>>

Pass(r) ==
    \/ BeginPass(r) \/ SkipStale(r) \/ ReadStale(r) \/ MarkStale(r) \/ DeleteStale(r)
    \/ Schedule(r) \/ FindPending(r) \/ NothingPending(r)
    \/ CreateLock(r) \/ ReadLock(r) \/ TakeOver(r) \/ MarkOld(r) \/ StartTask(r)
    \/ GiveUp(r) \/ Dispatch(r)

Work(r, x) == Heartbeat(r, x) \/ FinishSystemTask(r, x) \/ Release(r, x)

Next ==
    \/ Enqueue \/ Tick
    \/ \E r \in Runners : Pass(r) \/ Crash(r) \/ (\E x \in Rows : Work(r, x))

(* Runners keep making passes, among them stale-lock passes (throttled, but *)
(* never given up), handlers return, and time goes on.                     *)
Spec ==
    /\ Init /\ [][Next]_vars
    /\ \A r \in Runners : WF_vars(Pass(r)) /\ SF_vars(ReadStale(r))
    /\ \A r \in Runners, x \in Rows :
          WF_vars(FinishSystemTask(r, x)) /\ WF_vars(Release(r, x))
    /\ WF_vars(Tick)

-----------------------------------------------------------------------------
(* Types of the rows, the lease, the passes and the goroutines. *)
TypeOK ==
    /\ status \in [Rows -> Statuses]
    /\ key \in [Rows -> BOOLEAN]
    /\ by \in [Rows -> Runners \cup {NoRunner}]
    /\ lockTask \in Rows \cup {NoRow}
    /\ lockBy \in Runners \cup {NoRunner}
    /\ left \in Int
    /\ pc \in [Runners -> Places]
    /\ age \in [Runners -> Nat]
    /\ task \in [Runners -> Rows \cup {NoRow}]
    /\ old \in [Runners -> Rows \cup {NoRow}]
    /\ seenTask \in [Runners -> Rows \cup {NoRow}]
    /\ seenBy \in [Runners -> Runners \cup {NoRunner}]
    /\ handler \in [Runners -> [Rows -> Phases]]
    /\ faults \in Nat

(* A row is dispatched at most once, to one runner, however many runners   *)
(* claim it, stall and take its lease from each other (ClaimSystemTask).   *)
ClaimedOnce ==
    \A r, s \in Runners, x \in Rows :
        handler[r][x] # "none" /\ handler[s][x] # "none" => r = s

(* A stored result is final: neither the pass that expires leases nor a    *)
(* late handler changes the status of a finished row                       *)
(* (MarkSystemTaskLeaseExpired, FinishSystemTask).                         *)
TerminalFinal ==
    [][\A x \in Rows : status[x] \in Terminal => status'[x] = status[x]]_vars

(* What the lease is for: at most one goroutine of the type works with a   *)
(* live context ("the per-type lock guarantees only one runner executes    *)
(* the task", runSystemTaskScheduler).                                     *)
NoOverlap ==
    \A r, s \in Runners, x, y \in Rows :
        handler[r][x] = "run" /\ handler[s][y] = "run" => r = s /\ x = y

(* A running row has a lease row that names it and its runner.  Rows are   *)
(* failed only by way of their lease, so one without would stay running,   *)
(* and hold the active key of its type, forever.                           *)
RunningGuarded ==
    \A x \in Rows : status[x] = "running" => lockTask = x /\ lockBy = by[x]

(* Every created row ends: a handler finishes it, or its lease lapses and  *)
(* a stale-lock pass fails it.                                             *)
RowsEnd == \A x \in Rows : status[x] = "pending" ~> status[x] \in Terminal

(* What the lease protocol relies on: nobody takes longer than the TTL     *)
(* between reading the clock and acting on it, and heartbeats are on time. *)
Timely == MaxPause <= TTL /\ ~MayMissBeats

=============================================================================
