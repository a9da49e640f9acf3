-------------------------- MODULE SystemTaskProofs --------------------------
(***************************************************************************)
(* Proofs about SystemTask: what the claim of a row guarantees however     *)
(* late its runner is, and what the lease guarantees when nobody is later  *)
(* than its TTL.                                                           *)
(***************************************************************************)
EXTENDS SystemTask, TLAPS

Fresh == {"none", "pending"}

(* The active key is set on exactly the active rows, and on one at most. *)
KeyInv ==
    /\ \A x \in Rows : key[x] <=> status[x] \in Active
    /\ \A x, y \in Rows : key[x] /\ key[y] => x = y

(* A row that was never started has no runner. *)
RowInv == \A x \in Rows : status[x] \in Fresh => by[x] = NoRunner

(* A claim is for a row that its runner has not started yet, or has just   *)
(* started and not yet dispatched.                                         *)
ClaimInv ==
    \A r \in Runners :
        /\ pc[r] \in Claiming \cup {"giveUp"} => task[r] \in Rows
        /\ pc[r] \in {"lock", "readLock", "takeOver", "markOld", "start", "giveUp"}
              => by[task[r]] # r
        /\ pc[r] = "dispatch" => /\ by[task[r]] = r
                                 /\ status[task[r]] \notin Fresh
                                 /\ handler[r][task[r]] = "none"

(* A goroutine works for the runner that started its row, and releases the *)
(* lease only after the row has ended.                                     *)
HandlerInv ==
    \A r \in Runners, x \in Rows :
        /\ handler[r][x] # "none" => by[x] = r /\ status[x] \notin Fresh
        /\ handler[r][x] = "release" => status[x] \in Terminal

(* The inductive invariant that needs no assumption on time. *)
IndInv == TypeOK /\ KeyInv /\ RowInv /\ ClaimInv /\ HandlerInv

-----------------------------------------------------------------------------
(* Reading the clock again keeps the type of the ages. *)
LEMMA ClockStep ==
    ASSUME NEW r, age \in [Runners -> Nat], age' = age \/ age' = [age EXCEPT ![r] = 0]
    PROVE  age' \in [Runners -> Nat]
OBVIOUS

(* A step keeps the types. *)
LEMMA TypeStep == IndInv /\ [Next]_vars => TypeOK'
<1> SUFFICES ASSUME IndInv, [Next]_vars PROVE TypeOK'
  OBVIOUS
<1> USE SystemTaskAssumption DEF IndInv
<1> USE DEF TypeOK, Places, Timed, StalePass, Claiming, Phases, Statuses, Active, Terminal, rowVars, lockVars, local
<1>1. CASE Enqueue
  BY <1>1 DEF Enqueue, CreateSystemTask
<1>2. CASE Tick
  BY <1>2 DEF Tick
<1>3. ASSUME NEW r \in Runners, BeginPass(r) PROVE TypeOK'
  BY <1>3 DEF BeginPass, Goto
<1>4. ASSUME NEW r \in Runners, SkipStale(r) PROVE TypeOK'
  BY <1>4 DEF SkipStale, Goto
<1>5. ASSUME NEW r \in Runners, ReadStale(r) PROVE TypeOK'
  BY <1>5 DEF ReadStale, Goto, Lapsed
<1>6. ASSUME NEW r \in Runners, MarkStale(r) PROVE TypeOK'
  <2>1. pc' \in [Runners -> Places]
    BY <1>6 DEF MarkStale, Goto, Fault
  <2>2. age' \in [Runners -> Nat]
    <3>1. age' = age \/ age' = [age EXCEPT ![r] = 0]
      BY <1>6 DEF MarkStale
    <3>2. age \in [Runners -> Nat]
      OBVIOUS
    <3> QED
      BY ONLY <3>1, <3>2, ClockStep
  <2>3. status' \in [Rows -> Statuses] /\ key' \in [Rows -> BOOLEAN]
    BY <1>6 DEF MarkStale, MarkSystemTaskLeaseExpired, Goto, Fault
  <2>4. /\ seenTask' \in [Runners -> Rows \cup {NoRow}]
         /\ seenBy' \in [Runners -> Runners \cup {NoRunner}]
    BY <1>6 DEF MarkStale, Goto, Fault
  <2>5. faults' \in Nat
    BY <1>6 DEF MarkStale, Goto, Fault
  <2> QED
    BY <1>6, <2>1, <2>2, <2>3, <2>4, <2>5 DEF MarkStale, Goto, Fault, MarkSystemTaskLeaseExpired
<1>7. ASSUME NEW r \in Runners, DeleteStale(r) PROVE TypeOK'
  BY <1>7 DEF DeleteStale, DeleteLock, Goto, Fault
<1>8. ASSUME NEW r \in Runners, Schedule(r) PROVE TypeOK'
  BY <1>8 DEF Schedule, CreateSystemTask, Goto
<1>9. ASSUME NEW r \in Runners, FindPending(r) PROVE TypeOK'
  BY <1>9 DEF FindPending, Goto
<1>10. ASSUME NEW r \in Runners, NothingPending(r) PROVE TypeOK'
  BY <1>10 DEF NothingPending, NotClaimed, Goto, Fault
<1>11. ASSUME NEW r \in Runners, CreateLock(r) PROVE TypeOK'
  BY <1>11 DEF CreateLock, WriteLock, Goto, Fault
<1>12. ASSUME NEW r \in Runners, ReadLock(r) PROVE TypeOK'
  <2>1. pc' \in [Runners -> Places]
    BY <1>12 DEF ReadLock, NotClaimed, Goto, Fault
  <2>2. age' \in [Runners -> Nat]
    <3>1. age' = age \/ age' = [age EXCEPT ![r] = 0]
      BY <1>12 DEF ReadLock, NotClaimed
    <3>2. age \in [Runners -> Nat]
      OBVIOUS
    <3> QED
      BY ONLY <3>1, <3>2, ClockStep
  <2>3. task' \in [Runners -> Rows \cup {NoRow}]
    BY <1>12 DEF ReadLock, NotClaimed, Goto, Fault
  <2>4. old' \in [Runners -> Rows \cup {NoRow}]
    BY <1>12 DEF ReadLock, NotClaimed, Goto, Fault
  <2>5. faults' \in Nat
    BY <1>12 DEF ReadLock, NotClaimed, Goto, Fault
  <2> QED
    BY <1>12, <2>1, <2>2, <2>3, <2>4, <2>5 DEF ReadLock, NotClaimed, Goto, Fault
<1>13. ASSUME NEW r \in Runners, TakeOver(r) PROVE TypeOK'
  <2>1. /\ lockTask' \in Rows \cup {NoRow}
         /\ lockBy' \in Runners \cup {NoRunner}
         /\ left' \in Int
    BY <1>13 DEF TakeOver, WriteLock, NotClaimed, Goto, Fault
  <2>2. pc' \in [Runners -> Places]
    BY <1>13 DEF TakeOver, NotClaimed, Goto, Fault
  <2>3. age' \in [Runners -> Nat]
    <3>1. age' = age \/ age' = [age EXCEPT ![r] = 0]
      BY <1>13 DEF TakeOver, NotClaimed
    <3>2. age \in [Runners -> Nat]
      OBVIOUS
    <3> QED
      BY ONLY <3>1, <3>2, ClockStep
  <2>4. task' \in [Runners -> Rows \cup {NoRow}]
    BY <1>13 DEF TakeOver, NotClaimed, Goto, Fault
  <2>5. old' \in [Runners -> Rows \cup {NoRow}]
    BY <1>13 DEF TakeOver, NotClaimed, Goto, Fault
  <2>6. faults' \in Nat
    BY <1>13 DEF TakeOver, NotClaimed, Goto, Fault
  <2> QED
    BY <1>13, <2>1, <2>2, <2>3, <2>4, <2>5, <2>6 DEF TakeOver, NotClaimed, Goto, Fault
<1>14. ASSUME NEW r \in Runners, MarkOld(r) PROVE TypeOK'
  <2>1. status' \in [Rows -> Statuses] /\ key' \in [Rows -> BOOLEAN]
    BY <1>14 DEF MarkOld, MarkSystemTaskLeaseExpired, Goto, Fault
  <2>2. pc' \in [Runners -> Places]
    BY <1>14 DEF MarkOld, Goto, Fault
  <2>3. faults' \in Nat
    BY <1>14 DEF MarkOld, Goto, Fault
  <2> QED
    BY <1>14, <2>1, <2>2, <2>3 DEF MarkOld, Goto, Fault, MarkSystemTaskLeaseExpired
<1>15. ASSUME NEW r \in Runners, StartTask(r) PROVE TypeOK'
  <2>1. status' \in [Rows -> Statuses] /\ key' \in [Rows -> BOOLEAN]
    BY <1>15 DEF StartTask, Goto, Fault, ClaimInv
  <2>2. by' \in [Rows -> Runners \cup {NoRunner}]
    BY <1>15 DEF StartTask, Goto, Fault, ClaimInv
  <2>3. pc' \in [Runners -> Places]
    BY <1>15 DEF StartTask, Goto, Fault
  <2>4. faults' \in Nat
    BY <1>15 DEF StartTask, Goto, Fault, ClaimInv
  <2> QED
    BY <1>15, <2>1, <2>2, <2>3, <2>4 DEF StartTask, Goto, Fault, ClaimInv
<1>16. ASSUME NEW r \in Runners, GiveUp(r) PROVE TypeOK'
  BY <1>16 DEF GiveUp, ReleaseSystemTaskLock, DeleteLock, NotClaimed, Goto, Fault
<1>17. ASSUME NEW r \in Runners, Dispatch(r) PROVE TypeOK'
  <2>1. handler' \in [Runners -> [Rows -> Phases]]
    <3>1. \/ handler' = handler
          \/ \E p \in Phases : handler' = [handler EXCEPT ![r][task[r]] = p]
      BY <1>17 DEF Dispatch, Fault
    <3>2. handler \in [Runners -> [Rows -> Phases]] /\ task[r] \in Rows
      BY <1>17 DEF Dispatch, ClaimInv
    <3> HIDE <1>17 DEF Phases, TypeOK, IndInv
    <3>3. ASSUME NEW p \in Phases, handler' = [handler EXCEPT ![r][task[r]] = p]
          PROVE  handler' \in [Runners -> [Rows -> Phases]]
      BY <3>2, <3>3
    <3> QED
      BY <3>1, <3>2, <3>3, Zenon
  <2>2. pc' \in [Runners -> Places]
    BY <1>17 DEF Dispatch, NotClaimed, Goto, Fault
  <2>3. age' \in [Runners -> Nat]
    BY <1>17 DEF Dispatch, NotClaimed, Goto, Fault, ClaimInv
  <2>4. task' \in [Runners -> Rows \cup {NoRow}]
    BY <1>17 DEF Dispatch, NotClaimed, Goto, Fault, ClaimInv
  <2>5. old' \in [Runners -> Rows \cup {NoRow}]
    BY <1>17 DEF Dispatch, NotClaimed, Goto, Fault, ClaimInv
  <2>6. faults' \in Nat
    BY <1>17 DEF Dispatch, NotClaimed, Goto, Fault, ClaimInv
  <2> QED
    BY <1>17, <2>1, <2>2, <2>3, <2>4, <2>5, <2>6 DEF Dispatch, NotClaimed, Goto, Fault, ClaimInv
<1>18. ASSUME NEW r \in Runners, Crash(r) PROVE TypeOK'
  BY <1>18 DEF Crash, Goto, Fault
<1>19. ASSUME NEW r \in Runners, NEW x \in Rows, Heartbeat(r, x) PROVE TypeOK'
  <2>1. left' \in Int
    BY <1>19 DEF Heartbeat, Fault
  <2>2. handler' \in [Runners -> [Rows -> Phases]]
    <3>1. \/ handler' = handler
          \/ \E p \in Phases : handler' = [handler EXCEPT ![r][x] = p]
      BY <1>19 DEF Heartbeat, Fault
    <3>2. handler \in [Runners -> [Rows -> Phases]] /\ x \in Rows
      BY <1>19 DEF Heartbeat
    <3> HIDE <1>19 DEF Phases, TypeOK, IndInv
    <3>3. ASSUME NEW p \in Phases, handler' = [handler EXCEPT ![r][x] = p]
          PROVE  handler' \in [Runners -> [Rows -> Phases]]
      BY <3>2, <3>3
    <3> QED
      BY <3>1, <3>2, <3>3, Zenon
  <2>3. faults' \in Nat
    BY <1>19 DEF Heartbeat, Fault
  <2> QED
    BY <1>19, <2>1, <2>2, <2>3 DEF Heartbeat, Fault
<1>20. ASSUME NEW r \in Runners, NEW x \in Rows, FinishSystemTask(r, x) PROVE TypeOK'
  <2>1. status' \in [Rows -> Statuses]
    BY <1>20 DEF FinishSystemTask, Fault
  <2>2. key' \in [Rows -> BOOLEAN]
    BY <1>20 DEF FinishSystemTask, Fault
  <2>3. handler' \in [Runners -> [Rows -> Phases]]
    <3>1. \/ handler' = handler
          \/ \E p \in Phases : handler' = [handler EXCEPT ![r][x] = p]
      BY <1>20 DEF FinishSystemTask, Fault
    <3>2. handler \in [Runners -> [Rows -> Phases]] /\ x \in Rows
      BY <1>20 DEF FinishSystemTask
    <3> HIDE <1>20 DEF Phases, TypeOK, IndInv
    <3>3. ASSUME NEW p \in Phases, handler' = [handler EXCEPT ![r][x] = p]
          PROVE  handler' \in [Runners -> [Rows -> Phases]]
      BY <3>2, <3>3
    <3> QED
      BY <3>1, <3>2, <3>3, Zenon
  <2>4. faults' \in Nat
    BY <1>20 DEF FinishSystemTask, Fault
  <2> QED
    BY <1>20, <2>1, <2>2, <2>3, <2>4 DEF FinishSystemTask, Fault
<1>21. ASSUME NEW r \in Runners, NEW x \in Rows, Release(r, x) PROVE TypeOK'
  BY <1>21 DEF Release, ReleaseSystemTaskLock, DeleteLock, Fault
<1>22. CASE UNCHANGED vars
  BY <1>22 DEF vars
<1> QED
  BY <1>1, <1>2, <1>3, <1>4, <1>5, <1>6, <1>7, <1>8, <1>9, <1>10, <1>11, <1>12, <1>13, <1>14, <1>15, <1>16, <1>17, <1>18, <1>19, <1>20, <1>21, <1>22 DEF Next, Pass, Work

(* The statements that write rows. *)
RowStep ==
    \/ UNCHANGED rowVars
    \/ CreateSystemTask
    \/ \E x \in Rows \cup {NoRow} : MarkSystemTaskLeaseExpired(x)
    \/ \E r \in Runners : StartTask(r)
    \/ \E r \in Runners, x \in Rows : FinishSystemTask(r, x)

(* Every step writes rows by one of these statements, or not at all. *)
LEMMA NextRows == TypeOK /\ [Next]_vars => RowStep
<1> SUFFICES ASSUME TypeOK, [Next]_vars PROVE RowStep
  OBVIOUS
<1>1. CASE Enqueue
  BY <1>1 DEF Enqueue, RowStep
<1>2. ASSUME NEW r \in Runners, MarkStale(r) PROVE RowStep
  BY <1>2 DEF MarkStale, RowStep, TypeOK
<1>3. ASSUME NEW r \in Runners, MarkOld(r) PROVE RowStep
  BY <1>3 DEF MarkOld, RowStep, TypeOK
<1>4. ASSUME NEW r \in Runners, Schedule(r) PROVE RowStep
  BY <1>4 DEF Schedule, RowStep
<1>5. ASSUME NEW r \in Runners, StartTask(r) PROVE RowStep
  BY <1>5 DEF RowStep
<1>6. ASSUME NEW r \in Runners, NEW x \in Rows, FinishSystemTask(r, x) PROVE RowStep
  BY <1>6 DEF RowStep
<1>7. ASSUME NEW r \in Runners,
             \/ BeginPass(r) \/ SkipStale(r) \/ ReadStale(r) \/ DeleteStale(r)
             \/ FindPending(r) \/ NothingPending(r) \/ CreateLock(r) \/ ReadLock(r)
             \/ TakeOver(r) \/ GiveUp(r) \/ Dispatch(r) \/ Crash(r)
      PROVE  RowStep
  BY <1>7 DEF BeginPass, SkipStale, ReadStale, DeleteStale, FindPending, NothingPending,
     CreateLock, ReadLock, TakeOver, GiveUp, Dispatch, Crash, RowStep
<1>8. ASSUME NEW r \in Runners, NEW x \in Rows, Heartbeat(r, x) \/ Release(r, x)
      PROVE  RowStep
  BY <1>8 DEF Heartbeat, Release, RowStep
<1>9. CASE Tick \/ UNCHANGED vars
  BY <1>9 DEF Tick, vars, RowStep
<1> QED
  BY <1>1, <1>2, <1>3, <1>4, <1>5, <1>6, <1>7, <1>8, <1>9 DEF Next, Pass, Work

(* The active key stays with the one active row, and a row that was not    *)
(* started stays without a runner.                                         *)
LEMMA KeyStep == IndInv /\ [Next]_vars => KeyInv' /\ RowInv'
<1> SUFFICES ASSUME IndInv, [Next]_vars PROVE KeyInv' /\ RowInv'
  OBVIOUS
<1>r. RowStep
  BY NextRows DEF IndInv
<1> USE DEF IndInv, TypeOK, KeyInv, RowInv, Fresh, Active, Terminal, Statuses
<1>1. CASE UNCHANGED rowVars
  BY <1>1 DEF rowVars
<1>2. CASE CreateSystemTask
  BY <1>2 DEF CreateSystemTask
<1>3. ASSUME NEW x \in Rows \cup {NoRow}, MarkSystemTaskLeaseExpired(x)
      PROVE  KeyInv' /\ RowInv'
  <2>1. CASE x \in Rows /\ status[x] = "running"
    <3>1. key' = [key EXCEPT ![x] = FALSE] /\ status' = [status EXCEPT ![x] = "failed"]
      BY <1>3, <2>1 DEF MarkSystemTaskLeaseExpired
    <3>2. /\ status'[x] = "failed" /\ ~key'[x]
          /\ \A y \in Rows : y # x => status'[y] = status[y] /\ key'[y] = key[y]
      BY <2>1, <3>1
    <3>3. KeyInv'
      BY <2>1, <3>2, Zenon
    <3>4. RowInv'
      BY <1>3, <2>1 DEF MarkSystemTaskLeaseExpired
    <3> QED
      BY <3>3, <3>4
  <2>2. CASE ~(x \in Rows /\ status[x] = "running")
    BY <1>3, <2>2 DEF MarkSystemTaskLeaseExpired, rowVars
  <2> QED
    BY <2>1, <2>2
<1>4. ASSUME NEW r \in Runners, StartTask(r) PROVE KeyInv' /\ RowInv'
  BY <1>4 DEF StartTask, ClaimInv, Claiming, rowVars
<1>5. ASSUME NEW r \in Runners, NEW x \in Rows, FinishSystemTask(r, x)
      PROVE  KeyInv' /\ RowInv'
  BY <1>5 DEF FinishSystemTask, rowVars
<1> QED
  BY <1>r, <1>1, <1>2, <1>3, <1>4, <1>5 DEF RowStep

(* A step keeps what a claim relies on. *)
LEMMA ClaimStep == IndInv /\ [Next]_vars => ClaimInv'
<1> SUFFICES ASSUME IndInv, [Next]_vars PROVE ClaimInv'
  OBVIOUS
<1> USE SystemTaskAssumption DEF IndInv, TypeOK, ClaimInv, HandlerInv
<1> USE DEF Claiming, Phases, Fresh, Active, Terminal, rowVars, lockVars, local
<1>1. ASSUME Enqueue PROVE ClaimInv'
  BY <1>1 DEF Enqueue, CreateSystemTask
<1>2. ASSUME Tick PROVE ClaimInv'
  BY <1>2 DEF Tick
<1>3. ASSUME NEW r \in Runners, BeginPass(r) PROVE ClaimInv'
  BY <1>3 DEF BeginPass, Goto
<1>4. ASSUME NEW r \in Runners, SkipStale(r) PROVE ClaimInv'
  BY <1>4 DEF SkipStale, Goto
<1>5. ASSUME NEW r \in Runners, ReadStale(r) PROVE ClaimInv'
  BY <1>5 DEF ReadStale, Goto, Lapsed
<1>6. ASSUME NEW r \in Runners, MarkStale(r) PROVE ClaimInv'
  BY <1>6 DEF MarkStale, MarkSystemTaskLeaseExpired, Goto, Fault
<1>7. ASSUME NEW r \in Runners, DeleteStale(r) PROVE ClaimInv'
  BY <1>7 DEF DeleteStale, DeleteLock, Goto, Fault
<1>8. ASSUME NEW r \in Runners, Schedule(r) PROVE ClaimInv'
  BY <1>8 DEF Schedule, CreateSystemTask, Goto
<1>9. ASSUME NEW r \in Runners, FindPending(r) PROVE ClaimInv'
  BY <1>9 DEF FindPending, Goto, RowInv
<1>10. ASSUME NEW r \in Runners, NothingPending(r) PROVE ClaimInv'
  BY <1>10 DEF NothingPending, NotClaimed, Goto, Fault
<1>11. ASSUME NEW r \in Runners, CreateLock(r) PROVE ClaimInv'
  BY <1>11 DEF CreateLock, WriteLock, Goto, Fault
<1>12. ASSUME NEW r \in Runners, ReadLock(r) PROVE ClaimInv'
  BY <1>12 DEF ReadLock, NotClaimed, Goto, Fault
<1>13. ASSUME NEW r \in Runners, TakeOver(r) PROVE ClaimInv'
  BY <1>13 DEF TakeOver, WriteLock, NotClaimed, Goto, Fault
<1>14. ASSUME NEW r \in Runners, MarkOld(r) PROVE ClaimInv'
  BY <1>14 DEF MarkOld, MarkSystemTaskLeaseExpired, Goto, Fault
<1>15. ASSUME NEW r \in Runners, StartTask(r) PROVE ClaimInv'
  BY <1>15 DEF StartTask, Goto, Fault
<1>16. ASSUME NEW r \in Runners, GiveUp(r) PROVE ClaimInv'
  BY <1>16 DEF GiveUp, ReleaseSystemTaskLock, DeleteLock, NotClaimed, Goto, Fault
<1>17. ASSUME NEW r \in Runners, Dispatch(r) PROVE ClaimInv'
  BY <1>17 DEF Dispatch, NotClaimed, Goto, Fault
<1>18. ASSUME NEW r \in Runners, Crash(r) PROVE ClaimInv'
  BY <1>18 DEF Crash, Goto, Fault
<1>19. ASSUME NEW r \in Runners, NEW x \in Rows, Heartbeat(r, x) PROVE ClaimInv'
  <2>1. \A s \in Runners, y \in Rows : handler'[s][y] = "none" <=> handler[s][y] = "none"
    <3>1. handler' = handler \/ handler' = [handler EXCEPT ![r][x] = "cancelled"]
      BY <1>19 DEF Heartbeat
    <3>2. handler[r][x] = "run"
      BY <1>19 DEF Heartbeat
    <3> HIDE <1>19
    <3> QED
      BY <3>1, <3>2
  <2> QED
    BY <1>19, <2>1 DEF Heartbeat
<1>20. ASSUME NEW r \in Runners, NEW x \in Rows, FinishSystemTask(r, x) PROVE ClaimInv'
  BY <1>20 DEF FinishSystemTask, Fault
<1>21. ASSUME NEW r \in Runners, NEW x \in Rows, Release(r, x) PROVE ClaimInv'
  BY <1>21 DEF Release, ReleaseSystemTaskLock, DeleteLock, Fault
<1>22. CASE UNCHANGED vars
  BY <1>22 DEF vars
<1> QED
  BY <1>1, <1>2, <1>3, <1>4, <1>5, <1>6, <1>7, <1>8, <1>9, <1>10, <1>11, <1>12, <1>13, <1>14, <1>15, <1>16, <1>17, <1>18, <1>19, <1>20, <1>21, <1>22 DEF Next, Pass, Work

(* A step keeps what a goroutine relies on. *)
LEMMA HandlerStep == IndInv /\ [Next]_vars => HandlerInv'
<1> SUFFICES ASSUME IndInv, [Next]_vars PROVE HandlerInv'
  OBVIOUS
<1> USE SystemTaskAssumption DEF IndInv, TypeOK, ClaimInv, HandlerInv
<1> USE DEF Claiming, Phases, Fresh, Active, Terminal, rowVars, lockVars, local
<1>1. ASSUME Enqueue PROVE HandlerInv'
  BY <1>1 DEF Enqueue, CreateSystemTask
<1>2. ASSUME Tick PROVE HandlerInv'
  BY <1>2 DEF Tick
<1>3. ASSUME NEW r \in Runners, BeginPass(r) PROVE HandlerInv'
  BY <1>3 DEF BeginPass, Goto
<1>4. ASSUME NEW r \in Runners, SkipStale(r) PROVE HandlerInv'
  BY <1>4 DEF SkipStale, Goto
<1>5. ASSUME NEW r \in Runners, ReadStale(r) PROVE HandlerInv'
  BY <1>5 DEF ReadStale, Goto, Lapsed
<1>6. ASSUME NEW r \in Runners, MarkStale(r) PROVE HandlerInv'
  BY <1>6 DEF MarkStale, MarkSystemTaskLeaseExpired, Goto, Fault
<1>7. ASSUME NEW r \in Runners, DeleteStale(r) PROVE HandlerInv'
  BY <1>7 DEF DeleteStale, DeleteLock, Goto, Fault
<1>8. ASSUME NEW r \in Runners, Schedule(r) PROVE HandlerInv'
  BY <1>8 DEF Schedule, CreateSystemTask, Goto
<1>9. ASSUME NEW r \in Runners, FindPending(r) PROVE HandlerInv'
  BY <1>9 DEF FindPending, Goto
<1>10. ASSUME NEW r \in Runners, NothingPending(r) PROVE HandlerInv'
  BY <1>10 DEF NothingPending, NotClaimed, Goto, Fault
<1>11. ASSUME NEW r \in Runners, CreateLock(r) PROVE HandlerInv'
  BY <1>11 DEF CreateLock, WriteLock, Goto, Fault
<1>12. ASSUME NEW r \in Runners, ReadLock(r) PROVE HandlerInv'
  BY <1>12 DEF ReadLock, NotClaimed, Goto, Fault
<1>13. ASSUME NEW r \in Runners, TakeOver(r) PROVE HandlerInv'
  BY <1>13 DEF TakeOver, WriteLock, NotClaimed, Goto, Fault
<1>14. ASSUME NEW r \in Runners, MarkOld(r) PROVE HandlerInv'
  BY <1>14 DEF MarkOld, MarkSystemTaskLeaseExpired, Goto, Fault
<1>15. ASSUME NEW r \in Runners, StartTask(r) PROVE HandlerInv'
  BY <1>15 DEF StartTask, Goto, Fault
<1>16. ASSUME NEW r \in Runners, GiveUp(r) PROVE HandlerInv'
  BY <1>16 DEF GiveUp, ReleaseSystemTaskLock, DeleteLock, NotClaimed, Goto, Fault
<1>17. ASSUME NEW r \in Runners, Dispatch(r) PROVE HandlerInv'
  BY <1>17 DEF Dispatch, NotClaimed, Goto, Fault
<1>18. ASSUME NEW r \in Runners, Crash(r) PROVE HandlerInv'
  BY <1>18 DEF Crash, Goto, Fault
<1>19. ASSUME NEW r \in Runners, NEW x \in Rows, Heartbeat(r, x) PROVE HandlerInv'
  BY <1>19 DEF Heartbeat, Fault
<1>20. ASSUME NEW r \in Runners, NEW x \in Rows, FinishSystemTask(r, x) PROVE HandlerInv'
  BY <1>20 DEF FinishSystemTask, Fault
<1>21. ASSUME NEW r \in Runners, NEW x \in Rows, Release(r, x) PROVE HandlerInv'
  BY <1>21 DEF Release, ReleaseSystemTaskLock, DeleteLock, Fault
<1>22. CASE UNCHANGED vars
  BY <1>22 DEF vars
<1> QED
  BY <1>1, <1>2, <1>3, <1>4, <1>5, <1>6, <1>7, <1>8, <1>9, <1>10, <1>11, <1>12, <1>13, <1>14, <1>15, <1>16, <1>17, <1>18, <1>19, <1>20, <1>21, <1>22 DEF Next, Pass, Work

(* The invariant holds initially. *)
LEMMA InitInd == Init => IndInv
  BY SystemTaskAssumption DEF Init, IndInv, TypeOK, KeyInv, RowInv, ClaimInv, HandlerInv,
     Statuses, Active, Terminal, Places, Timed, StalePass, Claiming, Phases, Fresh

(* Every behaviour keeps the invariant, with no assumption on pauses,      *)
(* heartbeats, faults or crashes.                                          *)
THEOREM IndInvCorrect == Spec => []IndInv
<1>1. IndInv /\ [Next]_vars => IndInv'
  BY TypeStep, KeyStep, ClaimStep, HandlerStep DEF IndInv
<1> QED
  BY InitInd, <1>1, PTL DEF Spec

(* The rows, the lease, the passes and the goroutines keep their types in  *)
(* every step of the runners of system tasks.                              *)
THEOREM TypeCorrect == Spec => []TypeOK
<1>1. IndInv => TypeOK
  BY DEF IndInv
<1> QED
  BY IndInvCorrect, <1>1, PTL

(* ClaimSystemTask hands a row to one runner only, even when claims stall  *)
(* for longer than the lease lives.                                        *)
THEOREM ClaimedOnceCorrect == Spec => []ClaimedOnce
<1>1. IndInv => ClaimedOnce
  BY DEF IndInv, HandlerInv, ClaimedOnce
<1> QED
  BY IndInvCorrect, <1>1, PTL

(* A finished row keeps its status, whatever late stale-lock passes, claims *)
(* and handlers still do with it.                                          *)
THEOREM TerminalFinalCorrect == Spec => TerminalFinal
<1>1. IndInv /\ [Next]_vars
        => [\A x \in Rows : status[x] \in Terminal => status'[x] = status[x]]_vars
  <2> SUFFICES ASSUME IndInv, Next, NEW y \in Rows, status[y] \in Terminal
               PROVE  status'[y] = status[y]
    OBVIOUS
  <2>r. RowStep
    BY NextRows DEF IndInv
  <2> USE DEF IndInv, TypeOK, Terminal
  <2>1. CASE UNCHANGED rowVars
    BY <2>1 DEF rowVars
  <2>2. CASE CreateSystemTask
    BY <2>2 DEF CreateSystemTask
  <2>3. CASE \E x \in Rows \cup {NoRow} : MarkSystemTaskLeaseExpired(x)
    BY <2>3 DEF MarkSystemTaskLeaseExpired, rowVars
  <2>4. CASE \E r \in Runners : StartTask(r)
    BY <2>4 DEF StartTask, ClaimInv, Claiming, rowVars
  <2>5. CASE \E r \in Runners, x \in Rows : FinishSystemTask(r, x)
    BY <2>5 DEF FinishSystemTask, rowVars
  <2> QED
    BY <2>r, <2>1, <2>2, <2>3, <2>4, <2>5 DEF RowStep
<1> QED
  BY <1>1, IndInvCorrect, PTL DEF Spec, TerminalFinal

-----------------------------------------------------------------------------
(* What the lease adds when everybody is Timely.                           *)

AgeInv == \A r \in Runners : pc[r] \in Timed => age[r] <= MaxPause

(* A claim that has acquired the lease still has it. *)
LockInv ==
    \A r \in Runners :
        pc[r] \in {"markOld", "start", "dispatch"}
            => Holds(task[r], r) /\ left >= TTL - age[r]

(* A goroutine with a live context has a valid lease. *)
RunInv ==
    \A r \in Runners, x \in Rows : handler[r][x] = "run" => Holds(x, r) /\ left >= 0

(* The lease of a running row is younger than the clock reading of every   *)
(* runner that could still overwrite or delete it: a claim began when its  *)
(* row was pending, a stale-lock pass has made its row not running.        *)
CapInv ==
    \A r \in Runners, z \in Rows :
        /\ status[z] = "running"
        /\ pc[r] \in {"lock", "readLock", "takeOver"} \/ (pc[r] = "delete" /\ seenTask[r] = z)
        => left >= -age[r]

TimeInv == AgeInv /\ LockInv /\ RunInv /\ RunningGuarded /\ CapInv

(* A pass that uses an old reading of the clock has not been paused too long. *)
LEMMA AgeStep == Timely /\ IndInv /\ TimeInv /\ [Next]_vars => AgeInv'
<1> SUFFICES ASSUME Timely, IndInv, TimeInv, [Next]_vars PROVE AgeInv'
  OBVIOUS
<1> USE SystemTaskAssumption DEF IndInv, TypeOK, TimeInv, Timely
<1> USE DEF AgeInv, Timed, StalePass, Claiming, rowVars, lockVars, local
<1>1. ASSUME Enqueue PROVE AgeInv'
  BY <1>1 DEF Enqueue, CreateSystemTask
<1>2. ASSUME Tick PROVE AgeInv'
  BY <1>2 DEF Tick
<1>3. ASSUME NEW r \in Runners, BeginPass(r) PROVE AgeInv'
  BY <1>3 DEF BeginPass, Goto
<1>4. ASSUME NEW r \in Runners, SkipStale(r) PROVE AgeInv'
  BY <1>4 DEF SkipStale, Goto
<1>5. ASSUME NEW r \in Runners, ReadStale(r) PROVE AgeInv'
  BY <1>5 DEF ReadStale, Goto, Lapsed
<1>6. ASSUME NEW r \in Runners, MarkStale(r) PROVE AgeInv'
  BY <1>6 DEF MarkStale, MarkSystemTaskLeaseExpired, Goto, Fault
<1>7. ASSUME NEW r \in Runners, DeleteStale(r) PROVE AgeInv'
  BY <1>7 DEF DeleteStale, DeleteLock, Goto, Fault
<1>8. ASSUME NEW r \in Runners, Schedule(r) PROVE AgeInv'
  BY <1>8 DEF Schedule, CreateSystemTask, Goto
<1>9. ASSUME NEW r \in Runners, FindPending(r) PROVE AgeInv'
  BY <1>9 DEF FindPending, Goto
<1>10. ASSUME NEW r \in Runners, NothingPending(r) PROVE AgeInv'
  BY <1>10 DEF NothingPending, NotClaimed, Goto, Fault
<1>11. ASSUME NEW r \in Runners, CreateLock(r) PROVE AgeInv'
  BY <1>11 DEF CreateLock, WriteLock, Goto, Fault
<1>12. ASSUME NEW r \in Runners, ReadLock(r) PROVE AgeInv'
  BY <1>12 DEF ReadLock, NotClaimed, Goto, Fault
<1>13. ASSUME NEW r \in Runners, TakeOver(r) PROVE AgeInv'
  BY <1>13 DEF TakeOver, WriteLock, NotClaimed, Goto, Fault
<1>14. ASSUME NEW r \in Runners, MarkOld(r) PROVE AgeInv'
  BY <1>14 DEF MarkOld, MarkSystemTaskLeaseExpired, Goto, Fault
<1>15. ASSUME NEW r \in Runners, StartTask(r) PROVE AgeInv'
  BY <1>15 DEF StartTask, Goto, Fault
<1>16. ASSUME NEW r \in Runners, GiveUp(r) PROVE AgeInv'
  BY <1>16 DEF GiveUp, ReleaseSystemTaskLock, DeleteLock, NotClaimed, Goto, Fault
<1>17. ASSUME NEW r \in Runners, Dispatch(r) PROVE AgeInv'
  BY <1>17 DEF Dispatch, NotClaimed, Goto, Fault
<1>18. ASSUME NEW r \in Runners, Crash(r) PROVE AgeInv'
  BY <1>18 DEF Crash, Goto, Fault
<1>19. ASSUME NEW r \in Runners, NEW x \in Rows, Heartbeat(r, x) PROVE AgeInv'
  BY <1>19 DEF Heartbeat, Fault
<1>20. ASSUME NEW r \in Runners, NEW x \in Rows, FinishSystemTask(r, x) PROVE AgeInv'
  BY <1>20 DEF FinishSystemTask, Fault
<1>21. ASSUME NEW r \in Runners, NEW x \in Rows, Release(r, x) PROVE AgeInv'
  BY <1>21 DEF Release, ReleaseSystemTaskLock, DeleteLock, Fault
<1>22. CASE UNCHANGED vars
  BY <1>22 DEF vars
<1> QED
  BY <1>1, <1>2, <1>3, <1>4, <1>5, <1>6, <1>7, <1>8, <1>9, <1>10, <1>11, <1>12, <1>13, <1>14, <1>15, <1>16, <1>17, <1>18, <1>19, <1>20, <1>21, <1>22 DEF Next, Pass, Work

(* The lease of a claim is neither overwritten nor deleted. *)
LEMMA LockStep == Timely /\ IndInv /\ TimeInv /\ [Next]_vars => LockInv'
<1> SUFFICES ASSUME Timely, IndInv, TimeInv, [Next]_vars PROVE LockInv'
  OBVIOUS
<1> USE SystemTaskAssumption DEF IndInv, TypeOK, TimeInv, Timely
<1> USE DEF AgeInv, LockInv, RunInv, Timed, Claiming, ClaimInv, HandlerInv, Holds, Lapsed,
     rowVars, lockVars, local
<1>1. ASSUME Enqueue PROVE LockInv'
  BY <1>1 DEF Enqueue, CreateSystemTask
<1>2. ASSUME Tick PROVE LockInv'
  BY <1>2 DEF Tick
<1>3. ASSUME NEW r \in Runners, BeginPass(r) PROVE LockInv'
  BY <1>3 DEF BeginPass, Goto
<1>4. ASSUME NEW r \in Runners, SkipStale(r) PROVE LockInv'
  BY <1>4 DEF SkipStale, Goto
<1>5. ASSUME NEW r \in Runners, ReadStale(r) PROVE LockInv'
  BY <1>5 DEF ReadStale, Goto, Lapsed
<1>6. ASSUME NEW r \in Runners, MarkStale(r) PROVE LockInv'
  BY <1>6 DEF MarkStale, MarkSystemTaskLeaseExpired, Goto, Fault
<1>7. ASSUME NEW r \in Runners, DeleteStale(r) PROVE LockInv'
  BY <1>7 DEF DeleteStale, DeleteLock, Goto, Fault
<1>8. ASSUME NEW r \in Runners, Schedule(r) PROVE LockInv'
  BY <1>8 DEF Schedule, CreateSystemTask, Goto
<1>9. ASSUME NEW r \in Runners, FindPending(r) PROVE LockInv'
  BY <1>9 DEF FindPending, Goto
<1>10. ASSUME NEW r \in Runners, NothingPending(r) PROVE LockInv'
  BY <1>10 DEF NothingPending, NotClaimed, Goto, Fault
<1>11. ASSUME NEW r \in Runners, CreateLock(r) PROVE LockInv'
  <2>1. CASE lockTask = NoRow /\ WriteLock(task[r], r) /\ Goto(r, "start")
    <3>1. \A s \in Runners : s # r => pc[s] \notin {"markOld", "start", "dispatch"}
      BY <2>1
    <3>2. pc' = [pc EXCEPT ![r] = "start"]
      BY <2>1 DEF Goto
    <3>3. task' = task /\ age' = age
      BY <1>11 DEF CreateLock
    <3>4. Holds(task[r], r)' /\ left' >= TTL - age'[r]
      BY <2>1, <3>3 DEF WriteLock
    <3> HIDE <1>11
    <3> QED
      BY <3>1, <3>2, <3>3, <3>4
  <2>2. CASE UNCHANGED lockVars /\ Goto(r, "readLock")
    BY <1>11, <2>2 DEF CreateLock, Goto
  <2> QED
    BY <1>11, <2>1, <2>2 DEF CreateLock
<1>12. ASSUME NEW r \in Runners, ReadLock(r) PROVE LockInv'
  BY <1>12 DEF ReadLock, NotClaimed, Goto, Fault
<1>13. ASSUME NEW r \in Runners, TakeOver(r) PROVE LockInv'
  BY <1>13 DEF TakeOver, WriteLock, NotClaimed, Goto, Fault
<1>14. ASSUME NEW r \in Runners, MarkOld(r) PROVE LockInv'
  BY <1>14 DEF MarkOld, MarkSystemTaskLeaseExpired, Goto, Fault
<1>15. ASSUME NEW r \in Runners, StartTask(r) PROVE LockInv'
  BY <1>15 DEF StartTask, Goto, Fault
<1>16. ASSUME NEW r \in Runners, GiveUp(r) PROVE LockInv'
  BY <1>16 DEF GiveUp, ReleaseSystemTaskLock, DeleteLock, NotClaimed, Goto, Fault
<1>17. ASSUME NEW r \in Runners, Dispatch(r) PROVE LockInv'
  BY <1>17 DEF Dispatch, NotClaimed, Goto, Fault
<1>18. ASSUME NEW r \in Runners, Crash(r) PROVE LockInv'
  BY <1>18 DEF Crash, Goto, Fault
<1>19. ASSUME NEW r \in Runners, NEW x \in Rows, Heartbeat(r, x) PROVE LockInv'
  BY <1>19 DEF Heartbeat, Fault
<1>20. ASSUME NEW r \in Runners, NEW x \in Rows, FinishSystemTask(r, x) PROVE LockInv'
  BY <1>20 DEF FinishSystemTask, Fault
<1>21. ASSUME NEW r \in Runners, NEW x \in Rows, Release(r, x) PROVE LockInv'
  BY <1>21 DEF Release, ReleaseSystemTaskLock, DeleteLock, Fault
<1>22. CASE UNCHANGED vars
  BY <1>22 DEF vars
<1> QED
  BY <1>1, <1>2, <1>3, <1>4, <1>5, <1>6, <1>7, <1>8, <1>9, <1>10, <1>11, <1>12, <1>13, <1>14, <1>15, <1>16, <1>17, <1>18, <1>19, <1>20, <1>21, <1>22 DEF Next, Pass, Work

(* The lease of a goroutine is neither overwritten nor deleted, and renewed in time. *)
LEMMA RunStep == Timely /\ IndInv /\ TimeInv /\ [Next]_vars => RunInv'
<1> SUFFICES ASSUME Timely, IndInv, TimeInv, [Next]_vars PROVE RunInv'
  OBVIOUS
<1> USE SystemTaskAssumption DEF IndInv, TypeOK, TimeInv, Timely
<1> USE DEF AgeInv, LockInv, RunInv, Timed, Claiming, ClaimInv, HandlerInv, Holds, Lapsed,
     rowVars, lockVars, local
<1> USE DEF Phases
<1>1. ASSUME Enqueue PROVE RunInv'
  BY <1>1 DEF Enqueue, CreateSystemTask
<1>2. ASSUME Tick PROVE RunInv'
  BY <1>2 DEF Tick, BeatsInTime
<1>3. ASSUME NEW r \in Runners, BeginPass(r) PROVE RunInv'
  BY <1>3 DEF BeginPass, Goto
<1>4. ASSUME NEW r \in Runners, SkipStale(r) PROVE RunInv'
  BY <1>4 DEF SkipStale, Goto
<1>5. ASSUME NEW r \in Runners, ReadStale(r) PROVE RunInv'
  BY <1>5 DEF ReadStale, Goto, Lapsed
<1>6. ASSUME NEW r \in Runners, MarkStale(r) PROVE RunInv'
  BY <1>6 DEF MarkStale, MarkSystemTaskLeaseExpired, Goto, Fault
<1>7. ASSUME NEW r \in Runners, DeleteStale(r) PROVE RunInv'
  BY <1>7 DEF DeleteStale, DeleteLock, Goto, Fault
<1>8. ASSUME NEW r \in Runners, Schedule(r) PROVE RunInv'
  BY <1>8 DEF Schedule, CreateSystemTask, Goto
<1>9. ASSUME NEW r \in Runners, FindPending(r) PROVE RunInv'
  BY <1>9 DEF FindPending, Goto
<1>10. ASSUME NEW r \in Runners, NothingPending(r) PROVE RunInv'
  BY <1>10 DEF NothingPending, NotClaimed, Goto, Fault
<1>11. ASSUME NEW r \in Runners, CreateLock(r) PROVE RunInv'
  BY <1>11 DEF CreateLock, WriteLock, Goto, Fault
<1>12. ASSUME NEW r \in Runners, ReadLock(r) PROVE RunInv'
  BY <1>12 DEF ReadLock, NotClaimed, Goto, Fault
<1>13. ASSUME NEW r \in Runners, TakeOver(r) PROVE RunInv'
  BY <1>13 DEF TakeOver, WriteLock, NotClaimed, Goto, Fault
<1>14. ASSUME NEW r \in Runners, MarkOld(r) PROVE RunInv'
  BY <1>14 DEF MarkOld, MarkSystemTaskLeaseExpired, Goto, Fault
<1>15. ASSUME NEW r \in Runners, StartTask(r) PROVE RunInv'
  BY <1>15 DEF StartTask, Goto, Fault
<1>16. ASSUME NEW r \in Runners, GiveUp(r) PROVE RunInv'
  BY <1>16 DEF GiveUp, ReleaseSystemTaskLock, DeleteLock, NotClaimed, Goto, Fault
<1>17. ASSUME NEW r \in Runners, Dispatch(r) PROVE RunInv'
  <2>1. Holds(task[r], r) /\ left >= 0
    BY <1>17 DEF Dispatch
  <2>2. UNCHANGED lockVars /\ task[r] \in Rows
    BY <1>17 DEF Dispatch
  <2>3. handler' = handler \/ handler' = [handler EXCEPT ![r][task[r]] = "run"]
    BY <1>17 DEF Dispatch
  <2> HIDE <1>17
  <2> QED
    BY <2>1, <2>2, <2>3
<1>18. ASSUME NEW r \in Runners, Crash(r) PROVE RunInv'
  BY <1>18 DEF Crash, Goto, Fault
<1>19. ASSUME NEW r \in Runners, NEW x \in Rows, Heartbeat(r, x) PROVE RunInv'
  BY <1>19 DEF Heartbeat, Fault, HoldsValid
<1>20. ASSUME NEW r \in Runners, NEW x \in Rows, FinishSystemTask(r, x) PROVE RunInv'
  <2>1. UNCHANGED lockVars
    BY <1>20 DEF FinishSystemTask
  <2>2. \/ handler' = [handler EXCEPT ![r][x] = "release"]
        \/ handler' = [handler EXCEPT ![r][x] = "ended"]
    BY <1>20 DEF FinishSystemTask
  <2> HIDE <1>20
  <2> QED
    BY <2>1, <2>2
<1>21. ASSUME NEW r \in Runners, NEW x \in Rows, Release(r, x) PROVE RunInv'
  BY <1>21 DEF Release, ReleaseSystemTaskLock, DeleteLock, Fault
<1>22. CASE UNCHANGED vars
  BY <1>22 DEF vars
<1> QED
  BY <1>1, <1>2, <1>3, <1>4, <1>5, <1>6, <1>7, <1>8, <1>9, <1>10, <1>11, <1>12, <1>13, <1>14, <1>15, <1>16, <1>17, <1>18, <1>19, <1>20, <1>21, <1>22 DEF Next, Pass, Work

(* A claim finds no lapsed lease while a row is running. *)
LEMMA NoneRunning ==
    ASSUME TypeOK, CapInv, NEW r \in Runners, pc[r] = "takeOver", Lapsed(r)
    PROVE  \A z \in Rows : status[z] # "running"
  <1> SUFFICES ASSUME NEW z \in Rows, status[z] = "running" PROVE FALSE
    OBVIOUS
  <1>1. left >= -age[r]
    BY DEF CapInv
  <1> QED
    BY <1>1 DEF Lapsed, TypeOK

(* A running row keeps its lease row. *)
LEMMA GuardStep == Timely /\ IndInv /\ TimeInv /\ [Next]_vars => RunningGuarded'
<1> SUFFICES ASSUME Timely, IndInv, TimeInv, [Next]_vars PROVE RunningGuarded'
  OBVIOUS
<1> USE SystemTaskAssumption DEF IndInv, TypeOK, TimeInv, Timely
<1> USE DEF AgeInv, LockInv, RunningGuarded, CapInv, KeyInv, ClaimInv, HandlerInv, Holds, Lapsed,
     Active, Terminal, Timed, StalePass, Claiming, rowVars, lockVars, local
<1>1. ASSUME Enqueue PROVE RunningGuarded'
  BY <1>1 DEF Enqueue, CreateSystemTask
<1>2. ASSUME Tick PROVE RunningGuarded'
  BY <1>2 DEF Tick
<1>3. ASSUME NEW r \in Runners, BeginPass(r) PROVE RunningGuarded'
  BY <1>3 DEF BeginPass, Goto
<1>4. ASSUME NEW r \in Runners, SkipStale(r) PROVE RunningGuarded'
  BY <1>4 DEF SkipStale, Goto
<1>5. ASSUME NEW r \in Runners, ReadStale(r) PROVE RunningGuarded'
  BY <1>5 DEF ReadStale, Goto, Lapsed
<1>6. ASSUME NEW r \in Runners, MarkStale(r) PROVE RunningGuarded'
  BY <1>6 DEF MarkStale, MarkSystemTaskLeaseExpired, Goto, Fault
<1>7. ASSUME NEW r \in Runners, DeleteStale(r) PROVE RunningGuarded'
  BY <1>7 DEF DeleteStale, DeleteLock, Goto, Fault
<1>8. ASSUME NEW r \in Runners, Schedule(r) PROVE RunningGuarded'
  BY <1>8 DEF Schedule, CreateSystemTask, Goto
<1>9. ASSUME NEW r \in Runners, FindPending(r) PROVE RunningGuarded'
  BY <1>9 DEF FindPending, Goto
<1>10. ASSUME NEW r \in Runners, NothingPending(r) PROVE RunningGuarded'
  BY <1>10 DEF NothingPending, NotClaimed, Goto, Fault
<1>11. ASSUME NEW r \in Runners, CreateLock(r) PROVE RunningGuarded'
  BY <1>11 DEF CreateLock, WriteLock, Goto, Fault
<1>12. ASSUME NEW r \in Runners, ReadLock(r) PROVE RunningGuarded'
  BY <1>12 DEF ReadLock, NotClaimed, Goto, Fault
<1>13. ASSUME NEW r \in Runners, TakeOver(r) PROVE RunningGuarded'
  <2>1. CASE Lapsed(r)
    <3>1. pc[r] = "takeOver" /\ UNCHANGED rowVars
      BY <1>13 DEF TakeOver
    <3>2. \A z \in Rows : status[z] # "running"
      BY <2>1, <3>1, NoneRunning
    <3> QED
      BY <3>1, <3>2
  <2>2. CASE ~Lapsed(r)
    BY <1>13, <2>2 DEF TakeOver
  <2> QED
    BY <2>1, <2>2
<1>14. ASSUME NEW r \in Runners, MarkOld(r) PROVE RunningGuarded'
  BY <1>14 DEF MarkOld, MarkSystemTaskLeaseExpired, Goto, Fault
<1>15. ASSUME NEW r \in Runners, StartTask(r) PROVE RunningGuarded'
  BY <1>15 DEF StartTask, Goto, Fault
<1>16. ASSUME NEW r \in Runners, GiveUp(r) PROVE RunningGuarded'
  BY <1>16 DEF GiveUp, ReleaseSystemTaskLock, DeleteLock, NotClaimed, Goto, Fault
<1>17. ASSUME NEW r \in Runners, Dispatch(r) PROVE RunningGuarded'
  BY <1>17 DEF Dispatch, NotClaimed, Goto, Fault
<1>18. ASSUME NEW r \in Runners, Crash(r) PROVE RunningGuarded'
  BY <1>18 DEF Crash, Goto, Fault
<1>19. ASSUME NEW r \in Runners, NEW x \in Rows, Heartbeat(r, x) PROVE RunningGuarded'
  BY <1>19 DEF Heartbeat, Fault
<1>20. ASSUME NEW r \in Runners, NEW x \in Rows, FinishSystemTask(r, x) PROVE RunningGuarded'
  BY <1>20 DEF FinishSystemTask, Fault
<1>21. ASSUME NEW r \in Runners, NEW x \in Rows, Release(r, x) PROVE RunningGuarded'
  BY <1>21 DEF Release, ReleaseSystemTaskLock, DeleteLock, Fault
<1>22. CASE UNCHANGED vars
  BY <1>22 DEF vars
<1> QED
  BY <1>1, <1>2, <1>3, <1>4, <1>5, <1>6, <1>7, <1>8, <1>9, <1>10, <1>11, <1>12, <1>13, <1>14, <1>15, <1>16, <1>17, <1>18, <1>19, <1>20, <1>21, <1>22 DEF Next, Pass, Work

(* The lease of a running row stays younger than the readings that could end it. *)
LEMMA CapStep == Timely /\ IndInv /\ TimeInv /\ [Next]_vars => CapInv'
<1> SUFFICES ASSUME Timely, IndInv, TimeInv, [Next]_vars PROVE CapInv'
  OBVIOUS
<1> USE SystemTaskAssumption DEF IndInv, TypeOK, TimeInv, Timely
<1> USE DEF AgeInv, LockInv, RunningGuarded, CapInv, KeyInv, ClaimInv, HandlerInv, Holds, Lapsed,
     Active, Terminal, Timed, StalePass, Claiming, rowVars, lockVars, local
<1>1. ASSUME Enqueue PROVE CapInv'
  BY <1>1 DEF Enqueue, CreateSystemTask
<1>2. ASSUME Tick PROVE CapInv'
  BY <1>2 DEF Tick
<1>3. ASSUME NEW r \in Runners, BeginPass(r) PROVE CapInv'
  BY <1>3 DEF BeginPass, Goto
<1>4. ASSUME NEW r \in Runners, SkipStale(r) PROVE CapInv'
  BY <1>4 DEF SkipStale, Goto
<1>5. ASSUME NEW r \in Runners, ReadStale(r) PROVE CapInv'
  BY <1>5 DEF ReadStale, Goto, Lapsed
<1>6. ASSUME NEW r \in Runners, MarkStale(r) PROVE CapInv'
  BY <1>6 DEF MarkStale, MarkSystemTaskLeaseExpired, Goto, Fault
<1>7. ASSUME NEW r \in Runners, DeleteStale(r) PROVE CapInv'
  BY <1>7 DEF DeleteStale, DeleteLock, Goto, Fault
<1>8. ASSUME NEW r \in Runners, Schedule(r) PROVE CapInv'
  BY <1>8 DEF Schedule, CreateSystemTask, Goto
<1>9. ASSUME NEW r \in Runners, FindPending(r) PROVE CapInv'
  BY <1>9 DEF FindPending, Goto
<1>10. ASSUME NEW r \in Runners, NothingPending(r) PROVE CapInv'
  BY <1>10 DEF NothingPending, NotClaimed, Goto, Fault
<1>11. ASSUME NEW r \in Runners, CreateLock(r) PROVE CapInv'
  BY <1>11 DEF CreateLock, WriteLock, Goto, Fault
<1>12. ASSUME NEW r \in Runners, ReadLock(r) PROVE CapInv'
  BY <1>12 DEF ReadLock, NotClaimed, Goto, Fault
<1>13. ASSUME NEW r \in Runners, TakeOver(r) PROVE CapInv'
  BY <1>13 DEF TakeOver, WriteLock, NotClaimed, Goto, Fault
<1>14. ASSUME NEW r \in Runners, MarkOld(r) PROVE CapInv'
  BY <1>14 DEF MarkOld, MarkSystemTaskLeaseExpired, Goto, Fault
<1>15. ASSUME NEW r \in Runners, StartTask(r) PROVE CapInv'
  BY <1>15 DEF StartTask, Goto, Fault
<1>16. ASSUME NEW r \in Runners, GiveUp(r) PROVE CapInv'
  BY <1>16 DEF GiveUp, ReleaseSystemTaskLock, DeleteLock, NotClaimed, Goto, Fault
<1>17. ASSUME NEW r \in Runners, Dispatch(r) PROVE CapInv'
  BY <1>17 DEF Dispatch, NotClaimed, Goto, Fault
<1>18. ASSUME NEW r \in Runners, Crash(r) PROVE CapInv'
  BY <1>18 DEF Crash, Goto, Fault
<1>19. ASSUME NEW r \in Runners, NEW x \in Rows, Heartbeat(r, x) PROVE CapInv'
  BY <1>19 DEF Heartbeat, Fault
<1>20. ASSUME NEW r \in Runners, NEW x \in Rows, FinishSystemTask(r, x) PROVE CapInv'
  BY <1>20 DEF FinishSystemTask, Fault
<1>21. ASSUME NEW r \in Runners, NEW x \in Rows, Release(r, x) PROVE CapInv'
  BY <1>21 DEF Release, ReleaseSystemTaskLock, DeleteLock, Fault
<1>22. CASE UNCHANGED vars
  BY <1>22 DEF vars
<1> QED
  BY <1>1, <1>2, <1>3, <1>4, <1>5, <1>6, <1>7, <1>8, <1>9, <1>10, <1>11, <1>12, <1>13, <1>14, <1>15, <1>16, <1>17, <1>18, <1>19, <1>20, <1>21, <1>22 DEF Next, Pass, Work

(* The invariant holds initially. *)
LEMMA InitTime == Init => TimeInv
  BY SystemTaskAssumption DEF Init, TimeInv, AgeInv, LockInv, RunInv, RunningGuarded, CapInv,
     Timed, StalePass, Claiming

(* A behaviour in which everybody is Timely keeps both invariants. *)
THEOREM TimeInvCorrect == ASSUME Timely PROVE Spec => []TimeInv
<1>1. IndInv /\ TimeInv /\ [Next]_vars => TimeInv'
  <2> SUFFICES ASSUME IndInv, TimeInv, [Next]_vars PROVE TimeInv'
    OBVIOUS
  <2> QED
    BY Timely, AgeStep, LockStep, RunStep, GuardStep, CapStep DEF TimeInv
<1> QED
  BY InitTime, IndInvCorrect, <1>1, PTL DEF Spec

(* While claims and stale-lock passes act within the TTL of their clock    *)
(* reading and heartbeats are on time, at most one goroutine of the type   *)
(* works with a live context, for every number of runners and rows, faults *)
(* and crashes.                                                            *)
THEOREM NoOverlapCorrect == ASSUME Timely PROVE Spec => []NoOverlap
<1>1. IndInv /\ TimeInv => NoOverlap
  BY DEF TimeInv, RunInv, NoOverlap, Holds
<1> QED
  BY IndInvCorrect, TimeInvCorrect, <1>1, PTL

(* Under the same assumption a running row always has the lease by which a *)
(* stale-lock pass can fail it, so that no row blocks its type for good.   *)
THEOREM RunningGuardedCorrect == ASSUME Timely PROVE Spec => []RunningGuarded
<1>1. TimeInv => RunningGuarded
  BY DEF TimeInv
<1> QED
  BY TimeInvCorrect, <1>1, PTL

=============================================================================
