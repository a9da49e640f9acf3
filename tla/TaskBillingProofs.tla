-------------------------- MODULE TaskBillingProofs --------------------------
(***************************************************************************)
(* Proofs about TaskBilling, for any number of tasks, of overlapping       *)
(* polling passes and of status queries, any prices, faults and crashes.   *)
(*                                                                         *)
(* The billing theorems hold under PollOnly: only polling passes write     *)
(* rows, and submissions settle.  The channel may vanish and its lookup    *)
(* may fail.  The argument: an unfinished row has exact books and is being *)
(* billed by nobody, so its quota cannot change before its status does;    *)
(* hence the pass whose CAS to a terminal status wins holds the true       *)
(* quota, no second CAS can win, and the winner's three statements are the *)
(* only billing the task ever gets.  The bulk failure, which is no CAS,    *)
(* leaves the quota alone and takes no task out of a terminal status.      *)
(***************************************************************************)
EXTENDS TaskBilling, TLAPS

USE DEF rowVars, world, copies, adjust, pass, query, money, flt
USE DEF Goto, Ok, Fault, Fails, FailsEarly, Loads, Returns, UpdateWithStatus, Drop,
        StartAdjust, RefundTaskQuota, SettleTask

-----------------------------------------------------------------------------
(* Types.                                                                  *)

(* Storing a Boolean in a Boolean-valued function keeps its type.          *)
LEMMA BoolUpdate ==
    ASSUME NEW f \in [Tasks -> BOOLEAN], NEW t \in Tasks, NEW b \in BOOLEAN
    PROVE  [f EXCEPT ![t] = b] \in [Tasks -> BOOLEAN]
  OBVIOUS

(* Membership is a Boolean.                                                *)
LEMMA MembershipBool == ASSUME NEW x, NEW S PROVE (x \in S) \in BOOLEAN
  OBVIOUS

(* Init establishes the type invariant.                                    *)
LEMMA TypeInit == Init => TypeOK
  <1> SUFFICES ASSUME Init PROVE TypeOK
    OBVIOUS
  <1> USE DEF Init, Statuses, Unfinished, Terminal, NoTask, Billing
  <1>1. TypeRows /\ TypeCopies
    BY DEF TypeRows, TypeCopies
  <1>2. TypeFlags
    BY DEF TypeFlags
  <1>3. TypePass /\ TypeAmounts
    BY DEF TypePass, TypeAmounts
  <1>4. TypeQuery /\ InHand
    BY DEF TypeQuery, InHand
  <1> QED BY <1>1, <1>2, <1>3, <1>4 DEF TypeOK

(* StartPass keeps the types. *)
LEMMA TypeStartPass == ASSUME TypeOK, NEW p \in Pollers, StartPass(p) PROVE TypeOK'
  <1> USE TaskAssumption DEF TypeOK, StartPass, Listed, Statuses, Unfinished, Terminal
  <1>1. status' \in [Tasks -> Statuses \cup {"none", "settled", "lost"}]
    BY SMTT(30) DEF TypeRows, TypeCopies, TypePass, TypeQuery, InHand, Billing
  <1>2. quota' \in [Tasks -> Nat]
    BY SMTT(30) DEF TypeRows, TypeCopies, TypePass, TypeAmounts, TypeQuery, InHand, Billing
  <1>3. TypeFlags'
    BY BoolUpdate, Zenon DEF TypeFlags, InHand, TypePass, Billing
  <1>4. TypePass'
    BY SMTT(30) DEF TypePass, TypeQuery, Billing, NoTask
  <1>5. TypeCopies'
    BY SMTT(30) DEF TypeCopies, TypeRows, TypePass
  <1>6. TypeAmounts'
    BY SMTT(30) DEF TypeAmounts, TypeCopies, TypePass, InHand, Billing, TypeRows
  <1>7. TypeQuery'
    BY SMTT(30) DEF TypeQuery, TypeRows, InHand
  <1>8. InHand'
    BY SMTT(30) DEF InHand, TypePass, TypeQuery, Billing
  <1> QED BY <1>1, <1>2, <1>3, <1>4, <1>5, <1>6, <1>7, <1>8 DEF TypeRows

(* SweepTask keeps the types. *)
LEMMA TypeSweepTask == ASSUME TypeOK, NEW p \in Pollers, SweepTask(p) PROVE TypeOK'
  <1> USE TaskAssumption DEF TypeOK, SweepTask, Statuses, Unfinished, Terminal
  <1>1. status' \in [Tasks -> Statuses \cup {"none", "settled", "lost"}]
    BY SMTT(30) DEF TypeRows, TypeCopies, TypePass, TypeQuery, InHand, Billing
  <1>2. quota' \in [Tasks -> Nat]
    <2>1. \/ UNCHANGED quota
          \/ \E t \in todo[p] : quota' = [quota EXCEPT ![t] = copyQuota[p][t]]
          \/ \E t \in todo[p] : quota' = [quota EXCEPT ![t] = 0]
      BY Zenon
    <2> HIDE DEF SweepTask
    <2> QED BY <2>1 DEF TypeRows, TypeCopies, TypePass
  <1>3. TypeFlags'
    BY BoolUpdate, Zenon DEF TypeFlags, InHand, TypePass, Billing
  <1>4. TypePass'
    BY SMTT(30) DEF TypePass, TypeQuery, Billing, NoTask
  <1>5. TypeCopies'
    BY SMTT(30) DEF TypeCopies, TypeRows, TypePass
  <1>6. TypeAmounts'
    <2>1. PICK t \in todo[p] : SweepTask(p)!2!(t)
      OBVIOUS
    <2>2. t \in Tasks /\ copyQuota[p][t] \in Nat
      BY DEF TypePass, TypeCopies
    <2> QED BY <2>1, <2>2, SMTT(30) DEF TypeAmounts
  <1>7. TypeQuery'
    BY SMTT(30) DEF TypeQuery, TypeRows, InHand
  <1>8. InHand'
    BY SMTT(30) DEF InHand, TypePass, TypeQuery, Billing
  <1> QED BY <1>1, <1>2, <1>3, <1>4, <1>5, <1>6, <1>7, <1>8 DEF TypeRows

(* ListTasks keeps the types. *)
LEMMA TypeListTasks == ASSUME TypeOK, NEW p \in Pollers, ListTasks(p) PROVE TypeOK'
  <1> USE TaskAssumption DEF TypeOK, ListTasks, Listed, Statuses, Unfinished, Terminal
  <1>1. status' \in [Tasks -> Statuses \cup {"none", "settled", "lost"}]
    BY SMTT(30) DEF TypeRows, TypeCopies, TypePass, TypeQuery, InHand, Billing
  <1>2. quota' \in [Tasks -> Nat]
    BY SMTT(30) DEF TypeRows, TypeCopies, TypePass, TypeAmounts, TypeQuery, InHand, Billing
  <1>3. TypeFlags'
    BY BoolUpdate, Zenon DEF TypeFlags, InHand, TypePass, Billing
  <1>4. TypePass'
    BY SMTT(30) DEF TypePass, TypeQuery, Billing, NoTask
  <1>5. TypeCopies'
    BY SMTT(30) DEF TypeCopies, TypeRows, TypePass
  <1>6. TypeAmounts'
    BY SMTT(30) DEF TypeAmounts, TypeCopies, TypePass, InHand, Billing, TypeRows
  <1>7. TypeQuery'
    BY SMTT(30) DEF TypeQuery, TypeRows, InHand
  <1>8. InHand'
    BY SMTT(30) DEF InHand, TypePass, TypeQuery, Billing
  <1> QED BY <1>1, <1>2, <1>3, <1>4, <1>5, <1>6, <1>7, <1>8 DEF TypeRows

(* CheckChannel keeps the types. *)
LEMMA TypeCheckChannel == ASSUME TypeOK, NEW p \in Pollers, CheckChannel(p) PROVE TypeOK'
  <1> USE TaskAssumption DEF TypeOK, CheckChannel, Statuses, Unfinished, Terminal
  <1>1. status' \in [Tasks -> Statuses \cup {"none", "settled", "lost"}]
    BY SMTT(30) DEF TypeRows, TypeCopies, TypePass, TypeQuery, InHand, Billing
  <1>2. quota' \in [Tasks -> Nat]
    BY SMTT(30) DEF TypeRows, TypeCopies, TypePass, TypeAmounts, TypeQuery, InHand, Billing
  <1>3. TypeFlags'
    <2>1. \/ UNCHANGED <<full, bulk>>
          \/ /\ full' = [t \in Tasks |-> t \in todo[p] \/ full[t]]
             /\ bulk' = bulk \cup todo[p]
      OBVIOUS
    <2>2. UNCHANGED <<channelGone, expired, harmed>>
      OBVIOUS
    <2>3. todo[p] \subseteq Tasks
      BY DEF TypePass
    <2> HIDE DEF CheckChannel
    <2>4. full' \in [Tasks -> BOOLEAN]
      BY <2>1, Zenon DEF TypeFlags
    <2>5. bulk' \subseteq Tasks
      BY <2>1, <2>3 DEF TypeFlags
    <2> QED BY <2>2, <2>4, <2>5 DEF TypeFlags
  <1>4. TypePass'
    BY SMTT(30) DEF TypePass, TypeQuery, Billing, NoTask
  <1>5. TypeCopies'
    <2>1. UNCHANGED copies \/ Loads(p, {})
      OBVIOUS
    <2> HIDE DEF CheckChannel
    <2>2. CASE UNCHANGED copies
      BY <2>2 DEF TypeCopies
    <2>3. CASE Loads(p, {})
      BY <2>3 DEF TypeCopies
    <2> QED BY <2>1, <2>2, <2>3
  <1>6. TypeAmounts'
    <2>1. /\ UNCHANGED money /\ faults' \in Nat
          /\ \/ UNCHANGED <<delta, newQuota>>
             \/ /\ delta' = [delta EXCEPT ![p] = 0]
                /\ newQuota' = [newQuota EXCEPT ![p] = 0]
      BY DEF TypeAmounts
    <2> HIDE DEF CheckChannel
    <2> QED BY <2>1 DEF TypeAmounts
  <1>7. TypeQuery'
    BY SMTT(30) DEF TypeQuery, TypeRows, InHand
  <1>8. InHand'
    BY SMTT(30) DEF InHand, TypePass, TypeQuery, Billing
  <1> QED BY <1>1, <1>2, <1>3, <1>4, <1>5, <1>6, <1>7, <1>8 DEF TypeRows

(* FetchTask keeps the types. *)
LEMMA TypeFetchTask == ASSUME TypeOK, NEW p \in Pollers, FetchTask(p) PROVE TypeOK'
  <1> USE TaskAssumption DEF TypeOK, FetchTask, Statuses, Unfinished, Terminal
  <1>1. status' \in [Tasks -> Statuses \cup {"none", "settled", "lost"}]
    BY SMTT(30) DEF TypeRows, TypeCopies, TypePass, TypeQuery, InHand, Billing
  <1>2. quota' \in [Tasks -> Nat]
    BY SMTT(30) DEF TypeRows, TypeCopies, TypePass, TypeAmounts, TypeQuery, InHand, Billing
  <1>3. TypeFlags'
    BY BoolUpdate, Zenon DEF TypeFlags, InHand, TypePass, Billing
  <1>4. TypePass'
    BY SMTT(30) DEF TypePass, TypeQuery, Billing, NoTask
  <1>5. TypeCopies'
    BY SMTT(30) DEF TypeCopies, TypeRows, TypePass
  <1>6. TypeAmounts'
    BY SMTT(30) DEF TypeAmounts, TypeCopies, TypePass, InHand, Billing, TypeRows
  <1>7. TypeQuery'
    BY SMTT(30) DEF TypeQuery, TypeRows, InHand
  <1>8. InHand'
    BY SMTT(30) DEF InHand, TypePass, TypeQuery, Billing
  <1> QED BY <1>1, <1>2, <1>3, <1>4, <1>5, <1>6, <1>7, <1>8 DEF TypeRows

(* UpdateTask keeps the types. *)
LEMMA TypeUpdateTask == ASSUME TypeOK, NEW p \in Pollers, UpdateTask(p) PROVE TypeOK'
  <1> USE TaskAssumption DEF TypeOK, UpdateTask, Statuses, Unfinished, Terminal
  <1>1. status' \in [Tasks -> Statuses \cup {"none", "settled", "lost"}]
    <2>1. UNCHANGED status \/ status' = [status EXCEPT ![cur[p]] = seen[p]]
      BY Zenon
    <2> HIDE DEF UpdateTask
    <2> QED BY <2>1 DEF TypeRows, TypePass
  <1>2. quota' \in [Tasks -> Nat]
    BY SMTT(30) DEF TypeRows, TypeCopies, TypePass, TypeAmounts, TypeQuery, InHand, Billing
  <1>3. TypeFlags'
    <2>1. cur[p] \in Tasks
      BY DEF InHand
    <2>2. \/ UNCHANGED full
          \/ \E f \in Progresses(cur[p], seen[p]) : full' = [full EXCEPT ![cur[p]] = f]
      OBVIOUS
    <2>3. Progresses(cur[p], seen[p]) \subseteq BOOLEAN
      BY Zenon DEF Progresses
    <2>4. full' \in [Tasks -> BOOLEAN]
      BY <2>1, <2>2, <2>3, BoolUpdate, Zenon DEF TypeFlags
    <2> QED BY <2>4 DEF TypeFlags
  <1>4. TypePass'
    BY SMTT(30) DEF TypePass, TypeQuery, Billing, NoTask
  <1>5. TypeCopies'
    BY SMTT(30) DEF TypeCopies, TypeRows, TypePass
  <1>6. TypeAmounts'
    BY SMTT(30) DEF TypeAmounts, TypeCopies, TypePass, InHand, Billing, TypeRows
  <1>7. TypeQuery'
    BY SMTT(30) DEF TypeQuery, TypeRows, InHand
  <1>8. InHand'
    BY SMTT(30) DEF InHand, TypePass, TypeQuery, Billing
  <1> QED BY <1>1, <1>2, <1>3, <1>4, <1>5, <1>6, <1>7, <1>8 DEF TypeRows

(* AdjustFunding keeps the types. *)
LEMMA TypeAdjustFunding == ASSUME TypeOK, NEW p \in Pollers, AdjustFunding(p) PROVE TypeOK'
  <1> USE TaskAssumption DEF TypeOK, AdjustFunding, Statuses, Unfinished, Terminal
  <1>1. status' \in [Tasks -> Statuses \cup {"none", "settled", "lost"}]
    BY SMTT(30) DEF TypeRows, TypeCopies, TypePass, TypeQuery, InHand, Billing
  <1>2. quota' \in [Tasks -> Nat]
    BY SMTT(30) DEF TypeRows, TypeCopies, TypePass, TypeAmounts, TypeQuery, InHand, Billing
  <1>3. TypeFlags'
    BY BoolUpdate, Zenon DEF TypeFlags, InHand, TypePass, Billing
  <1>4. TypePass'
    BY SMTT(30) DEF TypePass, TypeQuery, Billing, NoTask
  <1>5. TypeCopies'
    BY SMTT(30) DEF TypeCopies, TypeRows, TypePass
  <1>6. TypeAmounts'
    BY SMTT(30) DEF TypeAmounts, TypeCopies, TypePass, InHand, Billing, TypeRows
  <1>7. TypeQuery'
    BY SMTT(30) DEF TypeQuery, TypeRows, InHand
  <1>8. InHand'
    BY SMTT(30) DEF InHand, TypePass, TypeQuery, Billing
  <1> QED BY <1>1, <1>2, <1>3, <1>4, <1>5, <1>6, <1>7, <1>8 DEF TypeRows

(* AdjustToken keeps the types. *)
LEMMA TypeAdjustToken == ASSUME TypeOK, NEW p \in Pollers, AdjustToken(p) PROVE TypeOK'
  <1> USE TaskAssumption DEF TypeOK, AdjustToken, Statuses, Unfinished, Terminal
  <1>1. status' \in [Tasks -> Statuses \cup {"none", "settled", "lost"}]
    BY SMTT(30) DEF TypeRows, TypeCopies, TypePass, TypeQuery, InHand, Billing
  <1>2. quota' \in [Tasks -> Nat]
    BY SMTT(30) DEF TypeRows, TypeCopies, TypePass, TypeAmounts, TypeQuery, InHand, Billing
  <1>3. TypeFlags'
    BY BoolUpdate, Zenon DEF TypeFlags, InHand, TypePass, Billing
  <1>4. TypePass'
    BY SMTT(30) DEF TypePass, TypeQuery, Billing, NoTask
  <1>5. TypeCopies'
    BY SMTT(30) DEF TypeCopies, TypeRows, TypePass
  <1>6. TypeAmounts'
    BY SMTT(30) DEF TypeAmounts, TypeCopies, TypePass, InHand, Billing, TypeRows
  <1>7. TypeQuery'
    BY SMTT(30) DEF TypeQuery, TypeRows, InHand
  <1>8. InHand'
    BY SMTT(30) DEF InHand, TypePass, TypeQuery, Billing
  <1> QED BY <1>1, <1>2, <1>3, <1>4, <1>5, <1>6, <1>7, <1>8 DEF TypeRows

(* UpdateQuota keeps the types. *)
LEMMA TypeUpdateQuota == ASSUME TypeOK, NEW p \in Pollers, UpdateQuota(p) PROVE TypeOK'
  <1> USE TaskAssumption DEF TypeOK, UpdateQuota, Statuses, Unfinished, Terminal
  <1>1. status' \in [Tasks -> Statuses \cup {"none", "settled", "lost"}]
    BY SMTT(30) DEF TypeRows, TypeCopies, TypePass, TypeQuery, InHand, Billing
  <1>2. quota' \in [Tasks -> Nat]
    <2>1. newQuota[p] \in Nat /\ quota \in [Tasks -> Nat]
      BY DEF TypeRows, TypeAmounts
    <2>2. quota' = quota \/ quota' = [quota EXCEPT ![cur[p]] = newQuota[p]]
      OBVIOUS
    <2> QED BY <2>1, <2>2
  <1>3. TypeFlags'
    BY BoolUpdate, Zenon DEF TypeFlags, InHand, TypePass, Billing
  <1>4. TypePass'
    BY SMTT(30) DEF TypePass, TypeQuery, Billing, NoTask
  <1>5. TypeCopies'
    BY SMTT(30) DEF TypeCopies, TypeRows, TypePass
  <1>6. TypeAmounts'
    BY SMTT(30) DEF TypeAmounts, TypeCopies, TypePass, InHand, Billing, TypeRows
  <1>7. TypeQuery'
    BY SMTT(30) DEF TypeQuery, TypeRows, InHand
  <1>8. InHand'
    BY SMTT(30) DEF InHand, TypePass, TypeQuery, Billing
  <1> QED BY <1>1, <1>2, <1>3, <1>4, <1>5, <1>6, <1>7, <1>8 DEF TypeRows

(* EndPass keeps the types. *)
LEMMA TypeEndPass == ASSUME TypeOK, NEW p \in Pollers, EndPass(p) PROVE TypeOK'
  <1> USE TaskAssumption DEF TypeOK, EndPass, Statuses, Unfinished, Terminal
  <1>1. status' \in [Tasks -> Statuses \cup {"none", "settled", "lost"}]
    BY SMTT(30) DEF TypeRows, TypeCopies, TypePass, TypeQuery, InHand, Billing
  <1>2. quota' \in [Tasks -> Nat]
    BY SMTT(30) DEF TypeRows, TypeCopies, TypePass, TypeAmounts, TypeQuery, InHand, Billing
  <1>3. TypeFlags'
    BY BoolUpdate, Zenon DEF TypeFlags, InHand, TypePass, Billing
  <1>4. TypePass'
    BY SMTT(30) DEF TypePass, TypeQuery, Billing, NoTask
  <1>5. TypeCopies'
    BY SMTT(30) DEF TypeCopies, TypeRows, TypePass
  <1>6. TypeAmounts'
    BY SMTT(30) DEF TypeAmounts, TypeCopies, TypePass, InHand, Billing, TypeRows
  <1>7. TypeQuery'
    BY SMTT(30) DEF TypeQuery, TypeRows, InHand
  <1>8. InHand'
    BY SMTT(30) DEF InHand, TypePass, TypeQuery, Billing
  <1> QED BY <1>1, <1>2, <1>3, <1>4, <1>5, <1>6, <1>7, <1>8 DEF TypeRows

(* Crash keeps the types. *)
LEMMA TypeCrash == ASSUME TypeOK, NEW p \in Pollers, Crash(p) PROVE TypeOK'
  <1> USE TaskAssumption DEF TypeOK, Crash, Statuses, Unfinished, Terminal
  <1>1. status' \in [Tasks -> Statuses \cup {"none", "settled", "lost"}]
    BY SMTT(30) DEF TypeRows, TypeCopies, TypePass, TypeQuery, InHand, Billing
  <1>2. quota' \in [Tasks -> Nat]
    BY SMTT(30) DEF TypeRows, TypeCopies, TypePass, TypeAmounts, TypeQuery, InHand, Billing
  <1>3. TypeFlags'
    BY BoolUpdate, Zenon DEF TypeFlags, InHand, TypePass, Billing
  <1>4. TypePass'
    BY SMTT(30) DEF TypePass, TypeQuery, Billing, NoTask
  <1>5. TypeCopies'
    BY SMTT(30) DEF TypeCopies, TypeRows, TypePass
  <1>6. TypeAmounts'
    BY SMTT(30) DEF TypeAmounts, TypeCopies, TypePass, InHand, Billing, TypeRows
  <1>7. TypeQuery'
    BY SMTT(30) DEF TypeQuery, TypeRows, InHand
  <1>8. InHand'
    BY SMTT(30) DEF InHand, TypePass, TypeQuery, Billing
  <1> QED BY <1>1, <1>2, <1>3, <1>4, <1>5, <1>6, <1>7, <1>8 DEF TypeRows

(* SettleSubmission keeps the types. *)
LEMMA TypeSettleSubmission == ASSUME TypeOK, NEW t \in Tasks, SettleSubmission(t) PROVE TypeOK'
  <1> USE TaskAssumption DEF TypeOK, SettleSubmission, Statuses, Unfinished, Terminal
  <1>1. status' \in [Tasks -> Statuses \cup {"none", "settled", "lost"}]
    BY SMTT(30) DEF TypeRows, TypeCopies, TypePass, TypeQuery, InHand, Billing
  <1>2. quota' \in [Tasks -> Nat]
    BY SMTT(30) DEF TypeRows, TypeCopies, TypePass, TypeAmounts, TypeQuery, InHand, Billing
  <1>3. TypeFlags'
    BY BoolUpdate, Zenon DEF TypeFlags, InHand, TypePass, Billing
  <1>4. TypePass'
    BY SMTT(30) DEF TypePass, TypeQuery, Billing, NoTask
  <1>5. TypeCopies'
    BY SMTT(30) DEF TypeCopies, TypeRows, TypePass
  <1>6. TypeAmounts'
    BY SMTT(30) DEF TypeAmounts, TypeCopies, TypePass, InHand, Billing, TypeRows
  <1>7. TypeQuery'
    BY SMTT(30) DEF TypeQuery, TypeRows, InHand
  <1>8. InHand'
    BY SMTT(30) DEF InHand, TypePass, TypeQuery, Billing
  <1> QED BY <1>1, <1>2, <1>3, <1>4, <1>5, <1>6, <1>7, <1>8 DEF TypeRows

(* InsertTask keeps the types. *)
LEMMA TypeInsertTask == ASSUME TypeOK, NEW t \in Tasks, InsertTask(t) PROVE TypeOK'
  <1> USE TaskAssumption DEF TypeOK, InsertTask, Statuses, Unfinished, Terminal
  <1>1. status' \in [Tasks -> Statuses \cup {"none", "settled", "lost"}]
    BY SMTT(30) DEF TypeRows, TypeCopies, TypePass, TypeQuery, InHand, Billing
  <1>2. quota' \in [Tasks -> Nat]
    BY SMTT(30) DEF TypeRows, TypeCopies, TypePass, TypeAmounts, TypeQuery, InHand, Billing
  <1>3. TypeFlags'
    BY BoolUpdate, Zenon DEF TypeFlags, InHand, TypePass, Billing
  <1>4. TypePass'
    BY SMTT(30) DEF TypePass, TypeQuery, Billing, NoTask
  <1>5. TypeCopies'
    BY SMTT(30) DEF TypeCopies, TypeRows, TypePass
  <1>6. TypeAmounts'
    BY SMTT(30) DEF TypeAmounts, TypeCopies, TypePass, InHand, Billing, TypeRows
  <1>7. TypeQuery'
    BY SMTT(30) DEF TypeQuery, TypeRows, InHand
  <1>8. InHand'
    BY SMTT(30) DEF InHand, TypePass, TypeQuery, Billing
  <1> QED BY <1>1, <1>2, <1>3, <1>4, <1>5, <1>6, <1>7, <1>8 DEF TypeRows

(* UpstreamEnds keeps the types. *)
LEMMA TypeUpstreamEnds == ASSUME TypeOK, NEW t \in Tasks, UpstreamEnds(t) PROVE TypeOK'
  <1>1. TypeQuery'
    BY DEF TypeOK, TypeQuery, UpstreamEnds, Statuses, Terminal
  <1> QED BY <1>1 DEF UpstreamEnds, TypeOK, TypeRows, TypeFlags, TypePass, TypeCopies, TypeAmounts, InHand

(* TaskTimesOut keeps the types. *)
LEMMA TypeTaskTimesOut == ASSUME TypeOK, NEW t \in Tasks, TaskTimesOut(t) PROVE TypeOK'
  <1>1. TypeFlags'
    BY BoolUpdate, Zenon DEF TypeOK, TypeFlags, TaskTimesOut
  <1> QED BY <1>1 DEF TaskTimesOut, TypeOK, TypeRows, TypePass, TypeCopies, TypeAmounts, TypeQuery, InHand

(* LoadTask keeps the types. *)
LEMMA TypeLoadTask == ASSUME TypeOK, NEW f \in Fetchers, LoadTask(f) PROVE TypeOK'
  <1>1. TypeQuery' /\ InHand'
    BY TaskAssumption, SMTT(30) DEF TypeOK, TypeRows, TypePass, TypeQuery, InHand, LoadTask, Statuses,
                                    Unfinished, Terminal
  <1> QED BY <1>1 DEF LoadTask, TypeOK, TypeRows, TypeFlags, TypePass, TypeCopies, TypeAmounts

(* AskUpstream keeps the types. *)
LEMMA TypeAskUpstream == ASSUME TypeOK, NEW f \in Fetchers, AskUpstream(f) PROVE TypeOK'
  <1>1. TypeQuery' /\ InHand'
    BY TaskAssumption, SMTT(30) DEF TypeOK, TypeRows, TypePass, TypeQuery, InHand, AskUpstream, Statuses,
                                    Unfinished, Terminal
  <1> QED BY <1>1 DEF AskUpstream, TypeOK, TypeRows, TypeFlags, TypePass, TypeCopies, TypeAmounts

(* WriteTask keeps the types. *)
LEMMA TypeWriteTask == ASSUME TypeOK, NEW f \in Fetchers, WriteTask(f) PROVE TypeOK'
  <1> USE TaskAssumption DEF TypeOK, WriteTask, FetchWins, Statuses, Unfinished, Terminal
  <1>1. status' \in [Tasks -> Statuses \cup {"none", "settled", "lost"}]
    <2>1. UNCHANGED status \/ status' = [status EXCEPT ![ftask[f]] = fseen[f]]
      BY Zenon
    <2> HIDE DEF WriteTask
    <2> QED BY <2>1 DEF TypeRows, TypeQuery
  <1>2. quota' \in [Tasks -> Nat]
    <2>1. UNCHANGED quota \/ quota' = [quota EXCEPT ![ftask[f]] = fquota[f]]
      BY Zenon
    <2> HIDE DEF WriteTask
    <2> QED BY <2>1 DEF TypeRows, TypeQuery
  <1>3. TypeFlags'
    <2>1. \/ UNCHANGED full
          \/ full' = [full EXCEPT ![ftask[f]] = fseen[f] \in Terminal]
      BY Zenon DEF WriteTask
    <2>2. ftask[f] \in Tasks
      BY DEF InHand
    <2>3. (fseen[f] \in Terminal) \in BOOLEAN
      <3> HIDE DEF Terminal, WriteTask, TypeOK
      <3> QED BY MembershipBool
    <2>4. full' \in [Tasks -> BOOLEAN]
      BY <2>1, <2>2, <2>3, BoolUpdate, Zenon DEF TypeFlags
    <2> QED BY <2>4 DEF TypeFlags
  <1>4. TypePass'
    BY SMTT(30) DEF TypePass, TypeQuery, Billing, NoTask
  <1>5. TypeCopies'
    BY SMTT(30) DEF TypeCopies, TypeRows, TypePass
  <1>6. TypeAmounts'
    BY SMTT(30) DEF TypeAmounts, TypeCopies, TypePass, InHand, Billing, TypeRows
  <1>7. TypeQuery'
    BY SMTT(30) DEF TypeQuery, TypeRows, InHand
  <1>8. InHand'
    BY SMTT(30) DEF InHand, TypePass, TypeQuery, Billing
  <1> QED BY <1>1, <1>2, <1>3, <1>4, <1>5, <1>6, <1>7, <1>8 DEF TypeRows

(* Every step preserves the types.                                         *)
LEMMA TypeStep == TypeOK /\ [Next]_vars => TypeOK'
  <1> SUFFICES ASSUME TypeOK, [Next]_vars PROVE TypeOK'
    OBVIOUS
  <1>1. ASSUME NEW p \in Pollers, PassStep(p) \/ Crash(p) PROVE TypeOK'
    BY <1>1, TypeStartPass, TypeSweepTask, TypeListTasks, TypeCheckChannel, TypeFetchTask,
       TypeUpdateTask, TypeAdjustFunding, TypeAdjustToken, TypeUpdateQuota, TypeEndPass,
       TypeCrash DEF PassStep
  <1>2. ASSUME NEW t \in Tasks,
               SettleSubmission(t) \/ InsertTask(t) \/ UpstreamEnds(t) \/ TaskTimesOut(t)
        PROVE  TypeOK'
    BY <1>2, TypeSettleSubmission, TypeInsertTask, TypeUpstreamEnds, TypeTaskTimesOut
  <1>3. ASSUME NEW f \in Fetchers, Query(f) PROVE TypeOK'
    BY <1>3, TypeLoadTask, TypeAskUpstream, TypeWriteTask DEF Query
  <1>4. CASE ChannelVanishes
    BY <1>4 DEF ChannelVanishes, TypeOK, TypeRows, TypeFlags, TypePass, TypeCopies, TypeAmounts,
                TypeQuery, InHand
  <1>5. CASE UNCHANGED vars
    BY <1>5 DEF vars, TypeOK, TypeRows, TypeFlags, TypePass, TypeCopies, TypeAmounts, TypeQuery,
                InHand
  <1> QED BY <1>1, <1>2, <1>3, <1>4, <1>5 DEF Next, Quiescent

(* Every variable keeps its type for ever, without any condition: the      *)
(* quota of a row never goes below zero.                                   *)
THEOREM TypeCorrect == Spec => []TypeOK
  BY TypeInit, TypeStep, PTL DEF Spec

-----------------------------------------------------------------------------
(* The books of the tasks.                                                 *)

(* What a step has to leave alone to keep TaskInv(s).                      *)
LEMMA TaskFrame ==
    ASSUME NEW s \in Tasks, TaskInv(s), Idle(s)' <=> Idle(s),
           status'[s] = status[s], quota'[s] = quota[s], charged'[s] = charged[s],
           tokenCharged'[s] = tokenCharged[s], harmed'[s] <=> harmed[s], s \in bulk => s \in bulk'
    PROVE  TaskInv(s)'
  BY DEF TaskInv

(* What a step has to leave alone to keep CopyInv(x, s).                   *)
LEMMA CopyFrame ==
    ASSUME NEW x \in Pollers, NEW s \in Tasks, CopyInv(x, s), Handles(x, s)' => Handles(x, s),
           status'[s] = status[s], quota'[s] = quota[s] \/ status[s] \in Terminal,
           copyStatus'[x][s] = copyStatus[x][s], copyQuota'[x][s] = copyQuota[x][s]
    PROVE  CopyInv(x, s)'
  BY DEF CopyInv, Unfinished, Terminal

(* A step that changes no row, no pass and no books keeps the books.       *)
LEMMA BooksFrame ==
    ASSUME NEW s \in Tasks, Books(s), UNCHANGED <<status, quota, bulk, pass, money, harmed>>
    PROVE  Books(s)'
  BY DEF Books, TaskInv, CopyInv, AdjustInv, Idle, Adjusting, Handles

(* StartPass keeps the books. *)
LEMMA InvStartPass ==
    ASSUME PollOnly, IndInv, NEW p \in Pollers, StartPass(p), NEW s \in Tasks
    PROVE  Books(s)'
  <1> USE TaskAssumption DEF PollOnly, IndInv, Books, StartPass, Listed, Wins,
              TypeOK, TypeRows, TypeFlags, TypePass, TypeCopies, TypeAmounts, InHand, Billing,
              Statuses, Unfinished, Terminal
  <1>1. TaskInv(s)'
    BY SMTT(20) DEF TaskInv, CopyInv, AdjustInv, Idle, Adjusting, Handles
  <1>2. ASSUME NEW x \in Pollers PROVE CopyInv(x, s)'
    BY SMTT(20) DEF CopyInv, Handles, AdjustInv, Adjusting
  <1>3. ASSUME NEW x \in Pollers PROVE AdjustInv(x, s)'
    BY SMTT(20) DEF TaskInv, CopyInv, AdjustInv, Idle, Adjusting, Handles
  <1>4. ASSUME NEW x \in Pollers, NEW y \in Pollers, Adjusting(x, s)', Adjusting(y, s)'
        PROVE  x = y
    BY <1>4, SMTT(20) DEF TaskInv, Adjusting, Idle, CopyInv, Handles
  <1> HIDE DEF IndInv, StartPass
  <1> QED BY <1>1, <1>2, <1>3, <1>4

(* SweepTask keeps the books. *)
LEMMA InvSweepTask ==
    ASSUME PollOnly, IndInv, NEW p \in Pollers, SweepTask(p), NEW s \in Tasks
    PROVE  Books(s)'
  <1> USE TaskAssumption DEF PollOnly, IndInv, Books, SweepTask, Wins,
              TypeOK, TypeRows, TypeFlags, TypePass, TypeCopies, TypeAmounts, InHand, Billing,
              Statuses, Unfinished, Terminal
  <1>1. TaskInv(s)'
    <2>0. PICK t \in todo[p] : SweepTask(p)!2!(t)
      OBVIOUS
    <2>1. CASE s = t /\ status' # status
      BY <2>0, <2>1, SMTT(30) DEF TaskInv, CopyInv, AdjustInv, Idle, Adjusting, Handles
    <2>2. CASE s = t /\ status' = status
      <3>1. \A z \in Pollers : Adjusting(z, s)' <=> Adjusting(z, s)
        BY <2>0, <2>2 DEF Adjusting, CopyInv, Handles
      <3>2. Idle(s)' <=> Idle(s)
        BY <3>1 DEF Idle
      <3>3. quota'[s] = quota[s]
        <4>1. Wins(p, s) => status[s] \in Unfinished
          BY <2>0, <2>2 DEF CopyInv, Handles
        <4>2. \/ UpdateWithStatus(t, "FAILURE", copyQuota[p][t], TRUE)
              \/ UpdateWithStatus(t, "FAILURE", 0, TRUE)
                => status'[s] = "FAILURE"
          BY <2>0, <2>2
        <4> QED BY <2>0, <2>2, <4>1, <4>2
      <3>4. TaskInv(s) /\ UNCHANGED <<bulk, charged, tokenCharged, harmed>>
        BY <2>0
      <3> QED BY <2>2, <3>2, <3>3, <3>4, TaskFrame
    <2>3. CASE s # t
      <3>1. \A z \in Pollers : Adjusting(z, s)' <=> Adjusting(z, s)
        BY <2>0, <2>3 DEF Adjusting
      <3>2. Idle(s)' <=> Idle(s)
        BY <3>1 DEF Idle
      <3>3. /\ TaskInv(s) /\ status'[s] = status[s] /\ quota'[s] = quota[s]
            /\ UNCHANGED <<bulk, charged, tokenCharged, harmed>>
        BY <2>0, <2>3
      <3> QED BY <3>2, <3>3, TaskFrame
    <2> QED BY <2>1, <2>2, <2>3
  <1>2. ASSUME NEW x \in Pollers PROVE CopyInv(x, s)'
    BY SMTT(20) DEF CopyInv, Handles, AdjustInv, Adjusting
  <1>3. ASSUME NEW x \in Pollers PROVE AdjustInv(x, s)'
    BY SMTT(20) DEF TaskInv, CopyInv, AdjustInv, Idle, Adjusting, Handles
  <1>4. ASSUME NEW x \in Pollers, NEW y \in Pollers, Adjusting(x, s)', Adjusting(y, s)'
        PROVE  x = y
    BY <1>4, SMTT(20) DEF TaskInv, Adjusting, Idle, CopyInv, Handles
  <1> HIDE DEF IndInv, SweepTask
  <1> QED BY <1>1, <1>2, <1>3, <1>4

(* ListTasks keeps the books. *)
LEMMA InvListTasks ==
    ASSUME PollOnly, IndInv, NEW p \in Pollers, ListTasks(p), NEW s \in Tasks
    PROVE  Books(s)'
  <1> USE TaskAssumption DEF PollOnly, IndInv, Books, ListTasks, Listed, Wins,
              TypeOK, TypeRows, TypeFlags, TypePass, TypeCopies, TypeAmounts, InHand, Billing,
              Statuses, Unfinished, Terminal
  <1>1. TaskInv(s)'
    BY SMTT(20) DEF TaskInv, CopyInv, AdjustInv, Idle, Adjusting, Handles
  <1>2. ASSUME NEW x \in Pollers PROVE CopyInv(x, s)'
    BY SMTT(20) DEF CopyInv, Handles, AdjustInv, Adjusting
  <1>3. ASSUME NEW x \in Pollers PROVE AdjustInv(x, s)'
    BY SMTT(20) DEF TaskInv, CopyInv, AdjustInv, Idle, Adjusting, Handles
  <1>4. ASSUME NEW x \in Pollers, NEW y \in Pollers, Adjusting(x, s)', Adjusting(y, s)'
        PROVE  x = y
    BY <1>4, SMTT(20) DEF TaskInv, Adjusting, Idle, CopyInv, Handles
  <1> HIDE DEF IndInv, ListTasks
  <1> QED BY <1>1, <1>2, <1>3, <1>4

(* CheckChannel keeps the books: a bulk failure turns the status of tasks  *)
(* that have a row into FAILURE and leaves their amounts alone.            *)
LEMMA InvCheckChannel ==
    ASSUME PollOnly, IndInv, NEW p \in Pollers, CheckChannel(p), NEW s \in Tasks
    PROVE  Books(s)'
  <1> USE DEF Statuses, Unfinished, Terminal
  <1>0. /\ TaskInv(s)
        /\ \A x \in Pollers : CopyInv(x, s) /\ AdjustInv(x, s)
        /\ \A x, y \in Pollers : Adjusting(x, s) /\ Adjusting(y, s) => x = y
    BY DEF IndInv, Books
  <1>1. /\ UNCHANGED <<quota, charged, tokenCharged, harmed>>
        /\ pc[p] = "channel" /\ pc'[p] \in {"poll", "idle"}
        /\ s \in bulk => s \in bulk'
    BY DEF CheckChannel, IndInv, TypeOK, TypePass
  <1>2. \/ status'[s] = status[s]
        \/ status[s] \in Statuses /\ status'[s] = "FAILURE" /\ s \in bulk'
    <2>1. s \in todo[p] => status[s] \in Statuses
      BY <1>0 DEF CopyInv, Handles
    <2>2. \/ UNCHANGED status
          \/ /\ status' = [t \in Tasks |-> IF t \in todo[p] THEN "FAILURE" ELSE status[t]]
             /\ bulk' = bulk \cup todo[p]
      BY DEF CheckChannel
    <2> QED BY <2>1, <2>2
  <1>3. ASSUME NEW x \in Pollers, x # p
        PROVE  /\ pc'[x] = pc[x] /\ todo'[x] = todo[x] /\ cur'[x] = cur[x]
               /\ delta'[x] = delta[x] /\ newQuota'[x] = newQuota[x]
               /\ copyStatus'[x] = copyStatus[x] /\ copyQuota'[x] = copyQuota[x]
    BY <1>3 DEF CheckChannel, IndInv, TypeOK, TypePass, TypeCopies, TypeAmounts
  <1>4. \A z \in Pollers : Adjusting(z, s)' <=> Adjusting(z, s)
    BY <1>1, <1>3 DEF Adjusting, Billing
  <1>5. Idle(s)' <=> Idle(s)
    BY <1>4 DEF Idle
  <1>6. TaskInv(s)'
    <2>1. CASE status'[s] = status[s]
      BY <1>0, <1>1, <1>5, <2>1, TaskFrame
    <2>2. CASE status[s] \in Statuses /\ status'[s] = "FAILURE" /\ s \in bulk'
      BY <1>0, <1>1, <1>5, <2>2 DEF TaskInv
    <2> QED BY <1>2, <2>1, <2>2
  <1>7. ASSUME NEW x \in Pollers PROVE CopyInv(x, s)'
    <2>1. CASE x = p
      <3>1. Handles(p, s)' => /\ s \in todo[p] /\ UNCHANGED <<status, copyStatus, copyQuota>>
        BY <1>1 DEF CheckChannel, Handles, IndInv, TypeOK, TypePass
      <3> QED BY <1>0, <1>1, <2>1, <3>1 DEF CopyInv, Handles
    <2>2. CASE x # p
      <3>1. Handles(x, s)' <=> Handles(x, s)
        BY <1>3, <2>2 DEF Handles
      <3> QED BY <1>0, <1>1, <1>2, <1>3, <2>2, <3>1 DEF CopyInv
    <2> QED BY <2>1, <2>2
  <1>8. ASSUME NEW x \in Pollers PROVE AdjustInv(x, s)'
    <2>1. CASE x = p
      BY <1>1, <2>1 DEF AdjustInv, Adjusting, Billing
    <2>2. CASE x # p
      BY <1>0, <1>1, <1>2, <1>3, <1>4, <2>2 DEF AdjustInv
    <2> QED BY <2>1, <2>2
  <1> QED BY <1>0, <1>4, <1>6, <1>7, <1>8 DEF Books

(* FetchTask keeps the books. *)
LEMMA InvFetchTask ==
    ASSUME PollOnly, IndInv, NEW p \in Pollers, FetchTask(p), NEW s \in Tasks
    PROVE  Books(s)'
  <1> USE TaskAssumption DEF PollOnly, IndInv, Books, FetchTask, Wins,
              TypeOK, TypeRows, TypeFlags, TypePass, TypeCopies, TypeAmounts, InHand, Billing,
              Statuses, Unfinished, Terminal
  <1>1. TaskInv(s)'
    <2>1. \A z \in Pollers : Adjusting(z, s)' <=> Adjusting(z, s)
      BY DEF Adjusting
    <2>2. Idle(s)' <=> Idle(s)
      BY <2>1 DEF Idle
    <2>3. TaskInv(s) /\ UNCHANGED <<status, quota, bulk, charged, tokenCharged, harmed>>
      OBVIOUS
    <2> QED BY <2>2, <2>3, TaskFrame
  <1>2. ASSUME NEW x \in Pollers PROVE CopyInv(x, s)'
    BY SMTT(20) DEF CopyInv, Handles, AdjustInv, Adjusting
  <1>3. ASSUME NEW x \in Pollers PROVE AdjustInv(x, s)'
    BY SMTT(20) DEF TaskInv, CopyInv, AdjustInv, Idle, Adjusting, Handles
  <1>4. ASSUME NEW x \in Pollers, NEW y \in Pollers, Adjusting(x, s)', Adjusting(y, s)'
        PROVE  x = y
    BY <1>4, SMTT(20) DEF TaskInv, Adjusting, Idle, CopyInv, Handles
  <1> HIDE DEF IndInv, FetchTask
  <1> QED BY <1>1, <1>2, <1>3, <1>4

(* UpdateTask keeps the books. *)
LEMMA InvUpdateTask ==
    ASSUME PollOnly, IndInv, NEW p \in Pollers, UpdateTask(p), NEW s \in Tasks
    PROVE  Books(s)'
  <1> USE TaskAssumption DEF PollOnly, IndInv, Books, UpdateTask, Wins,
              TypeOK, TypeRows, TypeFlags, TypePass, TypeCopies, TypeAmounts, InHand, Billing,
              Statuses, Unfinished, Terminal
  <1>1. TaskInv(s)'
    BY SMTT(20) DEF TaskInv, CopyInv, AdjustInv, Idle, Adjusting, Handles
  <1>2. ASSUME NEW x \in Pollers PROVE CopyInv(x, s)'
    BY SMTT(20) DEF CopyInv, Handles, AdjustInv, Adjusting
  <1>3. ASSUME NEW x \in Pollers PROVE AdjustInv(x, s)'
    <2>1. CASE x = p
      <3>1. CASE Adjusting(p, s)'
        <4>1. cur[p] = s /\ Handles(p, s) /\ Wins(p, s)
          BY <3>1 DEF Adjusting, Handles
        <4>2. status[s] \in Unfinished /\ copyQuota[p][s] = quota[s]
          BY <4>1 DEF CopyInv
        <4>3. charged[s] = quota[s] /\ tokenCharged[s] = quota[s]
          BY <4>2 DEF TaskInv
        <4>4. /\ pc'[p] = "funding" /\ status'[s] = seen[p] /\ seen[p] \in Terminal
              /\ quota'[s] = quota[s] /\ delta'[p] = newQuota'[p] - quota[s]
              /\ seen[p] = "FAILURE" => newQuota'[p] = 0
          BY <3>1, <4>1, <4>2, SMTT(30) DEF Adjusting
        <4>5. UNCHANGED <<charged, tokenCharged>>
          OBVIOUS
        <4> HIDE DEF UpdateTask, IndInv
        <4> QED BY <2>1, <4>3, <4>4, <4>5 DEF AdjustInv
      <3> QED BY <2>1, <3>1 DEF AdjustInv
    <2>2. CASE x # p
      <3>1. Adjusting(x, s)' <=> Adjusting(x, s)
        BY <2>2 DEF Adjusting
      <3>2. Adjusting(x, s) => status[s] \in Terminal
        BY DEF AdjustInv
      <3>3. Adjusting(x, s) => status'[s] = status[s] /\ quota'[s] = quota[s]
        BY <3>2 DEF CopyInv, Handles
      <3>4. pc'[x] = pc[x] /\ delta'[x] = delta[x] /\ newQuota'[x] = newQuota[x]
        BY <2>2
      <3>5. AdjustInv(x, s) /\ UNCHANGED <<bulk, charged, tokenCharged, harmed>>
        OBVIOUS
      <3> HIDE DEF UpdateTask, IndInv
      <3> QED BY <3>1, <3>2, <3>3, <3>4, <3>5 DEF AdjustInv
    <2> QED BY <2>1, <2>2
  <1>4. ASSUME NEW x \in Pollers, NEW y \in Pollers, Adjusting(x, s)', Adjusting(y, s)'
        PROVE  x = y
    BY <1>4, SMTT(20) DEF TaskInv, Adjusting, Idle, CopyInv, Handles
  <1> HIDE DEF IndInv, UpdateTask
  <1> QED BY <1>1, <1>2, <1>3, <1>4

(* AdjustFunding keeps the books. *)
LEMMA InvAdjustFunding ==
    ASSUME PollOnly, IndInv, NEW p \in Pollers, AdjustFunding(p), NEW s \in Tasks
    PROVE  Books(s)'
  <1> USE TaskAssumption DEF PollOnly, IndInv, Books, AdjustFunding, Wins,
              TypeOK, TypeRows, TypeFlags, TypePass, TypeCopies, TypeAmounts, InHand, Billing,
              Statuses, Unfinished, Terminal
  <1>1. TaskInv(s)'
    BY SMTT(20) DEF TaskInv, CopyInv, AdjustInv, Idle, Adjusting, Handles
  <1>2. ASSUME NEW x \in Pollers PROVE CopyInv(x, s)'
    <2>1. Handles(x, s)' => Handles(x, s)
      BY DEF Handles
    <2>2. CopyInv(x, s) /\ UNCHANGED <<status, quota, copyStatus, copyQuota>>
      OBVIOUS
    <2> QED BY <2>1, <2>2, CopyFrame
  <1>3. ASSUME NEW x \in Pollers PROVE AdjustInv(x, s)'
    <2>1. CASE x = p
      <3>1. CASE pc'[p] = "token" /\ s = cur[p]
        <4>1. /\ status[s] \in Terminal /\ (status[s] = "FAILURE" => newQuota[p] = 0 \/ s \in bulk)
              /\ delta[p] = newQuota[p] - quota[s] /\ charged[s] = quota[s]
              /\ tokenCharged[s] = quota[s]
          <5>1. pc[p] = "funding" /\ Adjusting(p, s) /\ AdjustInv(p, s)
            BY <3>1 DEF Adjusting
          <5> HIDE DEF AdjustFunding, IndInv
          <5> QED BY <5>1 DEF AdjustInv
        <4>2. UNCHANGED bulk /\ charged'[s] = charged[s] + delta[p]
          BY <3>1
        <4> QED BY <2>1, <3>1, <4>1, <4>2 DEF AdjustInv
      <3>2. CASE ~(pc'[p] = "token" /\ s = cur[p])
        <4>1. ~Adjusting(p, s)'
          BY <3>2 DEF Adjusting
        <4> QED BY <2>1, <4>1 DEF AdjustInv
      <3> QED BY <3>1, <3>2
    <2>2. CASE x # p
      <3>1. Adjusting(x, s) => s # cur[p]
        BY <2>2 DEF Adjusting
      <3> QED BY <2>2, <3>1 DEF AdjustInv, Adjusting
    <2> QED BY <2>1, <2>2
  <1>4. ASSUME NEW x \in Pollers, NEW y \in Pollers, Adjusting(x, s)', Adjusting(y, s)'
        PROVE  x = y
    <2>1. \A z \in Pollers : Adjusting(z, s)' => Adjusting(z, s)
      BY DEF Adjusting
    <2> QED BY <1>4, <2>1
  <1> HIDE DEF IndInv, AdjustFunding
  <1> QED BY <1>1, <1>2, <1>3, <1>4

(* AdjustToken keeps the books. *)
LEMMA InvAdjustToken ==
    ASSUME PollOnly, IndInv, NEW p \in Pollers, AdjustToken(p), NEW s \in Tasks
    PROVE  Books(s)'
  <1> USE TaskAssumption DEF PollOnly, IndInv, Books, AdjustToken, Wins,
              TypeOK, TypeRows, TypeFlags, TypePass, TypeCopies, TypeAmounts, InHand, Billing,
              Statuses, Unfinished, Terminal
  <1>1. TaskInv(s)'
    <2>1. CASE s = cur[p]
      <3>1. status[s] \in Terminal /\ charged[s] >= 0 /\ tokenCharged'[s] >= 0
        BY <2>1 DEF AdjustInv, Adjusting, TaskInv
      <3>2. ~Idle(s)'
        BY <2>1 DEF Idle, Adjusting
      <3> QED BY <3>1, <3>2 DEF TaskInv
    <2>2. CASE s # cur[p]
      <3>1. Idle(s)' <=> Idle(s)
        BY <2>2 DEF Idle, Adjusting
      <3>2. /\ TaskInv(s) /\ UNCHANGED <<status, quota, bulk, charged>>
            /\ tokenCharged'[s] = tokenCharged[s] /\ (harmed'[s] <=> harmed[s])
        BY <2>2
      <3> QED BY <3>1, <3>2, TaskFrame
    <2> QED BY <2>1, <2>2
  <1>2. ASSUME NEW x \in Pollers PROVE CopyInv(x, s)'
    BY SMTT(20) DEF CopyInv, Handles, AdjustInv, Adjusting
  <1>3. ASSUME NEW x \in Pollers PROVE AdjustInv(x, s)'
    BY SMTT(20) DEF TaskInv, CopyInv, AdjustInv, Idle, Adjusting, Handles
  <1>4. ASSUME NEW x \in Pollers, NEW y \in Pollers, Adjusting(x, s)', Adjusting(y, s)'
        PROVE  x = y
    BY <1>4, SMTT(20) DEF TaskInv, Adjusting, Idle, CopyInv, Handles
  <1> HIDE DEF IndInv, AdjustToken
  <1> QED BY <1>1, <1>2, <1>3, <1>4

(* UpdateQuota keeps the books. *)
LEMMA InvUpdateQuota ==
    ASSUME PollOnly, IndInv, NEW p \in Pollers, UpdateQuota(p), NEW s \in Tasks
    PROVE  Books(s)'
  <1> USE TaskAssumption DEF PollOnly, IndInv, Books, UpdateQuota, Wins,
              TypeOK, TypeRows, TypeFlags, TypePass, TypeCopies, TypeAmounts, InHand, Billing,
              Statuses, Unfinished, Terminal
  <1>1. TaskInv(s)'
    BY SMTT(20) DEF TaskInv, CopyInv, AdjustInv, Idle, Adjusting, Handles
  <1>2. ASSUME NEW x \in Pollers PROVE CopyInv(x, s)'
    <2>1. Handles(x, s)' => Handles(x, s)
      BY DEF Handles
    <2>2. s = cur[p] => status[s] \in Terminal
      BY DEF AdjustInv, Adjusting
    <2>3. quota'[s] = quota[s] \/ status[s] \in Terminal
      BY <2>2
    <2>4. CopyInv(x, s) /\ UNCHANGED <<status, copyStatus, copyQuota>>
      OBVIOUS
    <2> QED BY <2>1, <2>3, <2>4, CopyFrame
  <1>3. ASSUME NEW x \in Pollers PROVE AdjustInv(x, s)'
    <2>1. CASE x = p
      <3>1. ~Adjusting(p, s)'
        BY DEF Adjusting
      <3> QED BY <2>1, <3>1 DEF AdjustInv
    <2>2. CASE x # p
      <3>1. Adjusting(x, s) => s # cur[p]
        BY <2>2 DEF Adjusting
      <3> QED BY <2>2, <3>1 DEF AdjustInv, Adjusting
    <2> QED BY <2>1, <2>2
  <1>4. ASSUME NEW x \in Pollers, NEW y \in Pollers, Adjusting(x, s)', Adjusting(y, s)'
        PROVE  x = y
    BY <1>4, SMTT(20) DEF TaskInv, Adjusting, Idle, CopyInv, Handles
  <1> HIDE DEF IndInv, UpdateQuota
  <1> QED BY <1>1, <1>2, <1>3, <1>4

(* EndPass keeps the books. *)
LEMMA InvEndPass ==
    ASSUME PollOnly, IndInv, NEW p \in Pollers, EndPass(p), NEW s \in Tasks
    PROVE  Books(s)'
  <1> USE TaskAssumption DEF PollOnly, IndInv, Books, EndPass, Wins,
              TypeOK, TypeRows, TypeFlags, TypePass, TypeCopies, TypeAmounts, InHand, Billing,
              Statuses, Unfinished, Terminal
  <1>1. TaskInv(s)'
    BY SMTT(20) DEF TaskInv, CopyInv, AdjustInv, Idle, Adjusting, Handles
  <1>2. ASSUME NEW x \in Pollers PROVE CopyInv(x, s)'
    BY SMTT(20) DEF CopyInv, Handles, AdjustInv, Adjusting
  <1>3. ASSUME NEW x \in Pollers PROVE AdjustInv(x, s)'
    BY SMTT(20) DEF TaskInv, CopyInv, AdjustInv, Idle, Adjusting, Handles
  <1>4. ASSUME NEW x \in Pollers, NEW y \in Pollers, Adjusting(x, s)', Adjusting(y, s)'
        PROVE  x = y
    BY <1>4, SMTT(20) DEF TaskInv, Adjusting, Idle, CopyInv, Handles
  <1> HIDE DEF IndInv, EndPass
  <1> QED BY <1>1, <1>2, <1>3, <1>4

(* Crash keeps the books. *)
LEMMA InvCrash ==
    ASSUME PollOnly, IndInv, NEW p \in Pollers, Crash(p), NEW s \in Tasks
    PROVE  Books(s)'
  <1> USE TaskAssumption DEF PollOnly, IndInv, Books, Crash, Wins,
              TypeOK, TypeRows, TypeFlags, TypePass, TypeCopies, TypeAmounts, InHand, Billing,
              Statuses, Unfinished, Terminal
  <1>1. TaskInv(s)'
    <2>1. CASE Adjusting(p, s)
      <3>1. status[s] \in Terminal /\ harmed'[s]
        BY <2>1 DEF AdjustInv, Adjusting
      <3> QED BY <3>1 DEF TaskInv
    <2>2. CASE ~Adjusting(p, s)
      <3>1. Idle(s)' <=> Idle(s)
        BY <2>2 DEF Idle, Adjusting
      <3>2. harmed'[s] <=> harmed[s]
        BY <2>2 DEF Adjusting
      <3>3. TaskInv(s) /\ UNCHANGED <<status, quota, bulk, charged, tokenCharged>>
        OBVIOUS
      <3> QED BY <3>1, <3>2, <3>3, TaskFrame
    <2> QED BY <2>1, <2>2
  <1>2. ASSUME NEW x \in Pollers PROVE CopyInv(x, s)'
    BY SMTT(20) DEF CopyInv, Handles, AdjustInv, Adjusting
  <1>3. ASSUME NEW x \in Pollers PROVE AdjustInv(x, s)'
    BY SMTT(20) DEF TaskInv, CopyInv, AdjustInv, Idle, Adjusting, Handles
  <1>4. ASSUME NEW x \in Pollers, NEW y \in Pollers, Adjusting(x, s)', Adjusting(y, s)'
        PROVE  x = y
    BY <1>4, SMTT(20) DEF TaskInv, Adjusting, Idle, CopyInv, Handles
  <1> HIDE DEF IndInv, Crash
  <1> QED BY <1>1, <1>2, <1>3, <1>4

(* SettleSubmission keeps the books. *)
LEMMA InvSettleSubmission ==
    ASSUME PollOnly, IndInv, NEW t \in Tasks, SettleSubmission(t), NEW s \in Tasks
    PROVE  Books(s)'
  <1> USE TaskAssumption DEF PollOnly, IndInv, Books, SettleSubmission, Wins,
              TypeOK, TypeRows, TypeFlags, TypePass, TypeCopies, TypeAmounts, InHand, Billing,
              Statuses, Unfinished, Terminal
  <1>1. TaskInv(s)'
    BY SMTT(20) DEF TaskInv, CopyInv, AdjustInv, Idle, Adjusting, Handles
  <1>2. ASSUME NEW x \in Pollers PROVE CopyInv(x, s)'
    BY SMTT(20) DEF CopyInv, Handles, AdjustInv, Adjusting
  <1>3. ASSUME NEW x \in Pollers PROVE AdjustInv(x, s)'
    BY SMTT(20) DEF TaskInv, CopyInv, AdjustInv, Idle, Adjusting, Handles
  <1>4. ASSUME NEW x \in Pollers, NEW y \in Pollers, Adjusting(x, s)', Adjusting(y, s)'
        PROVE  x = y
    BY <1>4, SMTT(20) DEF TaskInv, Adjusting, Idle, CopyInv, Handles
  <1> HIDE DEF IndInv, SettleSubmission
  <1> QED BY <1>1, <1>2, <1>3, <1>4

(* InsertTask keeps the books. *)
LEMMA InvInsertTask ==
    ASSUME PollOnly, IndInv, NEW t \in Tasks, InsertTask(t), NEW s \in Tasks
    PROVE  Books(s)'
  <1> USE TaskAssumption DEF PollOnly, IndInv, Books, InsertTask, Wins,
              TypeOK, TypeRows, TypeFlags, TypePass, TypeCopies, TypeAmounts, InHand, Billing,
              Statuses, Unfinished, Terminal
  <1>1. TaskInv(s)'
    BY SMTT(20) DEF TaskInv, CopyInv, AdjustInv, Idle, Adjusting, Handles
  <1>2. ASSUME NEW x \in Pollers PROVE CopyInv(x, s)'
    <2>1. Handles(x, s)' => Handles(x, s)
      BY DEF Handles
    <2>2. CASE s = t
      <3>1. ~Handles(x, s)
        BY <2>2 DEF CopyInv
      <3> QED BY <2>1, <3>1 DEF CopyInv
    <2>3. CASE s # t
      BY <2>1, <2>3, CopyFrame
    <2> QED BY <2>2, <2>3
  <1>3. ASSUME NEW x \in Pollers PROVE AdjustInv(x, s)'
    BY SMTT(20) DEF TaskInv, CopyInv, AdjustInv, Idle, Adjusting, Handles
  <1>4. ASSUME NEW x \in Pollers, NEW y \in Pollers, Adjusting(x, s)', Adjusting(y, s)'
        PROVE  x = y
    BY <1>4, SMTT(20) DEF TaskInv, Adjusting, Idle, CopyInv, Handles
  <1> HIDE DEF IndInv, InsertTask
  <1> QED BY <1>1, <1>2, <1>3, <1>4

(* Without realtime tasks no query starts.                                 *)
LEMMA QuietStep ==
    ASSUME PollOnly, IndInv, Next
    PROVE  \A f \in Fetchers : fpc'[f] = "idle"
  <1> USE DEF PollOnly, IndInv
  <1>1. ASSUME NEW p \in Pollers, PassStep(p) \/ Crash(p) PROVE UNCHANGED fpc
    BY <1>1 DEF PassStep, StartPass, SweepTask, ListTasks, CheckChannel, FetchTask, UpdateTask,
                AdjustFunding, AdjustToken, UpdateQuota, EndPass, Crash
  <1>2. ASSUME NEW t \in Tasks,
               SettleSubmission(t) \/ InsertTask(t) \/ UpstreamEnds(t) \/ TaskTimesOut(t)
        PROVE  UNCHANGED fpc
    BY <1>2 DEF SettleSubmission, InsertTask, UpstreamEnds, TaskTimesOut
  <1>3. ASSUME NEW f \in Fetchers, Query(f) PROVE FALSE
    BY <1>3 DEF Query, LoadTask, AskUpstream, WriteTask
  <1>4. CASE Quiescent \/ ChannelVanishes
    BY <1>4 DEF Quiescent, ChannelVanishes, vars
  <1> QED BY <1>1, <1>2, <1>3, <1>4 DEF Next

(* IndInv is inductive under PollOnly.                                       *)
LEMMA IndInvStep == ASSUME PollOnly PROVE IndInv /\ [Next]_vars => IndInv'
  <1> SUFFICES ASSUME IndInv, [Next]_vars PROVE IndInv'
    OBVIOUS
  <1>1. CASE UNCHANGED vars
    <2>1. TypeOK'
      BY TypeStep DEF IndInv
    <2>2. ASSUME NEW s \in Tasks PROVE Books(s)'
      BY <1>1, BooksFrame DEF vars, IndInv
    <2> QED BY <1>1, <2>1, <2>2 DEF vars, IndInv
  <1>2. CASE Next
    <2>1. TypeOK' /\ \A f \in Fetchers : fpc'[f] = "idle"
      BY <1>2, TypeStep, QuietStep DEF IndInv
    <2>2. ASSUME NEW s \in Tasks PROVE Books(s)'
      <3>1. ASSUME NEW p \in Pollers, PassStep(p) \/ Crash(p) PROVE Books(s)'
        BY <3>1, InvStartPass, InvSweepTask, InvListTasks, InvCheckChannel, InvFetchTask,
           InvUpdateTask, InvAdjustFunding, InvAdjustToken, InvUpdateQuota, InvEndPass, InvCrash
           DEF PassStep
      <3>2. ASSUME NEW t \in Tasks,
                   SettleSubmission(t) \/ InsertTask(t) \/ UpstreamEnds(t) \/ TaskTimesOut(t)
            PROVE  Books(s)'
        BY <3>2, InvSettleSubmission, InvInsertTask, BooksFrame
           DEF UpstreamEnds, TaskTimesOut, IndInv
      <3>3. ASSUME NEW f \in Fetchers, Query(f) PROVE Books(s)'
        BY <3>3 DEF Query, LoadTask, AskUpstream, WriteTask, IndInv, PollOnly
      <3>4. CASE Quiescent \/ ChannelVanishes
        BY <3>4, BooksFrame DEF Quiescent, ChannelVanishes, vars, IndInv
      <3> QED BY <1>2, <3>1, <3>2, <3>3, <3>4 DEF Next
    <2> QED BY <2>1, <2>2 DEF IndInv
  <1> QED BY <1>1, <1>2

(* Before the first submission there is nothing to bill.                   *)
LEMMA BooksInit == Init => IndInv
  <1> SUFFICES ASSUME Init
               PROVE  /\ \A f \in Fetchers : fpc[f] = "idle"
                      /\ \A t \in Tasks : Books(t)
    BY TypeInit DEF IndInv
  <1> QED
    BY DEF Init, Books, TaskInv, CopyInv, AdjustInv, Idle, Adjusting, Handles, Billing,
           Unfinished, Terminal, Statuses

(* Under PollOnly the books of every task are right at every moment.         *)
THEOREM IndInvCorrect == ASSUME PollOnly PROVE Spec => []IndInv
  BY BooksInit, IndInvStep, PTL DEF Spec

-----------------------------------------------------------------------------
(* The properties.                                                         *)

(* Overlapping passes, the sweep, lost statements and crashes never refund *)
(* a task more than it was charged.                                        *)
THEOREM NoDoubleRefundCorrect == ASSUME PollOnly PROVE Spec => []NoDoubleRefund
  <1>1. IndInv => NoDoubleRefund
    BY DEF IndInv, Books, TaskInv, NoDoubleRefund
  <1> QED BY <1>1, IndInvCorrect, PTL

(* The quota of a row that no pass is billing is what the task was charged. *)
THEOREM QuotaIsChargeCorrect == ASSUME PollOnly PROVE Spec => []QuotaIsCharge
  <1>1. IndInv => QuotaIsCharge
    BY DEF IndInv, Books, TaskInv, QuotaIsCharge
  <1> QED BY <1>1, IndInvCorrect, PTL

(* A failed task has its quota back once its refund is done, unless it was *)
(* failed in bulk after a lookup of its channel that failed.               *)
THEOREM FailedRefundedCorrect == ASSUME PollOnly PROVE Spec => []FailedRefunded
  <1>1. IndInv => FailedRefunded
    BY DEF IndInv, Books, TaskInv, FailedRefunded
  <1> QED BY <1>1, IndInvCorrect, PTL

(* Nothing but the bulk failure of a channel's tasks overwrites a terminal *)
(* status.                                                                 *)
THEOREM TerminalKeptCorrect == ASSUME PollOnly PROVE Spec => TerminalKept
  <1>1. IndInv /\ [Next]_vars
          => [\A t \in Tasks : status[t] \in Terminal =>
                 status'[t] = status[t] \/ (status'[t] = "FAILURE" /\ t \in bulk')]_vars
    <2> SUFFICES ASSUME IndInv, Next, NEW s \in Tasks, status[s] \in Terminal
                 PROVE  status'[s] = status[s] \/ (status'[s] = "FAILURE" /\ s \in bulk')
      OBVIOUS
    <2>0. /\ status \in [Tasks -> Statuses \cup {"none", "settled", "lost"}]
          /\ \A p \in Pollers : Handles(p, s) => copyStatus[p][s] \in Unfinished
      BY DEF IndInv, TypeOK, TypeRows, Books, CopyInv
    <2>1. ASSUME NEW p \in Pollers, PassStep(p) \/ Crash(p), ~CheckChannel(p)
          PROVE  status'[s] = status[s]
      <3>1. CASE SweepTask(p)
        BY <2>0, <3>1 DEF SweepTask, Handles, Wins, Unfinished, Terminal
      <3>2. CASE UpdateTask(p)
        BY <2>0, <3>2 DEF UpdateTask, Handles, Wins, Unfinished, Terminal
      <3> QED BY <2>0, <2>1, <3>1, <3>2
              DEF PassStep, StartPass, ListTasks, FetchTask, AdjustFunding,
                  AdjustToken, UpdateQuota, EndPass, Crash
    <2>2. ASSUME NEW p \in Pollers, CheckChannel(p)
          PROVE  status'[s] = status[s] \/ (status'[s] = "FAILURE" /\ s \in bulk')
      <3>1. \/ UNCHANGED status
            \/ /\ status' = [t \in Tasks |-> IF t \in todo[p] THEN "FAILURE" ELSE status[t]]
               /\ bulk' = bulk \cup todo[p]
        BY <2>2 DEF CheckChannel
      <3> QED BY <3>1
    <2>3. ASSUME NEW t \in Tasks,
                 SettleSubmission(t) \/ InsertTask(t) \/ UpstreamEnds(t) \/ TaskTimesOut(t)
          PROVE  status'[s] = status[s]
      BY <2>0, <2>3 DEF SettleSubmission, InsertTask, UpstreamEnds, TaskTimesOut, Terminal
    <2>4. ASSUME NEW f \in Fetchers, Query(f) PROVE status'[s] = status[s]
      BY <2>4 DEF Query, LoadTask, AskUpstream, WriteTask, IndInv, PollOnly
    <2>5. CASE Quiescent \/ ChannelVanishes
      BY <2>5 DEF Quiescent, vars, ChannelVanishes
    <2> QED BY <2>1, <2>2, <2>3, <2>4, <2>5 DEF Next
  <1> QED BY <1>1, IndInvCorrect, PTL DEF Spec, TerminalKept
=============================================================================
