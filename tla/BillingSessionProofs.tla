------------------------ MODULE BillingSessionProofs ------------------------
(***************************************************************************)
(* Proofs about BillingSession, for any number of requests, any prices,    *)
(* balances, preferences, retry limit and fault set.                       *)
(*                                                                         *)
(* TypeOK is inductive by itself.  The safety properties follow from the   *)
(* invariant IndInv, one formula ReqInv(r) per request: a step of request  *)
(* r re-establishes ReqInv(r) (lemma ReqStep), leaves the state ReqInv(q)  *)
(* reads alone for every other request q (FrameStep), and a crash or the   *)
(* expiry of the subscription keeps ReqInv for all requests.               *)
(***************************************************************************)
EXTENDS BillingSession, TLAPS

(* Tuples of variables, and the helpers every action is written with.      *)
USE DEF rows, input, amounts, flags, session, opening, locals, goroutine, ledger, post, flt
USE DEF Ok, QueryFails, Goto, OpenWith, OpenError, SessionOpens, FundingFails, Reserved,
        TryAgain, JobGoto, DecreaseUserQuota, DecreaseTokenQuota,
        PostConsumeUserSubscriptionDelta, DebitSource, Spend, SpendToken

-----------------------------------------------------------------------------
(* Lemmas about the helpers.                                               *)

(* Storing a Boolean in a Boolean-valued function keeps its type.          *)
LEMMA BoolUpdate ==
    ASSUME NEW f \in [Reqs -> BOOLEAN], NEW r \in Reqs, NEW b \in BOOLEAN
    PROVE  [f EXCEPT ![r] = b] \in [Reqs -> BOOLEAN]
  OBVIOUS

(* A failing statement keeps the types of the fault history.               *)
LEMMA FaultType ==
    ASSUME TypeHistory, NEW r \in Reqs, NEW p, Fails(r, p)
    PROVE  faults' \in Nat /\ hit' \in [Reqs -> SUBSET FaultPoints]
  BY DEF TypeHistory, Fails

(* A failing statement is recorded against the request, for good.          *)
LEMMA FaultMarks ==
    ASSUME TypeOK, NEW r \in Reqs, NEW p, Fails(r, p)
    PROVE  /\ p \in hit'[r] /\ hit'[r] # {}
           /\ \A q : q \in hit[r] => q \in hit'[r]
  BY DEF Fails, TypeOK, TypeHistory

-----------------------------------------------------------------------------
(* Types.                                                                  *)

(* Init establishes the type invariant.                                    *)
LEMMA TypeInit == Init => TypeOK
  <1> SUFFICES ASSUME Init PROVE TypeOK
    OBVIOUS
  <1> USE BillingAssumption DEF Init
  <1>1. TypeRows /\ TypeInput
    BY DEF TypeRows, TypeInput, AllKinds, AllPrefs
  <1>2. TypeSession /\ TypeFlags
    BY DEF TypeSession, TypeFlags, Sources
  <1>3. TypeHandler
    BY DEF TypeHandler, Sources, PCs, Jobs
  <1>4. TypeHistory
    BY DEF TypeHistory
  <1>5. TypePeriod
    <2>1. carried \in [Reqs -> Int]
      OBVIOUS
    <2> QED BY <2>1, Zenon DEF TypePeriod
  <1> QED BY <1>1, <1>2, <1>3, <1>4, <1>5 DEF TypeOK

(* Every step of a handler or of a refund goroutine preserves the types.   *)
LEMMA TypeReqStep ==
    ASSUME TypeOK, NEW r \in Reqs, Begin(r) \/ Handler(r) \/ RefundJob(r)
    PROVE  TypeOK'
  <1> USE BillingAssumption DEF TypeOK
  <1>0. TypePeriod'
    BY DEF Begin, Handler, RefundJob, TypePeriod, period
  <1> USE <1>0
  <1>1. CASE Begin(r)
    <2> USE <1>1 DEF Begin
    <2>1. TypeRows' /\ TypeInput'
      BY SMTT(30) DEF TypeRows, TypeInput, TypeSession, TypeHandler, SettleDelta, NewUsed,
          AllKinds, AllPrefs
    <2>2. TypeSession'
      BY SMTT(30) DEF TypeSession, TypeHandler, Sources
    <2>3. TypeFlags'
      BY BoolUpdate, Zenon DEF TypeFlags
    <2>4. TypeHandler'
      BY SMTT(30) DEF TypeHandler, TypeSession, PCs, Jobs, Sources
    <2>5. TypeHistory'
      BY FaultType, SMTT(30) DEF TypeHistory, TypeSession, TypeHandler, SettleDelta
    <2> QED BY <2>1, <2>2, <2>3, <2>4, <2>5
  <1>2. CASE NewBillingSession(r)
    <2> USE <1>2 DEF NewBillingSession
    <2>0. HasFallback(r) \in BOOLEAN
      BY DEF HasFallback
    <2>1. TypeRows' /\ TypeInput'
      BY SMTT(30) DEF TypeRows, TypeInput, TypeSession, TypeHandler, SettleDelta, NewUsed
    <2>2. TypeSession'
      BY SMTT(30) DEF TypeSession, TypeHandler, Sources
    <2>3. TypeFlags'
      BY <2>0, BoolUpdate, Zenon DEF TypeFlags
    <2>4. TypeHandler'
      BY SMTT(30) DEF TypeHandler, TypeSession, PCs, Jobs, Sources, FirstSource
    <2>5. TypeHistory'
      BY FaultType, SMTT(30) DEF TypeHistory, TypeSession, TypeHandler, SettleDelta
    <2> QED BY <2>1, <2>2, <2>3, <2>4, <2>5
  <1>3. CASE ReadWallet(r)
    <2> USE <1>3 DEF ReadWallet
    <2>0. ShouldTrust(r, wallet) \in BOOLEAN
      BY DEF ShouldTrust
    <2>1. TypeRows' /\ TypeInput'
      BY SMTT(30) DEF TypeRows, TypeInput, TypeSession, TypeHandler, SettleDelta, NewUsed
    <2>2. TypeSession'
      BY SMTT(30) DEF TypeSession, TypeHandler, Sources
    <2>3. TypeFlags'
      BY <2>0, BoolUpdate, Zenon DEF TypeFlags
    <2>4. TypeHandler'
      BY SMTT(30) DEF TypeHandler, TypeSession, PCs, Jobs, Sources
    <2>5. TypeHistory'
      BY FaultType, SMTT(30) DEF TypeHistory, TypeSession, TypeHandler, SettleDelta
    <2> QED BY <2>1, <2>2, <2>3, <2>4, <2>5
  <1>4. CASE ReadToken(r)
    <2> USE <1>4 DEF ReadToken
    <2>1. TypeRows' /\ TypeInput'
      BY SMTT(30) DEF TypeRows, TypeInput, TypeSession, TypeHandler, SettleDelta, NewUsed
    <2>2. TypeSession'
      BY SMTT(30) DEF TypeSession, TypeHandler, Sources
    <2>3. TypeFlags'
      BY BoolUpdate, Zenon DEF TypeFlags
    <2>4. TypeHandler'
      BY SMTT(30) DEF TypeHandler, TypeSession, PCs, Jobs, Sources
    <2>5. TypeHistory'
      BY FaultType, SMTT(30) DEF TypeHistory, TypeSession, TypeHandler, SettleDelta
    <2> QED BY <2>1, <2>2, <2>3, <2>4, <2>5
  <1>5. CASE DebitToken(r)
    <2> USE <1>5 DEF DebitToken
    <2>1. TypeRows' /\ TypeInput'
      BY SMTT(30) DEF TypeRows, TypeInput, TypeSession, TypeHandler, SettleDelta, NewUsed
    <2>2. TypeSession'
      BY SMTT(30) DEF TypeSession, TypeHandler, Sources
    <2>3. TypeFlags'
      BY BoolUpdate, Zenon DEF TypeFlags
    <2>4. TypeHandler'
      BY SMTT(30) DEF TypeHandler, TypeSession, PCs, Jobs, Sources
    <2>5. TypeHistory'
      BY FaultType, SMTT(30) DEF TypeHistory, TypeSession, TypeHandler, SettleDelta
    <2> QED BY <2>1, <2>2, <2>3, <2>4, <2>5
  <1>6. CASE PreConsumeWallet(r)
    <2> USE <1>6 DEF PreConsumeWallet
    <2>1. TypeRows' /\ TypeInput'
      BY SMTT(30) DEF TypeRows, TypeInput, TypeSession, TypeHandler, SettleDelta, NewUsed
    <2>2. TypeSession'
      BY SMTT(30) DEF TypeSession, TypeHandler, Sources
    <2>3. TypeFlags'
      BY BoolUpdate, Zenon DEF TypeFlags
    <2>4. TypeHandler'
      BY SMTT(30) DEF TypeHandler, TypeSession, PCs, Jobs, Sources
    <2>5. TypeHistory'
      BY FaultType, SMTT(30) DEF TypeHistory, TypeSession, TypeHandler, SettleDelta
    <2> QED BY <2>1, <2>2, <2>3, <2>4, <2>5
  <1>7. CASE PreConsumeSubscription(r)
    <2> USE <1>7 DEF PreConsumeSubscription
    <2>1. TypeRows' /\ TypeInput'
      BY SMTT(30) DEF TypeRows, TypeInput, TypeSession, TypeHandler, SettleDelta, NewUsed
    <2>2. TypeSession'
      BY SMTT(30) DEF TypeSession, TypeHandler, Sources
    <2>3. TypeFlags'
      BY BoolUpdate, Zenon DEF TypeFlags
    <2>4. TypeHandler'
      BY SMTT(30) DEF TypeHandler, TypeSession, PCs, Jobs, Sources
    <2>5. TypeHistory'
      BY FaultType, SMTT(30) DEF TypeHistory, TypeSession, TypeHandler, SettleDelta
    <2> QED BY <2>1, <2>2, <2>3, <2>4, <2>5
  <1>8. CASE RollbackToken(r)
    BY <1>8, FaultType
       DEF RollbackToken, TypeRows, TypeInput, TypeSession, TypeFlags, TypeHandler,
           TypeHistory, NewUsed, SettleDelta, PCs, Jobs, Sources, AllKinds, AllPrefs
  <1>9. CASE OpenFailed(r)
    <2> USE <1>9 DEF OpenFailed
    <2>1. TypeRows' /\ TypeInput'
      BY SMTT(30) DEF TypeRows, TypeInput, TypeSession, TypeHandler, SettleDelta, NewUsed
    <2>2. TypeSession'
      BY SMTT(30) DEF TypeSession, TypeHandler, Sources
    <2>3. TypeFlags'
      BY BoolUpdate, Zenon DEF TypeFlags
    <2>4. TypeHandler'
      BY SMTT(30) DEF TypeHandler, TypeSession, PCs, Jobs, Sources
    <2>5. TypeHistory'
      BY FaultType, SMTT(30) DEF TypeHistory, TypeSession, TypeHandler, SettleDelta
    <2> QED BY <2>1, <2>2, <2>3, <2>4, <2>5
  <1>10. CASE NoChannel(r)
    BY <1>10, FaultType
       DEF NoChannel, TypeRows, TypeInput, TypeSession, TypeFlags, TypeHandler, TypeHistory,
           NewUsed, SettleDelta, PCs, Jobs, Sources, AllKinds, AllPrefs
  <1>11. CASE SelectChannel(r)
    BY <1>11, FaultType
       DEF SelectChannel, TypeRows, TypeInput, TypeSession, TypeFlags, TypeHandler,
           TypeHistory, NewUsed, SettleDelta, PCs, Jobs, Sources, AllKinds, AllPrefs
  <1>12. CASE PrepareTask(r)
    BY <1>12, FaultType
       DEF PrepareTask, TypeRows, TypeInput, TypeSession, TypeFlags, TypeHandler,
           TypeHistory, NewUsed, SettleDelta, PCs, Jobs, Sources, AllKinds, AllPrefs
  <1>13. CASE PrepareTieredBilling(r)
    <2> USE <1>13 DEF PrepareTieredBilling
    <2>1. TypeRows' /\ TypeInput'
      BY SMTT(30) DEF TypeRows, TypeInput, TypeSession, TypeHandler, SettleDelta, NewUsed
    <2>2. TypeSession'
      BY SMTT(30) DEF TypeSession, TypeHandler, Sources
    <2>3. TypeFlags'
      BY BoolUpdate, Zenon DEF TypeFlags
    <2>4. TypeHandler'
      BY SMTT(30) DEF TypeHandler, TypeSession, PCs, Jobs, Sources
    <2>5. TypeHistory'
      BY FaultType, SMTT(30) DEF TypeHistory, TypeSession, TypeHandler, SettleDelta
    <2> QED BY <2>1, <2>2, <2>3, <2>4, <2>5
  <1>14. CASE ReserveFunding(r)
    <2> USE <1>14 DEF ReserveFunding
    <2>1. TypeRows' /\ TypeInput'
      BY SMTT(30) DEF TypeRows, TypeInput, TypeSession, TypeHandler, SettleDelta, NewUsed
    <2>2. TypeSession'
      BY SMTT(30) DEF TypeSession, TypeHandler, Sources
    <2>3. TypeFlags'
      BY BoolUpdate, Zenon DEF TypeFlags
    <2>4. TypeHandler'
      BY SMTT(30) DEF TypeHandler, TypeSession, PCs, Jobs, Sources
    <2>5. TypeHistory'
      BY FaultType, SMTT(30) DEF TypeHistory, TypeSession, TypeHandler, SettleDelta
    <2> QED BY <2>1, <2>2, <2>3, <2>4, <2>5
  <1>15. CASE ReserveRead(r)
    <2> USE <1>15 DEF ReserveRead
    <2>1. TypeRows' /\ TypeInput'
      BY SMTT(30) DEF TypeRows, TypeInput, TypeSession, TypeHandler, SettleDelta, NewUsed
    <2>2. TypeSession'
      BY SMTT(30) DEF TypeSession, TypeHandler, Sources
    <2>3. TypeFlags'
      BY BoolUpdate, Zenon DEF TypeFlags
    <2>4. TypeHandler'
      BY SMTT(30) DEF TypeHandler, TypeSession, PCs, Jobs, Sources
    <2>5. TypeHistory'
      BY FaultType, SMTT(30) DEF TypeHistory, TypeSession, TypeHandler, SettleDelta
    <2> QED BY <2>1, <2>2, <2>3, <2>4, <2>5
  <1>16. CASE ReserveDebit(r)
    <2> USE <1>16 DEF ReserveDebit
    <2>1. TypeRows' /\ TypeInput'
      BY SMTT(30) DEF TypeRows, TypeInput, TypeSession, TypeHandler, SettleDelta, NewUsed
    <2>2. TypeSession'
      BY SMTT(30) DEF TypeSession, TypeHandler, Sources
    <2>3. TypeFlags'
      BY BoolUpdate, Zenon DEF TypeFlags
    <2>4. TypeHandler'
      BY SMTT(30) DEF TypeHandler, TypeSession, PCs, Jobs, Sources
    <2>5. TypeHistory'
      BY FaultType, SMTT(30) DEF TypeHistory, TypeSession, TypeHandler, SettleDelta
    <2> QED BY <2>1, <2>2, <2>3, <2>4, <2>5
  <1>17. CASE ReserveRollback(r)
    BY <1>17, FaultType
       DEF ReserveRollback, TypeRows, TypeInput, TypeSession, TypeFlags, TypeHandler,
           TypeHistory, NewUsed, SettleDelta, PCs, Jobs, Sources, AllKinds, AllPrefs
  <1>18. CASE UpstreamOk(r)
    BY <1>18, FaultType
       DEF UpstreamOk, TypeRows, TypeInput, TypeSession, TypeFlags, TypeHandler,
           TypeHistory, NewUsed, SettleDelta, PCs, Jobs, Sources, AllKinds, AllPrefs
  <1>19. CASE UpstreamError(r)
    <2> USE <1>19 DEF UpstreamError
    <2>1. TypeRows' /\ TypeInput'
      BY SMTT(30) DEF TypeRows, TypeInput, TypeSession, TypeHandler, SettleDelta, NewUsed
    <2>2. TypeSession'
      BY SMTT(30) DEF TypeSession, TypeHandler, Sources
    <2>3. TypeFlags'
      BY BoolUpdate, Zenon DEF TypeFlags
    <2>4. TypeHandler'
      BY SMTT(30) DEF TypeHandler, TypeSession, PCs, Jobs, Sources
    <2>5. TypeHistory'
      BY FaultType, SMTT(30) DEF TypeHistory, TypeSession, TypeHandler, SettleDelta
    <2> QED BY <2>1, <2>2, <2>3, <2>4, <2>5
  <1>20. CASE SettleFunding(r)
    <2> USE <1>20 DEF SettleFunding
    <2>1. TypeRows' /\ TypeInput'
      BY SMTT(30) DEF TypeRows, TypeInput, TypeSession, TypeHandler, SettleDelta, NewUsed
    <2>2. TypeSession'
      BY SMTT(30) DEF TypeSession, TypeHandler, Sources
    <2>3. TypeFlags'
      BY BoolUpdate, Zenon DEF TypeFlags
    <2>4. TypeHandler'
      BY SMTT(30) DEF TypeHandler, TypeSession, PCs, Jobs, Sources
    <2>5. TypeHistory'
      BY FaultType, SMTT(30) DEF TypeHistory, TypeSession, TypeHandler, SettleDelta
    <2> QED BY <2>1, <2>2, <2>3, <2>4, <2>5
  <1>21. CASE SettleToken(r)
    BY <1>21, FaultType
       DEF SettleToken, TypeRows, TypeInput, TypeSession, TypeFlags, TypeHandler,
           TypeHistory, NewUsed, SettleDelta, PCs, Jobs, Sources, AllKinds, AllPrefs
  <1>22. CASE Refund(r)
    <2> USE <1>22 DEF Refund
    <2>1. TypeRows' /\ TypeInput'
      BY SMTT(30) DEF TypeRows, TypeInput, TypeSession, TypeHandler, SettleDelta, NewUsed
    <2>2. TypeSession'
      BY SMTT(30) DEF TypeSession, TypeHandler, Sources
    <2>3. TypeFlags'
      BY BoolUpdate, Zenon DEF TypeFlags
    <2>4. TypeHandler'
      BY SMTT(30) DEF TypeHandler, TypeSession, PCs, Jobs, Sources
    <2>5. TypeHistory'
      BY FaultType, SMTT(30) DEF TypeHistory, TypeSession, TypeHandler, SettleDelta
    <2> QED BY <2>1, <2>2, <2>3, <2>4, <2>5
  <1>23. CASE PostFunding(r)
    <2> USE <1>23 DEF PostFunding
    <2>1. TypeRows' /\ TypeInput'
      BY SMTT(30) DEF TypeRows, TypeInput, TypeSession, TypeHandler, SettleDelta, NewUsed
    <2>2. TypeSession'
      BY SMTT(30) DEF TypeSession, TypeHandler, Sources
    <2>3. TypeFlags'
      BY BoolUpdate, Zenon DEF TypeFlags
    <2>4. TypeHandler'
      BY SMTT(30) DEF TypeHandler, TypeSession, PCs, Jobs, Sources
    <2>5. TypeHistory'
      BY FaultType, SMTT(30) DEF TypeHistory, TypeSession, TypeHandler, SettleDelta
    <2> QED BY <2>1, <2>2, <2>3, <2>4, <2>5
  <1>24. CASE PostToken(r)
    BY <1>24, FaultType
       DEF PostToken, TypeRows, TypeInput, TypeSession, TypeFlags, TypeHandler, TypeHistory,
           NewUsed, SettleDelta, PCs, Jobs, Sources, AllKinds, AllPrefs
  <1>25. CASE RefundWallet(r)
    BY <1>25, FaultType
       DEF RefundWallet, TypeRows, TypeInput, TypeSession, TypeFlags, TypeHandler,
           TypeHistory, NewUsed, SettleDelta, PCs, Jobs, Sources, AllKinds, AllPrefs
  <1>26. CASE RefundSubscription(r)
    BY <1>26, FaultType
       DEF RefundSubscription, TypeRows, TypeInput, TypeSession, TypeFlags, TypeHandler,
           TypeHistory, NewUsed, SettleDelta, PCs, Jobs, Sources, AllKinds, AllPrefs
  <1>27. CASE RefundSubscriptionFails(r)
    BY <1>27, FaultType
       DEF RefundSubscriptionFails, TypeRows, TypeInput, TypeSession, TypeFlags,
           TypeHandler, TypeHistory, NewUsed, SettleDelta, PCs, Jobs, Sources, AllKinds,
           AllPrefs
  <1>28. CASE RefundSubscriptionHalf(r)
    BY <1>28, FaultType
       DEF RefundSubscriptionHalf, TypeRows, TypeInput, TypeSession, TypeFlags, TypeHandler,
           TypeHistory, NewUsed, SettleDelta, PCs, Jobs, Sources, AllKinds, AllPrefs
  <1>29. CASE RefundExtra(r)
    <2> USE <1>29 DEF RefundExtra
    <2>1. TypeRows' /\ TypeInput'
      BY SMTT(30) DEF TypeRows, TypeInput, TypeSession, TypeHandler, SettleDelta, NewUsed
    <2>2. TypeSession'
      BY SMTT(30) DEF TypeSession, TypeHandler, Sources
    <2>3. TypeFlags'
      BY BoolUpdate, Zenon DEF TypeFlags
    <2>4. TypeHandler'
      BY SMTT(30) DEF TypeHandler, TypeSession, PCs, Jobs, Sources
    <2>5. TypeHistory'
      BY FaultType, SMTT(30) DEF TypeHistory, TypeSession, TypeHandler, SettleDelta
    <2> QED BY <2>1, <2>2, <2>3, <2>4, <2>5
  <1>30. CASE RefundToken(r)
    <2> USE <1>30 DEF RefundToken
    <2>1. TypeRows' /\ TypeInput'
      BY SMTT(30) DEF TypeRows, TypeInput, TypeSession, TypeHandler, SettleDelta, NewUsed
    <2>2. TypeSession'
      BY SMTT(30) DEF TypeSession, TypeHandler, Sources
    <2>3. TypeFlags'
      BY BoolUpdate, Zenon DEF TypeFlags
    <2>4. TypeHandler'
      BY SMTT(30) DEF TypeHandler, TypeSession, PCs, Jobs, Sources
    <2>5. TypeHistory'
      BY FaultType, SMTT(30) DEF TypeHistory, TypeSession, TypeHandler, SettleDelta
    <2> QED BY <2>1, <2>2, <2>3, <2>4, <2>5
  <1> QED BY <1>1, <1>2, <1>3, <1>4, <1>5, <1>6, <1>7, <1>8, <1>9, <1>10,
            <1>11, <1>12, <1>13, <1>14, <1>15, <1>16, <1>17, <1>18, <1>19, <1>20,
            <1>21, <1>22, <1>23, <1>24, <1>25, <1>26, <1>27, <1>28, <1>29, <1>30
        DEF Handler, RefundJob

(* Every step preserves the types.                                         *)
LEMMA TypeStep == TypeOK /\ [Next]_vars => TypeOK'
  <1> SUFFICES ASSUME TypeOK, [Next]_vars PROVE TypeOK'
    OBVIOUS
  <1>1. ASSUME NEW r \in Reqs, Begin(r) \/ Handler(r) \/ RefundJob(r) PROVE TypeOK'
    BY <1>1, TypeReqStep
  <1>2. CASE SubscriptionExpires
    BY <1>2 DEF SubscriptionExpires, TypeOK, TypeRows, TypeInput, TypeSession, TypeFlags,
                TypeHandler, TypeHistory, TypePeriod, period
  <1>3. CASE Crash
    <2>1. pc' \in [Reqs -> PCs] /\ job' \in [Reqs -> Jobs]
      BY <1>3 DEF Crash, TypeOK, TypeHandler, PCs, Jobs
    <2> QED
      BY <1>3, <2>1 DEF Crash, TypeOK, TypeRows, TypeInput, TypeSession, TypeFlags,
                        TypeHandler, TypeHistory, TypePeriod, period
  <1>4. CASE UNCHANGED vars
    BY <1>4 DEF vars, TypeOK, TypeRows, TypeInput, TypeSession, TypeFlags, TypeHandler,
                TypeHistory, TypePeriod, period
  <1>5. CASE SubscriptionResets
    <2>1. TypePeriod'
      BY <1>5 DEF SubscriptionResets, TypeOK, TypeHistory, TypePeriod
    <2> QED
      BY <1>5, <2>1 DEF SubscriptionResets, TypeOK, TypeRows, TypeInput, TypeSession, TypeFlags,
                        TypeHandler, TypeHistory
  <1> QED BY <1>1, <1>2, <1>3, <1>4, <1>5 DEF Next, Quiescent

(* Every variable keeps its type for ever; in particular the amounts a     *)
(* session holds and the used amount of the subscription never go below    *)
(* zero.                                                                   *)
THEOREM TypeCorrect == Spec => []TypeOK
  BY TypeInit, TypeStep, PTL DEF Spec

-----------------------------------------------------------------------------
(* The invariant of one request.                                           *)

(* No request has a session at the start.                                  *)
LEMMA ReqInit == Init => \A r \in Reqs : ReqInv(r)
  <1> SUFFICES ASSUME Init, NEW r \in Reqs PROVE ReqInv(r)
    OBVIOUS
  <1>1. Unopened(r)
    BY DEF Init, Unopened, OnToken
  <1>2. ~Opened(r)
    BY DEF Init, Opened
  <1> QED BY <1>1, <1>2 DEF ReqInv, OpenShape, Holding, Settling, Refunding

(* What ReqInv(q) reads is unchanged. *)
Same(q) ==
    /\ funding'[q] = funding[q] /\ kind'[q] = kind[q] /\ rec'[q] = rec[q]
    /\ pre'[q] = pre[q] /\ tok'[q] = tok[q] /\ extra'[q] = extra[q] /\ held'[q] = held[q]
    /\ fundingSettled'[q] = fundingSettled[q]
    /\ settled'[q] = settled[q] /\ refunded'[q] = refunded[q]
    /\ pc'[q] = pc[q] /\ amt'[q] = amt[q] /\ job'[q] = job[q]
    /\ spent'[q] = spent[q] /\ tokenSpent'[q] = tokenSpent[q] /\ hit'[q] = hit[q]

(* ReqInv(q) depends on nothing else.                                      *)
LEMMA Frame == ASSUME NEW q \in Reqs, ReqInv(q), Same(q) PROVE ReqInv(q)'
  BY DEF Same, ReqInv, Unopened, OpenShape, Holding, Settling, Refunding, Owed, InFlight,
         FundingLeft, TokenLeft, Opened, OnToken, Playground

(* A step of one request leaves the session, the handler and the refund    *)
(* goroutine of every other request alone.                                 *)
LEMMA FrameStep ==
    ASSUME TypeOK, NEW r \in Reqs, Begin(r) \/ Handler(r) \/ RefundJob(r),
           NEW q \in Reqs, q # r
    PROVE  Same(q)
  <1> USE DEF TypeOK, TypeRows, TypeInput, TypeSession, TypeFlags, TypeHandler, TypeHistory,
              Same, Fails
  <1>1. CASE Begin(r)
    BY <1>1 DEF Begin
  <1>2. CASE NewBillingSession(r)
    BY <1>2 DEF NewBillingSession
  <1>3. CASE ReadWallet(r)
    BY <1>3 DEF ReadWallet
  <1>4. CASE ReadToken(r)
    BY <1>4 DEF ReadToken
  <1>5. CASE DebitToken(r)
    BY <1>5 DEF DebitToken
  <1>6. CASE PreConsumeWallet(r)
    BY <1>6 DEF PreConsumeWallet
  <1>7. CASE PreConsumeSubscription(r)
    BY <1>7 DEF PreConsumeSubscription
  <1>8. CASE RollbackToken(r)
    BY <1>8 DEF RollbackToken
  <1>9. CASE OpenFailed(r)
    BY <1>9 DEF OpenFailed
  <1>10. CASE NoChannel(r)
    BY <1>10 DEF NoChannel
  <1>11. CASE SelectChannel(r)
    BY <1>11 DEF SelectChannel
  <1>12. CASE PrepareTask(r)
    BY <1>12 DEF PrepareTask
  <1>13. CASE PrepareTieredBilling(r)
    BY <1>13 DEF PrepareTieredBilling
  <1>14. CASE ReserveFunding(r)
    BY <1>14 DEF ReserveFunding
  <1>15. CASE ReserveRead(r)
    BY <1>15 DEF ReserveRead
  <1>16. CASE ReserveDebit(r)
    BY <1>16 DEF ReserveDebit
  <1>17. CASE ReserveRollback(r)
    BY <1>17 DEF ReserveRollback
  <1>18. CASE UpstreamOk(r)
    BY <1>18 DEF UpstreamOk
  <1>19. CASE UpstreamError(r)
    BY <1>19 DEF UpstreamError
  <1>20. CASE SettleFunding(r)
    BY <1>20 DEF SettleFunding
  <1>21. CASE SettleToken(r)
    BY <1>21 DEF SettleToken
  <1>22. CASE Refund(r)
    BY <1>22 DEF Refund
  <1>23. CASE PostFunding(r)
    BY <1>23 DEF PostFunding
  <1>24. CASE PostToken(r)
    BY <1>24 DEF PostToken
  <1>25. CASE RefundWallet(r)
    BY <1>25 DEF RefundWallet
  <1>26. CASE RefundSubscription(r)
    BY <1>26 DEF RefundSubscription
  <1>27. CASE RefundSubscriptionFails(r)
    BY <1>27 DEF RefundSubscriptionFails
  <1>28. CASE RefundSubscriptionHalf(r)
    BY <1>28 DEF RefundSubscriptionHalf
  <1>29. CASE RefundExtra(r)
    BY <1>29 DEF RefundExtra
  <1>30. CASE RefundToken(r)
    BY <1>30 DEF RefundToken
  <1> QED BY <1>1, <1>2, <1>3, <1>4, <1>5, <1>6, <1>7, <1>8, <1>9, <1>10,
            <1>11, <1>12, <1>13, <1>14, <1>15, <1>16, <1>17, <1>18, <1>19, <1>20,
            <1>21, <1>22, <1>23, <1>24, <1>25, <1>26, <1>27, <1>28, <1>29, <1>30
        DEF Handler, RefundJob

(* SettleFunding, the one step whose outcome depends on the funding source *)
(* and on the sign of the settlement, re-establishes ReqInv(r).            *)
LEMMA SettleFundingInv ==
    ASSUME TypeOK, NEW r \in Reqs, SettleFunding(r), ReqInv(r)
    PROVE  ReqInv(r)'
  <1> USE DEF Live, Leaving, Opening, Reserving
  <1>0. /\ funding[r] \in {"wallet", "sub"} /\ job[r] = "none"
        /\ ~fundingSettled[r] /\ ~settled[r] /\ pc[r] \in Live /\ InFlight(r) = 0
    BY DEF SettleFunding, ReqInv, Unopened, OpenShape, Opened, TypeOK, TypeSession, Sources,
           InFlight
  <1>1. Holding(r)'
    <2>1. CASE SettleDelta(r) = 0
      BY <1>0, <2>1 DEF SettleFunding, Holding, TypeOK, TypeFlags
    <2>2. CASE SettleDelta(r) # 0 /\ fundingSettled' = [fundingSettled EXCEPT ![r] = TRUE]
      BY <1>0, <2>2 DEF Holding, TypeOK, TypeFlags
    <2>3. CASE /\ SettleDelta(r) # 0 /\ Goto(r, "unsettled")
               /\ UNCHANGED <<rows, ledger, settled, fundingSettled>>
               /\ (~SourceAccepts(funding[r], SettleDelta(r)) /\ Ok) \/ Fails(r, funding[r])
               /\ UNCHANGED <<input, funding, amounts, trusted, refunded, locals, goroutine,
                              post>>
      <3>1. CASE funding[r] = "wallet"
        BY <1>0, <2>3, <3>1, FaultMarks
           DEF SourceAccepts, ReqInv, OpenShape, Holding, Owed, InFlight, Opened, Playground,
               OnToken, TypeOK, TypeHandler, TypeSession, TypeHistory
      <3>2. CASE funding[r] = "sub"
        BY <1>0, <2>3, <3>2, FaultMarks
           DEF ReqInv, OpenShape, Holding, Owed, InFlight, Opened, Playground,
               OnToken, TypeOK, TypeHandler, TypeSession, TypeHistory
      <3> QED BY <1>0, <3>1, <3>2
    <2> QED BY <2>1, <2>2, <2>3 DEF SettleFunding
  <1>2. Unopened(r)' /\ OpenShape(r)' /\ Refunding(r)'
    BY <1>0, FaultMarks
       DEF SettleFunding, ReqInv, Unopened, OpenShape, Refunding, Opened,
           TypeOK, TypeRows, TypeInput, TypeSession, TypeFlags, TypeHandler, TypeHistory
  <1>3. Settling(r)'
    BY <1>0, FaultMarks
       DEF SettleFunding, SettleDelta, ReqInv, OpenShape, Holding, Settling, Owed, Opened,
           Playground, OnToken,
           TypeOK, TypeRows, TypeInput, TypeSession, TypeFlags, TypeHandler, TypeHistory
  <1> QED BY <1>1, <1>2, <1>3 DEF ReqInv

(* Every step of request r re-establishes ReqInv(r).                       *)
LEMMA ReqStep ==
    ASSUME TypeOK, NEW r \in Reqs, Begin(r) \/ Handler(r) \/ RefundJob(r), ReqInv(r)
    PROVE  ReqInv(r)'
  <1> USE BillingAssumption, FaultMarks
      DEF TypeOK, TypeRows, TypeInput, TypeSession, TypeFlags, TypeHandler, TypeHistory,
          ReqInv, Unopened, OpenShape, Holding, Settling, Refunding, Owed, InFlight,
          FundingLeft, TokenLeft, Live, Leaving, Opening, Reserving, Opened, Playground, OnToken
  <1>1. CASE Begin(r)
    BY <1>1 DEF Begin
  <1>2. CASE NewBillingSession(r)
    BY <1>2 DEF NewBillingSession, FirstSource
  <1>3. CASE ReadWallet(r)
    BY <1>3 DEF ReadWallet
  <1>4. CASE ReadToken(r)
    BY <1>4 DEF ReadToken
  <1>5. CASE DebitToken(r)
    BY <1>5 DEF DebitToken
  <1>6. CASE PreConsumeWallet(r)
    BY <1>6 DEF PreConsumeWallet, Sources
  <1>7. CASE PreConsumeSubscription(r)
    BY <1>7 DEF PreConsumeSubscription, Sources
  <1>8. CASE RollbackToken(r)
    BY <1>8 DEF RollbackToken
  <1>9. CASE OpenFailed(r)
    BY <1>9 DEF OpenFailed
  <1>10. CASE NoChannel(r)
    BY <1>10 DEF NoChannel
  <1>11. CASE SelectChannel(r)
    BY <1>11 DEF SelectChannel
  <1>12. CASE PrepareTask(r)
    BY <1>12 DEF PrepareTask
  <1>13. CASE PrepareTieredBilling(r)
    BY <1>13 DEF PrepareTieredBilling
  <1>14. CASE ReserveFunding(r)
    BY <1>14 DEF ReserveFunding
  <1>15. CASE ReserveRead(r)
    BY <1>15 DEF ReserveRead
  <1>16. CASE ReserveDebit(r)
    BY <1>16 DEF ReserveDebit
  <1>17. CASE ReserveRollback(r)
    BY <1>17 DEF ReserveRollback
  <1>18. CASE UpstreamOk(r)
    BY <1>18 DEF UpstreamOk
  <1>19. CASE UpstreamError(r)
    BY <1>19 DEF UpstreamError
  <1>20. CASE SettleFunding(r)
    BY <1>20, SettleFundingInv
  <1>21. CASE SettleToken(r)
    BY <1>21 DEF SettleToken, SettleDelta
  <1>22. CASE Refund(r)
    <2> USE <1>22 DEF Refund, NeedsRefund
    <2>1. Unopened(r)'
      OBVIOUS
    <2>2. OpenShape(r)'
      OBVIOUS
    <2>3. Holding(r)' /\ Settling(r)'
      OBVIOUS
    <2>4. Refunding(r)'
      OBVIOUS
    <2> QED BY <2>1, <2>2, <2>3, <2>4
  <1>23. CASE PostFunding(r)
    BY <1>23 DEF PostFunding, PostSource
  <1>24. CASE PostToken(r)
    BY <1>24 DEF PostToken
  <1>25. CASE RefundWallet(r)
    BY <1>25 DEF RefundWallet
  <1>26. CASE RefundSubscription(r)
    BY <1>26 DEF RefundSubscription
  <1>27. CASE RefundSubscriptionFails(r)
    BY <1>27 DEF RefundSubscriptionFails
  <1>28. CASE RefundSubscriptionHalf(r)
    BY <1>28 DEF RefundSubscriptionHalf
  <1>29. CASE RefundExtra(r)
    BY <1>29 DEF RefundExtra, HasExtra
  <1>30. CASE RefundToken(r)
    BY <1>30 DEF RefundToken, HasToken
  <1> QED BY <1>1, <1>2, <1>3, <1>4, <1>5, <1>6, <1>7, <1>8, <1>9, <1>10,
            <1>11, <1>12, <1>13, <1>14, <1>15, <1>16, <1>17, <1>18, <1>19, <1>20,
            <1>21, <1>22, <1>23, <1>24, <1>25, <1>26, <1>27, <1>28, <1>29, <1>30
        DEF Handler, RefundJob

(* A crash leaves every request with what it held: ReqInv asks nothing of  *)
(* a dead handler or goroutine that it did not ask of a live one.          *)
LEMMA CrashInv == ASSUME TypeOK, NEW r \in Reqs, Crash, ReqInv(r) PROVE ReqInv(r)'
  BY DEF Crash, Ended, TypeOK, TypeRows, TypeInput, TypeSession, TypeFlags, TypeHandler,
         TypeHistory, ReqInv, Unopened, OpenShape, Holding, Settling, Refunding, Owed,
         InFlight, FundingLeft, TokenLeft, Live, Leaving, Opening, Reserving, Opened,
         Playground, OnToken, PCs, Jobs

(* IndInv is inductive.                                                    *)
LEMMA IndInvStep == IndInv /\ [Next]_vars => IndInv'
  <1> SUFFICES ASSUME TypeOK, \A r \in Reqs : ReqInv(r), [Next]_vars,
                      NEW q \in Reqs
               PROVE  ReqInv(q)'
    BY TypeStep DEF IndInv
  <1>1. ASSUME NEW r \in Reqs, Begin(r) \/ Handler(r) \/ RefundJob(r) PROVE ReqInv(q)'
    <2>1. CASE q = r
      BY <1>1, <2>1, ReqStep
    <2>2. CASE q # r
      BY <1>1, <2>2, FrameStep, Frame
    <2> QED BY <2>1, <2>2
  <1>2. CASE SubscriptionExpires
    <2>1. Same(q)
      BY <1>2 DEF SubscriptionExpires, Same
    <2> QED BY <2>1, Frame
  <1>3. CASE Crash
    BY <1>3, CrashInv
  <1>4. CASE UNCHANGED vars
    <2>1. Same(q)
      BY <1>4 DEF vars, Same
    <2> QED BY <2>1, Frame
  <1>5. CASE SubscriptionResets
    <2>1. Same(q)
      BY <1>5 DEF SubscriptionResets, Same
    <2> QED BY <2>1, Frame
  <1> QED BY <1>1, <1>2, <1>3, <1>4, <1>5 DEF Next, Quiescent

(* What every request still has to give back is covered by what was taken  *)
(* for it, at every moment of every behaviour.                             *)
THEOREM IndInvCorrect == Spec => []IndInv
  <1>1. Init => IndInv
    BY TypeInit, ReqInit DEF IndInv
  <1> QED BY <1>1, IndInvStep, PTL DEF Spec

-----------------------------------------------------------------------------
(* The properties.                                                         *)

(* What is left to give back covers the refunds.                          *)
LEMMA IndNoOverRefund == IndInv => NoOverRefund
  <1> SUFFICES ASSUME IndInv, NEW r \in Reqs
               PROVE  /\ "subRecord" \notin hit[r] => spent[r] >= 0
                      /\ tokenSpent[r] >= 0
    BY DEF NoOverRefund
  <1> USE DEF IndInv, TypeOK, TypeInput, TypeSession, TypeHandler, TypeHistory, ReqInv
  <1>1. CASE ~Opened(r)
    BY <1>1 DEF Opened, Unopened, OnToken
  <1>2. CASE Opened(r) /\ (fundingSettled[r] \/ settled[r])
    BY <1>2 DEF Settling
  <1>3. CASE Opened(r) /\ ~fundingSettled[r] /\ ~settled[r] /\ job[r] = "none"
    BY <1>3 DEF Holding, OnToken, Owed, InFlight
  <1>4. CASE Opened(r) /\ job[r] # "none"
    BY <1>4 DEF Refunding, FundingLeft, TokenLeft, Owed, InFlight, OnToken
  <1> QED BY <1>1, <1>2, <1>3, <1>4

(* No request ever gets back more than was taken for it.                   *)
THEOREM NoOverRefundCorrect == Spec => []NoOverRefund
  BY IndNoOverRefund, IndInvCorrect, PTL

(* A settled session has charged exactly the actual cost.                  *)
THEOREM SettledExactCorrect == Spec => []SettledExact
  <1>1. IndInv => SettledExact
    BY DEF IndInv, ReqInv, Unopened, Settling, SettledExact, Opened
  <1> QED BY <1>1, IndInvCorrect, PTL

(* At the end of a request nothing is left to give back.                  *)
LEMMA IndFinishedExact == IndInv => FinishedExact
  <1> SUFFICES ASSUME IndInv, NEW r \in Reqs, Finished(r), hit[r] = {}
               PROVE  /\ spent[r] = Bill(r) /\ tokenSpent[r] = OnToken(r, Bill(r))
                      /\ ~settled[r] /\ spent[r] > 0 =>
                            pc[r] = "unsettled" /\ funding[r] = "sub"
    BY DEF FinishedExact
  <1> USE DEF IndInv, TypeOK, TypeInput, TypeSession, TypeFlags, TypeHandler, TypeHistory,
              ReqInv, Finished, Bill
  <1>1. CASE ~Opened(r)
    BY <1>1 DEF Opened, Unopened, OnToken
  <1>2. CASE Opened(r) /\ settled[r]
    BY <1>2 DEF Settling
  <1>3. CASE Opened(r) /\ ~settled[r] /\ job[r] = "none"
    <2>1. pc[r] \in {"done", "unsettled"} /\ ~fundingSettled[r]
      BY <1>3 DEF OpenShape, Opened, Live, Leaving, Reserving
    <2>2. InFlight(r) = 0 /\ tok[r] = pre[r]
      BY <1>3, <2>1 DEF OpenShape, InFlight, Reserving
    <2>3. spent[r] = pre[r] /\ tokenSpent[r] = OnToken(r, pre[r])
      BY <1>3, <2>1, <2>2 DEF Holding
    <2>4. CASE pc[r] = "done"
      <3>1. pre[r] = 0 /\ Bill(r) = 0
        BY <1>3, <2>1, <2>4 DEF Holding
      <3> QED BY <2>3, <3>1
    <2>5. CASE pc[r] = "unsettled"
      <3>1. Bill(r) = pre[r] /\ funding[r] = "sub"
        BY <1>3, <2>1, <2>5 DEF Holding
      <3> QED BY <2>3, <2>5, <3>1
    <2> QED BY <2>1, <2>4, <2>5
  <1>4. CASE Opened(r) /\ ~settled[r] /\ job[r] = "done"
    BY <1>4 DEF Refunding, OpenShape, FundingLeft, TokenLeft, OnToken
  <1> QED BY <1>1, <1>2, <1>3, <1>4

(* A finished request none of whose statements failed has paid its bill.   *)
THEOREM FinishedExactCorrect == Spec => []FinishedExact
  BY IndFinishedExact, IndInvCorrect, PTL

(* A committed funding source is not touched again.                        *)
THEOREM CommittedFrozenCorrect == Spec => CommittedFrozen
  <1> DEFINE Frozen(r) == fundingSettled[r] \/ settled[r] =>
                             spent'[r] = spent[r] /\ job'[r] = job[r]
  <1>1. IndInv /\ [Next]_vars => [\A r \in Reqs : Frozen(r)]_vars
    <2> SUFFICES ASSUME IndInv, Next, NEW q \in Reqs, fundingSettled[q] \/ settled[q]
                 PROVE  spent'[q] = spent[q] /\ job'[q] = job[q]
      OBVIOUS
    <2>0. /\ funding[q] # "none" /\ job[q] = "none"
          /\ pc[q] \in {"settleToken", "done", "dead"}
      BY DEF IndInv, ReqInv, Unopened, OpenShape, Opened, TypeOK, TypeFlags
    <2>1. ASSUME NEW r \in Reqs, Begin(r) \/ Handler(r) \/ RefundJob(r)
          PROVE  spent'[q] = spent[q] /\ job'[q] = job[q]
      <3>1. CASE q # r
        BY <2>1, <3>1, FrameStep DEF IndInv, Same
      <3>2. CASE q = r
        <4>1. SettleToken(q)
          BY <2>0, <2>1, <3>2 DEF Handler, RefundJob, Begin, NewBillingSession, ReadWallet,
             ReadToken, DebitToken, PreConsumeWallet, PreConsumeSubscription, RollbackToken,
             OpenFailed, NoChannel, SelectChannel, PrepareTask, PrepareTieredBilling,
             ReserveFunding, ReserveRead, ReserveDebit, ReserveRollback, UpstreamOk,
             UpstreamError, SettleFunding, Refund, PostFunding, PostToken, RefundWallet,
             RefundSubscription, RefundSubscriptionFails, RefundSubscriptionHalf,
             RefundExtra, RefundToken
        <4> QED BY <4>1 DEF SettleToken
      <3> QED BY <3>1, <3>2
    <2>2. CASE SubscriptionExpires
      BY <2>2 DEF SubscriptionExpires
    <2>3. CASE Crash
      BY <2>0, <2>3 DEF Crash, IndInv, TypeOK, TypeHandler
    <2>4. CASE Quiescent
      BY <2>4 DEF Quiescent, vars
    <2>5. CASE SubscriptionResets
      BY <2>5 DEF SubscriptionResets
    <2> QED BY <2>1, <2>2, <2>3, <2>4, <2>5 DEF Next
  <1> QED BY <1>1, IndInvCorrect, PTL DEF Spec, CommittedFrozen
=============================================================================
