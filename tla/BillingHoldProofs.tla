------------------------- MODULE BillingHoldProofs -------------------------
(***************************************************************************)
(* BillingSession implements QuotaHold twice, for the funding source and   *)
(* for the token of every request, for any number of requests, prices,     *)
(* balances and faults.                                                    *)
(*                                                                         *)
(* The inductive invariant of BillingSessionProofs says what a request     *)
(* still has to give back.  Here every step of a request is one of seven   *)
(* kinds, told apart by what it does to the flags of the session and to    *)
(* the two ledgers (lemma StepKind); each kind is a step of QuotaHold or a *)
(* stutter, once for either account.                                       *)
(***************************************************************************)
EXTENDS BillingSessionProofs

USE DEF rows, input, amounts, flags, session, opening, locals, goroutine, ledger, post, flt
USE DEF Ok, QueryFails, Goto, OpenWith, OpenError, SessionOpens, FundingFails, Reserved,
        TryAgain, JobGoto, DecreaseUserQuota, DecreaseTokenQuota,
        PostConsumeUserSubscriptionDelta, DebitSource, Spend, SpendToken

(* Neither the flags of r nor the fate of its refund record change. *)
SameRecord(r) == ("subRecord" \in hit'[r]) <=> ("subRecord" \in hit[r])
SameFlags(r) ==
    /\ fundingSettled'[r] = fundingSettled[r]
    /\ settled'[r] = settled[r]
    /\ refunded'[r] = refunded[r]
SameLedger(r) == spent'[r] = spent[r] /\ tokenSpent'[r] = tokenSpent[r]
Pending(r) == ~fundingSettled[r] /\ ~settled[r] /\ ~refunded[r]

(* The kinds of step. *)
Quiet(r)   == SameFlags(r) /\ SameLedger(r) /\ SameRecord(r)
Adjusts(r) == Pending(r) /\ SameFlags(r) /\ SameRecord(r)
SettlesSource(r) ==
    /\ Pending(r)
    /\ fundingSettled'[r] /\ settled'[r] = settled[r] /\ refunded'[r] = refunded[r]
    /\ tokenSpent'[r] = tokenSpent[r] /\ SameRecord(r)
SettlesToken(r) ==
    /\ fundingSettled[r] /\ ~settled[r] /\ ~refunded[r]
    /\ fundingSettled'[r] /\ settled'[r] /\ refunded'[r] = refunded[r]
    /\ spent'[r] = spent[r] /\ SameRecord(r)
SettlesBoth(r) ==
    /\ Pending(r) /\ settled'[r] /\ refunded'[r] = refunded[r]
    /\ SameLedger(r) /\ SameRecord(r)
Releases(r) ==
    /\ Pending(r)
    /\ refunded'[r] /\ settled'[r] = settled[r] /\ fundingSettled'[r] = fundingSettled[r]
    /\ SameLedger(r) /\ SameRecord(r)
Returns(r) ==
    /\ refunded[r] /\ ~fundingSettled[r] /\ ~settled[r] /\ SameFlags(r)
    /\ spent'[r] <= spent[r] /\ tokenSpent'[r] <= tokenSpent[r]
    /\ "subRecord" \in hit[r] => "subRecord" \in hit'[r]

(* Every step of a request is of one of these kinds.                       *)
LEMMA StepKind ==
    ASSUME TypeOK, NEW r \in Reqs, ReqInv(r), Begin(r) \/ Handler(r) \/ RefundJob(r)
    PROVE  \/ Quiet(r) \/ Adjusts(r) \/ SettlesSource(r) \/ SettlesToken(r) \/ SettlesBoth(r)
           \/ Releases(r) \/ Returns(r)
  <1> USE DEF TypeOK, TypeRows, TypeInput, TypeSession, TypeFlags, TypeHandler, TypeHistory,
              ReqInv, Unopened, OpenShape, Refunding, Opened, Live, Leaving, Opening,
              Reserving, Sources, Jobs, Fails, SameFlags, SameLedger, SameRecord, Pending,
              Quiet, Adjusts, SettlesSource, SettlesToken, SettlesBoth, Releases, Returns
  <1>1. ASSUME Begin(r) PROVE Quiet(r)
    BY <1>1 DEF Begin
  <1>2. ASSUME NewBillingSession(r) PROVE Quiet(r)
    BY <1>2 DEF NewBillingSession
  <1>3. ASSUME ReadWallet(r) PROVE Quiet(r)
    BY <1>3 DEF ReadWallet
  <1>4. ASSUME ReadToken(r) PROVE Quiet(r)
    BY <1>4 DEF ReadToken
  <1>5. ASSUME DebitToken(r) PROVE Adjusts(r)
    BY <1>5 DEF DebitToken
  <1>6. ASSUME PreConsumeWallet(r) PROVE Adjusts(r)
    BY <1>6 DEF PreConsumeWallet
  <1>7. ASSUME PreConsumeSubscription(r) PROVE Adjusts(r)
    BY <1>7 DEF PreConsumeSubscription
  <1>8. ASSUME RollbackToken(r) PROVE Adjusts(r)
    BY <1>8 DEF RollbackToken
  <1>9. ASSUME OpenFailed(r) PROVE Quiet(r)
    BY <1>9 DEF OpenFailed
  <1>10. ASSUME NoChannel(r) PROVE Quiet(r)
    BY <1>10 DEF NoChannel
  <1>11. ASSUME SelectChannel(r) PROVE Quiet(r)
    BY <1>11 DEF SelectChannel
  <1>12. ASSUME PrepareTask(r) PROVE Quiet(r)
    BY <1>12 DEF PrepareTask
  <1>13. ASSUME PrepareTieredBilling(r) PROVE Quiet(r)
    BY <1>13 DEF PrepareTieredBilling
  <1>14. ASSUME ReserveFunding(r) PROVE Adjusts(r)
    BY <1>14 DEF ReserveFunding
  <1>15. ASSUME ReserveRead(r) PROVE Quiet(r)
    BY <1>15 DEF ReserveRead
  <1>16. ASSUME ReserveDebit(r) PROVE Adjusts(r)
    BY <1>16 DEF ReserveDebit
  <1>17. ASSUME ReserveRollback(r) PROVE Adjusts(r)
    BY <1>17 DEF ReserveRollback
  <1>18. ASSUME UpstreamOk(r) PROVE Quiet(r)
    BY <1>18 DEF UpstreamOk
  <1>19. ASSUME UpstreamError(r) PROVE Quiet(r)
    BY <1>19 DEF UpstreamError
  <1>20. ASSUME SettleFunding(r) PROVE Quiet(r) \/ SettlesSource(r) \/ SettlesBoth(r)
    BY <1>20 DEF SettleFunding
  <1>21. ASSUME SettleToken(r) PROVE SettlesToken(r)
    BY <1>21 DEF SettleToken
  <1>22. ASSUME Refund(r) PROVE Quiet(r) \/ Releases(r)
    BY <1>22 DEF Refund, NeedsRefund
  <1>23. ASSUME PostFunding(r) PROVE Quiet(r)
    BY <1>23 DEF PostFunding, PostSource
  <1>24. ASSUME PostToken(r) PROVE Quiet(r)
    BY <1>24 DEF PostToken
  <1>25. ASSUME RefundWallet(r) PROVE Returns(r)
    BY <1>25 DEF RefundWallet
  <1>26. ASSUME RefundSubscription(r) PROVE Returns(r)
    BY <1>26 DEF RefundSubscription
  <1>27. ASSUME RefundSubscriptionFails(r) PROVE Quiet(r)
    BY <1>27 DEF RefundSubscriptionFails
  <1>28. ASSUME RefundSubscriptionHalf(r) PROVE Returns(r)
    BY <1>28 DEF RefundSubscriptionHalf
  <1>29. ASSUME RefundExtra(r) PROVE Returns(r)
    BY <1>29 DEF RefundExtra, HasExtra
  <1>30. ASSUME RefundToken(r) PROVE Returns(r)
    BY <1>30 DEF RefundToken, HasToken
  <1> HIDE DEF Quiet, Adjusts, SettlesSource, SettlesToken, SettlesBoth, Releases, Returns
  <1> QED BY <1>1, <1>2, <1>3, <1>4, <1>5, <1>6, <1>7, <1>8, <1>9, <1>10, <1>11, <1>12,
            <1>13, <1>14, <1>15, <1>16, <1>17, <1>18, <1>19, <1>20, <1>21, <1>22, <1>23,
            <1>24, <1>25, <1>26, <1>27, <1>28, <1>29, <1>30
        DEF Handler, RefundJob

-----------------------------------------------------------------------------
(* The state that the two holds are about.                                 *)

(* Until a refund is decided nobody has been given back more than was      *)
(* taken; afterwards nobody has unless the record of the refund was lost.  *)
Covered(r) ==
    /\ tokenSpent[r] \in Nat
    /\ spent[r] \in Int
    /\ ~refunded[r] => spent[r] \in Nat
    /\ "subRecord" \notin hit[r] => spent[r] >= 0

(* The inductive invariant says so.                                        *)
LEMMA AllCovered == IndInv => \A r \in Reqs : Covered(r)
  <1> SUFFICES ASSUME IndInv, NEW r \in Reqs PROVE Covered(r)
    OBVIOUS
  <1> USE DEF IndInv, TypeOK, TypeInput, TypeSession, TypeFlags, TypeHandler, TypeHistory,
              ReqInv, Covered
  <1>1. CASE ~Opened(r)
    BY <1>1 DEF Opened, Unopened, OnToken
  <1>2. CASE Opened(r) /\ (fundingSettled[r] \/ settled[r])
    BY <1>2 DEF Settling
  <1>3. CASE Opened(r) /\ ~fundingSettled[r] /\ ~settled[r] /\ job[r] = "none"
    BY <1>3 DEF Holding, OnToken, Owed, InFlight
  <1>4. CASE Opened(r) /\ job[r] # "none"
    BY <1>4 DEF Refunding, OpenShape, FundingLeft, TokenLeft, Owed, InFlight, OnToken
  <1> QED BY <1>1, <1>2, <1>3, <1>4

(* Before a step and after it.                                             *)
LEMMA CoveredNext == IndInv' => (\A r \in Reqs : Covered(r))'
  BY AllCovered, PTL

(* What the two holds read of request q is unchanged.                      *)
Held(q) == SameFlags(q) /\ SameLedger(q) /\ SameRecord(q)

(* A step of r leaves the holds of every other request alone.              *)
LEMMA HeldFrame ==
    ASSUME TypeOK, NEW r \in Reqs, Begin(r) \/ Handler(r) \/ RefundJob(r),
           NEW q \in Reqs, q # r
    PROVE  Held(q)
  BY FrameStep DEF Same, Held, SameFlags, SameLedger, SameRecord

(* A step that leaves the holds of every request alone is a stutter.       *)
LEMMA HeldStutters ==
    ASSUME TypeOK, TypeOK', \A q \in Reqs : Held(q)
    PROVE  UNCHANGED SourceHold!hold /\ UNCHANGED TokenHold!hold
  <1> USE DEF Held, SameFlags, SameLedger, SameRecord
  <1>1. [q \in Reqs |-> SourcePhase(q)]' = [q \in Reqs |-> SourcePhase(q)]
    BY DEF SourcePhase
  <1>2. [q \in Reqs |-> TokenPhase(q)]' = [q \in Reqs |-> TokenPhase(q)]
    BY DEF TokenPhase
  <1>3. spent' = spent /\ tokenSpent' = tokenSpent
    BY DEF TypeOK, TypeHistory
  <1>4. LostRecord' = LostRecord
    BY DEF LostRecord
  <1> QED BY <1>1, <1>2, <1>3, <1>4 DEF SourceHold!hold, TokenHold!hold

-----------------------------------------------------------------------------
(* The funding source.                                                     *)

(* A step of a request is a step of the hold on its funding source.        *)
LEMMA SourceStep ==
    ASSUME IndInv, IndInv', NEW r \in Reqs, Begin(r) \/ Handler(r) \/ RefundJob(r)
    PROVE  SourceHold!Next \/ UNCHANGED SourceHold!hold
  <1> DEFINE ph == [q \in Reqs |-> SourcePhase(q)]
  <1>0. TypeOK /\ TypeOK' /\ ReqInv(r)
    BY DEF IndInv
  <1>1. \A q \in Reqs : q # r => Held(q)
    BY <1>0, HeldFrame
  <1>2. ph' = [ph EXCEPT ![r] = SourcePhase(r)']
    BY <1>1 DEF SourcePhase, Held, SameFlags
  <1>3. spent' = [spent EXCEPT ![r] = spent'[r]]
    BY <1>0, <1>1 DEF Held, SameLedger, TypeOK, TypeHistory
  <1>4. ASSUME SameRecord(r) PROVE LostRecord' = LostRecord
    BY <1>1, <1>4 DEF LostRecord, Held, SameRecord
  <1>5. Covered(r)'
    BY CoveredNext
  <1>6. CASE Quiet(r)
    <2>1. \A q \in Reqs : Held(q)
      BY <1>1, <1>6 DEF Quiet, Held
    <2> QED BY <1>0, <2>1, HeldStutters
  <1>7. CASE Adjusts(r)
    <2>1. ph' = ph /\ ph[r] = "open" /\ LostRecord' = LostRecord
      BY <1>2, <1>4, <1>7 DEF Adjusts, Pending, SameFlags, SourcePhase
    <2>2. spent'[r] \in Nat
      BY <1>5, <1>7 DEF Adjusts, Pending, SameFlags, Covered
    <2>3. SourceHold!Adjust(r)
      BY <1>3, <2>1, <2>2 DEF SourceHold!Adjust, SourceHold!Take
    <2> QED BY <2>3 DEF SourceHold!Next
  <1>8. CASE SettlesSource(r) \/ SettlesBoth(r)
    <2>1. /\ ph' = [ph EXCEPT ![r] = "captured"] /\ ph[r] = "open"
          /\ LostRecord' = LostRecord
      BY <1>2, <1>4, <1>8 DEF SettlesSource, SettlesBoth, Pending, SourcePhase
    <2>2. spent'[r] \in Nat
      BY <1>5, <1>8 DEF SettlesSource, SettlesBoth, Pending, Covered
    <2>3. SourceHold!Capture(r)
      BY <1>3, <2>1, <2>2 DEF SourceHold!Capture, SourceHold!Become, SourceHold!Take
    <2> QED BY <2>3 DEF SourceHold!Next
  <1>9. CASE SettlesToken(r)
    <2>1. ph' = ph /\ LostRecord' = LostRecord
      BY <1>2, <1>4, <1>9 DEF SettlesToken, SourcePhase
    <2>2. spent' = spent
      BY <1>0, <1>3, <1>9 DEF SettlesToken, TypeOK, TypeHistory
    <2> QED BY <2>1, <2>2 DEF SourceHold!hold
  <1>10. CASE Releases(r)
    <2>1. /\ ph' = [ph EXCEPT ![r] = "releasing"] /\ ph[r] = "open"
          /\ LostRecord' = LostRecord
      BY <1>2, <1>4, <1>10 DEF Releases, Pending, SourcePhase
    <2>2. spent' = spent
      BY <1>0, <1>3, <1>10 DEF Releases, SameLedger, TypeOK, TypeHistory
    <2>3. SourceHold!Release(r)
      BY <2>1, <2>2 DEF SourceHold!Release, SourceHold!Become
    <2> QED BY <2>3 DEF SourceHold!Next
  <1>11. CASE Returns(r)
    <2>1. ph' = ph /\ ph[r] = "releasing"
      BY <1>2, <1>11 DEF Returns, SameFlags, SourcePhase
    <2>2. spent'[r] \in Int /\ spent'[r] <= spent[r]
      BY <1>5, <1>11 DEF Returns, Covered
    <2>3. LostRecord' \in {LostRecord, LostRecord \cup {r}}
      BY <1>1, <1>11 DEF Returns, LostRecord, Held, SameRecord
    <2>4. r \in LostRecord' \/ spent'[r] >= 0
      BY <1>5 DEF Covered, LostRecord
    <2>5. SourceHold!Return(r)
      BY <1>3, <2>1, <2>2, <2>3, <2>4 DEF SourceHold!Return
    <2> QED BY <2>5 DEF SourceHold!Next
  <1> QED BY <1>0, <1>6, <1>7, <1>8, <1>9, <1>10, <1>11, StepKind

(* A billing session implements the hold on its funding source.            *)
THEOREM SourceIsHoldCorrect == Spec => SourceIsHold
  <1>1. Init => SourceHold!Init
    BY DEF Init, SourceHold!Init, SourcePhase, LostRecord
  <1>2. IndInv /\ IndInv' /\ [Next]_vars => [SourceHold!Next]_(SourceHold!hold)
    <2> SUFFICES ASSUME IndInv, IndInv', [Next]_vars
                 PROVE  SourceHold!Next \/ UNCHANGED SourceHold!hold
      OBVIOUS
    <2>1. CASE \E r \in Reqs : Begin(r) \/ Handler(r) \/ RefundJob(r)
      BY <2>1, SourceStep
    <2>2. CASE SubscriptionExpires \/ SubscriptionResets \/ Crash \/ UNCHANGED vars
      <3>1. \A q \in Reqs : Held(q)
        BY <2>2 DEF SubscriptionExpires, SubscriptionResets, Crash, vars, Held, SameFlags,
                    SameLedger, SameRecord
      <3> QED BY <3>1, HeldStutters DEF IndInv
    <2> QED BY <2>1, <2>2 DEF Next, Quiescent
  <1> QED BY <1>1, <1>2, IndInvCorrect, PTL DEF Spec, SourceIsHold, SourceHold!Spec

-----------------------------------------------------------------------------
(* The token.                                                              *)

(* A step of a request is a step of the hold on its token.                 *)
LEMMA TokenStep ==
    ASSUME IndInv, IndInv', NEW r \in Reqs, Begin(r) \/ Handler(r) \/ RefundJob(r)
    PROVE  TokenHold!Next \/ UNCHANGED TokenHold!hold
  <1> DEFINE ph == [q \in Reqs |-> TokenPhase(q)]
  <1>0. TypeOK /\ TypeOK' /\ ReqInv(r)
    BY DEF IndInv
  <1>1. \A q \in Reqs : q # r => Held(q)
    BY <1>0, HeldFrame
  <1>2. ph' = [ph EXCEPT ![r] = TokenPhase(r)']
    BY <1>1 DEF TokenPhase, Held, SameFlags
  <1>3. tokenSpent' = [tokenSpent EXCEPT ![r] = tokenSpent'[r]]
    BY <1>0, <1>1 DEF Held, SameLedger, TypeOK, TypeHistory
  <1>4. Covered(r)'
    BY CoveredNext
  <1>5. CASE Quiet(r)
    <2>1. \A q \in Reqs : Held(q)
      BY <1>1, <1>5 DEF Quiet, Held
    <2> QED BY <1>0, <2>1, HeldStutters
  <1>6. CASE Adjusts(r)
    <2>1. ph' = ph /\ ph[r] = "open"
      BY <1>2, <1>6 DEF Adjusts, Pending, SameFlags, TokenPhase
    <2>2. tokenSpent'[r] \in Nat
      BY <1>4, <1>6 DEF Adjusts, Pending, SameFlags, Covered
    <2>3. TokenHold!Adjust(r)
      BY <1>3, <2>1, <2>2 DEF TokenHold!Adjust, TokenHold!Take
    <2> QED BY <2>3 DEF TokenHold!Next
  <1>7. CASE SettlesToken(r) \/ SettlesBoth(r)
    <2>1. /\ ph' = [ph EXCEPT ![r] = "captured"] /\ ph[r] = "open"
      BY <1>2, <1>7 DEF SettlesToken, SettlesBoth, Pending, TokenPhase
    <2>2. tokenSpent'[r] \in Nat
      BY <1>4, <1>7 DEF SettlesToken, SettlesBoth, Pending, Covered
    <2>3. TokenHold!Capture(r)
      BY <1>3, <2>1, <2>2 DEF TokenHold!Capture, TokenHold!Become, TokenHold!Take
    <2> QED BY <2>3 DEF TokenHold!Next
  <1>8. CASE SettlesSource(r)
    <2>1. ph' = ph
      BY <1>2, <1>8 DEF SettlesSource, Pending, TokenPhase
    <2>2. tokenSpent' = tokenSpent
      BY <1>0, <1>3, <1>8 DEF SettlesSource, Pending, TypeOK, TypeHistory
    <2> QED BY <2>1, <2>2 DEF TokenHold!hold
  <1>9. CASE Releases(r)
    <2>1. /\ ph' = [ph EXCEPT ![r] = "releasing"] /\ ph[r] = "open"
      BY <1>2, <1>9 DEF Releases, Pending, TokenPhase
    <2>2. tokenSpent' = tokenSpent
      BY <1>0, <1>3, <1>9 DEF Releases, SameLedger, TypeOK, TypeHistory
    <2>3. TokenHold!Release(r)
      BY <2>1, <2>2 DEF TokenHold!Release, TokenHold!Become
    <2> QED BY <2>3 DEF TokenHold!Next
  <1>10. CASE Returns(r)
    <2>1. ph' = ph /\ ph[r] = "releasing"
      BY <1>2, <1>10 DEF Returns, SameFlags, TokenPhase
    <2>2. tokenSpent'[r] \in Nat /\ tokenSpent'[r] <= tokenSpent[r]
      BY <1>4, <1>10 DEF Returns, Covered
    <2>3. TokenHold!Return(r)
      BY <1>3, <2>1, <2>2 DEF TokenHold!Return
    <2> QED BY <2>3 DEF TokenHold!Next
  <1> QED BY <1>0, <1>5, <1>6, <1>7, <1>8, <1>9, <1>10, StepKind

(* A billing session implements the hold on the token.                     *)
THEOREM TokenIsHoldCorrect == Spec => TokenIsHold
  <1>1. Init => TokenHold!Init
    BY DEF Init, TokenHold!Init, TokenPhase, LostRecord
  <1>2. IndInv /\ IndInv' /\ [Next]_vars => [TokenHold!Next]_(TokenHold!hold)
    <2> SUFFICES ASSUME IndInv, IndInv', [Next]_vars
                 PROVE  TokenHold!Next \/ UNCHANGED TokenHold!hold
      OBVIOUS
    <2>1. CASE \E r \in Reqs : Begin(r) \/ Handler(r) \/ RefundJob(r)
      BY <2>1, TokenStep
    <2>2. CASE SubscriptionExpires \/ SubscriptionResets \/ Crash \/ UNCHANGED vars
      <3>1. \A q \in Reqs : Held(q)
        BY <2>2 DEF SubscriptionExpires, SubscriptionResets, Crash, vars, Held, SameFlags,
                    SameLedger, SameRecord
      <3> QED BY <3>1, HeldStutters DEF IndInv
    <2> QED BY <2>1, <2>2 DEF Next, Quiescent
  <1> QED BY <1>1, <1>2, IndInvCorrect, PTL DEF Spec, TokenIsHold, TokenHold!Spec
=============================================================================
