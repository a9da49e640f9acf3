------------------------ MODULE BillingTotalsProofs ------------------------
(***************************************************************************)
(* The balances of BillingTotals are reconciled, for any finite number of  *)
(* requests, any prices, balances and faults.                              *)
(*                                                                         *)
(* A step of request r changes the three balances by what the ledgers of r *)
(* say (lemma Moves) and leaves the ledgers of the others alone, so that   *)
(* the sums over all requests follow the balances (SumChange of            *)
(* SumLemmas).  The clamp of the subscription at zero changes nothing: the *)
(* sum after the step is the sum of amounts that are not negative.         *)
(***************************************************************************)
EXTENDS BillingTotals, BillingSessionProofs, SumLemmas

USE DEF rows, input, amounts, flags, session, opening, locals, goroutine, ledger, post, flt
USE DEF Ok, QueryFails, Goto, OpenWith, OpenError, SessionOpens, FundingFails, Reserved,
        TryAgain, JobGoto, DecreaseUserQuota, DecreaseTokenQuota,
        PostConsumeUserSubscriptionDelta, DebitSource, Spend, SpendToken

-----------------------------------------------------------------------------
(* What a step of a request does to the balances.                          *)

(* The balances follow the ledgers of r. *)
Follows(r) ==
    /\ \/ funding'[r] = funding[r]
       \/ funding[r] = "none" /\ Taken(r) = 0 /\ funding'[r] \in Sources
    /\ token' = token - (TokenPart(r)' - TokenPart(r))
    /\ \/ /\ Source(r)' = "wallet" /\ subUsed' = subUsed
          /\ wallet' = wallet - (Taken(r)' - Taken(r))
       \/ /\ Source(r)' = "sub" /\ wallet' = wallet
          /\ subUsed' = NewUsed(Taken(r)' - Taken(r))

(* A step of a request moves its money, as the history of the request      *)
(* records it.                                                             *)
LEMMA Moves ==
    ASSUME TypeOK, NEW r \in Reqs, ReqInv(r), PostInv(r), Begin(r) \/ Handler(r) \/ RefundJob(r)
    PROVE  Follows(r)
  <1> USE DEF TypeOK, TypeRows, TypeInput, TypeSession, TypeFlags, TypeHandler, TypeHistory,
              ReqInv, Unopened, OpenShape, Opened, Live, Leaving, Opening,
              Reserving, Sources, Jobs, Fails, PostInv, Follows, Taken, TokenPart, Source, NewUsed
  <1>1. CASE Begin(r)
    BY <1>1 DEF Begin
  <1>2. CASE NewBillingSession(r)
    BY <1>2 DEF NewBillingSession
  <1>3. CASE ReadWallet(r)
    BY <1>3 DEF ReadWallet
  <1>4. CASE ReadToken(r)
    BY <1>4 DEF ReadToken
  <1>5. CASE DebitToken(r)
    BY <1>5 DEF DebitToken
  <1>6. CASE PreConsumeWallet(r)
    BY <1>6 DEF PreConsumeWallet
  <1>7. CASE PreConsumeSubscription(r)
    BY <1>7 DEF PreConsumeSubscription
  <1>8. CASE RollbackToken(r)
    BY <1>8 DEF RollbackToken
  <1>9. CASE OpenFailed(r)
    BY <1>9 DEF OpenFailed
  <1>10. CASE NoChannel(r)
    BY <1>10 DEF NoChannel
  <1>11. CASE SelectChannel(r)
    BY <1>11 DEF SelectChannel
  <1>12. CASE PrepareTask(r)
    BY <1>12 DEF PrepareTask
  <1>13. CASE PrepareTieredBilling(r)
    BY <1>13 DEF PrepareTieredBilling
  <1>14. CASE ReserveFunding(r)
    BY <1>14 DEF ReserveFunding
  <1>15. CASE ReserveRead(r)
    BY <1>15 DEF ReserveRead
  <1>16. CASE ReserveDebit(r)
    BY <1>16 DEF ReserveDebit
  <1>17. CASE ReserveRollback(r)
    BY <1>17 DEF ReserveRollback
  <1>18. CASE UpstreamOk(r)
    BY <1>18 DEF UpstreamOk
  <1>19. CASE UpstreamError(r)
    BY <1>19 DEF UpstreamError
  <1>20. CASE SettleFunding(r)
    BY <1>20 DEF SettleFunding, SettleDelta
  <1>21. CASE SettleToken(r)
    BY <1>21 DEF SettleToken, SettleDelta
  <1>22. CASE Refund(r)
    BY <1>22 DEF Refund
  <1>23. CASE PostFunding(r)
    BY <1>23 DEF PostFunding, PostSource
  <1>24. CASE PostToken(r)
    BY <1>24 DEF PostToken
  <1>25. CASE RefundWallet(r)
    BY <1>25 DEF RefundWallet
  <1>26. CASE RefundSubscription(r)
    BY <1>26 DEF RefundSubscription
  <1>27. CASE RefundSubscriptionFails(r)
    BY <1>27 DEF RefundSubscriptionFails
  <1>28. CASE RefundSubscriptionHalf(r)
    BY <1>28 DEF RefundSubscriptionHalf
  <1>29. CASE RefundExtra(r)
    BY <1>29 DEF RefundExtra, HasExtra
  <1>30. CASE RefundToken(r)
    BY <1>30 DEF RefundToken, HasToken
  <1> HIDE DEF Follows
  <1> QED BY <1>1, <1>2, <1>3, <1>4, <1>5, <1>6, <1>7, <1>8, <1>9, <1>10, <1>11, <1>12,
            <1>13, <1>14, <1>15, <1>16, <1>17, <1>18, <1>19, <1>20, <1>21, <1>22, <1>23,
            <1>24, <1>25, <1>26, <1>27, <1>28, <1>29, <1>30
        DEF Handler, RefundJob

(* PostConsumeQuota comes at the end of a request that has not finished,   *)
(* and a failed statement is never forgotten.                              *)
Advances(r) ==
    /\ ~Finished(r)
    /\ posted'[r] = posted[r] \/ (posted'[r] = posted[r] + amt[r] /\ pc[r] = "postFunding")
    /\ posted'[r] # 0 => pc'[r] \in {"postToken", "done", "dead"}
    /\ hit[r] \subseteq hit'[r]
    /\ \A q \in Reqs : q # r => posted'[q] = posted[q] /\ tokenPosted'[q] = tokenPosted[q]

LEMMA StepAdvances ==
    ASSUME TypeOK, NEW r \in Reqs, PostInv(r), Begin(r) \/ Handler(r) \/ RefundJob(r)
    PROVE  Advances(r)
  <1> USE DEF TypeOK, TypeHandler, TypeHistory, PCs, Jobs, Fails, PostInv, Advances, Finished
  <1>1. CASE Begin(r)
    BY <1>1 DEF Begin
  <1>2. CASE NewBillingSession(r)
    BY <1>2 DEF NewBillingSession
  <1>3. CASE ReadWallet(r)
    BY <1>3 DEF ReadWallet
  <1>4. CASE ReadToken(r)
    BY <1>4 DEF ReadToken
  <1>5. CASE DebitToken(r)
    BY <1>5 DEF DebitToken
  <1>6. CASE PreConsumeWallet(r)
    BY <1>6 DEF PreConsumeWallet
  <1>7. CASE PreConsumeSubscription(r)
    BY <1>7 DEF PreConsumeSubscription
  <1>8. CASE RollbackToken(r)
    BY <1>8 DEF RollbackToken
  <1>9. CASE OpenFailed(r)
    BY <1>9 DEF OpenFailed
  <1>10. CASE NoChannel(r)
    BY <1>10 DEF NoChannel
  <1>11. CASE SelectChannel(r)
    BY <1>11 DEF SelectChannel
  <1>12. CASE PrepareTask(r)
    BY <1>12 DEF PrepareTask
  <1>13. CASE PrepareTieredBilling(r)
    BY <1>13 DEF PrepareTieredBilling
  <1>14. CASE ReserveFunding(r)
    BY <1>14 DEF ReserveFunding
  <1>15. CASE ReserveRead(r)
    BY <1>15 DEF ReserveRead
  <1>16. CASE ReserveDebit(r)
    BY <1>16 DEF ReserveDebit
  <1>17. CASE ReserveRollback(r)
    BY <1>17 DEF ReserveRollback
  <1>18. CASE UpstreamOk(r)
    BY <1>18 DEF UpstreamOk
  <1>19. CASE UpstreamError(r)
    BY <1>19 DEF UpstreamError
  <1>20. CASE SettleFunding(r)
    BY <1>20 DEF SettleFunding
  <1>21. CASE SettleToken(r)
    BY <1>21 DEF SettleToken
  <1>22. CASE Refund(r)
    BY <1>22 DEF Refund
  <1>23. CASE PostFunding(r)
    BY <1>23 DEF PostFunding
  <1>24. CASE PostToken(r)
    BY <1>24 DEF PostToken
  <1>25. CASE RefundWallet(r)
    BY <1>25 DEF RefundWallet
  <1>26. CASE RefundSubscription(r)
    BY <1>26 DEF RefundSubscription
  <1>27. CASE RefundSubscriptionFails(r)
    BY <1>27 DEF RefundSubscriptionFails
  <1>28. CASE RefundSubscriptionHalf(r)
    BY <1>28 DEF RefundSubscriptionHalf
  <1>29. CASE RefundExtra(r)
    BY <1>29 DEF RefundExtra
  <1>30. CASE RefundToken(r)
    BY <1>30 DEF RefundToken
  <1> HIDE DEF Advances
  <1> QED BY <1>1, <1>2, <1>3, <1>4, <1>5, <1>6, <1>7, <1>8, <1>9, <1>10, <1>11, <1>12,
            <1>13, <1>14, <1>15, <1>16, <1>17, <1>18, <1>19, <1>20, <1>21, <1>22, <1>23,
            <1>24, <1>25, <1>26, <1>27, <1>28, <1>29, <1>30
        DEF Handler, RefundJob

LEMMA PostStep ==
    ASSUME TypeOK, TypeOK', NEW r \in Reqs, Begin(r) \/ Handler(r) \/ RefundJob(r),
           \A q \in Reqs : ReqInv(q) /\ PostInv(q)
    PROVE  \A q \in Reqs : PostInv(q)'
  <1>0. UNCHANGED <<reset, carried, closed>>
    BY DEF Begin, Handler, RefundJob, period
  <1>1. ASSUME NEW q \in Reqs, q # r PROVE PostInv(q)'
    <2>1. Same(q)
      BY <1>1, FrameStep
    <2>2. posted'[q] = posted[q]
      BY <1>1, StepAdvances DEF Advances
    <2> QED
      BY <1>0, <2>1, <2>2 DEF Same, PostInv, Finished
  <1>2. PostInv(r)'
    <2>1. Advances(r)
      BY StepAdvances
    <2>2. Follows(r)
      BY Moves
    <2>3. posted[r] \in Int /\ amt[r] \in Nat
      BY DEF TypeOK, TypeHistory, TypeHandler
    <2>4. posted'[r] >= 0
      BY <2>1, <2>3 DEF Advances, PostInv
    <2>5. funding'[r] = funding[r] \/ funding[r] = "none"
      BY <2>2 DEF Follows
    <2> QED
      BY <1>0, <2>1, <2>4, <2>5 DEF Advances, PostInv
  <1> QED
    BY <1>1, <1>2

-----------------------------------------------------------------------------
(* The sums follow the balances.                                           *)

LEMMA PartTypes ==
    ASSUME TypeOK
    PROVE  /\ \A r \in Reqs : /\ WalletPart(r) \in Int /\ SubPart(r) \in Int
                              /\ TokenPart(r) \in Int /\ NewPart(r) \in Int
                              /\ DuePart(r) \in Int /\ Taken(r) \in Int
           /\ wallet \in Int /\ token \in Int /\ subUsed \in Nat
           /\ Sum(Wallets) \in Int /\ Sum(Subs) \in Int /\ Sum(Tokens) \in Int
           /\ Sum(News) \in Int /\ Sum(Dues) \in Int
  <1>1. \A r \in Reqs : /\ WalletPart(r) \in Int /\ SubPart(r) \in Int
                        /\ TokenPart(r) \in Int /\ NewPart(r) \in Int
                        /\ DuePart(r) \in Int /\ Taken(r) \in Int
    BY DEF TypeOK, TypeHistory, TypePeriod, WalletPart, SubPart, TokenPart, NewPart, DuePart, Taken
  <1>2. wallet \in Int /\ token \in Int /\ subUsed \in Nat
    BY DEF TypeOK, TypeRows
  <1>3. \A r \in Reqs : /\ Wallets[r] \in Int /\ Subs[r] \in Int /\ Tokens[r] \in Int
                        /\ News[r] \in Int /\ Dues[r] \in Int
    BY <1>1 DEF Wallets, Subs, Tokens, News, Dues
  <1> QED
    BY <1>1, <1>2, <1>3, FiniteReqs, SumInt DEF Sum

(* A step of r changes each sum by the change of the part of r. *)
LEMMA StepSums ==
    ASSUME TypeOK, TypeOK', NEW r \in Reqs, Begin(r) \/ Handler(r) \/ RefundJob(r),
           \A q \in Reqs : PostInv(q)
    PROVE  Sum(Wallets)' = Sum(Wallets) + WalletPart(r)' - WalletPart(r)
           /\ Sum(Subs)' = Sum(Subs) + SubPart(r)' - SubPart(r)
           /\ Sum(Tokens)' = Sum(Tokens) + TokenPart(r)' - TokenPart(r)
           /\ Sum(News)' = Sum(News) + NewPart(r)' - NewPart(r)
           /\ Sum(Dues)' = Sum(Dues) + DuePart(r)' - DuePart(r)
  <1>0. UNCHANGED <<reset, carried, closed>>
    BY DEF Begin, Handler, RefundJob, period
  <1>1. \A q \in Reqs : /\ WalletPart(q) \in Int /\ SubPart(q) \in Int
                        /\ TokenPart(q) \in Int /\ NewPart(q) \in Int /\ DuePart(q) \in Int
    BY PartTypes
  <1>2. /\ WalletPart(r)' \in Int /\ SubPart(r)' \in Int
        /\ TokenPart(r)' \in Int /\ NewPart(r)' \in Int /\ DuePart(r)' \in Int
    BY DEF TypeOK, TypeHistory, TypePeriod, WalletPart, SubPart, TokenPart, NewPart, DuePart, Taken
  <1>3. ASSUME NEW q \in Reqs, q # r
        PROVE  /\ WalletPart(q)' = WalletPart(q) /\ SubPart(q)' = SubPart(q)
               /\ TokenPart(q)' = TokenPart(q) /\ NewPart(q)' = NewPart(q)
               /\ DuePart(q)' = DuePart(q)
    <2>1. Same(q)
      BY <1>3, FrameStep
    <2>2. posted'[q] = posted[q] /\ tokenPosted'[q] = tokenPosted[q]
      BY <1>3, StepAdvances DEF Advances
    <2>3. Taken(q)' = Taken(q) /\ Source(q)' = Source(q) /\ TokenPart(q)' = TokenPart(q)
      BY <2>1, <2>2 DEF Same, Taken, Source, Opened, TokenPart
    <2> QED
      BY <1>0, <2>3 DEF WalletPart, SubPart, NewPart, DuePart
  <1>4. Sum(Wallets)' = Sum(Wallets) + WalletPart(r)' - WalletPart(r)
    <2>1. /\ \A q \in Reqs : Wallets[q] = WalletPart(q)
          /\ \A q \in Reqs : Wallets'[q] = WalletPart(q)'
      BY DEF Wallets
    <2>2. \A q \in Reqs : q # r => Wallets'[q] = Wallets[q]
      BY <1>3, <2>1
    <2>3. (\A q \in Reqs : Wallets[q] \in Int) /\ Wallets'[r] \in Int
      BY <1>1, <1>2, <2>1
    <2>4. SumFunctionOnSet(Wallets', Reqs) = SumFunctionOnSet(Wallets, Reqs) + Wallets'[r] - Wallets[r]
      BY <2>2, <2>3, FiniteReqs, SumChange
    <2> QED
      BY <2>1, <2>4 DEF Sum
  <1>5. Sum(Subs)' = Sum(Subs) + SubPart(r)' - SubPart(r)
    <2>1. /\ \A q \in Reqs : Subs[q] = SubPart(q)
          /\ \A q \in Reqs : Subs'[q] = SubPart(q)'
      BY DEF Subs
    <2>2. \A q \in Reqs : q # r => Subs'[q] = Subs[q]
      BY <1>3, <2>1
    <2>3. (\A q \in Reqs : Subs[q] \in Int) /\ Subs'[r] \in Int
      BY <1>1, <1>2, <2>1
    <2>4. SumFunctionOnSet(Subs', Reqs) = SumFunctionOnSet(Subs, Reqs) + Subs'[r] - Subs[r]
      BY <2>2, <2>3, FiniteReqs, SumChange
    <2> QED
      BY <2>1, <2>4 DEF Sum
  <1>6. Sum(Tokens)' = Sum(Tokens) + TokenPart(r)' - TokenPart(r)
    <2>1. /\ \A q \in Reqs : Tokens[q] = TokenPart(q)
          /\ \A q \in Reqs : Tokens'[q] = TokenPart(q)'
      BY DEF Tokens
    <2>2. \A q \in Reqs : q # r => Tokens'[q] = Tokens[q]
      BY <1>3, <2>1
    <2>3. (\A q \in Reqs : Tokens[q] \in Int) /\ Tokens'[r] \in Int
      BY <1>1, <1>2, <2>1
    <2>4. SumFunctionOnSet(Tokens', Reqs) = SumFunctionOnSet(Tokens, Reqs) + Tokens'[r] - Tokens[r]
      BY <2>2, <2>3, FiniteReqs, SumChange
    <2> QED
      BY <2>1, <2>4 DEF Sum
  <1>7. Sum(News)' = Sum(News) + NewPart(r)' - NewPart(r)
    <2>1. /\ \A q \in Reqs : News[q] = NewPart(q)
          /\ \A q \in Reqs : News'[q] = NewPart(q)'
      BY DEF News
    <2>2. \A q \in Reqs : q # r => News'[q] = News[q]
      BY <1>3, <2>1
    <2>3. (\A q \in Reqs : News[q] \in Int) /\ News'[r] \in Int
      BY <1>1, <1>2, <2>1
    <2>4. SumFunctionOnSet(News', Reqs) = SumFunctionOnSet(News, Reqs) + News'[r] - News[r]
      BY <2>2, <2>3, FiniteReqs, SumChange
    <2> QED
      BY <2>1, <2>4 DEF Sum
  <1>8. Sum(Dues)' = Sum(Dues) + DuePart(r)' - DuePart(r)
    <2>1. /\ \A q \in Reqs : Dues[q] = DuePart(q)
          /\ \A q \in Reqs : Dues'[q] = DuePart(q)'
      BY DEF Dues
    <2>2. \A q \in Reqs : q # r => Dues'[q] = Dues[q]
      BY <1>3, <2>1
    <2>3. (\A q \in Reqs : Dues[q] \in Int) /\ Dues'[r] \in Int
      BY <1>1, <1>2, <2>1
    <2>4. SumFunctionOnSet(Dues', Reqs) = SumFunctionOnSet(Dues, Reqs) + Dues'[r] - Dues[r]
      BY <2>2, <2>3, FiniteReqs, SumChange
    <2> QED
      BY <2>1, <2>4 DEF Sum
  <1> QED
    BY <1>4, <1>5, <1>6, <1>7, <1>8

(* The parts of r move with the balances. *)
LEMMA StepParts ==
    ASSUME TypeOK, TypeOK', NEW r \in Reqs, ReqInv(r), PostInv(r),
           Begin(r) \/ Handler(r) \/ RefundJob(r)
    PROVE  /\ wallet - wallet' = WalletPart(r)' - WalletPart(r)
           /\ token - token' = TokenPart(r)' - TokenPart(r)
           /\ subUsed' = NewUsed(SubPart(r)' - SubPart(r))
           /\ NewPart(r)' - NewPart(r) = SubPart(r)' - SubPart(r)
           /\ DuePart(r)' - DuePart(r) = SubPart(r)' - SubPart(r)
  <1>0. UNCHANGED <<reset, carried, closed>>
    BY DEF Begin, Handler, RefundJob, period
  <1>1. Follows(r)
    BY Moves
  <1>2. r \notin closed
    BY StepAdvances DEF Advances, PostInv
  <1>3. /\ Taken(r) \in Int /\ Taken(r)' \in Int /\ TokenPart(r) \in Int /\ TokenPart(r)' \in Int
        /\ wallet \in Int /\ token \in Int /\ subUsed \in Nat /\ carried[r] \in Int
    BY DEF TypeOK, TypeRows, TypeHistory, TypePeriod, Taken, TokenPart
  <1>4. token - token' = TokenPart(r)' - TokenPart(r)
    BY <1>1, <1>3 DEF Follows
  <1>5. CASE Source(r)' = Source(r)
    <2>1. CASE Source(r) = "wallet"
      <3>1. wallet' = wallet - (Taken(r)' - Taken(r)) /\ subUsed' = subUsed
        BY <1>1, <1>5, <2>1 DEF Follows
      <3>2. /\ WalletPart(r) = Taken(r) /\ WalletPart(r)' = Taken(r)'
            /\ SubPart(r) = 0 /\ SubPart(r)' = 0 /\ NewPart(r) = 0 /\ NewPart(r)' = 0
            /\ DuePart(r) = 0 /\ DuePart(r)' = 0
        BY <1>5, <2>1 DEF WalletPart, SubPart, NewPart, DuePart
      <3> QED
        BY <1>3, <1>4, <3>1, <3>2 DEF NewUsed
    <2>2. CASE Source(r) = "sub"
      <3>1. wallet' = wallet /\ subUsed' = NewUsed(Taken(r)' - Taken(r))
        BY <1>1, <1>5, <2>2 DEF Follows
      <3>2. /\ WalletPart(r) = 0 /\ WalletPart(r)' = 0
            /\ SubPart(r) = Taken(r) /\ SubPart(r)' = Taken(r)'
            /\ NewPart(r) = Taken(r) /\ NewPart(r)' = Taken(r)'
            /\ DuePart(r) = Taken(r) - carried[r] /\ DuePart(r)' = Taken(r)' - carried[r]
        BY <1>0, <1>2, <1>5, <2>2 DEF WalletPart, SubPart, NewPart, DuePart
      <3> QED
        BY <1>3, <1>4, <3>1, <3>2
    <2> QED
      BY <1>1, <1>5, <2>1, <2>2 DEF Follows
  <1>6. CASE Source(r)' # Source(r)
    <2>1. funding[r] = "none" /\ Taken(r) = 0 /\ Source(r) = "wallet" /\ Source(r)' = "sub"
      BY <1>1, <1>6 DEF Follows, Source, Opened
    <2>2. carried[r] = 0
      BY <2>1 DEF PostInv
    <2>3. wallet' = wallet /\ subUsed' = NewUsed(Taken(r)' - Taken(r))
      BY <1>1, <2>1 DEF Follows
    <2>4. /\ WalletPart(r) = 0 /\ WalletPart(r)' = 0 /\ SubPart(r) = 0 /\ SubPart(r)' = Taken(r)'
          /\ NewPart(r) = 0 /\ NewPart(r)' = Taken(r)'
          /\ DuePart(r) = 0 /\ DuePart(r)' = Taken(r)' - carried[r]
      BY <1>0, <1>2, <2>1 DEF WalletPart, SubPart, NewPart, DuePart
    <2> QED
      BY <1>3, <1>4, <2>1, <2>2, <2>3, <2>4
  <1> QED
    BY <1>5, <1>6

(* What has been taken is not negative as long as no refund record was     *)
(* lost.                                                                   *)
LEMMA TakenNonnegative == IndInv /\ Unharmed /\ PostAll => \A r \in Reqs : Taken(r) >= 0
  <1> SUFFICES ASSUME IndInv, Unharmed, PostAll, NEW r \in Reqs
               PROVE  Taken(r) >= 0
    OBVIOUS
  <1>1. spent[r] \in Int /\ posted[r] \in Int /\ posted[r] >= 0
    BY DEF IndInv, TypeOK, TypeHistory, PostAll, PostInv
  <1>2. spent[r] >= 0
    BY IndNoOverRefund DEF NoOverRefund, Unharmed
  <1> QED
    BY <1>1, <1>2 DEF Taken

NothingOwed == Sum(Subs) >= 0 /\ Sum(News) >= 0

LEMMA SumsNonnegative == IndInv /\ Unharmed /\ PostAll => NothingOwed
  <1> SUFFICES ASSUME IndInv, Unharmed, PostAll
               PROVE  Sum(Subs) >= 0 /\ Sum(News) >= 0
    BY DEF NothingOwed
  <1>1. ASSUME NEW r \in Reqs
        PROVE  /\ Subs[r] \in Int /\ Subs[r] >= 0
               /\ News[r] \in Int /\ News[r] >= 0
    <2>1. Taken(r) >= 0 /\ Taken(r) \in Int
      BY TakenNonnegative, PartTypes DEF IndInv
    <2>2. Subs[r] \in {Taken(r), 0}
      BY DEF Subs, SubPart
    <2>3. News[r] \in {Taken(r), 0}
      BY DEF News, NewPart
    <2> QED
      BY <2>1, <2>2, <2>3
  <1> QED
    BY <1>1, FiniteReqs, SumNonnegative DEF Sum

LEMMA BalanceStep ==
    ASSUME IndInv, IndInv', NEW r \in Reqs, Begin(r) \/ Handler(r) \/ RefundJob(r),
           PostAll, PostAll', BalanceInv
    PROVE  BalanceInv'
  <1>0. /\ UNCHANGED <<reset, carried, closed>> /\ TypeOK /\ TypeOK' /\ ReqInv(r)
        /\ \A q \in Reqs : PostInv(q)
    BY DEF Begin, Handler, RefundJob, period, IndInv, PostAll
  <1> DEFINE d == SubPart(r)' - SubPart(r)
  <1>1. /\ Sum(Wallets)' = Sum(Wallets) + (WalletPart(r)' - WalletPart(r))
        /\ Sum(Tokens)' = Sum(Tokens) + (TokenPart(r)' - TokenPart(r))
        /\ Sum(Subs)' = Sum(Subs) + (SubPart(r)' - SubPart(r))
        /\ Sum(News)' = Sum(News) + (NewPart(r)' - NewPart(r))
        /\ Sum(Dues)' = Sum(Dues) + (DuePart(r)' - DuePart(r))
    <2>1. /\ WalletPart(r)' \in Int /\ SubPart(r)' \in Int
          /\ TokenPart(r)' \in Int /\ NewPart(r)' \in Int /\ DuePart(r)' \in Int
      BY <1>0 DEF TypeOK, TypeHistory, TypePeriod, WalletPart, SubPart, TokenPart, NewPart,
         DuePart, Taken
    <2> QED
      BY <1>0, <2>1, StepSums, PartTypes
  <1>2. /\ wallet - wallet' = WalletPart(r)' - WalletPart(r)
        /\ token - token' = TokenPart(r)' - TokenPart(r)
        /\ subUsed' = NewUsed(d)
        /\ NewPart(r)' - NewPart(r) = d
        /\ DuePart(r)' - DuePart(r) = d
    BY <1>0, StepParts
  <1>3. /\ wallet \in Int /\ wallet' \in Int /\ token \in Int /\ token' \in Int
        /\ subUsed \in Nat /\ d \in Int
        /\ Sum(Wallets) \in Int /\ Sum(Tokens) \in Int /\ Sum(Subs) \in Int
        /\ Sum(News) \in Int /\ Sum(Dues) \in Int
    <2>1. SubPart(r)' \in Int /\ wallet' \in Int /\ token' \in Int
      BY <1>0 DEF TypeOK, TypeRows, TypeHistory, SubPart, Taken
    <2> QED
      BY <1>0, <2>1, PartTypes
  <1>4. Unharmed' => Unharmed
    <2>1. \A q \in Reqs : hit[q] \subseteq hit'[q]
      BY <1>0, FrameStep, StepAdvances DEF Same, Advances
    <2> QED
      BY <2>1 DEF Unharmed
  <1>5. Unharmed' => Sum(Subs)' >= 0 /\ Sum(News)' >= 0
    <2>1. Unharmed' => NothingOwed'
      BY SumsNonnegative, PTL
    <2> QED
      BY <2>1 DEF NothingOwed
  <1> HIDE DEF d
  <1>6. (WalletInit - wallet = Sum(Wallets))' /\ (TokenInit - token = Sum(Tokens))'
    BY <1>1, <1>2, <1>3, BillingAssumption DEF BalanceInv
  <1>7. Sum(Subs)' = Sum(Subs) + d /\ Sum(News)' = Sum(News) + d /\ Sum(Dues)' = Sum(Dues) + d
    BY <1>1, <1>2 DEF d
  <1>8. ASSUME Unharmed', ~reset' PROVE subUsed' = Sum(Subs)'
    <2>1. subUsed = Sum(Subs)
      BY <1>0, <1>4, <1>8 DEF BalanceInv
    <2>2. Sum(Subs)' >= 0
      BY <1>5, <1>8
    <2> QED
      BY <1>2, <1>3, <1>7, <2>1, <2>2 DEF NewUsed
  <1>9. ASSUME Unharmed', reset' PROVE Sum(Dues)' <= subUsed' /\ subUsed' <= Sum(News)'
    <2>1. Sum(Dues) <= subUsed /\ subUsed <= Sum(News)
      BY <1>0, <1>4, <1>9 DEF BalanceInv
    <2>2. Sum(News)' >= 0
      BY <1>5, <1>9
    <2> QED
      BY <1>2, <1>3, <1>7, <2>1, <2>2 DEF NewUsed
  <1> QED
    BY <1>6, <1>8, <1>9 DEF BalanceInv

(* A new period starts with nothing used and nothing due. *)
LEMMA ResetStep ==
    ASSUME TotalsInv, IndInv', SubscriptionResets
    PROVE  PostAll' /\ BalanceInv'
  <1>0. /\ TypeOK /\ TypeOK'
        /\ UNCHANGED <<wallet, token, funding, pc, job, spent, tokenSpent, posted, tokenPosted, hit>>
        /\ reset' = TRUE /\ subUsed' = 0
        /\ closed' = {r \in Reqs : Finished(r)}
        /\ carried' = [r \in Reqs |-> IF funding[r] = "sub" THEN spent[r] + posted[r] ELSE 0]
    BY DEF SubscriptionResets, TotalsInv, IndInv
  <1>1. PostAll'
    BY <1>0 DEF TotalsInv, PostAll, PostInv, Finished
  <1>2. Wallets' = Wallets /\ Tokens' = Tokens
    BY <1>0 DEF Wallets, Tokens, WalletPart, TokenPart, Source, Opened, Taken
  <1>3. \A r \in Reqs : Dues'[r] = 0
    <2>1. \A r \in Reqs : spent[r] + posted[r] \in Int
      BY <1>0 DEF TypeOK, TypeHistory
    <2> QED
      BY <1>0, <2>1 DEF Dues, DuePart, Source, Opened, Taken
  <1>4. Sum(Dues)' = 0
    <2>1. SumFunctionOnSet(Dues', Reqs) = SumFunctionOnSet(Dues', {})
      BY <1>3, FiniteReqs, SumSupport
    <2>2. SumFunctionOnSet(Dues', {}) = 0
      BY SumEmpty
    <2> QED
      BY <2>1, <2>2 DEF Sum
  <1>5. Unharmed' => Sum(News)' >= 0
    <2>1. Unharmed' => NothingOwed'
      BY <1>1, SumsNonnegative, PTL
    <2> QED
      BY <2>1 DEF NothingOwed
  <1>6. /\ (WalletInit - wallet = Sum(Wallets))' /\ (TokenInit - token = Sum(Tokens))'
    BY <1>0, <1>2 DEF TotalsInv, BalanceInv, Sum
  <1> QED
    BY <1>0, <1>1, <1>4, <1>5, <1>6 DEF BalanceInv

(* The other steps leave the money alone. *)
LEMMA QuietStep ==
    ASSUME TotalsInv, IndInv', SubscriptionExpires \/ Crash \/ UNCHANGED vars
    PROVE  PostAll' /\ BalanceInv'
  <1>0. /\ UNCHANGED <<wallet, token, subUsed, funding, spent, tokenSpent, posted, tokenPosted, hit,
                       reset, carried, closed>>
        /\ TypeOK
    BY DEF SubscriptionExpires, Crash, vars, period, TotalsInv, IndInv
  <1>1. \A r \in Reqs : /\ Finished(r) => Finished(r)'
                        /\ pc[r] \in {"postToken", "done", "dead"}
                             => pc'[r] \in {"postToken", "done", "dead"}
    BY <1>0 DEF SubscriptionExpires, Crash, vars, Finished, Ended, TypeOK, TypeHandler
  <1>2. PostAll'
    BY <1>0, <1>1 DEF TotalsInv, PostAll, PostInv
  <1>3. UNCHANGED <<Wallets, Subs, Tokens, News, Dues>>
    BY <1>0 DEF Wallets, Subs, Tokens, News, Dues, WalletPart, SubPart, TokenPart, NewPart,
       DuePart, Source, Opened, Taken
  <1>4. BalanceInv'
    BY <1>0, <1>3 DEF TotalsInv, BalanceInv, Sum, Unharmed
  <1> QED
    BY <1>2, <1>4

-----------------------------------------------------------------------------
(* The theorems.                                                           *)

LEMMA TotalsInit == Init => TotalsInv
  <1> SUFFICES ASSUME Init PROVE TotalsInv
    OBVIOUS
  <1>1. IndInv
    BY TypeInit, ReqInit DEF IndInv
  <1>2. ASSUME NEW r \in Reqs PROVE PostInv(r)
    <2>1. posted[r] = 0 /\ carried[r] = 0 /\ closed = {}
      BY DEF Init
    <2> QED
      BY <2>1 DEF PostInv
  <1>3. ASSUME NEW r \in Reqs PROVE Wallets[r] = 0 /\ Subs[r] = 0 /\ Tokens[r] = 0
    <2>1. spent[r] = 0 /\ posted[r] = 0 /\ tokenSpent[r] = 0 /\ tokenPosted[r] = 0
      BY DEF Init
    <2>2. WalletPart(r) = 0 /\ SubPart(r) = 0 /\ TokenPart(r) = 0
      BY <2>1 DEF WalletPart, SubPart, TokenPart, Taken
    <2> QED
      BY <2>2 DEF Wallets, Subs, Tokens
  <1>4. Sum(Wallets) = 0 /\ Sum(Subs) = 0 /\ Sum(Tokens) = 0
    <2>1. \A f : (\A r \in Reqs : f[r] = 0) => SumFunctionOnSet(f, Reqs) = SumFunctionOnSet(f, {})
      BY FiniteReqs, SumSupport
    <2> QED
      BY <1>3, <2>1, SumEmpty DEF Sum
  <1>5. BalanceInv
    BY <1>4, BillingAssumption DEF Init, BalanceInv
  <1> QED
    BY <1>1, <1>2, <1>5 DEF TotalsInv, PostAll

LEMMA TotalsStep == TotalsInv /\ [Next]_vars => TotalsInv'
  <1> SUFFICES ASSUME TotalsInv, [Next]_vars PROVE TotalsInv'
    OBVIOUS
  <1>0. IndInv /\ IndInv' /\ PostAll /\ BalanceInv
    BY IndInvStep DEF TotalsInv
  <1>1. ASSUME NEW r \in Reqs, Begin(r) \/ Handler(r) \/ RefundJob(r) PROVE TotalsInv'
    <2>1. TypeOK /\ TypeOK' /\ \A q \in Reqs : ReqInv(q) /\ PostInv(q)
      BY <1>0 DEF IndInv, PostAll
    <2>2. PostAll'
      BY <1>0, <1>1, <2>1, PostStep DEF PostAll
    <2>3. BalanceInv'
      BY <1>0, <1>1, <2>2, BalanceStep
    <2> QED
      BY <1>0, <2>2, <2>3 DEF TotalsInv
  <1>2. CASE SubscriptionResets
    BY <1>0, <1>2, ResetStep DEF TotalsInv
  <1>3. CASE SubscriptionExpires \/ Crash \/ UNCHANGED vars
    BY <1>0, <1>3, QuietStep DEF TotalsInv
  <1> QED
    BY <1>1, <1>2, <1>3 DEF Next, Quiescent

(* At every moment the balances have moved by what the histories of the    *)
(* requests say: no interleaving of the statements of DecreaseUserQuota,   *)
(* DecreaseTokenQuota and PostConsumeUserSubscriptionDelta loses or        *)
(* repeats one.                                                            *)
THEOREM TotalsCorrect == Spec => []TotalsInv
  BY TotalsInit, TotalsStep, PTL DEF Spec

(* The sum over the requests of one source is the sum of their parts. *)
LEMMA SourceSum ==
    ASSUME NEW T \in SUBSET Reqs, NEW f, NEW g,
           \A r \in Reqs : f[r] \in Int, \A r \in T : g[r] = f[r], \A r \in Reqs \ T : f[r] = 0
    PROVE  SumFunctionOnSet(g, T) = SumFunctionOnSet(f, Reqs)
  <1>1. IsFiniteSet(T)
    BY FiniteReqs, FS_Subset
  <1>2. SumFunctionOnSet(f, Reqs) = SumFunctionOnSet(f, T)
    BY FiniteReqs, SumSupport
  <1>3. SumFunctionOnSet(g, T) = SumFunctionOnSet(f, T)
    BY <1>1, SumEqual
  <1> QED
    BY <1>2, <1>3

LEMMA CleanBills ==
    ASSUME TotalsInv, AllClean
    PROVE  /\ Unharmed
           /\ \A r \in Reqs : /\ Bill(r) + posted[r] = Taken(r) /\ Taken(r) \in Int
                              /\ OnToken(r, Bill(r)) + tokenPosted[r] = TokenPart(r)
  <1>1. \A r \in Reqs : spent[r] = Bill(r) /\ tokenSpent[r] = OnToken(r, Bill(r))
    BY IndFinishedExact DEF TotalsInv, AllClean, FinishedExact
  <1>2. \A r \in Reqs : Taken(r) \in Int
    BY PartTypes DEF TotalsInv, IndInv
  <1> QED
    BY <1>1, <1>2 DEF AllClean, Unharmed, Taken, TokenPart

LEMMA ReconciledInd == TotalsInv => Reconciled
  <1> SUFFICES ASSUME TotalsInv, AllClean
               PROVE  /\ WalletInit - wallet = Total("wallet")
                      /\ TokenInit - token = TokenTotal
                      /\ ~reset => subUsed = Total("sub")
    BY DEF Reconciled
  <1> DEFINE bills == [r \in Reqs |-> Bill(r) + posted[r]]
             Of(src) == {r \in Reqs : Source(r) = src}
  <1>1. \A r \in Reqs : bills[r] = Taken(r) /\ Taken(r) \in Int
    BY CleanBills
  <1>2. SumFunctionOnSet(bills, Of("wallet")) = SumFunctionOnSet(Wallets, Reqs)
    <2>1. /\ \A r \in Reqs : Wallets[r] \in Int
          /\ \A r \in Of("wallet") : bills[r] = Wallets[r]
          /\ \A r \in Reqs \ Of("wallet") : Wallets[r] = 0
      BY <1>1 DEF Wallets, WalletPart
    <2> HIDE DEF bills
    <2> QED
      BY <2>1, Of("wallet") \in SUBSET Reqs, SourceSum
  <1>3. SumFunctionOnSet(bills, Of("sub")) = SumFunctionOnSet(Subs, Reqs)
    <2>1. /\ \A r \in Reqs : Subs[r] \in Int
          /\ \A r \in Of("sub") : bills[r] = Subs[r]
          /\ \A r \in Reqs \ Of("sub") : Subs[r] = 0
      BY <1>1 DEF Subs, SubPart
    <2> HIDE DEF bills
    <2> QED
      BY <2>1, Of("sub") \in SUBSET Reqs, SourceSum
  <1>4. TokenTotal = Sum(Tokens)
    <2> DEFINE onTokens == [r \in Reqs |-> OnToken(r, Bill(r)) + tokenPosted[r]]
    <2>1. onTokens = Tokens
      BY CleanBills DEF Tokens
    <2>2. DOMAIN onTokens = Reqs
      OBVIOUS
    <2> QED
      BY <2>1, <2>2 DEF TokenTotal, Sum, SumFunction
  <1> QED
    BY <1>2, <1>3, <1>4, CleanBills DEF TotalsInv, BalanceInv, Total, Sum

LEMMA PeriodReconciledInd == TotalsInv => PeriodReconciled
  <1> SUFFICES ASSUME TotalsInv, AllClean, reset
      PROVE  /\ subUsed <= SumFunctionOnSet([r \in Reqs |-> Bill(r) + posted[r]], OnSub \ closed)
             /\ subUsed >= SumFunctionOnSet([r \in Reqs |-> Bill(r) + posted[r] - carried[r]], OnSub)
    BY DEF PeriodReconciled
  <1> DEFINE bills == [r \in Reqs |-> Bill(r) + posted[r]]
             dues == [r \in Reqs |-> Bill(r) + posted[r] - carried[r]]
  <1>0. \A r \in Reqs : carried[r] \in Int
    BY DEF TotalsInv, IndInv, TypeOK, TypePeriod
  <1>1. \A r \in Reqs : /\ bills[r] = Taken(r) /\ Taken(r) \in Int
                        /\ dues[r] = Taken(r) - carried[r]
    <2> SUFFICES ASSUME NEW r \in Reqs
                 PROVE  /\ bills[r] = Taken(r) /\ Taken(r) \in Int
                        /\ dues[r] = Taken(r) - carried[r]
      OBVIOUS
    <2>1. Bill(r) + posted[r] = Taken(r) /\ Taken(r) \in Int
      BY CleanBills
    <2>2. bills[r] = Bill(r) + posted[r]
      OBVIOUS
    <2>3. dues[r] = Bill(r) + posted[r] - carried[r]
      BY Zenon
    <2>4. Bill(r) \in Int /\ posted[r] \in Int /\ carried[r] \in Int
      BY <1>0 DEF TotalsInv, IndInv, TypeOK, TypeSession, TypeHandler, TypeInput, TypeHistory, Bill
    <2> HIDE DEF bills, dues
    <2> QED
      BY <2>1, <2>2, <2>3, <2>4
  <1>2. SumFunctionOnSet(bills, OnSub \ closed) = SumFunctionOnSet(News, Reqs)
    <2>1. /\ \A r \in Reqs : News[r] \in Int
          /\ \A r \in OnSub \ closed : bills[r] = News[r]
          /\ \A r \in Reqs \ (OnSub \ closed) : News[r] = 0
      BY <1>1 DEF News, NewPart, OnSub
    <2>2. OnSub \ closed \in SUBSET Reqs
      BY DEF OnSub
    <2> HIDE DEF bills
    <2> QED
      BY <2>1, <2>2, SourceSum
  <1>3. SumFunctionOnSet(dues, OnSub) = SumFunctionOnSet(Dues, Reqs)
    <2>1. /\ \A r \in Reqs : Dues[r] \in Int
          /\ \A r \in OnSub : dues[r] = Dues[r]
          /\ \A r \in Reqs \ OnSub : Dues[r] = 0
      BY <1>0, <1>1 DEF Dues, DuePart, OnSub
    <2>2. OnSub \in SUBSET Reqs
      BY DEF OnSub
    <2> HIDE DEF dues
    <2> QED
      BY <2>1, <2>2, SourceSum
  <1>4. /\ Sum(Dues) <= subUsed /\ subUsed <= Sum(News)
        /\ Sum(Dues) \in Int /\ Sum(News) \in Int /\ subUsed \in Int
    BY CleanBills, PartTypes DEF TotalsInv, IndInv, BalanceInv
  <1> QED
    BY <1>2, <1>3, <1>4 DEF Sum

(* When every request has finished and no statement failed, wallet, token  *)
(* and subscription have moved by exactly the bills of the requests, for   *)
(* any finite number of requests: the sums of BillingTotals.               *)
THEOREM ReconciledCorrect == Spec => []Reconciled
  BY ReconciledInd, TotalsCorrect, PTL

(* A new period of the subscription is charged for no request finished in  *)
(* the old one, for no request more than its bill, and forgoes at most     *)
(* what the old period was paid, for any finite number of requests that    *)
(* hold quota across maybeResetUserSubscriptionWithPlanTx.                 *)
THEOREM PeriodReconciledCorrect == Spec => []PeriodReconciled
  BY PeriodReconciledInd, TotalsCorrect, PTL
=============================================================================
