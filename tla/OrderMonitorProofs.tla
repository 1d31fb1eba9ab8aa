-------------------------- MODULE OrderMonitorProofs --------------------------
(***************************************************************************)
(* Proofs about OrderMonitor, for an order of any amount, any fate of it,  *)
(* any order of the updates and any initial content of mTotalAmount.       *)
(***************************************************************************)
EXTENDS OrderMonitor, TLAPS

\* What has been stored and what is still to come add up to what was executed.
Conservation ==
    /\ mTrades + mClosedTrades + toOpen + toClose = OriginAmount - rest
    /\ fate = "executed" <=> rest = 0

\* The monitor knows of the end of the order what the deleted row told it; the
\* total is the garbage it began with until then.
StateMatches ==
    /\ ~rowDeleted => mState = "OrderExecuting" /\ mRejectAmount = 0
    /\ rowDeleted =>
         /\ mTotalAmount = OriginAmount - rest
         /\ mRejectAmount = rest
         /\ fate = "executed" => mState = "OrderExecuted"
         /\ fate = "canceled" => mState = "OrderCanceled"
         /\ fate = "rejected" => mState = "OrderRejected"
    /\ mRejectMessage <=> messageSent
    /\ messageSent => fate = "rejected"

\* The result in each state of the order
ResultMatches ==
    /\ ~rowDeleted => mResult = "Executing"
    /\ mResult = "Executed" => fate = "executed" /\ toOpen = 0 /\ toClose = 0
    /\ mResult = "Canceled" => fate = "canceled" /\ toOpen = 0 /\ toClose = 0
    /\ mResult = "FullyRejected" => fate = "rejected" /\ mRejectMessage
    /\ mResult = "PartialRejected" =>
         \/ fate = "rejected" /\ mRejectMessage
         \/ fate # "executed" /\ toOpen = 0 /\ toClose = 0
    /\ mResult = "PartialRejected" => mTrades + mClosedTrades > 0

IInv == TypeOK /\ Conservation /\ StateMatches /\ ResultMatches /\ FinalResult

-----------------------------------------------------------------------------
LEMMA IInvInit == Init => IInv
  <1> SUFFICES ASSUME Init PROVE IInv
    OBVIOUS
  <1> USE MonitorAssumption DEF Init, ServerInit
  <1>1. TypeOK
    <2>1. rest \in 0 .. OriginAmount
      OBVIOUS
    <2>2. toOpen \in 0 .. OriginAmount /\ toClose \in 0 .. OriginAmount
      BY <2>1
    <2>3. 0 \in 0 .. OriginAmount
      OBVIOUS
    <2>4. /\ mTrades \in 0 .. OriginAmount /\ mClosedTrades \in 0 .. OriginAmount
          /\ mTotalAmount \in Garbage \cup (0 .. OriginAmount)
          /\ mRejectAmount \in 0 .. OriginAmount
      BY <2>3
    <2>5. /\ mState = "OrderExecuting" /\ mResult = "Executing"
          /\ mRejectMessage = FALSE /\ rowDeleted = FALSE /\ messageSent = FALSE
          /\ fate \in {"executed", "canceled", "rejected"}
      OBVIOUS
    <2> HIDE DEF Init, ServerInit
    <2> QED
      BY <2>1, <2>2, <2>4, <2>5 DEF TypeOK
  <1>2. Conservation
    BY DEF Conservation
  <1>3. StateMatches /\ ResultMatches /\ FinalResult
    BY DEF StateMatches, ResultMatches, FinalResult, AllDelivered
  <1> QED
    BY <1>1, <1>2, <1>3 DEF IInv

LEMMA IInvStep ==
    ASSUME IInv, [Next]_vars
    PROVE  IInv'
  <1> USE MonitorAssumption
      DEF IInv, TypeOK, Conservation, StateMatches, ResultMatches, FinalResult,
          AllDelivered, isOrderCompleted, outcome
  <1>1. ASSUME NEW amount \in 1 .. OriginAmount, onTradeAdded(amount)
        PROVE  IInv'
    BY <1>1 DEF onTradeAdded, ResultAfterTrade, isAllTradesReceived, setResult
  <1>2. ASSUME NEW amount \in 1 .. OriginAmount, onClosedTradeAdded(amount)
        PROVE  IInv'
    BY <1>2 DEF onClosedTradeAdded, ResultAfterTrade, isAllTradesReceived, setResult
  <1>3. CASE onOrderDeleted
    <2>1. CASE RejectedRow
      BY <1>3, <2>1 DEF onOrderDeleted, RejectedRow, isAllTradesReceived, setResult
    <2>2. CASE CanceledRow
      BY <1>3, <2>2 DEF onOrderDeleted, CanceledRow, isAllTradesReceived, setResult
    <2>3. CASE ExecutedRow
      BY <1>3, <2>3 DEF onOrderDeleted, ExecutedRow, isAllTradesReceived, setResult
    <2> QED
      BY <1>3, <2>1, <2>2, <2>3 DEF onOrderDeleted
  <1>4. CASE onMessageAdded
    <2>1. /\ fate = "rejected"
          /\ mRejectMessage' = TRUE /\ messageSent' = TRUE
          /\ UNCHANGED <<mState, mTrades, mClosedTrades, mTotalAmount, mRejectAmount,
                         fate, rest, toOpen, toClose, rowDeleted>>
      BY <1>4 DEF onMessageAdded
    <2>2. CASE rowDeleted
      <3>1. mResult' = IF mTrades + mClosedTrades = 0 THEN "FullyRejected"
                       ELSE "PartialRejected"
        BY <1>4, <2>2 DEF onMessageAdded, setResult
      <3> QED
        BY <2>1, <2>2, <3>1
    <2>3. CASE ~rowDeleted
      BY <1>4, <2>1, <2>3 DEF onMessageAdded
    <2> QED
      BY <2>2, <2>3
  <1>5. CASE UNCHANGED vars
    BY <1>5 DEF vars, monitor, server
  <1> QED
    BY <1>1, <1>2, <1>3, <1>4, <1>5 DEF Next

THEOREM IInvHolds == Spec => []IInv
  BY IInvInit, IInvStep, PTL DEF Spec

\* The types of all variables.
THEOREM TypeCorrect == Spec => []TypeOK
  BY IInvHolds, PTL DEF IInv

\* Executed and Canceled are announced only of an order that ended so, with every
\* trade of it stored, whatever the order of the updates.
THEOREM Truthful == Spec => []ResultTruthful
  <1>1. IInv => ResultTruthful
    BY MonitorAssumption
       DEF IInv, TypeOK, Conservation, ResultMatches, ResultTruthful
  <1> QED
    BY <1>1, IInvHolds, PTL

\* Only the reject message can complete an order before its trades are stored.
THEOREM CompletedReceived == Spec => []CompletedMeansReceived
  <1>1. IInv => CompletedMeansReceived
    BY DEF IInv, TypeOK, StateMatches, ResultMatches, CompletedMeansReceived,
           isOrderCompleted
  <1> QED
    BY <1>1, IInvHolds, PTL

\* Once everything is delivered, an executed or rejected order has its result.
THEOREM Final == Spec => []FinalResult
  BY IInvHolds, PTL DEF IInv

-----------------------------------------------------------------------------
\* A trade that comes after the announcement changes at most "fully rejected".
LEMMA LateTrade ==
    ASSUME IInv, isOrderCompleted, toOpen + toClose > 0, mState' = mState,
           NEW sum \in 1 .. OriginAmount, mResult' = ResultAfterTrade(sum)
    PROVE  \/ mResult' = mResult
           \/ /\ mResult = "FullyRejected" /\ mResult' = "PartialRejected"
              /\ mRejectMessage /\ mRejectAmount < OriginAmount
  <1> USE MonitorAssumption
      DEF IInv, TypeOK, Conservation, StateMatches, ResultMatches, isOrderCompleted
  <1>1. rowDeleted /\ fate = "rejected" /\ mRejectMessage
        /\ mResult \in {"FullyRejected", "PartialRejected"}
    OBVIOUS
  <1>2. mRejectAmount = rest /\ 0 < rest /\ rest < OriginAmount
    BY <1>1
  <1>3. mResult' \in {mResult, "PartialRejected"}
    BY <1>2 DEF ResultAfterTrade, setResult
  <1> QED
    BY <1>1, <1>2, <1>3

\* A result once announced is final, but for the one that a reject message which
\* overtook trades has announced too early.
THEOREM Settles == Spec => ResultSettles
  <1>1. IInv /\ [Next]_vars =>
          [isOrderCompleted => \/ mResult' = mResult
                              \/ /\ mResult = "FullyRejected" /\ mResult' = "PartialRejected"
                                 /\ mRejectMessage /\ mRejectAmount < OriginAmount]_vars
    <2> SUFFICES ASSUME IInv, Next, isOrderCompleted
                 PROVE  \/ mResult' = mResult
                        \/ /\ mResult = "FullyRejected" /\ mResult' = "PartialRejected"
                           /\ mRejectMessage /\ mRejectAmount < OriginAmount
      OBVIOUS
    <2> USE MonitorAssumption
    <2>0. rowDeleted
      BY DEF IInv, ResultMatches, isOrderCompleted
    <2>1. ASSUME NEW amount \in 1 .. OriginAmount, onTradeAdded(amount)
          PROVE  /\ toOpen + toClose > 0
                 /\ mTrades + amount + mClosedTrades \in 1 .. OriginAmount
      BY <2>1 DEF onTradeAdded, IInv, TypeOK, Conservation
    <2>2. ASSUME NEW amount \in 1 .. OriginAmount, onClosedTradeAdded(amount)
          PROVE  /\ toOpen + toClose > 0
                 /\ mTrades + mClosedTrades + amount \in 1 .. OriginAmount
      BY <2>2 DEF onClosedTradeAdded, IInv, TypeOK, Conservation
    <2>3. CASE \E amount \in 1 .. OriginAmount : onTradeAdded(amount)
      BY <2>1, <2>3, LateTrade DEF onTradeAdded
    <2>4. CASE \E amount \in 1 .. OriginAmount : onClosedTradeAdded(amount)
      BY <2>2, <2>4, LateTrade DEF onClosedTradeAdded
    <2>5. CASE onOrderDeleted
      BY <2>0, <2>5 DEF onOrderDeleted
    \* Before the message, only the last trade can have announced a result.
    <2>6. CASE onMessageAdded
      <3>1. mResult = "PartialRejected" /\ mTrades + mClosedTrades > 0
            /\ mState = "OrderRejected" /\ mRejectAmount # 0
        BY <2>0, <2>6 DEF onMessageAdded, IInv, TypeOK, Conservation, StateMatches,
                         ResultMatches, isOrderCompleted
      <3> QED
        BY <2>6, <3>1 DEF onMessageAdded, setResult, IInv, TypeOK, StateMatches
    <2> QED
      BY <2>3, <2>4, <2>5, <2>6 DEF Next
  <1> QED
    BY <1>1, IInvHolds, PTL DEF Spec, ResultSettles
=============================================================================
