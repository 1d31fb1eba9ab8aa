----------------------------- MODULE OrderMonitor -----------------------------
(***************************************************************************)
(* OrderMonitor follows one order through the table updates that concern   *)
(* it: trades opened or closed by it, the deletion of its row, and the     *)
(* message that tells why it was rejected.  The server decides what becomes *)
(* of the order; its updates may be delivered in any order.                *)
(*                                                                         *)
(* The vectors of trades are represented by the sum of their amounts, each *)
(* of which is positive: the sum tells whether the vector is empty.        *)
(* Updates about other orders, and messages that do not name this one, are *)
(* refused by the first test of each handler and change nothing.           *)
(***************************************************************************)
EXTENDS Integers

CONSTANTS
    OriginAmount,   \* amount of the order when it was placed
    Garbage         \* values an uninitialised int may have

ASSUME MonitorAssumption ==
    /\ OriginAmount \in Nat \ {0}
    /\ Garbage \subseteq Int

VARIABLES
    mState, mResult,     \* OrderState and ExecutionResult
    mRejectMessage,      \* has the reject message been stored?
    mTrades, mClosedTrades,          \* sums of the amounts stored
    mTotalAmount, mRejectAmount,
    fate, rest,          \* server: how the order ends, the amount not executed
    toOpen, toClose,     \* server: amounts of trades still to be delivered
    rowDeleted,          \* has the deletion of the order's row been delivered?
    messageSent          \* has the reject message been delivered?

monitor == <<mState, mResult, mRejectMessage, mTrades, mClosedTrades,
             mTotalAmount, mRejectAmount>>
outcome == <<fate, rest>>
server  == <<outcome, toOpen, toClose, rowDeleted, messageSent>>
vars    == <<monitor, server>>

\* A type invariant.
TypeOK ==
    /\ mState \in {"OrderExecuting", "OrderExecuted", "OrderCanceled",
                   "OrderRejected"}
    /\ mResult \in {"Executing", "Executed", "PartialRejected", "FullyRejected",
                    "Canceled"}
    /\ mRejectMessage \in BOOLEAN
    /\ mTrades \in 0 .. OriginAmount
    /\ mClosedTrades \in 0 .. OriginAmount
    /\ mTotalAmount \in Garbage \cup (0 .. OriginAmount)
    /\ mRejectAmount \in 0 .. OriginAmount
    /\ fate \in {"executed", "canceled", "rejected"}
    /\ rest \in 0 .. OriginAmount
    /\ toOpen \in 0 .. OriginAmount
    /\ toClose \in 0 .. OriginAmount
    /\ rowDeleted \in BOOLEAN
    /\ messageSent \in BOOLEAN

\* The server's side: an executed order leaves no rest, any other leaves one.
ServerInit ==
    /\ fate \in {"executed", "canceled", "rejected"}
    /\ rest \in IF fate = "executed" THEN {0} ELSE 1 .. OriginAmount
    /\ toOpen \in 0 .. OriginAmount
    /\ toClose = OriginAmount - rest - toOpen
    /\ toClose >= 0
    /\ rowDeleted = FALSE
    /\ messageSent = FALSE

\* The constructor sets every field but mTotalAmount.
Init ==
    /\ mState = "OrderExecuting"
    /\ mResult = "Executing"
    /\ mRejectMessage = FALSE
    /\ mTrades = 0 /\ mClosedTrades = 0
    /\ mTotalAmount \in Garbage
    /\ mRejectAmount = 0
    /\ ServerInit

-----------------------------------------------------------------------------
\* Mutant: any trade of a closed order completes the collection.
isAllTradesReceivedEarly(state, total, sum) ==
    state # "OrderExecuting" /\ sum <= total

isAllTradesReceived(state, total, sum) ==
    state # "OrderExecuting" /\ sum = total

setResult(bSuccess, reject, sum) ==
    IF ~bSuccess THEN "Canceled"
    ELSE IF reject = 0 THEN "Executed"
    ELSE IF sum = 0 THEN "FullyRejected" ELSE "PartialRejected"

\* The result after a trade has been stored and the collection amounts to sum
ResultAfterTrade(sum) ==
    IF isAllTradesReceived(mState, mTotalAmount, sum)
      THEN setResult(TRUE, mRejectAmount, sum)
      ELSE mResult

\* Mutant: a trade is stored twice.
onTradeAddedTwice(amount) ==
    /\ amount \in 1 .. toOpen
    /\ toOpen' = toOpen - amount
    /\ mTrades' = mTrades + 2 * amount
    /\ mResult' = ResultAfterTrade(mTrades + 2 * amount + mClosedTrades)
    /\ UNCHANGED <<mState, mRejectMessage, mClosedTrades, mTotalAmount,
                   mRejectAmount, outcome, toClose, rowDeleted, messageSent>>

onTradeAdded(amount) ==
    /\ amount \in 1 .. toOpen
    /\ toOpen' = toOpen - amount
    /\ mTrades' = mTrades + amount
    /\ mResult' = ResultAfterTrade(mTrades + amount + mClosedTrades)
    /\ UNCHANGED <<mState, mRejectMessage, mClosedTrades, mTotalAmount,
                   mRejectAmount, outcome, toClose, rowDeleted, messageSent>>

onClosedTradeAdded(amount) ==
    /\ amount \in 1 .. toClose
    /\ toClose' = toClose - amount
    /\ mClosedTrades' = mClosedTrades + amount
    /\ mResult' = ResultAfterTrade(mTrades + mClosedTrades + amount)
    /\ UNCHANGED <<mState, mRejectMessage, mTrades, mTotalAmount, mRejectAmount,
                   outcome, toOpen, rowDeleted, messageSent>>

\* The deletion of the order's row, by the status it carries
RejectedRow ==
    /\ fate = "rejected"
    /\ mState' = "OrderRejected"
    /\ mRejectAmount' = rest
    /\ mTotalAmount' = OriginAmount - rest
    /\ mResult' =
         IF mRejectMessage
              /\ isAllTradesReceived(mState', mTotalAmount', mTrades + mClosedTrades)
           THEN setResult(TRUE, mRejectAmount', mTrades + mClosedTrades)
           ELSE mResult

CanceledRow ==
    /\ fate = "canceled"
    /\ mState' = "OrderCanceled"
    /\ mRejectAmount' = rest
    /\ mTotalAmount' = OriginAmount - rest
    /\ mResult' =
         IF isAllTradesReceived(mState', mTotalAmount', mTrades + mClosedTrades)
           THEN setResult(FALSE, mRejectAmount', mTrades + mClosedTrades)
           ELSE mResult

ExecutedRow ==
    /\ fate = "executed"
    /\ mState' = "OrderExecuted"
    /\ mRejectAmount' = 0
    /\ mTotalAmount' = OriginAmount
    /\ mResult' =
         IF isAllTradesReceived(mState', mTotalAmount', mTrades + mClosedTrades)
           THEN setResult(TRUE, mRejectAmount', mTrades + mClosedTrades)
           ELSE mResult

onOrderDeleted ==
    /\ ~rowDeleted
    /\ rowDeleted' = TRUE
    /\ RejectedRow \/ CanceledRow \/ ExecutedRow
    /\ UNCHANGED <<mRejectMessage, mTrades, mClosedTrades, outcome, toOpen, toClose,
                   messageSent>>

\* Mutant: the reject message is not kept when it precedes the deletion.
onMessageAddedForgets ==
    /\ fate = "rejected" /\ ~messageSent
    /\ messageSent' = TRUE
    /\ mRejectMessage' = (mState = "OrderRejected")
    /\ mResult' = IF mState = "OrderRejected"
                    THEN setResult(TRUE, mRejectAmount, mTrades + mClosedTrades)
                    ELSE mResult
    /\ UNCHANGED <<mState, mTrades, mClosedTrades, mTotalAmount, mRejectAmount,
                   outcome, toOpen, toClose, rowDeleted>>

\* The message that names the order is stored unless the order was closed
\* otherwise, and completes a rejected order.
onMessageAdded ==
    /\ fate = "rejected" /\ ~messageSent
    /\ messageSent' = TRUE
    /\ mRejectMessage' =
         (mRejectMessage \/ mState \in {"OrderRejected", "OrderExecuting"})
    /\ mResult' = IF mState = "OrderRejected"
                    THEN setResult(TRUE, mRejectAmount, mTrades + mClosedTrades)
                    ELSE mResult
    /\ UNCHANGED <<mState, mTrades, mClosedTrades, mTotalAmount, mRejectAmount,
                   outcome, toOpen, toClose, rowDeleted>>

isOrderCompleted == mResult # "Executing"

Next ==
    \/ \E amount \in 1 .. OriginAmount : onTradeAdded(amount)
    \/ \E amount \in 1 .. OriginAmount : onClosedTradeAdded(amount)
    \/ onOrderDeleted
    \/ onMessageAdded

Spec == Init /\ [][Next]_vars

-----------------------------------------------------------------------------
(* Properties                                                              *)

\* The server has nothing more to deliver about the order.
AllDelivered ==
    /\ toOpen = 0 /\ toClose = 0
    /\ rowDeleted
    /\ fate = "rejected" => messageSent

\* "Executed" and "Canceled" are never announced before their time, whatever the
\* order of the updates and whatever mTotalAmount held: only of an order that
\* ended so, and with every trade of it stored.
ResultTruthful ==
    /\ mResult = "Executed" =>
         fate = "executed" /\ mTrades + mClosedTrades = OriginAmount
    /\ mResult = "Canceled" =>
         fate = "canceled" /\ mTrades + mClosedTrades = OriginAmount - rest

\* An order is completed before all of its trades are stored in one case only:
\* it was rejected and the reject message overtook trades of its executed part.
CompletedMeansReceived ==
    isOrderCompleted =>
        \/ toOpen = 0 /\ toClose = 0
        \/ mState = "OrderRejected" /\ mRejectMessage

\* Who is told that an order is completed, and does not ask again, has been told
\* what stays true: a result once announced is final, except that an order that
\* seemed fully rejected turns out to be partly executed, if the reject message has
\* overtaken its trades.
ResultSettles ==
    [][isOrderCompleted => \/ mResult' = mResult
                           \/ /\ mResult = "FullyRejected" /\ mResult' = "PartialRejected"
                              /\ mRejectMessage /\ mRejectAmount < OriginAmount]_vars

\* Once everything has been delivered, an executed or rejected order has the
\* right result whatever the order of the updates, and no order is left
\* executing.
FinalResult ==
    AllDelivered =>
        /\ isOrderCompleted
        /\ fate = "executed" => mResult = "Executed"
        /\ fate = "rejected" =>
             mResult = IF rest = OriginAmount THEN "FullyRejected"
                       ELSE "PartialRejected"
=============================================================================
