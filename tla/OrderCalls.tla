------------------------------ MODULE OrderCalls ------------------------------
(***************************************************************************)
(* The calls of the MATLAB thread that create, change and delete orders,   *)
(* against a trading server on which orders come and go by themselves.     *)
(*                                                                         *)
(* An order request is sent and not waited for.  deleteOrder and           *)
(* changeELSstopLimit first read the table of waiting orders, and wait for *)
(* that: the rendezvous of ResponseListener, which either delivers the     *)
(* answer of this request or times out.                                    *)
(***************************************************************************)
EXTENDS OrderRequests, FiniteSets, Sequences

CONSTANTS
    Orders, None,        \* order IDs; None is the empty one
    TradeOf, TypeOf,     \* the trade and the type of every order
    AccountName,         \* the account, by its name in Trading Station ...
    AccountId,           \* ... and by its ID in requests
    NoAccount,           \* the empty account ID
    Calls,               \* the calls made: records, by the arguments of each op
    NoCall,
    MaxPending           \* bound: requests on their way when a call begins

ASSUME OrderAssumption ==
    /\ None \notin Orders
    /\ AccountName # AccountId
    /\ NoAccount \notin {AccountName, AccountId}
    /\ NoCall \notin Calls
    /\ \A c \in Calls : c.op = "deleteOrder" => c.order \in Orders
    /\ MaxPending \in Nat

VARIABLES
    state,               \* external: an order is "new", "waiting" or "gone"
    toServer,            \* external: requests sent and not yet carried out
    pc,                  \* where the MATLAB thread is
    call,                \* the last call
    answer,              \* the table of orders, once it has been received
    limitOrderID, stopOrderID,
    result,              \* what the last call has returned
    placed,              \* history: the requests the last call has sent
    sure                 \* history: the order was waiting all the time, and
                         \* no step of the call has failed

client == <<pc, call, answer, limitOrderID, stopOrderID, result>>
vars   == <<state, toServer, client, placed, sure>>

\* A type invariant.
TypeOK ==
    /\ state \in [Orders -> {"new", "waiting", "gone"}]
    /\ \A r \in toServer : r.Command \in {"CreateOrder", "EditOrder", "DeleteOrder"}
    /\ pc \in {"idle", "lookup", "answered", "limit", "stop", "remove", "sleep"}
    /\ call \in Calls \cup {NoCall}
    /\ answer \subseteq Orders
    /\ limitOrderID \in Orders \cup {None}
    /\ stopOrderID \in Orders \cup {None}
    /\ result \in {0, 1}
    /\ sure \in BOOLEAN

Waiting == {o \in Orders : state[o] = "waiting"}

Init ==
    /\ state \in [Orders -> {"new", "waiting"}]
    /\ toServer = {}
    /\ pc = "idle"
    /\ call = NoCall
    /\ answer = {}
    /\ limitOrderID = None /\ stopOrderID = None
    /\ result = 0
    /\ placed = <<>>
    /\ sure = FALSE

-----------------------------------------------------------------------------
\* The account ID that is found for the name a script passes
GetAccountID(account) == IF account = AccountName THEN AccountId ELSE NoAccount

Return(value) ==
    /\ pc' = "idle"
    /\ result' = value

\* A request is created and sent, or cannot be created.
Send(request, before) ==
    /\ toServer' = toServer \cup {request}
    /\ placed' = Append(before, request)

Begin(c, op) ==
    /\ pc = "idle" /\ c.op = op
    /\ Cardinality(toServer) < MaxPending
    /\ call' = c
    /\ answer' = {}

-----------------------------------------------------------------------------
\* Calls that send one request, and return after a pause

\* The type of the request is that of the call.
RequestOf(c) ==
    LET account == GetAccountID(c.account)
    IN  CASE c.op = "createMarketOrder" ->
               CreateMarketOrderRequest(account, c.amount, c.tif, c.ticket)
          [] c.op = "createEntryOrder" ->
               CreateEntryOrderRequest(account, c.amount, c.type, c.price, c.ticket,
                                       c.tif, c.expDate)
          [] c.op = "createELSorder" ->
               CreateELSRequest(account, c.amount, c.price, c.rangeMax, c.limitPrice,
                                c.stopPrice, ELSOrderType(c.type, c.price), c.tif,
                                c.trailStop, c.expDate)
          [] c.op = "changeOrder" ->
               EditOrderRequest(account, c.order, c.price, c.amount)

\* The instrument is known, the request can be created, and 1 is returned.
\* changeOrder has no return statement: it returns anything.
SendOrder(c, op) ==
    /\ Begin(c, op)
    /\ Send(RequestOf(c), <<>>)
    /\ result' \in IF op = "changeOrder" THEN {0, 1} ELSE {1}
    /\ sure' = FALSE
    /\ UNCHANGED <<state, pc, limitOrderID, stopOrderID>>

RefuseOrder(c, op) ==
    /\ Begin(c, op)
    /\ result' \in IF op = "changeOrder" THEN {0, 1} ELSE {0}
    /\ placed' = <<>>
    /\ sure' = FALSE
    /\ UNCHANGED <<state, toServer, pc, limitOrderID, stopOrderID>>

-----------------------------------------------------------------------------
\* Calls that read the table of orders first

\* Mutant: the two order IDs keep their values.
ChangeELSKeepsIDs(c) ==
    /\ Begin(c, "changeELSstopLimit")
    /\ pc' = "lookup"
    /\ placed' = <<>>
    /\ sure' = FALSE
    /\ UNCHANGED <<state, toServer, result, limitOrderID, stopOrderID>>

ChangeELSstopLimit(c) ==
    /\ Begin(c, "changeELSstopLimit")
    /\ limitOrderID' = None /\ stopOrderID' = None
    /\ pc' = "lookup"
    /\ placed' = <<>>
    /\ sure' = FALSE
    /\ UNCHANGED <<state, toServer, result>>

DeleteOrder(c) ==
    /\ Begin(c, "deleteOrder")
    /\ pc' = "lookup"
    /\ placed' = <<>>
    /\ sure' = (state[c.order] = "waiting")
    /\ UNCHANGED <<state, toServer, limitOrderID, stopOrderID, result>>

\* deleteOrder takes its argument for an account ID.
LookupAccount ==
    IF call.op = "deleteOrder" THEN call.account ELSE GetAccountID(call.account)

\* External: the rows of the account, none if there is no such account.
Answer ==
    /\ pc = "lookup"
    /\ pc' = "answered"
    /\ answer' = IF LookupAccount = AccountId THEN Waiting ELSE {}
    /\ UNCHANGED <<state, toServer, placed, call, limitOrderID, stopOrderID, result,
                   sure>>

\* No answer in time, no response, or no request could be created.
LookupFails ==
    /\ pc = "lookup"
    /\ Return(0)
    /\ sure' = FALSE
    /\ UNCHANGED <<state, toServer, placed, call, answer, limitOrderID, stopOrderID>>

\* Mutant: the loop does not come to the last row.
FindOrderMissesLast ==
    /\ pc = "answered" /\ call.op = "deleteOrder"
    /\ \E last \in answer :
         IF call.order \in answer \ {last}
           THEN pc' = "remove" /\ UNCHANGED result
           ELSE Return(0)
    /\ UNCHANGED <<state, toServer, placed, call, answer, limitOrderID, stopOrderID,
                   sure>>

\* findOrder, and the test of its result in deleteOrder
FindOrder ==
    /\ pc = "answered" /\ call.op = "deleteOrder"
    /\ IF call.order \in answer
         THEN pc' = "remove" /\ UNCHANGED result
         ELSE Return(0)
    /\ UNCHANGED <<state, toServer, placed, call, answer, limitOrderID, stopOrderID,
                   sure>>

\* Mutant: the trade of the row is stored.
LastTradeOf(rows, types, id) ==
    LET matching == {o \in rows : TypeOf[o] \in types}
    IN  IF matching = {} THEN {id} ELSE {TradeOf[o] : o \in matching}

\* The last row whose type begins with the letter, in the order of the table.
\* The rows are in any order.
LastOf(rows, types, id) ==
    LET matching == {o \in rows : TypeOf[o] \in types}
    IN  IF matching = {} THEN {id} ELSE matching

TradeRows == {o \in answer : TradeOf[o] = call.trade}

\* FindStopLimitOrders, and the test of its result in changeELSstopLimit
FindStopLimitOrders ==
    /\ pc = "answered" /\ call.op = "changeELSstopLimit"
    /\ limitOrderID' \in LastOf(TradeRows, {"L", "LE"}, limitOrderID)
    /\ stopOrderID' \in LastOf(TradeRows, {"S", "SE"}, stopOrderID)
    /\ IF TradeRows # {}
         THEN pc' = "limit" /\ UNCHANGED result
         ELSE Return(0)
    /\ UNCHANGED <<state, toServer, placed, call, answer, sure>>

Edit(order, price) ==
    IF order # None /\ price > 0
      THEN \/ Send(EditOrderRequest(GetAccountID(call.account), order, price, 0),
                   placed)
           \/ UNCHANGED <<toServer, placed>>  \* the request could not be created
      ELSE UNCHANGED <<toServer, placed>>

ChangeLimit ==
    /\ pc = "limit"
    /\ Edit(limitOrderID, call.limitPrice)
    /\ pc' = "stop"
    /\ UNCHANGED <<state, call, answer, limitOrderID, stopOrderID, result, sure>>

\* Mutant: the new stop price is given to the limit order.
ChangeStopOfLimit ==
    /\ pc = "stop"
    /\ Edit(limitOrderID, call.stopPrice)
    /\ Return(1)
    /\ UNCHANGED <<state, call, answer, limitOrderID, stopOrderID, sure>>

ChangeStop ==
    /\ pc = "stop"
    /\ Edit(stopOrderID, call.stopPrice)
    /\ Return(1)
    /\ UNCHANGED <<state, call, answer, limitOrderID, stopOrderID, sure>>

\* deleteOrder sends its request ...
Remove ==
    /\ pc = "remove"
    /\ Send(RemoveOrderRequest(call.account, call.order), placed)
    /\ pc' = "sleep"
    /\ UNCHANGED <<state, call, answer, limitOrderID, stopOrderID, result, sure>>

RemoveFails ==
    /\ pc = "remove"
    /\ Return(0)
    /\ sure' = FALSE
    /\ UNCHANGED <<state, toServer, placed, call, answer, limitOrderID, stopOrderID>>

\* Mutant: a delete that was sent is reported as one that was not.
OrderDeletedZero ==
    /\ pc = "sleep"
    /\ Return(0)
    /\ UNCHANGED <<state, toServer, placed, call, answer, limitOrderID, stopOrderID,
                   sure>>

\* ... and after a pause prints "Order deleted".
OrderDeleted ==
    /\ pc = "sleep"
    /\ Return(1)
    /\ UNCHANGED <<state, toServer, placed, call, answer, limitOrderID, stopOrderID,
                   sure>>

-----------------------------------------------------------------------------
\* External: the trading server

\* An order begins to wait, by another request or in Trading Station.
Appear(o) ==
    /\ state[o] = "new"
    /\ state' = [state EXCEPT ![o] = "waiting"]
    /\ UNCHANGED <<toServer, client, placed, sure>>

\* An order is executed, expires, or is canceled in Trading Station.
Disappear(o) ==
    /\ state[o] = "waiting"
    /\ state' = [state EXCEPT ![o] = "gone"]
    /\ sure' = (sure /\ call.order # o)
    /\ UNCHANGED <<toServer, client, placed>>

\* A request is carried out, or fails.
Serve(r) ==
    /\ r \in toServer
    /\ toServer' = toServer \ {r}
    /\ \/ r.Command = "DeleteOrder" /\ r.AccountID = AccountId
          /\ state[r.OrderID] = "waiting"
          /\ state' = [state EXCEPT ![r.OrderID] = "gone"]
          /\ sure' = (sure /\ call.order # r.OrderID)
       \/ UNCHANGED <<state, sure>>
    /\ UNCHANGED <<client, placed>>

-----------------------------------------------------------------------------
SendOps == {"createMarketOrder", "createEntryOrder", "createELSorder", "changeOrder"}

Lookup == Answer \/ LookupFails \/ FindOrder \/ FindStopLimitOrders

Server ==
    \/ \E o \in Orders : Appear(o) \/ Disappear(o)
    \/ \E r \in toServer : Serve(r)

Next ==
    \/ \E c \in Calls, op \in SendOps : SendOrder(c, op) \/ RefuseOrder(c, op)
    \/ \E c \in Calls : ChangeELSstopLimit(c) \/ DeleteOrder(c)
    \/ Lookup
    \/ ChangeLimit \/ ChangeStop
    \/ Remove \/ RemoveFails \/ OrderDeleted
    \/ Server

Spec == Init /\ [][Next]_vars

-----------------------------------------------------------------------------
NewRequests == toServer' \ toServer

\* changeELSstopLimit only ever edits orders of its own trade which were in the
\* table it has read, whatever earlier calls have left in the two global IDs.
EditsItsTrade ==
    [][\A r \in NewRequests : r.Command = "EditOrder" /\ pc \in {"limit", "stop"}
         => r.OrderID \in answer /\ TradeOf[r.OrderID] = call.trade]_vars

\* A price goes to an order on its own side of the position: the limit price
\* never to a stop order, the stop price never to a limit order.
PricesNotSwapped ==
    [][\A r \in NewRequests :
         /\ pc = "limit" => TypeOf[r.OrderID] \in {"L", "LE"}
         /\ pc = "stop"  => TypeOf[r.OrderID] \in {"S", "SE"}]_vars

\* deleteOrder, given an account ID, only says that it has not found an order if
\* the order was not waiting at some time of the call, or a step has failed.
NotFoundIsTrue ==
    [][pc # "idle" /\ pc' = "idle" /\ call.op = "deleteOrder"
       /\ call.account = AccountId /\ result' = 0 => ~ sure']_vars

CallsOf(op) == {c \in Calls : c.op = op}

\* At most one edit, for an order of the trade
EditsAsked(c, types, price) ==
    {<<>>} \cup {<<EditOrderRequest(GetAccountID(c.account), o, price, 0)>> :
              o \in {o \in Orders : price > 0 /\ TradeOf[o] = c.trade
                                   /\ TypeOf[o] \in types}}

BothEditsAsked(c) ==
    {edits \o more : edits \in EditsAsked(c, {"L", "LE"}, c.limitPrice),
                     more  \in EditsAsked(c, {"S", "SE"}, c.stopPrice)}

AskedBy(c) ==
    CASE c.op = "changeELSstopLimit" -> BothEditsAsked(c)
      [] c.op = "deleteOrder" -> {<<>>, <<RemoveOrderRequest(c.account, c.order)>>}
      [] OTHER -> {<<>>, <<RequestOf(c)>>}

\* The promise of the order functions, for the requests sent by the last call
Promise == INSTANCE Placement WITH
    Asked <- [c \in Calls |-> AskedBy(c)],
    Partial <- CallsOf("changeELSstopLimit"), Mute <- CallsOf("changeOrder"),
    running <- (pc # "idle")

\* Whatever fails and whatever the table shows, a call sends no requests but those
\* it is asked for: one, or one for the limit order and then one for the stop order
\* of its trade.  A 0 means that it has sent nothing, so that a script may try again
\* without placing an order twice; and a 1, that it has sent its request, of which
\* changeELSstopLimit is the exception.
SendsWhatIsAsked == Promise!Spec

-----------------------------------------------------------------------------
InTable(type) == \E o \in TradeRows : TypeOf[o] = type

\* fc_changeELSstopLimit.m:15: "limitPrice - new limit price", :16 "stopPrice - new
\* stop price".  If the trade has a limit order in the table, the new limit price
\* goes to that, and not to the order that opens the trade; likewise for the stop.
ChangesLimitAndStop ==
    [][\A r \in NewRequests :
         /\ pc = "limit" /\ InTable("L") => TypeOf[r.OrderID] = "L"
         /\ pc = "stop"  /\ InTable("S") => TypeOf[r.OrderID] = "S"]_vars
=============================================================================
