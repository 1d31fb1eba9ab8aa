--------------------------- MODULE OrderCallsProofs ---------------------------
(***************************************************************************)
(* Proofs about OrderCalls, for any orders, any calls and any number of    *)
(* requests on their way.                                                  *)
(***************************************************************************)
EXTENDS OrderCalls, TLAPS

\* What every call and every request have in common
Types ==
    /\ state \in [Orders -> {"new", "waiting", "gone"}]
    /\ \A r \in toServer : r.Command \in {"CreateOrder", "EditOrder", "DeleteOrder"}
    /\ pc \in {"idle", "lookup", "answered", "limit", "stop", "remove", "sleep"}
    /\ pc # "idle" => call \in Calls
    /\ call \in Calls \cup {NoCall}
    /\ answer \subseteq Orders
    /\ result \in {0, 1}
    /\ sure \in BOOLEAN

\* Each place of the thread belongs to one of the two calls.
OpAtPc ==
    /\ pc \in {"lookup", "answered"} =>
         call.op \in {"deleteOrder", "changeELSstopLimit"}
    /\ pc \in {"limit", "stop"} => call.op = "changeELSstopLimit"
    /\ pc \in {"remove", "sleep"} => call.op = "deleteOrder"

\* An ID that is in use is one the table has shown, for the trade of the call.
Found(id, types) ==
    id # None => id \in TradeRows /\ TypeOf[id] \in types

IDsFound ==
    /\ pc \in {"lookup", "answered"} /\ call.op = "changeELSstopLimit" =>
         limitOrderID = None /\ stopOrderID = None
    /\ pc \in {"limit", "stop"} =>
         Found(limitOrderID, {"L", "LE"}) /\ Found(stopOrderID, {"S", "SE"})
    /\ limitOrderID \in Orders \cup {None}
    /\ stopOrderID \in Orders \cup {None}

\* An order that has been waiting all the time is in the table that is read.
SureWaits ==
    pc # "idle" /\ sure =>
      /\ call.op = "deleteOrder"
      /\ state[call.order] = "waiting"
      /\ pc = "answered" /\ call.account = AccountId => call.order \in answer

IInv == Types /\ OpAtPc /\ IDsFound /\ SureWaits

-----------------------------------------------------------------------------
\* Setting a parameter does not change the others.
LEMMA SetKeeps ==
    ASSUME NEW map, NEW cond, NEW p, NEW v, NEW x \in DOMAIN map, x # p
    PROVE  x \in DOMAIN SetIf(cond, map, p, v) /\ SetIf(cond, map, p, v)[x] = map[x]
  BY DEF SetIf, Set

LEMMA EditFields ==
    ASSUME NEW a, NEW o, NEW p, NEW n
    PROVE  /\ EditOrderRequest(a, o, p, n).Command = "EditOrder"
           /\ EditOrderRequest(a, o, p, n).OrderID = o
  <1> DEFINE m == [Command |-> "EditOrder", OrderID |-> o, AccountID |-> a, Rate |-> p]
  <1>1. /\ "Command" \in DOMAIN m /\ m.Command = "EditOrder"
        /\ "OrderID" \in DOMAIN m /\ m.OrderID = o
    OBVIOUS
  <1>2. EditOrderRequest(a, o, p, n) = SetIf(n > 0, m, "Amount", n)
    BY DEF EditOrderRequest
  <1> HIDE DEF m
  <1> QED
    BY <1>1, <1>2, SetKeeps

\* The requests of the calls that send just one create or edit an order.
LEMMA RequestCommand ==
    ASSUME NEW c, c.op \in SendOps
    PROVE  RequestOf(c).Command \in {"CreateOrder", "EditOrder"}
  <1> DEFINE a == GetAccountID(c.account)
             Creates(m) == "Command" \in DOMAIN m /\ m.Command = "CreateOrder"
  <1>1. ASSUME NEW m, Creates(m), NEW cond, NEW p, p # "Command", NEW v
        PROVE  Creates(SetIf(cond, m, p, v))
    BY <1>1, SetKeeps
  <1>2. ASSUME NEW m, Creates(m), NEW d PROVE Creates(Expires(m, d))
    BY <1>1, <1>2 DEF Expires
  <1>3. ASSUME NEW m, Creates(m), NEW p, NEW r PROVE Creates(SetPrices(m, p, r))
    <2>1. Creates(SetIf(TRUE, SetIf(TRUE, m, "RateMin", p), "RateMax", r))
      BY <1>1, <1>3
    <2>2. Creates(SetIf(m["OrderType"] # "OM" /\ p > 0, m, "Rate", p))
      BY <1>1, <1>3
    <2> QED
      BY <2>1, <2>2 DEF SetPrices, SetIf
  <1>4. CASE c.op = "createMarketOrder"
    <2> DEFINE m == [Command |-> "CreateOrder", AccountID |-> a, Amount |-> c.amount,
                     TimeInForce |-> c.tif,
                     OrderType |-> IF c.ticket = NoTicket THEN "OM" ELSE "CM"]
    <2>1. Creates(m)
      OBVIOUS
    <2>2. RequestOf(c) = SetIf(c.ticket # NoTicket, m, "TradeID", c.ticket)
      BY <1>4 DEF RequestOf, CreateMarketOrderRequest
    <2> HIDE DEF m
    <2> QED
      BY <1>1, <2>1, <2>2
  <1>5. CASE c.op = "createEntryOrder"
    <2> DEFINE m == [Command |-> "CreateOrder", OrderType |-> c.type, Rate |-> c.price,
                     AccountID |-> a, Amount |-> c.amount, TimeInForce |-> c.tif]
    <2>1. Creates(m)
      OBVIOUS
    <2>2. RequestOf(c) = SetIf(c.ticket # NoTicket, Expires(m, c.expDate),
                               "TradeID", c.ticket)
      BY <1>5 DEF RequestOf, CreateEntryOrderRequest
    <2> HIDE DEF m
    <2> QED
      BY <1>1, <1>2, <2>1, <2>2
  <1>6. CASE c.op = "createELSorder"
    <2> DEFINE m == [Command |-> "CreateOrder", OrderType |-> ELSOrderType(c.type, c.price),
                     AccountID |-> a, Amount |-> c.amount, RateLimit |-> c.limitPrice,
                     RateStop |-> c.stopPrice, TimeInForce |-> c.tif]
    <2>1. Creates(m)
      OBVIOUS
    <2>2. RequestOf(c) = SetIf(c.trailStop > 0,
                               Expires(SetPrices(m, c.price, c.rangeMax), c.expDate),
                               "TrailStepStop", c.trailStop)
      BY <1>6 DEF RequestOf, CreateELSRequest
    <2> HIDE DEF m
    <2> QED
      BY <1>1, <1>2, <1>3, <2>1, <2>2
  <1>7. CASE c.op = "changeOrder"
    <2>1. RequestOf(c) = EditOrderRequest(a, c.order, c.price, c.amount)
      BY <1>7 DEF RequestOf
    <2> QED
      BY <2>1, EditFields
  <1> QED
    BY <1>4, <1>5, <1>6, <1>7 DEF SendOps

-----------------------------------------------------------------------------
LEMMA IInvInit == Init => IInv
  BY OrderAssumption
     DEF Init, IInv, Types, OpAtPc, IDsFound, SureWaits

LEMMA IInvStep ==
    ASSUME IInv, [Next]_vars
    PROVE  IInv'
  <1> USE OrderAssumption DEF IInv, Types, OpAtPc, IDsFound, SureWaits
  <1>1. ASSUME NEW c \in Calls, NEW op \in SendOps, SendOrder(c, op)
        PROVE  IInv'
    <2>1. RequestOf(c).Command \in {"CreateOrder", "EditOrder"}
      BY <1>1, RequestCommand DEF SendOrder, Begin
    <2> HIDE DEF IInv
    <2> QED
      BY <1>1, <2>1 DEF IInv, SendOrder, Begin, Send
  <1>2. ASSUME NEW c \in Calls, NEW op \in SendOps, RefuseOrder(c, op)
        PROVE  IInv'
    BY <1>2 DEF RefuseOrder, Begin
  <1>3. ASSUME NEW c \in Calls, ChangeELSstopLimit(c)
        PROVE  IInv'
    BY <1>3 DEF ChangeELSstopLimit, Begin
  <1>4. ASSUME NEW c \in Calls, DeleteOrder(c)
        PROVE  IInv'
    BY <1>4 DEF DeleteOrder, Begin
  <1>5. CASE Answer
    BY <1>5 DEF Answer, LookupAccount, Waiting
  <1>6. CASE LookupFails
    BY <1>6 DEF LookupFails, Return
  <1>7. CASE FindOrder
    BY <1>7 DEF FindOrder, Return
  <1>8. CASE FindStopLimitOrders
    <2>1. Found(limitOrderID', {"L", "LE"}) /\ Found(stopOrderID', {"S", "SE"})
      BY <1>8 DEF FindStopLimitOrders, LastOf, Found
    <2>2. TradeRows' = TradeRows
      BY <1>8 DEF FindStopLimitOrders, TradeRows
    <2>3. Found(limitOrderID, {"L", "LE"})' /\ Found(stopOrderID, {"S", "SE"})'
      BY <2>1, <2>2 DEF Found
    <2>4. TradeRows \subseteq Orders
      BY DEF TradeRows
    <2>5. limitOrderID' \in Orders \cup {None} /\ stopOrderID' \in Orders \cup {None}
      BY <2>1, <2>4 DEF Found
    <2> QED
      BY <1>8, <2>3, <2>5 DEF FindStopLimitOrders, Return
  <1>9. ASSUME NEW order, NEW price, Edit(order, price)
        PROVE  \A r \in toServer' :
                 r.Command \in {"CreateOrder", "EditOrder", "DeleteOrder"}
    BY <1>9, EditFields DEF Edit, Send
  <1>10. CASE ChangeLimit
    BY <1>9, <1>10 DEF ChangeLimit, Found, TradeRows
  <1>11. CASE ChangeStop
    BY <1>9, <1>11 DEF ChangeStop, Return
  <1>12. CASE Remove
    BY <1>12 DEF Remove, Send, RemoveOrderRequest
  <1>13. CASE RemoveFails \/ OrderDeleted
    BY <1>13 DEF RemoveFails, OrderDeleted, Return
  <1>14. ASSUME NEW o, NEW value \in {"waiting", "gone"},
                state' = [state EXCEPT ![o] = value],
                \/ value = "waiting" /\ sure' = sure
                \/ sure' = (sure /\ call.order # o),
                toServer' \subseteq toServer,
                UNCHANGED client
         PROVE  IInv'
    <2>1. Types'
      <3>1. state' \in [Orders -> {"new", "waiting", "gone"}]
        BY <1>14
      <3>2. sure' \in BOOLEAN
        BY <1>14
      <3> QED
        BY <1>14, <3>1, <3>2 DEF client
    <2>2. OpAtPc' /\ IDsFound'
      BY <1>14 DEF client, Found, TradeRows
    <2>3. SureWaits'
      <3> SUFFICES ASSUME pc # "idle", sure'
                   PROVE  /\ call.op = "deleteOrder"
                          /\ state'[call.order] = "waiting"
                          /\ pc = "answered" /\ call.account = AccountId =>
                               call.order \in answer
        BY <1>14 DEF client
      <3>1. sure /\ (value = "waiting" \/ call.order # o)
        BY <1>14
      <3>2. call \in Calls /\ call.op = "deleteOrder"
        BY <3>1
      <3>3. call.order \in Orders
        BY <3>2
      <3>4. state[call.order] = "waiting"
        BY <3>1
      <3>5. state'[call.order] = "waiting"
        BY <1>14, <3>1, <3>3, <3>4
      <3> QED
        BY <3>1, <3>2, <3>5
    <2> QED
      BY <2>1, <2>2, <2>3
  <1>15. ASSUME NEW o \in Orders, Appear(o)
         PROVE  IInv'
    <2> HIDE DEF IInv
    <2> QED
      BY <1>14, <1>15 DEF Appear
  <1>17. ASSUME NEW o \in Orders, Disappear(o)
         PROVE  IInv'
    <2> HIDE DEF IInv
    <2> QED
      BY <1>14, <1>17 DEF Disappear
  <1>18. ASSUME NEW r \in toServer, Serve(r)
         PROVE  IInv'
    <2>1. CASE UNCHANGED <<state, sure>>
      BY <1>18, <2>1 DEF Serve, client, Found, TradeRows
    <2>2. CASE /\ state' = [state EXCEPT ![r.OrderID] = "gone"]
               /\ sure' = (sure /\ call.order # r.OrderID)
      <3>1. toServer' \subseteq toServer /\ UNCHANGED client
        BY <1>18 DEF Serve
      <3> HIDE DEF IInv
      <3> QED
        BY <1>14, <2>2, <3>1
    <2> QED
      BY <1>18, <2>1, <2>2 DEF Serve
  <1>16. CASE UNCHANGED vars
    BY <1>16 DEF vars, client, Found, TradeRows
  <1> QED
    BY <1>1, <1>2, <1>3, <1>4, <1>5, <1>6, <1>7, <1>8, <1>10, <1>11, <1>12, <1>13,
       <1>15, <1>16, <1>17, <1>18 DEF Next, Lookup, Server

THEOREM IInvInvariant == Spec => []IInv
  BY IInvInit, IInvStep, PTL DEF Spec

-----------------------------------------------------------------------------
\* The types of all variables.
THEOREM TypeCorrect == Spec => []TypeOK
  <1>1. IInv => TypeOK
    BY DEF IInv, Types, IDsFound, TypeOK
  <1> QED
    BY <1>1, IInvInvariant, PTL

\* A request sent by Edit is for the order it was given.
LEMMA EditedOrder ==
    ASSUME NEW order, NEW price, Edit(order, price), NEW r \in NewRequests
    PROVE  order # None /\ r.OrderID = order
  BY EditFields DEF Edit, Send, NewRequests

\* Where requests come from while the thread is in changeELSstopLimit
LEMMA SentAtLimitOrStop ==
    ASSUME IInv, [Next]_vars, pc \in {"limit", "stop"}, NEW r \in NewRequests
    PROVE  \/ pc = "limit" /\ limitOrderID # None /\ r.OrderID = limitOrderID
           \/ pc = "stop" /\ stopOrderID # None /\ r.OrderID = stopOrderID
  <1>1. CASE ChangeLimit
    BY <1>1, EditedOrder DEF ChangeLimit
  <1>2. CASE ChangeStop
    BY <1>2, EditedOrder DEF ChangeStop
  <1>3. CASE Server \/ UNCHANGED vars
    BY <1>3 DEF Server, Appear, Disappear, Serve, NewRequests, vars
  <1> QED
    BY <1>1, <1>2, <1>3
       DEF Next, SendOrder, RefuseOrder, ChangeELSstopLimit, DeleteOrder, Begin,
           Lookup, Answer, LookupFails, FindOrder, FindStopLimitOrders,
           Remove, RemoveFails, OrderDeleted

\* changeELSstopLimit edits orders of its trade only, whatever the global IDs held
\* before the call.
THEOREM OwnTradeOnly == Spec => EditsItsTrade
  <1>1. IInv /\ [Next]_vars =>
          [\A r \in NewRequests : r.Command = "EditOrder" /\ pc \in {"limit", "stop"}
             => r.OrderID \in answer /\ TradeOf[r.OrderID] = call.trade]_vars
    BY SentAtLimitOrStop DEF IInv, IDsFound, Found, TradeRows
  <1> QED
    BY <1>1, IInvInvariant, PTL DEF Spec, EditsItsTrade

\* The limit price never goes to a stop order, nor the stop price to a limit order.
THEOREM NotSwapped == Spec => PricesNotSwapped
  <1>1. IInv /\ [Next]_vars =>
          [\A r \in NewRequests :
             /\ pc = "limit" => TypeOf[r.OrderID] \in {"L", "LE"}
             /\ pc = "stop"  => TypeOf[r.OrderID] \in {"S", "SE"}]_vars
    BY SentAtLimitOrStop DEF IInv, IDsFound, Found
  <1> QED
    BY <1>1, IInvInvariant, PTL DEF Spec, PricesNotSwapped

\* "Order not found" is true, unless a step of the call has failed.
THEOREM NotFoundTrue == Spec => NotFoundIsTrue
  <1>1. IInv /\ [Next]_vars =>
          [pc # "idle" /\ pc' = "idle" /\ call.op = "deleteOrder"
           /\ call.account = AccountId /\ result' = 0 => ~ sure']_vars
    <2> SUFFICES ASSUME IInv, Next, pc # "idle", pc' = "idle", call.op = "deleteOrder",
                        call.account = AccountId, result' = 0
                 PROVE  ~ sure'
      OBVIOUS
    <2>1. CASE LookupFails \/ RemoveFails
      BY <2>1 DEF LookupFails, RemoveFails
    <2>2. CASE FindOrder
      BY <2>2 DEF FindOrder, IInv, SureWaits
    <2> QED
      BY <2>1, <2>2
         DEF Next, SendOrder, RefuseOrder, ChangeELSstopLimit, DeleteOrder, Begin,
             Lookup, Answer, FindStopLimitOrders, ChangeLimit, ChangeStop, Return,
             Remove, OrderDeleted, Server, Appear, Disappear, Serve, client
  <1> QED
    BY <1>1, IInvInvariant, PTL DEF Spec, NotFoundIsTrue

-----------------------------------------------------------------------------
\* What the last call has sent by the time it has come to each place
PlacedInv ==
    /\ pc \in {"lookup", "answered", "limit", "remove"} => placed = <<>>
    /\ pc = "stop" => placed \in EditsAsked(call, {"L", "LE"}, call.limitPrice)
    /\ pc = "sleep" => placed = <<RemoveOrderRequest(call.account, call.order)>>

\* Sequences of no, one and two requests
LEMMA ShortSeqs ==
    ASSUME NEW x, NEW y
    PROVE  /\ Append(<<>>, x) = <<x>> /\ Append(<<x>>, y) = <<x>> \o <<y>>
           /\ <<>> \o <<>> = <<>> /\ <<>> \o <<y>> = <<y>> /\ <<x>> \o <<>> = <<x>>
           /\ <<x>> # <<>> /\ <<x>> \o <<y>> # <<>>
  OBVIOUS

LEMMA Prefixes ==
    ASSUME NEW x, NEW y
    PROVE  /\ Promise!IsPrefix(<<>>, <<>>) /\ Promise!IsPrefix(<<>>, <<x>>)
           /\ Promise!IsPrefix(<<x>>, <<x>>) /\ Promise!IsPrefix(<<x>>, <<x>> \o <<y>>)
  BY DEF Promise!IsPrefix

\* An edit is of an order of the trade, or there is none.
LEMMA EditPlaces ==
    ASSUME NEW types, NEW id \in Orders \cup {None}, NEW price,
           Found(id, types), answer \subseteq Orders, Edit(id, price)
    PROVE  \/ UNCHANGED placed
           \/ \E e : <<e>> \in EditsAsked(call, types, price) /\ placed' = Append(placed, e)
  <1> DEFINE e == EditOrderRequest(GetAccountID(call.account), id, price, 0)
  <1>1. CASE id # None /\ price > 0 /\ placed' = Append(placed, e)
    <2>1. id \in Orders /\ TradeOf[id] = call.trade /\ TypeOf[id] \in types
      BY <1>1 DEF Found, TradeRows
    <2>2. <<e>> \in EditsAsked(call, types, price)
      BY <1>1, <2>1 DEF EditsAsked
    <2> QED
      BY <1>1, <2>2
  <1> QED
    BY <1>1 DEF Edit, Send

LEMMA LimitPlaces ==
    ASSUME IInv, PlacedInv, ChangeLimit
    PROVE  /\ placed' \in EditsAsked(call, {"L", "LE"}, call.limitPrice)
           /\ Promise!IsPrefix(placed, placed')
  <1>1. /\ limitOrderID \in Orders \cup {None} /\ Found(limitOrderID, {"L", "LE"})
        /\ answer \subseteq Orders /\ placed = <<>>
        /\ Edit(limitOrderID, call.limitPrice)
    BY DEF IInv, Types, IDsFound, PlacedInv, ChangeLimit
  <1>2. <<>> \in EditsAsked(call, {"L", "LE"}, call.limitPrice)
    BY DEF EditsAsked
  <1>3. \/ placed' = <<>>
        \/ \E e : /\ <<e>> \in EditsAsked(call, {"L", "LE"}, call.limitPrice)
                 /\ placed' = <<e>>
    BY <1>1, EditPlaces, ShortSeqs
  <1> QED
    BY <1>1, <1>2, <1>3, Prefixes

LEMMA StopPlaces ==
    ASSUME IInv, PlacedInv, ChangeStop
    PROVE  /\ Promise!IsPrefix(placed, placed')
           /\ \E edits \in EditsAsked(call, {"L", "LE"}, call.limitPrice),
                more  \in EditsAsked(call, {"S", "SE"}, call.stopPrice) :
                placed' = edits \o more
  <1> DEFINE Limits == EditsAsked(call, {"L", "LE"}, call.limitPrice)
             Stops  == EditsAsked(call, {"S", "SE"}, call.stopPrice)
  <1>1. /\ stopOrderID \in Orders \cup {None} /\ Found(stopOrderID, {"S", "SE"})
        /\ answer \subseteq Orders /\ placed \in Limits
        /\ Edit(stopOrderID, call.stopPrice)
    BY DEF IInv, Types, IDsFound, PlacedInv, ChangeStop
  <1>2. placed = <<>> \/ \E x : placed = <<x>>
    BY <1>1 DEF EditsAsked
  <1>3. <<>> \in Stops
    BY DEF EditsAsked
  <1>4. UNCHANGED placed \/ \E e : <<e>> \in Stops /\ placed' = Append(placed, e)
    BY <1>1, EditPlaces
  <1> HIDE DEF Limits, Stops
  <1>5. CASE UNCHANGED placed
    <2>1. placed' = placed \o <<>> /\ Promise!IsPrefix(placed, placed')
      BY <1>2, <1>5, ShortSeqs, Prefixes
    <2> QED
      BY <1>1, <1>3, <2>1 DEF Limits, Stops
  <1>6. CASE \E e : <<e>> \in Stops /\ placed' = Append(placed, e)
    <2>1. PICK e : <<e>> \in Stops /\ placed' = Append(placed, e)
      BY <1>6
    <2>2. placed' = placed \o <<e>> /\ Promise!IsPrefix(placed, placed')
      BY <1>2, <2>1, ShortSeqs, Prefixes
    <2> QED
      BY <1>1, <2>1, <2>2 DEF Limits, Stops
  <1> QED
    BY <1>4, <1>5, <1>6

LEMMA PlacedStep ==
    ASSUME IInv, PlacedInv, [Next]_vars
    PROVE  PlacedInv'
  <1>1. ASSUME NEW c \in Calls, NEW op \in SendOps, SendOrder(c, op) \/ RefuseOrder(c, op)
        PROVE  PlacedInv'
    BY <1>1 DEF PlacedInv, SendOrder, RefuseOrder, Begin
  <1>2. ASSUME NEW c \in Calls, ChangeELSstopLimit(c) \/ DeleteOrder(c)
        PROVE  PlacedInv'
    BY <1>2 DEF PlacedInv, ChangeELSstopLimit, DeleteOrder
  <1>3. CASE Lookup \/ RemoveFails \/ OrderDeleted
    BY <1>3 DEF PlacedInv, Lookup, Answer, LookupFails, FindOrder, FindStopLimitOrders,
                RemoveFails, OrderDeleted, Return
  <1>4. CASE ChangeLimit
    <2>1. pc' = "stop" /\ call' = call
      BY <1>4 DEF ChangeLimit
    <2>2. EditsAsked(call', {"L", "LE"}, call'.limitPrice)
            = EditsAsked(call, {"L", "LE"}, call.limitPrice)
      BY <2>1
    <2>3. placed' \in EditsAsked(call', {"L", "LE"}, call'.limitPrice)
      BY <1>4, <2>2, LimitPlaces
    <2> QED
      BY <2>1, <2>3 DEF PlacedInv, EditsAsked
  <1>5. CASE ChangeStop
    BY <1>5 DEF PlacedInv, ChangeStop, Return
  <1>6. CASE Remove
    BY <1>6 DEF PlacedInv, Remove, Send
  <1>7. CASE Server \/ UNCHANGED vars
    <2>1. UNCHANGED <<pc, call, placed>>
      BY <1>7 DEF Server, Appear, Disappear, Serve, client, vars
    <2> QED
      BY <2>1 DEF PlacedInv, EditsAsked
  <1> QED
    BY <1>1, <1>2, <1>3, <1>4, <1>5, <1>6, <1>7 DEF Next

\* What each of the functions may have sent in the end
LEMMA AskedByOp ==
    ASSUME NEW c \in Calls
    PROVE  /\ c.op = "changeELSstopLimit" => AskedBy(c) = BothEditsAsked(c)
           /\ c.op = "deleteOrder" =>
                AskedBy(c) = {<<>>, <<RemoveOrderRequest(c.account, c.order)>>}
           /\ c.op \in SendOps => AskedBy(c) = {<<>>, <<RequestOf(c)>>}
  BY DEF AskedBy, SendOps

LEMMA BothAsked ==
    ASSUME NEW c, NEW edits \in EditsAsked(c, {"L", "LE"}, c.limitPrice),
           NEW more \in EditsAsked(c, {"S", "SE"}, c.stopPrice)
    PROVE  edits \o more \in BothEditsAsked(c)
  BY DEF BothEditsAsked

LEMMA NothingAsked ==
    ASSUME NEW c \in Calls, c.op \in {"changeELSstopLimit", "deleteOrder"}
    PROVE  <<>> \in AskedBy(c)
  <1>1. CASE c.op = "deleteOrder"
    BY <1>1, AskedByOp
  <1>2. CASE c.op = "changeELSstopLimit"
    <2>1. <<>> \in EditsAsked(c, {"L", "LE"}, c.limitPrice)
          /\ <<>> \in EditsAsked(c, {"S", "SE"}, c.stopPrice)
      BY DEF EditsAsked
    <2>2. <<>> \o <<>> \in BothEditsAsked(c)
      BY <2>1, BothAsked
    <2>3. AskedBy(c) = BothEditsAsked(c) /\ <<>> \o <<>> = <<>>
      BY <1>2, AskedByOp, ShortSeqs
    <2> QED
      BY <2>2, <2>3
  <1> QED
    BY <1>1, <1>2

\* One step of a call is one step of the promise.
LEMMA PromiseStep ==
    ASSUME IInv, PlacedInv, [Next]_vars
    PROVE  [Promise!Next]_(Promise!vars)
  <1> USE DEF Promise!vars
  <1> DEFINE Asked == [c \in Calls |-> AskedBy(c)]
  <1>0. \A c \in Calls : /\ c.op # "changeOrder" => c \notin CallsOf("changeOrder")
                        /\ c.op = "changeELSstopLimit" => c \in CallsOf("changeELSstopLimit")
    BY DEF CallsOf
  <1>1. ASSUME NEW c \in Calls, NEW op \in SendOps, SendOrder(c, op) \/ RefuseOrder(c, op)
        PROVE  Promise!Pass(c)
    <2>1. /\ pc = "idle" /\ pc' = "idle" /\ call' = c /\ c.op = op
          /\ \/ placed' = <<>> /\ result' \in {0, 1} /\ (op # "changeOrder" => result' = 0)
             \/ placed' = <<RequestOf(c)>> /\ result' \in {0, 1}
                /\ (op # "changeOrder" => result' = 1)
      BY <1>1 DEF SendOrder, RefuseOrder, Begin, Send
    <2>2. placed' \in Asked[c]
      BY <2>1, AskedByOp
    <2>3. c \notin CallsOf("changeOrder") => op # "changeOrder"
      BY <2>1 DEF CallsOf
    <2> QED
      BY <2>1, <2>2, <2>3 DEF Promise!Pass, Promise!Results
  <1>2. ASSUME NEW c \in Calls, ChangeELSstopLimit(c) \/ DeleteOrder(c)
        PROVE  Promise!Begin(c)
    BY <1>2 DEF ChangeELSstopLimit, DeleteOrder, Begin, Promise!Begin
  <1>3. CASE Lookup \/ RemoveFails
    <2>1. CASE pc' # "idle"
      BY <1>3, <2>1 DEF Lookup, Answer, LookupFails, FindOrder, FindStopLimitOrders,
                        RemoveFails, Return
    <2>2. CASE pc' = "idle"
      <3>1. /\ pc \in {"lookup", "answered", "remove"} /\ result' = 0
            /\ UNCHANGED <<call, placed>>
        BY <1>3, <2>2 DEF Lookup, Answer, LookupFails, FindOrder, FindStopLimitOrders,
                          RemoveFails, Return
      <3>2. call \in Calls /\ call.op \in {"changeELSstopLimit", "deleteOrder"} /\ placed = <<>>
        BY <3>1 DEF IInv, Types, OpAtPc, PlacedInv
      <3>3. placed' \in Asked[call]
        BY <3>1, <3>2, NothingAsked
      <3>4. Promise!IsPrefix(placed, placed')
        BY <3>1, <3>2, Prefixes
      <3>5. Promise!Return
        BY <2>2, <3>1, <3>2, <3>3, <3>4 DEF Promise!Return, Promise!Results
      <3> QED
        BY <3>5 DEF Promise!Next
    <2> QED
      BY <2>1, <2>2
  <1>4. CASE ChangeLimit
    <2>1. /\ pc = "limit" /\ pc' = "stop" /\ UNCHANGED <<call, result>>
          /\ placed = <<>> /\ call \in Calls /\ call.op = "changeELSstopLimit"
      BY <1>4 DEF ChangeLimit, IInv, Types, OpAtPc, PlacedInv
    <2>2. placed' \in EditsAsked(call, {"L", "LE"}, call.limitPrice)
          /\ <<>> \in EditsAsked(call, {"S", "SE"}, call.stopPrice)
          /\ Promise!IsPrefix(placed, placed')
      BY <1>4, LimitPlaces DEF EditsAsked
    <2>3. placed' \in Asked[call]
      <3>1. placed' \o <<>> \in BothEditsAsked(call) /\ AskedBy(call) = BothEditsAsked(call)
        <4>1. placed' \o <<>> \in BothEditsAsked(call)
          BY <2>2, BothAsked
        <4>2. AskedBy(call) = BothEditsAsked(call)
          BY <2>1, AskedByOp
        <4> QED
          BY <4>1, <4>2
      <3>2. placed' = <<>> \/ \E x : placed' = <<x>>
        BY <2>2 DEF EditsAsked
      <3> QED
        BY <2>1, <3>1, <3>2, ShortSeqs
    <2>4. Promise!Place
      BY <2>1, <2>2, <2>3 DEF Promise!Place
    <2> QED
      BY <2>4 DEF Promise!Next
  <1>5. CASE ChangeStop
    <2>1. /\ pc = "stop" /\ pc' = "idle" /\ result' = 1 /\ call' = call
          /\ call \in Calls /\ call.op = "changeELSstopLimit"
      BY <1>5 DEF ChangeStop, Return, IInv, Types, OpAtPc
    <2>2. Promise!IsPrefix(placed, placed') /\ placed' \in Asked[call]
      <3>1. PICK edits \in EditsAsked(call, {"L", "LE"}, call.limitPrice),
                 more \in EditsAsked(call, {"S", "SE"}, call.stopPrice) :
              placed' = edits \o more
        BY <1>5, StopPlaces
      <3>2. placed' \in BothEditsAsked(call)
        BY <3>1, BothAsked
      <3>3. AskedBy(call) = BothEditsAsked(call)
        BY <2>1, AskedByOp
      <3>4. Promise!IsPrefix(placed, placed')
        BY <1>5, StopPlaces
      <3> QED
        BY <2>1, <3>2, <3>3, <3>4
    <2>3. Promise!Return
      BY <1>0, <2>1, <2>2 DEF Promise!Return, Promise!Results
    <2> QED
      BY <2>3 DEF Promise!Next
  <1>6. CASE Remove
    <2>1. /\ pc = "remove" /\ pc' = "sleep" /\ UNCHANGED <<call, result>>
          /\ placed' = <<RemoveOrderRequest(call.account, call.order)>>
          /\ placed = <<>> /\ call \in Calls /\ call.op = "deleteOrder"
      BY <1>6 DEF Remove, Send, IInv, Types, OpAtPc, PlacedInv
    <2>2. placed' \in Asked[call]
      BY <2>1, AskedByOp
    <2>3. Promise!Place
      BY <2>1, <2>2, Prefixes DEF Promise!Place
    <2> QED
      BY <2>3 DEF Promise!Next
  <1>7. CASE OrderDeleted
    <2>1. /\ pc = "sleep" /\ pc' = "idle" /\ result' = 1 /\ UNCHANGED <<call, placed>>
          /\ placed = <<RemoveOrderRequest(call.account, call.order)>>
          /\ call \in Calls /\ call.op = "deleteOrder"
      BY <1>7 DEF OrderDeleted, Return, IInv, Types, OpAtPc, PlacedInv
    <2>2. placed' \in Asked[call]
      BY <2>1, AskedByOp
    <2>3. Promise!Return
      BY <2>1, <2>2, Prefixes, ShortSeqs DEF Promise!Return, Promise!Results
    <2> QED
      BY <2>3 DEF Promise!Next
  <1>8. CASE Server \/ UNCHANGED vars
    BY <1>8 DEF Server, Appear, Disappear, Serve, client, vars
  <1> QED
    BY <1>1, <1>2, <1>3, <1>4, <1>5, <1>6, <1>7, <1>8 DEF Next, Promise!Next

\* The order functions keep what Placement promises, for any orders, any calls and
\* any server: no request is sent that was not asked for, none twice, and after a 0
\* none at all.
THEOREM OrderCallsKeepPromise == Spec => SendsWhatIsAsked
  <1>1. Init => PlacedInv
    BY DEF Init, PlacedInv
  <1>2. Init => Promise!Init
    BY DEF Init, Promise!Init
  <1> QED
    BY <1>1, <1>2, PlacedStep, PromiseStep, IInvInvariant, PTL
       DEF Spec, SendsWhatIsAsked, Promise!Spec

\* fc_changeELSstopLimit.m:15 is right of every trade whose orders in the table are
\* not entry orders: its limit price goes to a limit order and its stop price to a
\* stop order.  Entry orders are all that ChangesLimitAndStop fails by.
THEOREM LimitAndStopWithoutEntry ==
    Spec => [][\A r \in NewRequests :
                 /\ pc = "limit" /\ ~ InTable("LE") => TypeOf[r.OrderID] = "L"
                 /\ pc = "stop"  /\ ~ InTable("SE") => TypeOf[r.OrderID] = "S"]_vars
  <1>1. IInv /\ [Next]_vars =>
          [\A r \in NewRequests :
             /\ pc = "limit" /\ ~ InTable("LE") => TypeOf[r.OrderID] = "L"
             /\ pc = "stop"  /\ ~ InTable("SE") => TypeOf[r.OrderID] = "S"]_vars
    BY SentAtLimitOrStop DEF IInv, IDsFound, Found, InTable
  <1> QED
    BY <1>1, IInvInvariant, PTL DEF Spec
=============================================================================
