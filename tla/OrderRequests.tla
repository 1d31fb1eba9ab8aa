---------------------------- MODULE OrderRequests ----------------------------
(***************************************************************************)
(* The requests of the order functions: each is a value map, a function    *)
(* from the parameters that have been set to their values.                 *)
(***************************************************************************)
EXTENDS Naturals

CONSTANTS NoTicket    \* an empty ticket

\* IO2GValueMap::setString, setInt and setDouble
Set(map, parameter, value) ==
    [p \in DOMAIN map \cup {parameter} |-> IF p = parameter THEN value ELSE map[p]]

SetIf(cond, map, parameter, value) ==
    IF cond THEN Set(map, parameter, value) ELSE map

Expires(map, expDate) ==
    SetIf(map["TimeInForce"] = "GTD", map, "ExpireDateTime", expDate)

-----------------------------------------------------------------------------
CreateMarketOrderRequest(account, amount, tif, ticket) ==
    SetIf(ticket # NoTicket,
          [Command |-> "CreateOrder", AccountID |-> account, Amount |-> amount,
           TimeInForce |-> tif,
           OrderType |-> IF ticket = NoTicket THEN "OM" ELSE "CM"],
          "TradeID", ticket)

CreateEntryOrderRequest(account, amount, type, price, ticket, tif, expDate) ==
    SetIf(ticket # NoTicket,
          Expires([Command |-> "CreateOrder", OrderType |-> type, Rate |-> price,
                   AccountID |-> account, Amount |-> amount, TimeInForce |-> tif],
                  expDate),
          "TradeID", ticket)

\* createELSorder: an order without a price is a market order, and so is one
\* of a type that is not known.
ELSOrderType(ordType1, price) ==
    CASE price > 0 /\ ordType1 = "Stop"  -> "SE"
      [] price > 0 /\ ordType1 = "Limit" -> "LE"
      [] price > 0 /\ ordType1 = "Range" -> "RE"
      [] OTHER                           -> "OM"

SetPrices(map, price, rangeMax) ==
    IF map["OrderType"] = "RE" /\ price > 0 /\ rangeMax > 0
      THEN Set(Set(map, "RateMin", price), "RateMax", rangeMax)
      ELSE SetIf(map["OrderType"] # "OM" /\ price > 0, map, "Rate", price)

CreateELSRequest(account, amount, price, max, limit, stop, type, tif, trail, expDate) ==
    LET order == [Command |-> "CreateOrder", OrderType |-> type, AccountID |-> account,
                  Amount |-> amount, RateLimit |-> limit, RateStop |-> stop,
                  TimeInForce |-> tif]
    IN  SetIf(trail > 0, Expires(SetPrices(order, price, max), expDate),
              "TrailStepStop", trail)

\* The price is set even if it is 0.
EditOrderRequest(account, order, price, amount) ==
    SetIf(amount > 0,
          [Command |-> "EditOrder", OrderID |-> order, AccountID |-> account,
           Rate |-> price],
          "Amount", amount)

RemoveOrderRequest(account, order) ==
    [Command |-> "DeleteOrder", AccountID |-> account, OrderID |-> order]
=============================================================================
