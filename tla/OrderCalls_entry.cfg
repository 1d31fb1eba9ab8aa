\* The price of an entry order is changed for that of its limit order.
SPECIFICATION Spec
CONSTANTS
    NoTicket = "no ticket"
    Orders <- MCOrders
    None = "none"
    TradeOf <- MCTradeOf
    TypeOf <- MCTypeOf
    AccountName = "01537581"
    AccountId = "1537581"
    NoAccount = ""
    Calls <- ChangeELSCalls
    NoCall = NoCall
    MaxPending = 1
PROPERTIES
    ChangesLimitAndStop
