\* Every order function, while orders come and go by themselves.
SPECIFICATION Spec
CONSTANTS
    NoTicket = "no ticket"
    Orders <- MCOrders
    None = "none"
    TradeOf <- MCTradeOf
    TypeOf <- MCTypeOf
    AccountName = "01537581"
    AccountId = "1537581"
    NoAccount = ""
    Calls <- AllCalls
    NoCall = NoCall
    MaxPending = 2
INVARIANTS
    TypeOK
PROPERTIES
    EditsItsTrade
    PricesNotSwapped
    NotFoundIsTrue
    SendsWhatIsAsked
