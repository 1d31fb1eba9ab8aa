---------------------------- MODULE MCOrderCalls ----------------------------
(***************************************************************************)
(* TLC instance of OrderCalls: the three orders of a waiting ELS order, as *)
(* in fc_matlab_run/waitingOrders.csv, where the entry order, its limit    *)
(* and its stop have the same TradeID, and the limit order of an open      *)
(* trade that has no stop.                                                 *)
(***************************************************************************)
EXTENDS OrderCalls

MCOrders  == {"entry", "limit", "stop", "single"}
MCTradeOf == [o \in MCOrders |-> IF o = "single" THEN "t2" ELSE "t1"]
MCTypeOf  == [entry |-> "LE", limit |-> "L", stop |-> "S", single |-> "L"]

Name == "01537581"
Id   == "1537581"

\* changeELSstopLimit, which looks up a name, is called with an ID once, and
\* deleteOrder, which looks up an ID, with a name once.
ChangeELSCalls ==
    [op : {"changeELSstopLimit"}, account : {Name}, trade : {"t1"},
     limitPrice : {0}, stopPrice : {1}]
    \cup
    [op : {"changeELSstopLimit"}, account : {Name}, trade : {"t1"},
     limitPrice : {1}, stopPrice : {0, 1}]
    \cup
    [op : {"changeELSstopLimit"}, account : {Name}, trade : {"t2"}, limitPrice : {1},
     stopPrice : {1}]
    \cup
    [op : {"changeELSstopLimit"}, account : {Id}, trade : {"t1"}, limitPrice : {1},
     stopPrice : {1}]
DeleteCalls ==
    [op : {"deleteOrder"}, account : {Id}, order : {"entry", "limit", "single"}]
    \cup [op : {"deleteOrder"}, account : {Name}, order : {"single"}]
ChangeCalls ==
    [op : {"changeOrder"}, account : {Name}, order : {"single"}, price : {0},
     amount : {1}]
CreateCalls ==
    [op : {"createMarketOrder"}, account : {Name}, amount : {1}, tif : {"GTC"},
     ticket : {"t1", NoTicket}]
    \cup
    [op : {"createEntryOrder"}, account : {Name}, amount : {1}, type : {"LE"},
     price : {1}, ticket : {"t2"}, tif : {"GTD"}, expDate : {"date"}]
    \cup
    [op : {"createELSorder"}, account : {Name}, amount : {1},
     type : {"Range"}, price : {1}, rangeMax : {0, 2}, limitPrice : {1},
     stopPrice : {1}, tif : {"GTD"}, trailStop : {0}, expDate : {"date"}]
    \cup
    [op : {"createELSorder"}, account : {Name}, amount : {1}, type : {"Limit"},
     price : {0, 1}, rangeMax : {0}, limitPrice : {1}, stopPrice : {1},
     tif : {"GTC"}, trailStop : {1}, expDate : {"date"}]
    \cup
    [op : {"createELSorder"}, account : {Name}, amount : {1}, type : {"Other"},
     price : {1}, rangeMax : {0}, limitPrice : {1}, stopPrice : {1},
     tif : {"GTC"}, trailStop : {1}, expDate : {"date"}]

AllCalls == ChangeELSCalls \cup DeleteCalls \cup ChangeCalls \cup CreateCalls
=============================================================================
