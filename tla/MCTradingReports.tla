-------------------------- MODULE MCTradingReports --------------------------
\* An order of this terminal, a request that places none, another's order.
EXTENDS TradingReports, TLC

CONSTANTS r1, r2, o1, o2

MCRequestOf(o) == IF o = o1 THEN r1 ELSE Elsewhere
=============================================================================
