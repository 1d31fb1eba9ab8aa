---------------------------- MODULE MCOrderMonitor ----------------------------
(***************************************************************************)
(* TLC instance of OrderMonitor: an order of four lots, so that it may be  *)
(* executed in up to four trades and left with a rest of any size.         *)
(***************************************************************************)
EXTENDS OrderMonitor

\* Values that would complete the order too early if they were ever read
MCGarbage == {-1, 0, 2, 4}
=============================================================================
