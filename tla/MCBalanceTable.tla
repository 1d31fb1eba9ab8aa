---------------------------- MODULE MCBalanceTable ----------------------------
(***************************************************************************)
(* TLC instance of BalanceTable: three accounts compete for two slots.     *)
(***************************************************************************)
EXTENDS BalanceTable

MCAccounts == 1 .. 3
MCBalances == {0, 5, 7}
MCLogin == [a \in MCAccounts |-> 5]
=============================================================================
