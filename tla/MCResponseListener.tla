------------------------- MODULE MCResponseListener -------------------------
(***************************************************************************)
(* TLC instance of ResponseListener: requests are model values, and the    *)
(* requests of one kind are interchangeable.                               *)
(***************************************************************************)
EXTENDS ResponseListener, TLC

\* Requests of one kind may be permuted; used where no liveness is checked.
Symmetric == Permutations(Queries) \cup Permutations(Orders)
=============================================================================
