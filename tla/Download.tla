------------------------------ MODULE Download ------------------------------
(***************************************************************************)
(* What a download promises of the quotes it keeps, without the pages, the *)
(* requests and the file that keep the promise: from the first page to     *)
(* the end, and however it ends, they are the newest quotes of the period, *)
(* with no gap and no others.  Whether they can be kept at all shows with  *)
(* the first page.                                                         *)
(***************************************************************************)
EXTENDS Naturals

CONSTANT Dates

VARIABLES quotes, from, to, bound, running, kept, stored

vars == <<quotes, from, to, bound, running, kept, stored>>

Newest == {q \in quotes : bound <= q /\ q <= to}

Init ==
    /\ quotes \subseteq Dates
    /\ from \in Dates /\ to = from /\ bound = from
    /\ running = FALSE /\ kept = FALSE
    /\ stored = {}

\* What the last download has kept is no longer spoken of.
Begin ==
    /\ ~running
    /\ from' \in Dates /\ to' \in Dates /\ from' < to'
    /\ bound' = to'
    /\ running' = TRUE /\ kept' = FALSE
    /\ stored' = {}
    /\ UNCHANGED quotes

Page ==
    /\ running
    /\ bound' \in Dates /\ from <= bound' /\ bound' < bound
    /\ kept' \in IF bound = to THEN BOOLEAN ELSE {kept}
    /\ stored' = IF kept' THEN Newest' ELSE {}
    /\ running' \in BOOLEAN
    /\ UNCHANGED <<quotes, from, to>>

End ==
    /\ running
    /\ running' = FALSE
    /\ UNCHANGED <<quotes, from, to, bound, kept, stored>>

Next == Begin \/ Page \/ End

Spec == Init /\ [][Next]_vars
=============================================================================
