------------------------------ MODULE Placement ------------------------------
(***************************************************************************)
(* What the order functions promise of the requests they place, without    *)
(* the table of orders, the search and the IDs: a call places no requests  *)
(* but those its arguments ask for, in their order and each once, and the  *)
(* 0 that tells of a failure means that nothing has been placed, so that   *)
(* the call may be made again.                                             *)
(***************************************************************************)
EXTENDS SequencesExt

CONSTANTS
    Calls, NoCall,
    Asked,       \* for each call, the sequences of requests it may have placed
    Partial,     \* calls whose 1 does not tell how much has been placed
    Mute         \* calls whose result tells nothing

VARIABLES call, running, placed, result

vars == <<call, running, placed, result>>

Init ==
    /\ call = NoCall
    /\ running = FALSE
    /\ placed = <<>>
    /\ result = 0

Results(c, requests) ==
    {r \in {0, 1} : c \notin Mute =>
                      /\ r = 0 => requests = <<>>
                      /\ r = 1 => requests # <<>> \/ c \in Partial}

Begin(c) ==
    /\ ~running
    /\ running' = TRUE
    /\ call' = c
    /\ placed' = <<>>
    /\ UNCHANGED result

Place ==
    /\ running
    /\ IsPrefix(placed, placed')
    /\ placed' \in Asked[call]
    /\ UNCHANGED <<call, running, result>>

\* The last request may be placed as the call returns.
Return ==
    /\ running
    /\ running' = FALSE
    /\ IsPrefix(placed, placed')
    /\ placed' \in Asked[call]
    /\ result' \in Results(call, placed')
    /\ UNCHANGED call

\* A call that does not wait begins, places its request and returns.
Pass(c) ==
    /\ ~running
    /\ call' = c
    /\ placed' \in Asked[c]
    /\ result' \in Results(c, placed')
    /\ UNCHANGED running

Next == (\E c \in Calls : Begin(c) \/ Pass(c)) \/ Place \/ Return

Spec == Init /\ [][Next]_vars
=============================================================================
