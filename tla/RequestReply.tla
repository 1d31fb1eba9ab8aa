---------------------------- MODULE RequestReply ----------------------------
(***************************************************************************)
(* What the exported functions promise of a request, without the listener  *)
(* that keeps the promise: one call at a time, which ends with the own     *)
(* response, with the own failure, with a timeout or, for an order, as     *)
(* soon as the request is sent.  A call is disturbed if the answer to an   *)
(* earlier one, its straddler, is still being handled when it begins: it   *)
(* may return with the straddler's response instead, or with nothing; and  *)
(* once there was such a call, the program may crash.                      *)
(***************************************************************************)
CONSTANTS Queries, Orders, Nil

VARIABLES
    lib,             \* what the library has done with each request
    status, answer,  \* how each call ended, and the response it was given
    straddler, crashed

vars == <<lib, status, answer, straddler, crashed>>

Requests == Queries \cup Orders

Init ==
    /\ lib = [r \in Requests |-> "new"]
    /\ status = [r \in Requests |-> "new"]
    /\ answer = [r \in Requests |-> Nil]
    /\ straddler = [r \in Requests |-> Nil]
    /\ crashed = FALSE

\* Requests whose answer may still be being handled
Handled == {q \in Requests : lib[q] \in {"completed", "failed"}}

\* A call begins when no other is open.
Issue(r) ==
    /\ status[r] = "new"
    /\ \A q \in Requests : status[q] # "open"
    /\ status' = [status EXCEPT ![r] = "open"]
    /\ \E s \in Handled \cup {Nil} : straddler' = [straddler EXCEPT ![r] = s]
    /\ UNCHANGED <<lib, answer, crashed>>

SendQuery(r) ==
    /\ r \in Queries /\ status[r] = "open" /\ lib[r] = "new"
    /\ lib' = [lib EXCEPT ![r] = "sent"]
    /\ UNCHANGED <<status, answer, straddler, crashed>>

\* An order call does not wait for the answer.
SendOrder(r) ==
    /\ r \in Orders /\ status[r] = "open" /\ lib[r] = "new"
    /\ lib' = [lib EXCEPT ![r] = "sent"]
    /\ status' = [status EXCEPT ![r] = "sent"]
    /\ UNCHANGED <<answer, straddler, crashed>>

\* The library answers a request once, whether or not its caller still waits.
Serve(r) ==
    /\ lib[r] = "sent"
    /\ \E s \in {"completed", "ignored", "failed"} : lib' = [lib EXCEPT ![r] = s]
    /\ UNCHANGED <<status, answer, straddler, crashed>>

\* The caller is given its own response, or its straddler's, ...
Accept(r) ==
    /\ status[r] = "open" /\ lib[r] # "new" /\ answer[r] = Nil
    /\ \E p \in {r, straddler[r]} \ {Nil} :
         lib[p] = "completed" /\ answer' = [answer EXCEPT ![r] = p]
    /\ UNCHANGED <<lib, status, straddler, crashed>>

\* ... and returns with it, or with nothing because its own request failed, ...
Return(r) ==
    /\ status[r] = "open" /\ lib[r] # "new"
    /\ straddler[r] = Nil => answer[r] = r \/ lib[r] = "failed"
    /\ status' = [status EXCEPT ![r] = "answered"]
    /\ UNCHANGED <<lib, answer, straddler, crashed>>

\* ... or gives up, even though an answer may already be on its way.
GiveUp(r) ==
    /\ r \in Queries
    /\ status[r] = "open" /\ lib[r] # "new" /\ answer[r] = Nil
    /\ status' = [status EXCEPT ![r] = "timedOut"]
    /\ UNCHANGED <<lib, answer, straddler, crashed>>

Crash ==
    /\ \E r \in Requests : straddler[r] # Nil
    /\ crashed' = TRUE
    /\ UNCHANGED <<lib, status, answer, straddler>>

Next ==
    /\ ~crashed
    /\ \/ \E r \in Requests :
            \/ Issue(r) \/ SendQuery(r) \/ SendOrder(r) \/ Serve(r)
            \/ Accept(r) \/ Return(r) \/ GiveUp(r)
       \/ Crash

Spec == Init /\ [][Next]_vars
=============================================================================
