-------------------------- MODULE ResponseListener --------------------------
(***************************************************************************)
(* The rendezvous between the MATLAB thread, which issues requests through *)
(* the exported functions of fc_matlab.cpp, and the thread on which the    *)
(* ForexConnect library calls ResponseListener back.  The two threads      *)
(* share mRequestID, mResponse and the auto-reset event mResponseEvent,    *)
(* and no lock: a function of either thread is therefore split into one    *)
(* step per access to these fields.                                        *)
(*                                                                         *)
(* A call is named by the request it sends: every call creates a fresh     *)
(* one.  The response to request r is also named r.                        *)
(***************************************************************************)
EXTENDS Integers

CONSTANTS
    Queries,      \* requests whose caller waits: table refreshes, price pages
    Orders,       \* fire-and-forget requests: create, edit and delete order
    Nil           \* the NULL pointer and the empty request id

Requests == Queries \cup Orders

ASSUME RequestsAssumption ==
    /\ Queries \cap Orders = {}
    /\ Nil \notin Requests

VARIABLES
    mRequestID,      \* request we are waiting for
    mResponse,       \* response stored by the last matching callback
    mResponseEvent,  \* is the auto-reset event signalled?
    refs,            \* reference count of each response
    pc, call, held,  \* MATLAB thread: next step, its request, response it uses
    cbPc, cbReq,     \* callback thread: next step of the handler, its request
    lib,             \* what the library has done with each request
    status, answer,  \* how each call ended, and the response it was given
    straddler,       \* history: the request whose handler was at work when each
                     \* call began, or Nil: that handler disturbs the call
    crashed          \* a NULL or freed response was dereferenced

listener == <<mRequestID, mResponse, mResponseEvent>>
thread   == <<pc, call, held>>
handler  == <<cbPc, cbReq>>
results  == <<status, answer>>
vars     == <<listener, refs, thread, handler, lib, results, straddler, crashed>>

Steps == {"idle", "clear", "release", "null", "reset", "send", "wait",
          "get", "ref", "return", "use"}
HandlerSteps == {"idle", "store", "addRef", "signal", "signalFailure", "drop"}

\* A type invariant.
TypeOK ==
    /\ mRequestID \in Requests \cup {Nil}
    /\ mResponse \in Requests \cup {Nil}
    /\ mResponseEvent \in BOOLEAN
    /\ refs \in [Requests -> Nat]
    /\ pc \in Steps
    /\ call \in Requests \cup {Nil}
    /\ held \in Requests \cup {Nil}
    /\ cbPc \in HandlerSteps
    /\ cbReq \in Requests \cup {Nil}
    /\ lib \in [Requests -> {"new", "sent", "completed", "ignored", "failed"}]
    /\ status \in [Requests -> {"new", "open", "sent", "answered", "timedOut"}]
    /\ answer \in [Requests -> Requests \cup {Nil}]
    /\ straddler \in [Requests -> Requests \cup {Nil}]
    /\ crashed \in BOOLEAN

Init ==
    /\ mRequestID = Nil
    /\ mResponse = Nil
    /\ mResponseEvent = FALSE
    /\ refs = [r \in Requests |-> 0]
    /\ pc = "idle" /\ call = Nil /\ held = Nil
    /\ cbPc = "idle" /\ cbReq = Nil
    /\ lib = [r \in Requests |-> "new"]
    /\ status = [r \in Requests |-> "new"]
    /\ answer = [r \in Requests |-> Nil]
    /\ straddler = [r \in Requests |-> Nil]
    /\ crashed = FALSE

-----------------------------------------------------------------------------
(* The MATLAB thread                                                       *)

\* A handler has passed its test of mRequestID and still writes our fields.
InHandler == cbPc \in {"store", "addRef", "signal", "signalFailure"}

\* p points to a live response.
Live(p) == p # Nil /\ refs[p] > 0

\* A call begins: its request is created and setRequestID stores the id.  The
\* assignment of the string is one step: a handler that compares a string half
\* written finds what it would have found just before or just after.
Call(r) ==
    /\ pc = "idle"
    /\ status[r] = "new"
    /\ mRequestID' = r
    /\ pc' = "clear"
    /\ call' = r
    /\ status' = [status EXCEPT ![r] = "open"]
    /\ straddler' = [straddler EXCEPT ![r] = IF InHandler THEN cbReq ELSE Nil]
    /\ UNCHANGED <<mResponse, mResponseEvent, refs, held, handler, lib, answer,
                   crashed>>

\* Mutant: setRequestID keeps the response of the previous request.
ClearTestKeeps ==
    /\ pc = "clear"
    /\ pc' = "reset"
    /\ UNCHANGED <<listener, refs, call, held, handler, lib, results, straddler,
                   crashed>>

\* if (mResponse)
ClearTest ==
    /\ pc = "clear"
    /\ pc' = IF mResponse = Nil THEN "reset" ELSE "release"
    /\ UNCHANGED <<listener, refs, call, held, handler, lib, results, straddler,
                   crashed>>

\* mResponse->release()
ClearRelease ==
    /\ pc = "release"
    /\ IF Live(mResponse)
         THEN /\ refs' = [refs EXCEPT ![mResponse] = @ - 1]
              /\ pc' = "null"
              /\ UNCHANGED crashed
         ELSE crashed' = TRUE /\ UNCHANGED <<refs, pc>>
    /\ UNCHANGED <<listener, call, held, handler, lib, results, straddler>>

\* mResponse = NULL
ClearNull ==
    /\ pc = "null"
    /\ mResponse' = Nil
    /\ pc' = "reset"
    /\ UNCHANGED <<mRequestID, mResponseEvent, refs, call, held, handler, lib,
                   results, straddler, crashed>>

\* Mutant: setRequestID leaves the event of the previous request signalled.
ResetEventForgotten ==
    /\ pc = "reset"
    /\ pc' = "send"
    /\ UNCHANGED <<listener, refs, call, held, handler, lib, results, straddler,
                   crashed>>

\* ResetEvent, the end of setRequestID
ResetEvent ==
    /\ pc = "reset"
    /\ mResponseEvent' = FALSE
    /\ pc' = "send"
    /\ UNCHANGED <<mRequestID, mResponse, refs, call, held, handler, lib,
                   results, straddler, crashed>>

\* session->sendRequest: a query then waits, an order only sleeps and returns.
SendRequest ==
    /\ pc = "send"
    /\ lib' = [lib EXCEPT ![call] = "sent"]
    /\ IF call \in Queries
         THEN pc' = "wait" /\ UNCHANGED status
         ELSE pc' = "idle" /\ status' = [status EXCEPT ![call] = "sent"]
    /\ UNCHANGED <<listener, refs, call, held, handler, answer, straddler, crashed>>

\* waitEvents returns true and consumes the auto-reset event.
Wake ==
    /\ pc = "wait"
    /\ mResponseEvent
    /\ mResponseEvent' = FALSE
    /\ pc' = "get"
    /\ UNCHANGED <<mRequestID, mResponse, refs, call, held, handler, lib, results,
                   straddler, crashed>>

\* Mutant: waitEvents waits again instead of giving up.
TimeoutWaitsAgain ==
    /\ pc = "wait"
    /\ ~mResponseEvent
    /\ UNCHANGED vars

\* waitEvents returns false after _TIMEOUT, and the caller gives up.
Timeout ==
    /\ pc = "wait"
    /\ ~mResponseEvent
    /\ pc' = "idle"
    /\ status' = [status EXCEPT ![call] = "timedOut"]
    /\ UNCHANGED <<listener, refs, call, held, handler, lib, answer, straddler,
                   crashed>>

\* Mutant: getResponse hands out mResponse without a reference of its own.
GetTestNoAddRef ==
    /\ pc = "get"
    /\ pc' = "return"
    /\ UNCHANGED <<listener, refs, call, held, handler, lib, results, straddler,
                   crashed>>

\* getResponse: if (mResponse)
GetTest ==
    /\ pc = "get"
    /\ pc' = IF mResponse = Nil THEN "return" ELSE "ref"
    /\ UNCHANGED <<listener, refs, call, held, handler, lib, results, straddler,
                   crashed>>

\* getResponse: mResponse->addRef()
GetAddRef ==
    /\ pc = "ref"
    /\ IF Live(mResponse)
         THEN /\ refs' = [refs EXCEPT ![mResponse] = @ + 1]
              /\ pc' = "return"
              /\ UNCHANGED crashed
         ELSE crashed' = TRUE /\ UNCHANGED <<refs, pc>>
    /\ UNCHANGED <<listener, call, held, handler, lib, results, straddler>>

\* getResponse: return mResponse, which the caller keeps in an O2G2Ptr
GetReturn ==
    /\ pc = "return"
    /\ held' = mResponse
    /\ answer' = [answer EXCEPT ![call] = mResponse]
    /\ pc' = "use"
    /\ UNCHANGED <<listener, refs, call, handler, lib, status, straddler, crashed>>

\* Mutant: the caller releases the response that its O2G2Ptr releases too.
UseAndReleaseTwice ==
    /\ pc = "use"
    /\ IF held = Nil \/ Live(held)
         THEN /\ refs' = IF held = Nil THEN refs ELSE [refs EXCEPT ![held] = @ - 2]
              /\ status' = [status EXCEPT ![call] = "answered"]
              /\ pc' = "idle" /\ held' = Nil
              /\ UNCHANGED crashed
         ELSE crashed' = TRUE /\ UNCHANGED <<refs, status, pc, held>>
    /\ UNCHANGED <<listener, call, handler, lib, answer, straddler>>

\* The caller has read the response; its O2G2Ptr releases it on return.
UseAndReturn ==
    /\ pc = "use"
    /\ IF held = Nil \/ Live(held)
         THEN /\ refs' = IF held = Nil THEN refs ELSE [refs EXCEPT ![held] = @ - 1]
              /\ status' = [status EXCEPT ![call] = "answered"]
              /\ pc' = "idle" /\ held' = Nil
              /\ UNCHANGED crashed
         ELSE crashed' = TRUE /\ UNCHANGED <<refs, status, pc, held>>
    /\ UNCHANGED <<listener, call, handler, lib, answer, straddler>>

-----------------------------------------------------------------------------
(* The callback thread                                                     *)

\* onRequestCompleted is called and tests (response && mRequestID == requestId).
\* The library owns a reference to the response until the handler returns.
OnRequestCompleted(r) ==
    /\ cbPc = "idle"
    /\ lib[r] = "sent"
    /\ lib' = [lib EXCEPT ![r] = "completed"]
    /\ IF mRequestID = r
         THEN /\ cbPc' = "store" /\ cbReq' = r
              /\ refs' = [refs EXCEPT ![r] = 1]
         ELSE UNCHANGED <<handler, refs>>
    /\ UNCHANGED <<listener, thread, results, straddler, crashed>>

\* onRequestCompleted is called without a response and does nothing.
OnRequestCompletedEmpty(r) ==
    /\ cbPc = "idle"
    /\ lib[r] = "sent"
    /\ lib' = [lib EXCEPT ![r] = "ignored"]
    /\ UNCHANGED <<listener, refs, thread, handler, results, straddler, crashed>>

\* mResponse = response
Store ==
    /\ cbPc = "store"
    /\ mResponse' = cbReq
    /\ cbPc' = "addRef"
    /\ UNCHANGED <<mRequestID, mResponseEvent, refs, thread, cbReq, lib, results,
                   straddler, crashed>>

\* Mutant: the test of the response type is inverted.
StoreAddRefInverted ==
    /\ cbPc = "addRef"
    /\ IF Live(mResponse)
         THEN /\ refs' = [refs EXCEPT ![mResponse] = @ + 1]
              /\ cbPc' = IF cbReq \in Orders THEN "signal" ELSE "drop"
              /\ UNCHANGED crashed
         ELSE crashed' = TRUE /\ UNCHANGED <<refs, cbPc>>
    /\ UNCHANGED <<listener, thread, cbReq, lib, results, straddler>>

\* mResponse->addRef() reads the field again; only an order's CreateOrderResponse
\* leaves the event alone.
StoreAddRef ==
    /\ cbPc = "addRef"
    /\ IF Live(mResponse)
         THEN /\ refs' = [refs EXCEPT ![mResponse] = @ + 1]
              /\ cbPc' = IF cbReq \in Orders THEN "drop" ELSE "signal"
              /\ UNCHANGED crashed
         ELSE crashed' = TRUE /\ UNCHANGED <<refs, cbPc>>
    /\ UNCHANGED <<listener, thread, cbReq, lib, results, straddler>>

\* SetEvent in onRequestCompleted
SignalAnswer ==
    /\ cbPc = "signal"
    /\ mResponseEvent' = TRUE
    /\ cbPc' = "drop"
    /\ UNCHANGED <<mRequestID, mResponse, refs, thread, cbReq, lib, results,
                   straddler, crashed>>

\* The handler has returned; the library drops its own reference.
LibraryDrop ==
    /\ cbPc = "drop"
    /\ IF Live(cbReq)
         THEN /\ refs' = [refs EXCEPT ![cbReq] = @ - 1]
              /\ cbPc' = "idle" /\ cbReq' = Nil
              /\ UNCHANGED crashed
         ELSE crashed' = TRUE /\ UNCHANGED <<refs, handler>>
    /\ UNCHANGED <<listener, thread, lib, results, straddler>>

\* onRequestFailed is called and tests mRequestID == requestId.
OnRequestFailed(r) ==
    /\ cbPc = "idle"
    /\ lib[r] = "sent"
    /\ lib' = [lib EXCEPT ![r] = "failed"]
    /\ IF mRequestID = r
         THEN cbPc' = "signalFailure" /\ cbReq' = r
         ELSE UNCHANGED handler
    /\ UNCHANGED <<listener, refs, thread, results, straddler, crashed>>

\* SetEvent in onRequestFailed, which leaves mResponse alone
SignalFailure ==
    /\ cbPc = "signalFailure"
    /\ mResponseEvent' = TRUE
    /\ cbPc' = "idle" /\ cbReq' = Nil
    /\ UNCHANGED <<mRequestID, mResponse, refs, thread, lib, results, straddler,
                   crashed>>

-----------------------------------------------------------------------------
\* setRequestID after its first assignment
SetRequestID == ClearTest \/ ClearRelease \/ ClearNull \/ ResetEvent

GetResponse == GetTest \/ GetAddRef \/ GetReturn

\* The rest of a call once it has begun
Proceed == SetRequestID \/ SendRequest \/ Wake \/ Timeout \/ GetResponse
             \/ UseAndReturn

\* The rest of a handler once the library has called it
Handle == Store \/ StoreAddRef \/ SignalAnswer \/ LibraryDrop \/ SignalFailure

\* The library may answer a request it was sent, in any way and in any order.
Answer(r) == OnRequestCompleted(r) \/ OnRequestCompletedEmpty(r) \/ OnRequestFailed(r)

\* Nothing is claimed of what follows the use of a NULL or freed response.
Next ==
    /\ ~crashed
    /\ \/ \E r \in Requests : Call(r)
       \/ Proceed
       \/ \E r \in Requests : Answer(r)
       \/ Handle

\* Both threads are scheduled; the library need not answer and MATLAB need not
\* call.  The timeout is a step of the waiting thread.
Fairness == WF_vars(~crashed /\ Proceed) /\ WF_vars(~crashed /\ Handle)

SafetySpec == Init /\ [][Next]_vars
Spec == SafetySpec /\ Fairness

-----------------------------------------------------------------------------
(* Properties                                                              *)

\* waitEvents never sleeps through an answer: once the library has completed or
\* failed the request the MATLAB thread waits for, the event is set or the
\* handler that will set it is running.  It rests on ResetEvent preceding
\* sendRequest in every caller.
NoLostWakeup ==
    ~crashed /\ pc = "wait" /\ lib[call] \in {"completed", "failed"} =>
        mResponseEvent \/ (InHandler /\ cbReq = call)

Disturbed(r) == straddler[r] # Nil
NoneDisturbed == \A r \in Requests : ~ Disturbed(r)

\* A call that did not begin while a handler of an earlier request was at work is
\* never given the answer of another request, nor told of a failure that is not
\* its own: getResponse returns its own response when the library completed the
\* request and NULL only when the library failed it.
UndisturbedAnswer ==
    \A r \in Requests : ~ Disturbed(r) /\ status[r] = "answered" =>
        \/ answer[r] = r /\ lib[r] = "completed"
        \/ answer[r] = Nil /\ lib[r] = "failed"

\* A disturbed call may be given a response that is not its own, but only that of
\* the one request whose handler it began under: no response that an earlier call
\* left behind, none of a request that was superseded before, and none of an order
\* or query answered meanwhile.
ForeignAnswerIsStraddlers ==
    \A r \in Requests : answer[r] \in {Nil, r, straddler[r]}

\* The references to a response that the library, the listener's mResponse and
\* the caller's O2G2Ptr own.
Owned(r) ==
    (IF cbReq = r /\ cbPc \in {"store", "addRef", "signal", "drop"} THEN 1 ELSE 0)
      + (IF mResponse = r /\ ~(cbReq = r /\ cbPc = "addRef") /\ pc # "null"
           THEN 1 ELSE 0)
      + (IF held = r \/ (pc = "return" /\ mResponse = r) THEN 1 ELSE 0)

\* As long as no call was disturbed, the count of every response is the number of
\* its owners: none is leaked when mResponse is overwritten, none is freed in use,
\* and so no NULL or freed response is ever dereferenced.
RefsBalanced ==
    NoneDisturbed => ~crashed /\ \A r \in Requests : refs[r] = Owned(r)

\* Every call of the MATLAB thread returns, whether or not the library answers:
\* no wait for an answer outlasts its timeout.
CallReturns == \A r \in Requests :
    status[r] = "open" ~> (status[r] # "open" \/ crashed)

\* What a caller is promised, read off the history of the requests
Promise == INSTANCE RequestReply WITH
    Queries <- Queries, Orders <- Orders, Nil <- Nil, lib <- lib,
    status <- status, answer <- answer, straddler <- straddler, crashed <- crashed

\* The rendezvous keeps the promise of RequestReply: one call at a time, which
\* ends with its own answer, its own failure, a timeout, or just sent; only a call
\* that began while a handler was at work may be given something else, which is
\* the answer handled then or nothing, and nothing crashes before there was one.
KeepsPromise == Promise!Spec
=============================================================================
