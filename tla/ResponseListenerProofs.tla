------------------------ MODULE ResponseListenerProofs ------------------------
(***************************************************************************)
(* Proofs about ResponseListener, for any set of requests.                 *)
(***************************************************************************)
EXTENDS ResponseListener, TLAPS

LEMMA NextDisjuncts ==
    ASSUME Next
    PROVE  \/ \E r \in Requests : Call(r)
           \/ ClearTest \/ ClearRelease \/ ClearNull \/ ResetEvent
           \/ SendRequest \/ Wake \/ Timeout
           \/ GetTest \/ GetAddRef \/ GetReturn \/ UseAndReturn
           \/ \E r \in Requests : OnRequestCompleted(r)
           \/ \E r \in Requests : OnRequestCompletedEmpty(r)
           \/ \E r \in Requests : OnRequestFailed(r)
           \/ Store \/ StoreAddRef \/ SignalAnswer \/ LibraryDrop \/ SignalFailure
  BY DEF Next, Proceed, SetRequestID, GetResponse, Answer, Handle

-----------------------------------------------------------------------------
(* How the two threads' positions and the fate of each request relate      *)

\* The call in progress is the one the listener waits for, and it is open.
CallMatches ==
    /\ mRequestID = call
    /\ pc # "idle" => call \in Requests /\ status[call] = "open"
    /\ pc \in {"clear", "release", "null", "reset", "send"} => lib[call] = "new"
    /\ pc \in {"wait", "get", "ref", "return", "use"} =>
         call \in Queries /\ lib[call] # "new"
    /\ pc # "use" => held = Nil

\* A handler at work has a request that the library has answered.
HandlerMatches ==
    /\ cbPc # "idle" => cbReq \in Requests
    /\ cbPc = "idle" => cbReq = Nil
    /\ cbPc \in {"store", "addRef", "signal", "drop"} => lib[cbReq] = "completed"
    /\ cbPc = "signalFailure" => lib[cbReq] = "failed"

\* A request that was never made is unknown to the library and the listener.
NewUnknown ==
    \A r \in Requests : status[r] = "new" =>
        lib[r] = "new" /\ r # call /\ straddler[r] = Nil

Bookkeeping == TypeOK /\ CallMatches /\ HandlerMatches /\ NewUnknown

LEMMA BookkeepingInit == Init => Bookkeeping
  <1> SUFFICES ASSUME Init PROVE Bookkeeping
    OBVIOUS
  <1> Nil \notin Requests
    BY RequestsAssumption
  <1>1. TypeOK
    BY DEF Init, TypeOK, Steps, HandlerSteps
  <1>2. CallMatches /\ HandlerMatches /\ NewUnknown
    BY DEF Init, CallMatches, HandlerMatches, NewUnknown
  <1> QED
    BY <1>1, <1>2 DEF Bookkeeping

\* Counting a live response up or down leaves a natural number.
LEMMA CountOfLive ==
    ASSUME refs \in [Requests -> Nat], NEW p \in Requests \cup {Nil}, Live(p)
    PROVE  /\ p \in Requests
           /\ [refs EXCEPT ![p] = @ + 1] \in [Requests -> Nat]
           /\ [refs EXCEPT ![p] = @ - 1] \in [Requests -> Nat]
  BY DEF Live

LEMMA BookkeepingStep ==
    ASSUME Bookkeeping, [Next]_vars
    PROVE  Bookkeeping'
  <1> USE RequestsAssumption
      DEF Bookkeeping, TypeOK, CallMatches, HandlerMatches, NewUnknown, Steps,
          HandlerSteps, listener, thread, handler, results
  <1> Requests = Queries \cup Orders
    BY DEF Requests
  <1>1. ASSUME NEW r \in Requests, Call(r) PROVE Bookkeeping'
    BY <1>1 DEF Call
  <1>2. CASE ClearTest
    BY <1>2 DEF ClearTest
  <1>3. CASE ClearRelease
    <2>1. refs' \in [Requests -> Nat]
      BY <1>3, CountOfLive DEF ClearRelease
    <2> QED
      BY <1>3, <2>1 DEF ClearRelease
  <1>4. CASE ClearNull
    BY <1>4 DEF ClearNull
  <1>5. CASE ResetEvent
    BY <1>5 DEF ResetEvent
  <1>6. CASE SendRequest
    BY <1>6 DEF SendRequest
  <1>7. CASE Wake
    BY <1>7 DEF Wake
  <1>8. CASE Timeout
    BY <1>8 DEF Timeout
  <1>9. CASE GetTest
    BY <1>9 DEF GetTest
  <1>10. CASE GetAddRef
    <2>1. refs' \in [Requests -> Nat]
      BY <1>10, CountOfLive DEF GetAddRef
    <2> QED
      BY <1>10, <2>1 DEF GetAddRef
  <1>11. CASE GetReturn
    BY <1>11 DEF GetReturn
  <1>12. CASE UseAndReturn
    <2>1. refs' \in [Requests -> Nat]
      BY <1>12, CountOfLive DEF UseAndReturn
    <2> QED
      BY <1>12, <2>1 DEF UseAndReturn
  <1>13. ASSUME NEW r \in Requests, OnRequestCompleted(r) PROVE Bookkeeping'
    BY <1>13 DEF OnRequestCompleted
  <1>14. ASSUME NEW r \in Requests, OnRequestCompletedEmpty(r) PROVE Bookkeeping'
    BY <1>14 DEF OnRequestCompletedEmpty
  <1>15. ASSUME NEW r \in Requests, OnRequestFailed(r) PROVE Bookkeeping'
    BY <1>15 DEF OnRequestFailed
  <1>16. CASE Store
    BY <1>16 DEF Store
  <1>17. CASE StoreAddRef
    <2>1. refs' \in [Requests -> Nat]
      BY <1>17, CountOfLive DEF StoreAddRef
    <2> QED
      BY <1>17, <2>1 DEF StoreAddRef
  <1>18. CASE SignalAnswer
    BY <1>18 DEF SignalAnswer
  <1>19. CASE LibraryDrop
    <2>1. refs' \in [Requests -> Nat]
      BY <1>19, CountOfLive DEF LibraryDrop
    <2> QED
      BY <1>19, <2>1 DEF LibraryDrop
  <1>20. CASE SignalFailure
    BY <1>20 DEF SignalFailure
  <1>21. CASE UNCHANGED vars
    BY <1>21 DEF vars
  <1> QED
    BY <1>1, <1>2, <1>3, <1>4, <1>5, <1>6, <1>7, <1>8, <1>9, <1>10, <1>11, <1>12,
       <1>13, <1>14, <1>15, <1>16, <1>17, <1>18, <1>19, <1>20, <1>21, NextDisjuncts

THEOREM BookkeepingHolds == SafetySpec => []Bookkeeping
  BY BookkeepingInit, BookkeepingStep, PTL DEF SafetySpec

\* The types of all variables; in particular no reference count is ever negative.
THEOREM TypeCorrect == SafetySpec => []TypeOK
  BY BookkeepingHolds, PTL DEF Bookkeeping

-----------------------------------------------------------------------------
(* No lost wake-up                                                         *)

LEMMA WakeupStep ==
    ASSUME Bookkeeping, NoLostWakeup, [Next]_vars
    PROVE  NoLostWakeup'
  <1> USE RequestsAssumption
      DEF Bookkeeping, TypeOK, CallMatches, HandlerMatches, NoLostWakeup, InHandler,
          listener, thread, handler, results
  <1> Requests = Queries \cup Orders /\ Queries \cap Orders = {}
    BY DEF Requests
  <1> ~crashed \/ UNCHANGED vars
    BY DEF Next
  <1>1. ASSUME NEW r \in Requests, Call(r) PROVE NoLostWakeup'
    BY <1>1 DEF Call
  <1>2. CASE ClearTest
    BY <1>2 DEF ClearTest
  <1>3. CASE ClearRelease
    BY <1>3 DEF ClearRelease
  <1>4. CASE ClearNull
    BY <1>4 DEF ClearNull
  <1>5. CASE ResetEvent
    BY <1>5 DEF ResetEvent
  <1>6. CASE SendRequest
    BY <1>6 DEF SendRequest
  <1>7. CASE Wake
    BY <1>7 DEF Wake
  <1>8. CASE Timeout
    BY <1>8 DEF Timeout
  <1>9. CASE GetTest
    BY <1>9 DEF GetTest
  <1>10. CASE GetAddRef
    BY <1>10 DEF GetAddRef
  <1>11. CASE GetReturn
    BY <1>11 DEF GetReturn
  <1>12. CASE UseAndReturn
    BY <1>12 DEF UseAndReturn
  <1>13. ASSUME NEW r \in Requests, OnRequestCompleted(r) PROVE NoLostWakeup'
    BY <1>13 DEF OnRequestCompleted
  <1>14. ASSUME NEW r \in Requests, OnRequestCompletedEmpty(r) PROVE NoLostWakeup'
    BY <1>14 DEF OnRequestCompletedEmpty
  <1>15. ASSUME NEW r \in Requests, OnRequestFailed(r) PROVE NoLostWakeup'
    BY <1>15 DEF OnRequestFailed
  <1>16. CASE Store
    BY <1>16 DEF Store
  <1>17. CASE StoreAddRef
    BY <1>17 DEF StoreAddRef
  <1>18. CASE SignalAnswer
    BY <1>18 DEF SignalAnswer
  <1>19. CASE LibraryDrop
    BY <1>19 DEF LibraryDrop
  <1>20. CASE SignalFailure
    BY <1>20 DEF SignalFailure
  <1>21. CASE UNCHANGED vars
    BY <1>21 DEF vars
  <1> QED
    BY <1>1, <1>2, <1>3, <1>4, <1>5, <1>6, <1>7, <1>8, <1>9, <1>10, <1>11, <1>12,
       <1>13, <1>14, <1>15, <1>16, <1>17, <1>18, <1>19, <1>20, <1>21, NextDisjuncts

\* waitEvents never sleeps through an answer, however the threads interleave.
THEOREM NoWakeupLost == SafetySpec => []NoLostWakeup
  <1>1. Init => NoLostWakeup
    BY DEF Init, NoLostWakeup
  <1> QED
    BY <1>1, BookkeepingHolds, WakeupStep, PTL DEF SafetySpec

-----------------------------------------------------------------------------
(* What an undisturbed call is given                                       *)

Undisturbed == call \in Requests => ~ Disturbed(call)
Clearing == pc \in {"clear", "release", "null"}

\* The library has completed the request and its response is stored.
Completed == lib[call] = "completed" /\ mResponse = call

\* A handler at work serves the call in progress, which has stored nothing yet.
OwnHandler ==
    Undisturbed =>
        /\ InHandler => cbReq = call
        /\ cbPc = "store" => mResponse = Nil
        /\ cbPc \in {"addRef", "signal"} => mResponse = call

\* The listener holds no response but the one of this call.
OwnResponse == Undisturbed /\ ~Clearing => mResponse = Nil \/ Completed

\* The event tells of an answer to this call.
OwnEvent ==
    Undisturbed /\ mResponseEvent /\ ~Clearing /\ pc # "reset" =>
        Completed \/ lib[call] = "failed"

\* What getResponse finds once the wait is over
OwnResult ==
    Undisturbed =>
        /\ pc = "get" => Completed \/ lib[call] = "failed"
        /\ pc = "ref" => Completed
        /\ pc = "return" => Completed \/ (lib[call] = "failed" /\ mResponse = Nil)
        /\ pc = "use" => \/ lib[call] = "completed" /\ answer[call] = call
                         \/ lib[call] = "failed" /\ answer[call] = Nil

Delivery ==
    OwnHandler /\ OwnResponse /\ OwnEvent /\ OwnResult /\ UndisturbedAnswer

LEMMA DeliveryInit == Init => Delivery
  BY DEF Init, Delivery, OwnHandler, OwnResponse, OwnEvent, OwnResult,
         UndisturbedAnswer, InHandler

LEMMA DeliveryStep ==
    ASSUME Bookkeeping, Delivery, [Next]_vars
    PROVE  Delivery'
  <1> USE RequestsAssumption
      DEF Bookkeeping, TypeOK, CallMatches, HandlerMatches, NewUnknown, Delivery,
          OwnHandler, OwnResponse, OwnEvent, OwnResult, UndisturbedAnswer,
          Undisturbed, Disturbed, Clearing, Completed, InHandler, listener, thread,
          handler, results
  <1> Requests = Queries \cup Orders /\ Queries \cap Orders = {}
    BY DEF Requests
  <1>1. ASSUME NEW r \in Requests, Call(r) PROVE Delivery'
    BY <1>1 DEF Call
  <1>2. CASE ClearTest
    BY <1>2 DEF ClearTest
  <1>3. CASE ClearRelease
    BY <1>3 DEF ClearRelease
  <1>4. CASE ClearNull
    BY <1>4 DEF ClearNull
  <1>5. CASE ResetEvent
    BY <1>5 DEF ResetEvent
  <1>6. CASE SendRequest
    BY <1>6 DEF SendRequest
  <1>7. CASE Wake
    BY <1>7 DEF Wake
  <1>8. CASE Timeout
    BY <1>8 DEF Timeout
  <1>9. CASE GetTest
    BY <1>9 DEF GetTest
  <1>10. CASE GetAddRef
    BY <1>10 DEF GetAddRef
  <1>11. CASE GetReturn
    BY <1>11 DEF GetReturn
  <1>12. CASE UseAndReturn
    BY <1>12 DEF UseAndReturn
  <1>13. ASSUME NEW r \in Requests, OnRequestCompleted(r) PROVE Delivery'
    BY <1>13 DEF OnRequestCompleted
  <1>14. ASSUME NEW r \in Requests, OnRequestCompletedEmpty(r) PROVE Delivery'
    BY <1>14 DEF OnRequestCompletedEmpty
  <1>15. ASSUME NEW r \in Requests, OnRequestFailed(r) PROVE Delivery'
    BY <1>15 DEF OnRequestFailed
  <1>16. CASE Store
    BY <1>16 DEF Store
  <1>17. CASE StoreAddRef
    BY <1>17 DEF StoreAddRef
  <1>18. CASE SignalAnswer
    BY <1>18 DEF SignalAnswer
  <1>19. CASE LibraryDrop
    BY <1>19 DEF LibraryDrop
  <1>20. CASE SignalFailure
    BY <1>20 DEF SignalFailure
  <1>21. CASE UNCHANGED vars
    BY <1>21 DEF vars
  <1> QED
    BY <1>1, <1>2, <1>3, <1>4, <1>5, <1>6, <1>7, <1>8, <1>9, <1>10, <1>11, <1>12,
       <1>13, <1>14, <1>15, <1>16, <1>17, <1>18, <1>19, <1>20, <1>21, NextDisjuncts

THEOREM DeliveryHolds == SafetySpec => []Delivery
  BY BookkeepingHolds, DeliveryInit, DeliveryStep, PTL DEF SafetySpec

\* A call that no handler of an earlier request disturbs is given its own response
\* or told of its own failure, whatever the two threads do meanwhile.
THEOREM OwnAnswerOnly == SafetySpec => []UndisturbedAnswer
  BY DeliveryHolds, PTL DEF Delivery

-----------------------------------------------------------------------------
(* Reference counts                                                        *)

\* A response about to be released or handed out is there.
PointerThere ==
    /\ pc \in {"release", "null", "ref"} => mResponse # Nil
    /\ pc = "use" => held = answer[call]

Counted == PointerThere /\ RefsBalanced

LEMMA CountedInit == Init => Counted
  BY RequestsAssumption
     DEF Init, Counted, PointerThere, RefsBalanced, Owned

LEMMA CountedStep ==
    ASSUME Bookkeeping, Delivery, Counted, [Next]_vars
    PROVE  Counted'
  <1> USE RequestsAssumption
      DEF Bookkeeping, TypeOK, CallMatches, HandlerMatches, NewUnknown, Delivery,
          OwnHandler, OwnResponse, OwnResult, Undisturbed, Disturbed, NoneDisturbed,
          Clearing, Completed, InHandler, Counted, PointerThere, RefsBalanced, Owned,
          Live, listener, thread, handler, results
  <1> Requests = Queries \cup Orders
    BY DEF Requests
  <1>1. ASSUME NEW r \in Requests, Call(r) PROVE Counted'
    BY <1>1 DEF Call
  <1>2. CASE ClearTest
    BY <1>2 DEF ClearTest
  <1>3. CASE ClearRelease
    BY <1>3 DEF ClearRelease
  <1>4. CASE ClearNull
    BY <1>4 DEF ClearNull
  <1>5. CASE ResetEvent
    BY <1>5 DEF ResetEvent
  <1>6. CASE SendRequest
    BY <1>6 DEF SendRequest
  <1>7. CASE Wake
    BY <1>7 DEF Wake
  <1>8. CASE Timeout
    BY <1>8 DEF Timeout
  <1>9. CASE GetTest
    BY <1>9 DEF GetTest
  <1>10. CASE GetAddRef
    BY <1>10 DEF GetAddRef
  <1>11. CASE GetReturn
    BY <1>11 DEF GetReturn
  <1>12. CASE UseAndReturn
    BY <1>12 DEF UseAndReturn
  <1>13. ASSUME NEW r \in Requests, OnRequestCompleted(r) PROVE Counted'
    BY <1>13 DEF OnRequestCompleted
  <1>14. ASSUME NEW r \in Requests, OnRequestCompletedEmpty(r) PROVE Counted'
    BY <1>14 DEF OnRequestCompletedEmpty
  <1>15. ASSUME NEW r \in Requests, OnRequestFailed(r) PROVE Counted'
    BY <1>15 DEF OnRequestFailed
  <1>16. CASE Store
    BY <1>16 DEF Store
  <1>17. CASE StoreAddRef
    BY <1>17 DEF StoreAddRef
  <1>18. CASE SignalAnswer
    BY <1>18 DEF SignalAnswer
  <1>19. CASE LibraryDrop
    BY <1>19 DEF LibraryDrop
  <1>20. CASE SignalFailure
    BY <1>20 DEF SignalFailure
  <1>21. CASE UNCHANGED vars
    BY <1>21 DEF vars
  <1> QED
    BY <1>1, <1>2, <1>3, <1>4, <1>5, <1>6, <1>7, <1>8, <1>9, <1>10, <1>11, <1>12,
       <1>13, <1>14, <1>15, <1>16, <1>17, <1>18, <1>19, <1>20, <1>21, NextDisjuncts

\* As long as no call is disturbed, no response is leaked, freed while in use, or
\* dereferenced when NULL.
THEOREM ReferencesBalanced == SafetySpec => []RefsBalanced
  <1>1. SafetySpec => []Counted
    BY BookkeepingHolds, DeliveryHolds, CountedInit, CountedStep, PTL DEF SafetySpec
  <1> QED
    BY <1>1, PTL DEF Counted

-----------------------------------------------------------------------------
(* The promise to the callers                                              *)

\* A request that is not open has a call behind it, or none yet; no answer is
\* recorded before the call is about to return.
OneOpen ==
    /\ \A r \in Requests : status[r] = "open" => pc # "idle" /\ r = call
    /\ pc # "idle" /\ pc # "use" => answer[call] = Nil
    /\ \A r \in Requests : status[r] = "new" => answer[r] = Nil

LEMMA OneOpenStep ==
    ASSUME Bookkeeping, OneOpen, [Next]_vars
    PROVE  OneOpen'
  <1> USE RequestsAssumption
      DEF Bookkeeping, TypeOK, CallMatches, NewUnknown, OneOpen, InHandler,
          listener, thread, handler, results
  <1>1. ASSUME NEW r \in Requests, Call(r) PROVE OneOpen'
    BY <1>1 DEF Call
  <1>2. CASE ClearTest
    BY <1>2 DEF ClearTest
  <1>3. CASE ClearRelease
    BY <1>3 DEF ClearRelease
  <1>4. CASE ClearNull
    BY <1>4 DEF ClearNull
  <1>5. CASE ResetEvent
    BY <1>5 DEF ResetEvent
  <1>6. CASE SendRequest
    BY <1>6 DEF SendRequest
  <1>7. CASE Wake
    BY <1>7 DEF Wake
  <1>8. CASE Timeout
    BY <1>8 DEF Timeout
  <1>9. CASE GetTest
    BY <1>9 DEF GetTest
  <1>10. CASE GetAddRef
    BY <1>10 DEF GetAddRef
  <1>11. CASE GetReturn
    BY <1>11 DEF GetReturn
  <1>12. CASE UseAndReturn
    BY <1>12 DEF UseAndReturn
  <1>13. ASSUME NEW r \in Requests, OnRequestCompleted(r) PROVE OneOpen'
    BY <1>13 DEF OnRequestCompleted
  <1>14. ASSUME NEW r \in Requests, OnRequestCompletedEmpty(r) PROVE OneOpen'
    BY <1>14 DEF OnRequestCompletedEmpty
  <1>15. ASSUME NEW r \in Requests, OnRequestFailed(r) PROVE OneOpen'
    BY <1>15 DEF OnRequestFailed
  <1>16. CASE Store
    BY <1>16 DEF Store
  <1>17. CASE StoreAddRef
    BY <1>17 DEF StoreAddRef
  <1>18. CASE SignalAnswer
    BY <1>18 DEF SignalAnswer
  <1>19. CASE LibraryDrop
    BY <1>19 DEF LibraryDrop
  <1>20. CASE SignalFailure
    BY <1>20 DEF SignalFailure
  <1>21. CASE UNCHANGED vars
    BY <1>21 DEF vars
  <1> QED
    BY <1>1, <1>2, <1>3, <1>4, <1>5, <1>6, <1>7, <1>8, <1>9, <1>10, <1>11, <1>12,
       <1>13, <1>14, <1>15, <1>16, <1>17, <1>18, <1>19, <1>20, <1>21, NextDisjuncts

\* Where a response comes from: what a handler at work serves, and what the
\* listener holds once setRequestID has cleared it, is of this call or of its
\* straddler.
Origin ==
    /\ InHandler => cbReq \in {call, straddler[call]}
    /\ ~Clearing => mResponse \in {Nil, call, straddler[call]}
    /\ mResponse # Nil => lib[mResponse] = "completed"
    /\ ForeignAnswerIsStraddlers

LEMMA OriginStep ==
    ASSUME Bookkeeping, OneOpen, Origin, [Next]_vars
    PROVE  Origin'
  <1> USE RequestsAssumption
      DEF Bookkeeping, TypeOK, CallMatches, HandlerMatches, NewUnknown, OneOpen,
          Origin, ForeignAnswerIsStraddlers, Clearing, InHandler, listener, thread,
          handler, results
  <1>1. ASSUME NEW r \in Requests, Call(r) PROVE Origin'
    BY <1>1 DEF Call
  <1>2. CASE ClearTest
    BY <1>2 DEF ClearTest
  <1>3. CASE ClearRelease
    BY <1>3 DEF ClearRelease
  <1>4. CASE ClearNull
    BY <1>4 DEF ClearNull
  <1>5. CASE ResetEvent
    BY <1>5 DEF ResetEvent
  <1>6. CASE SendRequest
    BY <1>6 DEF SendRequest
  <1>7. CASE Wake
    BY <1>7 DEF Wake
  <1>8. CASE Timeout
    BY <1>8 DEF Timeout
  <1>9. CASE GetTest
    BY <1>9 DEF GetTest
  <1>10. CASE GetAddRef
    BY <1>10 DEF GetAddRef
  <1>11. CASE GetReturn
    BY <1>11 DEF GetReturn
  <1>12. CASE UseAndReturn
    BY <1>12 DEF UseAndReturn
  <1>13. ASSUME NEW r \in Requests, OnRequestCompleted(r) PROVE Origin'
    BY <1>13 DEF OnRequestCompleted
  <1>14. ASSUME NEW r \in Requests, OnRequestCompletedEmpty(r) PROVE Origin'
    BY <1>14 DEF OnRequestCompletedEmpty
  <1>15. ASSUME NEW r \in Requests, OnRequestFailed(r) PROVE Origin'
    BY <1>15 DEF OnRequestFailed
  <1>16. CASE Store
    BY <1>16 DEF Store
  <1>17. CASE StoreAddRef
    BY <1>17 DEF StoreAddRef
  <1>18. CASE SignalAnswer
    BY <1>18 DEF SignalAnswer
  <1>19. CASE LibraryDrop
    BY <1>19 DEF LibraryDrop
  <1>20. CASE SignalFailure
    BY <1>20 DEF SignalFailure
  <1>21. CASE UNCHANGED vars
    BY <1>21 DEF vars
  <1> QED
    BY <1>1, <1>2, <1>3, <1>4, <1>5, <1>6, <1>7, <1>8, <1>9, <1>10, <1>11, <1>12,
       <1>13, <1>14, <1>15, <1>16, <1>17, <1>18, <1>19, <1>20, <1>21, NextDisjuncts

THEOREM OriginHolds == SafetySpec => [](OneOpen /\ Origin)
  <1>1. Init => OneOpen
    BY DEF Init, OneOpen
  <1>2. Init => Origin
    BY DEF Init, Origin, InHandler, ForeignAnswerIsStraddlers
  <1> QED
    BY <1>1, <1>2, BookkeepingHolds, OneOpenStep, OriginStep, PTL DEF SafetySpec

\* Even a disturbed call is given no response but its own or its straddler's.
THEOREM NoStrangersAnswer == SafetySpec => []ForeignAnswerIsStraddlers
  BY OriginHolds, PTL DEF Origin

-----------------------------------------------------------------------------
LEMMA PromiseStep ==
    ASSUME Bookkeeping, Delivery, Counted, Counted', OneOpen, Origin, [Next]_vars
    PROVE  [Promise!Next]_Promise!vars
  <1> USE RequestsAssumption
      DEF Bookkeeping, TypeOK, CallMatches, HandlerMatches, NewUnknown, Delivery,
          OwnResult, Undisturbed, Disturbed, Completed, Counted, PointerThere,
          RefsBalanced, NoneDisturbed, OneOpen, Promise!vars, Promise!Requests, Requests, listener,
          thread, handler, results
  <1> SUFFICES ASSUME ~crashed PROVE [Promise!Next]_Promise!vars
    BY DEF Next, vars
  <1>0. ASSUME crashed', ~crashed, UNCHANGED <<lib, results, straddler>>
        PROVE  Promise!Next
    BY <1>0 DEF Promise!Next, Promise!Crash
  <1>p. ASSUME NEW r \in Requests, ~crashed,
               \/ Promise!Issue(r) \/ Promise!SendQuery(r) \/ Promise!SendOrder(r)
               \/ Promise!Serve(r) \/ Promise!Accept(r) \/ Promise!Return(r)
               \/ Promise!GiveUp(r)
        PROVE  Promise!Next
    BY <1>p DEF Promise!Next
  <1>1. ASSUME NEW r \in Requests, Call(r) PROVE [Promise!Next]_Promise!vars
    <2>1. InHandler => cbReq \in Promise!Handled
      BY DEF InHandler, Promise!Handled
    <2>2. Promise!Issue(r)
      BY <1>1, <2>1 DEF Call, Promise!Issue
    <2> QED
      BY <1>1, <2>2, <1>p DEF Call
  <1>2. CASE ClearTest
    BY <1>2 DEF ClearTest
  <1>3. CASE ClearRelease
    BY <1>0, <1>3 DEF ClearRelease
  <1>4. CASE ClearNull
    BY <1>4 DEF ClearNull
  <1>5. CASE ResetEvent
    BY <1>5 DEF ResetEvent
  <1>6. CASE SendRequest
    <2>1. Promise!SendQuery(call) \/ Promise!SendOrder(call)
      BY <1>6 DEF SendRequest, Promise!SendQuery, Promise!SendOrder
    <2> QED
      BY <1>6, <2>1, <1>p DEF SendRequest
  <1>7. CASE Wake
    BY <1>7 DEF Wake
  <1>8. CASE Timeout
    <2>1. Promise!GiveUp(call)
      BY <1>8 DEF Timeout, Promise!GiveUp
    <2> QED
      BY <1>8, <2>1, <1>p DEF Timeout
  <1>9. CASE GetTest
    BY <1>9 DEF GetTest
  <1>10. CASE GetAddRef
    BY <1>0, <1>10 DEF GetAddRef
  <1>11. CASE GetReturn
    <2>1. CASE mResponse # Nil
      <3>1. mResponse \in {call, straddler[call]} /\ lib[mResponse] = "completed"
        BY <1>11, <2>1 DEF GetReturn, Origin, Clearing
      <3>2. Promise!Accept(call)
        BY <1>11, <2>1, <3>1 DEF GetReturn, Promise!Accept
      <3> QED
        BY <1>11, <3>2, <1>p DEF GetReturn
    <2>2. CASE mResponse = Nil
      <3>1. [answer EXCEPT ![call] = Nil] = answer
        BY <1>11 DEF GetReturn
      <3> QED
        BY <1>11, <2>2, <3>1 DEF GetReturn
    <2> QED
      BY <1>11, <2>1, <2>2 DEF GetReturn
  <1>12. CASE UseAndReturn
    <2>1. CASE crashed'
      BY <1>0, <1>12, <2>1 DEF UseAndReturn
    <2>2. CASE ~crashed'
      <3>1. Promise!Return(call)
        BY <1>12, <2>2 DEF UseAndReturn, Promise!Return
      <3> QED
        BY <1>12, <3>1, <1>p DEF UseAndReturn
    <2> QED
      BY <2>1, <2>2
  <1>13. ASSUME NEW r \in Requests, OnRequestCompleted(r) PROVE [Promise!Next]_Promise!vars
    <2>1. Promise!Serve(r)
      BY <1>13 DEF OnRequestCompleted, Promise!Serve
    <2> QED
      BY <1>13, <2>1, <1>p DEF OnRequestCompleted
  <1>14. ASSUME NEW r \in Requests, OnRequestCompletedEmpty(r) PROVE [Promise!Next]_Promise!vars
    <2>1. Promise!Serve(r)
      BY <1>14 DEF OnRequestCompletedEmpty, Promise!Serve
    <2> QED
      BY <1>14, <2>1, <1>p DEF OnRequestCompletedEmpty
  <1>15. ASSUME NEW r \in Requests, OnRequestFailed(r) PROVE [Promise!Next]_Promise!vars
    <2>1. Promise!Serve(r)
      BY <1>15 DEF OnRequestFailed, Promise!Serve
    <2> QED
      BY <1>15, <2>1, <1>p DEF OnRequestFailed
  <1>16. CASE Store
    BY <1>16 DEF Store
  <1>17. CASE StoreAddRef
    BY <1>0, <1>17 DEF StoreAddRef
  <1>18. CASE SignalAnswer
    BY <1>18 DEF SignalAnswer
  <1>19. CASE LibraryDrop
    BY <1>0, <1>19 DEF LibraryDrop
  <1>20. CASE SignalFailure
    BY <1>20 DEF SignalFailure
  <1>21. CASE UNCHANGED vars
    BY <1>21 DEF vars
  <1> QED
    BY <1>1, <1>2, <1>3, <1>4, <1>5, <1>6, <1>7, <1>8, <1>9, <1>10, <1>11, <1>12,
       <1>13, <1>14, <1>15, <1>16, <1>17, <1>18, <1>19, <1>20, <1>21, NextDisjuncts

\* The rendezvous implements RequestReply.
THEOREM ListenerKeepsPromise == SafetySpec => KeepsPromise
  <1>1. Init => Promise!Init
    BY DEF Init, Promise!Init, Promise!Requests, Requests
  <1>2. SafetySpec => []Counted
    BY BookkeepingHolds, DeliveryHolds, CountedInit, CountedStep, PTL DEF SafetySpec
  <1>3. Bookkeeping /\ Delivery /\ Counted /\ Counted' /\ OneOpen /\ Origin
          /\ [Next]_vars => [Promise!Next]_Promise!vars
    BY PromiseStep
  <1> QED
    BY <1>1, <1>2, <1>3, BookkeepingHolds, DeliveryHolds, OriginHolds, PTL
       DEF SafetySpec, KeepsPromise, Promise!Spec
=============================================================================
