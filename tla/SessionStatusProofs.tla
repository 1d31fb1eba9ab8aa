------------------------- MODULE SessionStatusProofs -------------------------
(***************************************************************************)
(* What holds of SessionStatus for any number of logins.  IInv says which  *)
(* owners each object has: its creator, until logout_fc comes to it, the   *)
(* library, and, for a session, its listeners.                             *)
(***************************************************************************)
EXTENDS SessionStatus, TLAPS

LoggingIn == {"login", "wait", "test", "subscribe"}

\* The three pointers; what has not been created yet is untouched.
Pointers ==
    /\ sessionListener = session
    /\ responseListener <= session
    /\ closed \subseteq 1 .. session
    /\ pc # "idle" => loaded
    /\ loaded => session # 0 /\ session \notin closed
    /\ pc \in LoggingIn => responseListener < session
    /\ ~failed /\ loaded /\ pc \notin LoggingIn => responseListener = session
    /\ \A g \in Sessions :
         g > session => /\ status[g] = "New"
                        /\ g \notin statusSub
                        /\ statusRefs[g] = 0 /\ sessionRefs[g] = 0
    /\ \A g \in Sessions :
         g > session \/ (pc = "login" /\ g = session) =>
           /\ status[g] = "New" /\ cbPc[g] = "idle"
           /\ ~mSessionEvent[g] /\ g \notin up \cup down

\* The owners of a status listener
StatusCreator(g) ==
    g <= session /\ g \notin closed /\ ~(g = session /\ pc = "releaseSession")
StatusCounted ==
    \A g \in Sessions :
      /\ g \in statusSub <=>
           /\ g <= session /\ g \notin closed
           /\ ~(g = session /\ pc \in {"releaseStatus", "releaseSession"})
      /\ statusRefs[g] = (IF StatusCreator(g) THEN 1 ELSE 0)
                           + (IF g \in statusSub THEN 1 ELSE 0)
                           + (IF cbPc[g] # "idle" THEN 1 ELSE 0)

\* The owners of the response listener of the current session
ResponseCounted ==
    /\ \A g \in Sessions : g > responseListener \/ g \in closed =>
         responseRefs[g] = 0 /\ g \notin responseSub
    /\ responseListener = session /\ session \in Sessions /\ session \notin closed =>
         /\ pc \in {"idle", "unsubscribe"} =>
              responseRefs[session] = 2 /\ session \in responseSub
         /\ pc = "releaseResponse" =>
              responseRefs[session] = 1 /\ session \notin responseSub
         /\ pc \in {"logout", "unsubscribeStatus", "releaseStatus", "releaseSession"} =>
              responseRefs[session] = 0 /\ session \notin responseSub

\* The owners of a session
SessionCounted ==
    \A g \in Sessions :
      sessionRefs[g] = (IF g <= session /\ g \notin closed THEN 1 ELSE 0)
                         + (IF statusRefs[g] > 0 THEN 1 ELSE 0)
                         + (IF responseRefs[g] > 0 THEN 1 ELSE 0)

\* What the flags and the event tell of the reports
Reports ==
    /\ \A g \in Sessions :
         /\ cbPc[g] \in {"setConnected", "setDisconnected", "signal"} =>
              \/ (status[g] = "Connected" /\ g \in up)
              \/ (status[g] = "Disconnected" /\ g \in down)
         /\ cbPc[g] \in {"setDisconnected", "signal"} /\ g = session
              /\ pc \in LoggingIn =>
              mConnected[g] = (status[g] = "Connected")
         /\ mConnected[g] => g \in up
    /\ pc = "wait" /\ session \in up \cup down =>
         mSessionEvent[session]
           \/ cbPc[session] \in {"setConnected", "setDisconnected", "signal"}
    /\ (pc = "test" \/ (pc = "wait" /\ mSessionEvent[session]))
         /\ ~mConnected[session] => session \in down

IInv == TypeOK /\ Pointers /\ StatusCounted /\ ResponseCounted /\ SessionCounted
          /\ Reports /\ UseIsSafe

-----------------------------------------------------------------------------
\* What a count can be, and what dropping a reference does to it
LEMMA Bounds ==
  ASSUME IInv, NEW g \in Sessions
  PROVE  /\ statusRefs[g] \in 0 .. 3 /\ sessionRefs[g] \in 0 .. 3
         /\ responseRefs[g] \in 0 .. 2
         /\ cbPc[g] # "idle" => statusRefs[g] > 0
         /\ cbPc[g] = "idle" => statusRefs[g] <= 2
         /\ statusRefs[g] > 0 => sessionRefs[g] > 0
         /\ responseRefs[g] > 0 => sessionRefs[g] > 0
<1>1. statusRefs[g] \in 0 .. 3 /\ sessionRefs[g] \in 0 .. 3 /\ responseRefs[g] \in 0 .. 2
  BY DEF IInv, TypeOK
<1>2. /\ cbPc[g] # "idle" => statusRefs[g] > 0
      /\ cbPc[g] = "idle" => statusRefs[g] <= 2
  BY <1>1 DEF IInv, StatusCounted
<1>3. /\ statusRefs[g] > 0 => sessionRefs[g] > 0
      /\ responseRefs[g] > 0 => sessionRefs[g] > 0
  BY <1>1 DEF IInv, SessionCounted
<1>4. QED
  BY <1>1, <1>2, <1>3

LEMMA Dropped ==
  ASSUME IInv, NEW g \in Sessions, statusRefs[g] > 0, DropStatus(g)
  PROVE  /\ statusRefs' \in [Sessions -> 0 .. 3]
         /\ sessionRefs' \in [Sessions -> 0 .. 3]
         /\ statusRefs'[g] = statusRefs[g] - 1
         /\ sessionRefs'[g] = sessionRefs[g] - (IF statusRefs[g] = 1 THEN 1 ELSE 0)
         /\ \A h \in Sessions \ {g} :
              statusRefs'[h] = statusRefs[h] /\ sessionRefs'[h] = sessionRefs[h]
<1>1. statusRefs[g] \in 1 .. 3 /\ sessionRefs[g] \in 1 .. 3
  BY Bounds
<1>2. statusRefs \in [Sessions -> 0 .. 3] /\ sessionRefs \in [Sessions -> 0 .. 3]
  BY DEF IInv, TypeOK
<1>3. QED
  BY <1>1, <1>2 DEF DropStatus, Add

LEMMA DroppedResponse ==
  ASSUME IInv, NEW g \in Sessions, responseRefs[g] > 0, DropResponse(g)
  PROVE  /\ responseRefs' \in [Sessions -> 0 .. 2]
         /\ sessionRefs' \in [Sessions -> 0 .. 3]
         /\ responseRefs'[g] = responseRefs[g] - 1
         /\ sessionRefs'[g] = sessionRefs[g] - (IF responseRefs[g] = 1 THEN 1 ELSE 0)
         /\ \A h \in Sessions \ {g} :
              responseRefs'[h] = responseRefs[h] /\ sessionRefs'[h] = sessionRefs[h]
<1>1. responseRefs[g] \in 1 .. 2 /\ sessionRefs[g] \in 1 .. 3
  BY Bounds
<1>2. responseRefs \in [Sessions -> 0 .. 2] /\ sessionRefs \in [Sessions -> 0 .. 3]
  BY DEF IInv, TypeOK
<1>3. QED
  BY <1>1, <1>2 DEF DropResponse, Add

\* logout_fc's creator's reference to the status listener
LEMMA Owned ==
  ASSUME IInv, pc \in {"unsubscribeStatus", "releaseStatus"}
  PROVE  session \in Sessions /\ statusRefs[session] > 0 /\ sessionListener = session
<1>1. /\ session \in Sessions /\ session \notin closed /\ sessionListener = session
      /\ loaded
  BY SessionAssumption DEF IInv, TypeOK, Pointers, Sessions
<1>2. session <= session
  BY <1>1 DEF Sessions
<1>3. StatusCreator(session)
  BY <1>1, <1>2 DEF StatusCreator
<1>4. statusRefs[session] = 1 + (IF session \in statusSub THEN 1 ELSE 0)
                              + (IF cbPc[session] # "idle" THEN 1 ELSE 0)
  BY <1>1, <1>3 DEF IInv, StatusCounted
<1>5. QED
  BY <1>1, <1>4

LEMMA Handler ==
  ASSUME NEW s \in Reported
  PROVE  /\ s \in {"Connected", "Disconnected"} => FirstStep(s) = "setConnected"
         /\ s \notin {"Connected", "Disconnected"} =>
              FirstStep(s) \in {"chooseSession", "setError", "leave"}
  BY DEF FirstStep, Reported, Quiet


LEMMA TypeOKStep == ASSUME IInv, [Next]_vars PROVE TypeOK'
<1> USE SessionAssumption DEF Sessions
<1>1. CASE LoginFc
  BY <1>1 DEF IInv, Pointers, StatusCounted, StatusCreator, SessionCounted,
      ResponseCounted, TypeOK, Quiet, Reported, Follows, LoginFc, pointers,
      flags, refs, subs, history
<1>2. CASE Login
  BY <1>2 DEF IInv, Pointers, StatusCounted, StatusCreator, SessionCounted,
      ResponseCounted, TypeOK, Quiet, Reported, Follows, Login, Reset,
      pointers, flags, refs, subs, history
<1>3. CASE Wake
  BY <1>3 DEF IInv, Pointers, StatusCounted, StatusCreator, SessionCounted,
      ResponseCounted, TypeOK, Quiet, Reported, Follows, Wake, pointers,
      flags, refs, subs, history
<1>4. CASE Timeout
  BY <1>4 DEF IInv, Pointers, StatusCounted, StatusCreator, SessionCounted,
      ResponseCounted, TypeOK, Quiet, Reported, Follows, Timeout, pointers,
      flags, refs, subs, history
<1>5. CASE TestConnected
  BY <1>5 DEF IInv, Pointers, StatusCounted, StatusCreator, SessionCounted,
      ResponseCounted, TypeOK, Quiet, Reported, Follows, TestConnected,
      pointers, flags, refs, subs, history
<1>6. CASE Subscribe
  <2>1. session \in Sessions /\ responseRefs[session] = 0
    BY <1>6 DEF Subscribe, IInv, TypeOK, Pointers, ResponseCounted, LoggingIn
  <2>2. sessionRefs[session] \in 0 .. 2
    BY <2>1, Bounds DEF IInv, SessionCounted
  <2>3. sessionRefs' \in [Sessions -> 0 .. 3] /\ responseRefs' \in [Sessions -> 0 .. 2]
    BY <1>6, <2>1, <2>2 DEF Subscribe, Add, IInv, TypeOK
  <2>4. QED
    BY <1>6, <2>1, <2>3 DEF Subscribe, IInv, TypeOK, flags, history
<1>7. CASE UseListener
  BY <1>7 DEF IInv, Pointers, StatusCounted, StatusCreator, SessionCounted,
      ResponseCounted, TypeOK, Quiet, Reported, Follows, UseListener,
      ResponseListenerLives, pointers, flags, refs, subs, history
<1>8. CASE LogoutFc
  BY <1>8 DEF IInv, Pointers, StatusCounted, StatusCreator, SessionCounted,
      ResponseCounted, TypeOK, Quiet, Reported, Follows, LogoutFc, pointers,
      flags, refs, subs, history
<1>9. CASE UnsubscribeResponse
  <2>1. CASE responseListener = session /\ session \in responseSub
    <3>1. session \in Sessions /\ responseRefs[session] > 0
      BY <1>9, <2>1 DEF UnsubscribeResponse, IInv, TypeOK, Pointers,
          ResponseCounted
    <3>2. DropResponse(session)
      BY <1>9, <2>1 DEF UnsubscribeResponse
    <3>3. responseRefs' \in [Sessions -> 0 .. 2] /\ sessionRefs' \in [Sessions -> 0 .. 3]
      BY <3>1, <3>2, DroppedResponse
    <3>4. QED
      BY <1>9, <3>3 DEF UnsubscribeResponse, IInv, TypeOK, pointers, flags,
          history
  <2>2. CASE ~(responseListener = session /\ session \in responseSub)
    BY <1>9, <2>2 DEF UnsubscribeResponse, IInv, TypeOK, pointers, flags,
        history
  <2>3. QED
    BY <2>1, <2>2
<1>10. CASE ReleaseResponse
  <2>1. CASE ResponseListenerLives
    <3>1. responseListener \in Sessions /\ responseRefs[responseListener] > 0
      BY <2>1 DEF ResponseListenerLives, IInv, TypeOK
    <3>2. DropResponse(responseListener)
      BY <1>10, <2>1 DEF ReleaseResponse
    <3>3. responseRefs' \in [Sessions -> 0 .. 2] /\ sessionRefs' \in [Sessions -> 0 .. 3]
      BY <3>1, <3>2, DroppedResponse
    <3>4. QED
      BY <1>10, <2>1, <3>3 DEF ReleaseResponse, IInv, TypeOK, pointers, flags,
          subs, history
  <2>2. CASE ~ResponseListenerLives
    BY <1>10, <2>2 DEF ReleaseResponse, IInv, TypeOK, pointers, flags, subs,
        history
  <2>3. QED
    BY <2>1, <2>2
<1>11. CASE Logout
  BY <1>11 DEF IInv, Pointers, StatusCounted, StatusCreator, SessionCounted,
      ResponseCounted, TypeOK, Quiet, Reported, Follows, Logout, Reset,
      pointers, flags, refs, subs, history
<1>12. CASE UnsubscribeStatus
  <2>1. session \in Sessions /\ statusRefs[session] > 0 /\ sessionListener = session
    BY <1>12, Owned DEF UnsubscribeStatus
  <2>2. DropStatus(session)
    BY <1>12, <2>1 DEF UnsubscribeStatus
  <2>3. statusRefs' \in [Sessions -> 0 .. 3] /\ sessionRefs' \in [Sessions -> 0 .. 3]
    BY <2>1, <2>2, Dropped
  <2>4. QED
    BY <1>12, <2>3 DEF UnsubscribeStatus, IInv, TypeOK, pointers, flags, subs,
        history
<1>13. CASE ReleaseStatus
  <2>1. session \in Sessions /\ statusRefs[session] > 0 /\ sessionListener = session
    BY <1>13, Owned DEF ReleaseStatus
  <2>2. DropStatus(session)
    BY <1>13, <2>1 DEF ReleaseStatus
  <2>3. statusRefs' \in [Sessions -> 0 .. 3] /\ sessionRefs' \in [Sessions -> 0 .. 3]
    BY <2>1, <2>2, Dropped
  <2>4. QED
    BY <1>13, <2>3 DEF ReleaseStatus, IInv, TypeOK, pointers, flags, subs,
        history
<1>14. CASE ReleaseSession
  <2>1. session \in Sessions /\ session \notin closed
    BY <1>14 DEF ReleaseSession, IInv, TypeOK, Pointers
  <2>2. sessionRefs[session] \in 1 .. 3
    <3>1. session <= session /\ sessionRefs[session] \in 0 .. 3
      BY <2>1, Bounds
    <3>2. sessionRefs[session] =
            1 + (IF statusRefs[session] > 0 THEN 1 ELSE 0)
              + (IF responseRefs[session] > 0 THEN 1 ELSE 0)
      BY <2>1, <3>1 DEF IInv, SessionCounted
    <3>3. QED
      BY <3>1, <3>2
  <2>3. sessionRefs' \in [Sessions -> 0 .. 3]
    BY <1>14, <2>1, <2>2 DEF ReleaseSession, Add, IInv, TypeOK
  <2>4. QED
    BY <1>14, <2>1, <2>3 DEF ReleaseSession, IInv, TypeOK, pointers, flags,
        subs, history
<1>15. ASSUME NEW g \in Sessions, NEW s \in Reported, Report(g, s)
      PROVE TypeOK'
  <2>1. statusRefs' \in [Sessions -> 0 .. 3]
    <3>1. statusRefs[g] \in 0 .. 2
      BY <1>15, Bounds DEF Report
    <3>2. QED
      BY <1>15, <3>1 DEF Report, Add, IInv, TypeOK
  <2>2. cbPc' \in [Sessions -> {"idle", "setConnected", "setDisconnected", "signal",
                                "chooseSession", "setError", "leave"}]
    BY <1>15, Handler DEF Report, IInv, TypeOK
  <2>3. QED
    BY <1>15, <2>1, <2>2 DEF Report, IInv, TypeOK, pointers, flags, subs
<1>16. ASSUME NEW g \in Sessions, SetConnected(g) PROVE TypeOK'
  BY <1>16 DEF IInv, Pointers, StatusCounted, StatusCreator, SessionCounted,
      ResponseCounted, TypeOK, Quiet, Reported, Follows, SetConnected,
      pointers, flags, refs, subs, history
<1>17. ASSUME NEW g \in Sessions, SetDisconnected(g) PROVE TypeOK'
  BY <1>17 DEF IInv, Pointers, StatusCounted, StatusCreator, SessionCounted,
      ResponseCounted, TypeOK, Quiet, Reported, Follows, SetDisconnected,
      pointers, flags, refs, subs, history
<1>18. ASSUME NEW g \in Sessions, Signal(g) PROVE TypeOK'
  BY <1>18 DEF IInv, Pointers, StatusCounted, StatusCreator, SessionCounted,
      ResponseCounted, TypeOK, Quiet, Reported, Follows, Signal, pointers,
      flags, refs, subs, history
<1>19. ASSUME NEW g \in Sessions, ChooseSession(g) PROVE TypeOK'
  BY <1>19 DEF IInv, Pointers, StatusCounted, StatusCreator, SessionCounted,
      ResponseCounted, TypeOK, Quiet, Reported, Follows, ChooseSession,
      pointers, flags, refs, subs, history
<1>20. ASSUME NEW g \in Sessions, SetError(g) PROVE TypeOK'
  BY <1>20 DEF IInv, Pointers, StatusCounted, StatusCreator, SessionCounted,
      ResponseCounted, TypeOK, Quiet, Reported, Follows, SetError, pointers,
      flags, refs, subs, history
<1>21. ASSUME NEW g \in Sessions, Leave(g) PROVE TypeOK'
  <2>1. statusRefs[g] > 0 /\ DropStatus(g)
    BY <1>21, Bounds DEF Leave
  <2>2. statusRefs' \in [Sessions -> 0 .. 3] /\ sessionRefs' \in [Sessions -> 0 .. 3]
    BY <2>1, Dropped
  <2>3. QED
    BY <1>21, <2>2 DEF Leave, IInv, TypeOK, pointers, flags, subs, history
<1>22. CASE UNCHANGED vars
  BY <1>22 DEF IInv, TypeOK, Quiet, Reported, Follows, Pointers,
      StatusCounted, StatusCreator, SessionCounted, ResponseCounted, vars,
      pointers, flags, refs, subs, history
<1>23. QED
  BY <1>1, <1>2, <1>3, <1>4, <1>5, <1>6, <1>7, <1>8, <1>9, <1>10, <1>11,
      <1>12, <1>13, <1>14, <1>15, <1>16, <1>17, <1>18, <1>19, <1>20, <1>21,
      <1>22 DEF Next, LoginStep, LogoutStep, Handle

LEMMA PointersStep == ASSUME IInv, [Next]_vars PROVE Pointers'
<1> USE SessionAssumption DEF Sessions
<1>1. CASE LoginFc
  BY <1>1 DEF IInv, TypeOK, Pointers, LoggingIn, Follows, LoginFc, pointers,
      flags, refs, subs, history
<1>2. CASE Login
  BY <1>2 DEF IInv, TypeOK, Pointers, LoggingIn, Follows, Login, Reset,
      pointers, flags, refs, subs, history
<1>3. CASE Wake
  BY <1>3 DEF IInv, TypeOK, Pointers, LoggingIn, Follows, Wake, pointers,
      flags, refs, subs, history
<1>4. CASE Timeout
  BY <1>4 DEF IInv, TypeOK, Pointers, LoggingIn, Follows, Timeout, pointers,
      flags, refs, subs, history
<1>5. CASE TestConnected
  BY <1>5 DEF IInv, TypeOK, Pointers, LoggingIn, Follows, TestConnected,
      pointers, flags, refs, subs, history
<1>6. CASE Subscribe
  BY <1>6 DEF IInv, TypeOK, Pointers, LoggingIn, Follows, Subscribe, Add,
      pointers, flags, refs, subs, history
<1>7. CASE UseListener
  BY <1>7 DEF IInv, TypeOK, Pointers, LoggingIn, Follows, UseListener,
      ResponseListenerLives, pointers, flags, refs, subs, history
<1>8. CASE LogoutFc
  BY <1>8 DEF IInv, TypeOK, Pointers, LoggingIn, Follows, LogoutFc, pointers,
      flags, refs, subs, history
<1>9. CASE UnsubscribeResponse
  BY <1>9 DEF IInv, TypeOK, Pointers, LoggingIn, Follows, UnsubscribeResponse,
      DropResponse, Add, pointers, flags, refs, subs, history
<1>10. CASE ReleaseResponse
  BY <1>10 DEF IInv, TypeOK, Pointers, LoggingIn, Follows, ReleaseResponse,
      DropResponse, Add, ResponseListenerLives, pointers, flags, refs, subs,
      history
<1>11. CASE Logout
  BY <1>11 DEF IInv, TypeOK, Pointers, LoggingIn, Follows, Logout, Reset,
      pointers, flags, refs, subs, history
<1>12. CASE UnsubscribeStatus
  BY <1>12 DEF IInv, TypeOK, Pointers, LoggingIn, Follows, UnsubscribeStatus,
      DropStatus, Add, pointers, flags, refs, subs, history
<1>13. CASE ReleaseStatus
  BY <1>13 DEF IInv, TypeOK, Pointers, LoggingIn, Follows, ReleaseStatus,
      DropStatus, Add, pointers, flags, refs, subs, history
<1>14. CASE ReleaseSession
  BY <1>14 DEF IInv, TypeOK, Pointers, LoggingIn, Follows, ReleaseSession,
      Add, pointers, flags, refs, subs, history
<1>15. ASSUME NEW g \in Sessions, NEW s \in Reported, Report(g, s)
      PROVE Pointers'
  BY <1>15 DEF IInv, TypeOK, Pointers, LoggingIn, Follows, Report, FirstStep,
      Add, pointers, flags, refs, subs, history
<1>16. ASSUME NEW g \in Sessions, SetConnected(g) PROVE Pointers'
  BY <1>16 DEF IInv, TypeOK, Pointers, LoggingIn, Follows, SetConnected,
      pointers, flags, refs, subs, history
<1>17. ASSUME NEW g \in Sessions, SetDisconnected(g) PROVE Pointers'
  BY <1>17 DEF IInv, TypeOK, Pointers, LoggingIn, Follows, SetDisconnected,
      pointers, flags, refs, subs, history
<1>18. ASSUME NEW g \in Sessions, Signal(g) PROVE Pointers'
  BY <1>18 DEF IInv, TypeOK, Pointers, LoggingIn, Follows, Signal, pointers,
      flags, refs, subs, history
<1>19. ASSUME NEW g \in Sessions, ChooseSession(g) PROVE Pointers'
  BY <1>19 DEF IInv, TypeOK, Pointers, LoggingIn, Follows, ChooseSession,
      pointers, flags, refs, subs, history
<1>20. ASSUME NEW g \in Sessions, SetError(g) PROVE Pointers'
  BY <1>20 DEF IInv, TypeOK, Pointers, LoggingIn, Follows, SetError, pointers,
      flags, refs, subs, history
<1>21. ASSUME NEW g \in Sessions, Leave(g) PROVE Pointers'
  BY <1>21 DEF IInv, TypeOK, Pointers, LoggingIn, Follows, Leave, DropStatus,
      Add, pointers, flags, refs, subs, history
<1>22. CASE UNCHANGED vars
  BY <1>22 DEF IInv, Pointers, LoggingIn, Follows, TypeOK, vars, pointers,
      flags, refs, subs, history
<1>23. QED
  BY <1>1, <1>2, <1>3, <1>4, <1>5, <1>6, <1>7, <1>8, <1>9, <1>10, <1>11,
      <1>12, <1>13, <1>14, <1>15, <1>16, <1>17, <1>18, <1>19, <1>20, <1>21,
      <1>22 DEF Next, LoginStep, LogoutStep, Handle

LEMMA StatusCountedStep == ASSUME IInv, [Next]_vars PROVE StatusCounted'
<1> USE SessionAssumption DEF Sessions
<1>1. CASE LoginFc
  BY <1>1 DEF IInv, TypeOK, Pointers, StatusCounted, StatusCreator, LoggingIn,
      LoginFc, pointers, flags, refs, subs, history
<1>2. CASE Login
  BY <1>2 DEF IInv, TypeOK, Pointers, StatusCounted, StatusCreator, LoggingIn,
      Login, Reset, pointers, flags, refs, subs, history
<1>3. CASE Wake
  BY <1>3 DEF IInv, TypeOK, Pointers, StatusCounted, StatusCreator, LoggingIn,
      Wake, pointers, flags, refs, subs, history
<1>4. CASE Timeout
  BY <1>4 DEF IInv, TypeOK, Pointers, StatusCounted, StatusCreator, LoggingIn,
      Timeout, pointers, flags, refs, subs, history
<1>5. CASE TestConnected
  BY <1>5 DEF IInv, TypeOK, Pointers, StatusCounted, StatusCreator, LoggingIn,
      TestConnected, pointers, flags, refs, subs, history
<1>6. CASE Subscribe
  BY <1>6 DEF IInv, TypeOK, Pointers, StatusCounted, StatusCreator, LoggingIn,
      Subscribe, Add, pointers, flags, refs, subs, history
<1>7. CASE UseListener
  BY <1>7 DEF IInv, TypeOK, Pointers, StatusCounted, StatusCreator, LoggingIn,
      UseListener, ResponseListenerLives, pointers, flags, refs, subs, history
<1>8. CASE LogoutFc
  BY <1>8 DEF IInv, TypeOK, Pointers, StatusCounted, StatusCreator, LoggingIn,
      LogoutFc, pointers, flags, refs, subs, history
<1>9. CASE UnsubscribeResponse
  BY <1>9 DEF IInv, TypeOK, Pointers, StatusCounted, StatusCreator, LoggingIn,
      UnsubscribeResponse, DropResponse, Add, pointers, flags, refs, subs,
      history
<1>10. CASE ReleaseResponse
  BY <1>10 DEF IInv, TypeOK, Pointers, StatusCounted, StatusCreator,
      LoggingIn, ReleaseResponse, DropResponse, Add, ResponseListenerLives,
      pointers, flags, refs, subs, history
<1>11. CASE Logout
  BY <1>11 DEF IInv, TypeOK, Pointers, StatusCounted, StatusCreator,
      LoggingIn, Logout, Reset, pointers, flags, refs, subs, history
<1>12. CASE UnsubscribeStatus
  BY <1>12 DEF IInv, TypeOK, Pointers, StatusCounted, StatusCreator,
      LoggingIn, UnsubscribeStatus, DropStatus, Add, pointers, flags, refs,
      subs, history
<1>13. CASE ReleaseStatus
  BY <1>13 DEF IInv, TypeOK, Pointers, StatusCounted, StatusCreator,
      LoggingIn, ReleaseStatus, DropStatus, Add, pointers, flags, refs, subs,
      history
<1>14. CASE ReleaseSession
  BY <1>14 DEF IInv, TypeOK, Pointers, StatusCounted, StatusCreator,
      LoggingIn, ReleaseSession, Add, pointers, flags, refs, subs, history
<1>15. ASSUME NEW g \in Sessions, NEW s \in Reported, Report(g, s)
      PROVE StatusCounted'
  <2>1. cbPc[g] = "idle" /\ UNCHANGED <<session, closed, statusSub, pc>>
    BY <1>15 DEF Report, pointers, subs
  <2>2. FirstStep(s) # "idle"
    BY Handler
  <2>3. CASE g \in statusSub
    <3>1. /\ cbPc' = [cbPc EXCEPT ![g] = FirstStep(s)]
          /\ statusRefs' = [statusRefs EXCEPT ![g] = @ + 1]
      BY <1>15, <2>3 DEF Report, Add
    <3>2. QED
      BY <2>1, <2>2, <3>1 DEF IInv, TypeOK, StatusCounted, StatusCreator
  <2>4. CASE g \notin statusSub
    BY <1>15, <2>1, <2>4 DEF Report, IInv, StatusCounted, StatusCreator
  <2>5. QED
    BY <2>3, <2>4
<1>16. ASSUME NEW g \in Sessions, SetConnected(g) PROVE StatusCounted'
  BY <1>16 DEF IInv, TypeOK, Pointers, StatusCounted, StatusCreator,
      LoggingIn, SetConnected, pointers, flags, refs, subs, history
<1>17. ASSUME NEW g \in Sessions, SetDisconnected(g) PROVE StatusCounted'
  BY <1>17 DEF IInv, TypeOK, Pointers, StatusCounted, StatusCreator,
      LoggingIn, SetDisconnected, pointers, flags, refs, subs, history
<1>18. ASSUME NEW g \in Sessions, Signal(g) PROVE StatusCounted'
  BY <1>18 DEF IInv, TypeOK, Pointers, StatusCounted, StatusCreator,
      LoggingIn, Signal, pointers, flags, refs, subs, history
<1>19. ASSUME NEW g \in Sessions, ChooseSession(g) PROVE StatusCounted'
  <2>1. UNCHANGED <<session, closed, statusSub, statusRefs, pc>>
    BY <1>19 DEF ChooseSession, pointers, refs, subs, history
  <2>2. \A h \in Sessions : (cbPc'[h] = "idle") <=> (cbPc[h] = "idle")
    BY <1>19 DEF ChooseSession, IInv, TypeOK
  <2>3. QED
    BY <2>1, <2>2 DEF IInv, StatusCounted, StatusCreator
<1>20. ASSUME NEW g \in Sessions, SetError(g) PROVE StatusCounted'
  BY <1>20 DEF IInv, TypeOK, Pointers, StatusCounted, StatusCreator,
      LoggingIn, SetError, pointers, flags, refs, subs, history
<1>21. ASSUME NEW g \in Sessions, Leave(g) PROVE StatusCounted'
  BY <1>21 DEF IInv, TypeOK, Pointers, StatusCounted, StatusCreator,
      LoggingIn, Leave, DropStatus, Add, pointers, flags, refs, subs, history
<1>22. CASE UNCHANGED vars
  BY <1>22 DEF IInv, StatusCounted, StatusCreator, LoggingIn, TypeOK,
      Pointers, vars, pointers, flags, refs, subs, history
<1>23. QED
  BY <1>1, <1>2, <1>3, <1>4, <1>5, <1>6, <1>7, <1>8, <1>9, <1>10, <1>11,
      <1>12, <1>13, <1>14, <1>15, <1>16, <1>17, <1>18, <1>19, <1>20, <1>21,
      <1>22 DEF Next, LoginStep, LogoutStep, Handle

LEMMA ResponseCountedStep == ASSUME IInv, [Next]_vars PROVE ResponseCounted'
<1> USE SessionAssumption DEF Sessions
<1>1. CASE LoginFc
  BY <1>1 DEF IInv, TypeOK, Pointers, ResponseCounted, LoggingIn, LoginFc,
      pointers, flags, refs, subs, history
<1>2. CASE Login
  BY <1>2 DEF IInv, TypeOK, Pointers, ResponseCounted, LoggingIn, Login,
      Reset, pointers, flags, refs, subs, history
<1>3. CASE Wake
  BY <1>3 DEF IInv, TypeOK, Pointers, ResponseCounted, LoggingIn, Wake,
      pointers, flags, refs, subs, history
<1>4. CASE Timeout
  BY <1>4 DEF IInv, TypeOK, Pointers, ResponseCounted, LoggingIn, Timeout,
      pointers, flags, refs, subs, history
<1>5. CASE TestConnected
  BY <1>5 DEF IInv, TypeOK, Pointers, ResponseCounted, LoggingIn,
      TestConnected, pointers, flags, refs, subs, history
<1>6. CASE Subscribe
  BY <1>6 DEF IInv, TypeOK, Pointers, ResponseCounted, LoggingIn, Subscribe,
      Add, pointers, flags, refs, subs, history
<1>7. CASE UseListener
  BY <1>7 DEF IInv, TypeOK, Pointers, ResponseCounted, LoggingIn, UseListener,
      ResponseListenerLives, pointers, flags, refs, subs, history
<1>8. CASE LogoutFc
  BY <1>8 DEF IInv, TypeOK, Pointers, ResponseCounted, LoggingIn, LogoutFc,
      pointers, flags, refs, subs, history
<1>9. CASE UnsubscribeResponse
  BY <1>9 DEF IInv, TypeOK, Pointers, ResponseCounted, LoggingIn,
      UnsubscribeResponse, DropResponse, Add, pointers, flags, refs, subs,
      history
<1>10. CASE ReleaseResponse
  BY <1>10 DEF IInv, TypeOK, Pointers, ResponseCounted, LoggingIn,
      ReleaseResponse, DropResponse, Add, ResponseListenerLives, pointers,
      flags, refs, subs, history
<1>11. CASE Logout
  BY <1>11 DEF IInv, TypeOK, Pointers, ResponseCounted, LoggingIn, Logout,
      Reset, pointers, flags, refs, subs, history
<1>12. CASE UnsubscribeStatus
  BY <1>12 DEF IInv, TypeOK, Pointers, ResponseCounted, LoggingIn,
      UnsubscribeStatus, DropStatus, Add, pointers, flags, refs, subs, history
<1>13. CASE ReleaseStatus
  BY <1>13 DEF IInv, TypeOK, Pointers, ResponseCounted, LoggingIn,
      ReleaseStatus, DropStatus, Add, pointers, flags, refs, subs, history
<1>14. CASE ReleaseSession
  BY <1>14 DEF IInv, TypeOK, Pointers, ResponseCounted, LoggingIn,
      ReleaseSession, Add, pointers, flags, refs, subs, history
<1>15. ASSUME NEW g \in Sessions, NEW s \in Reported, Report(g, s)
      PROVE ResponseCounted'
  BY <1>15 DEF IInv, TypeOK, Pointers, ResponseCounted, LoggingIn, Report,
      FirstStep, Add, pointers, flags, refs, subs, history
<1>16. ASSUME NEW g \in Sessions, SetConnected(g) PROVE ResponseCounted'
  BY <1>16 DEF IInv, TypeOK, Pointers, ResponseCounted, LoggingIn,
      SetConnected, pointers, flags, refs, subs, history
<1>17. ASSUME NEW g \in Sessions, SetDisconnected(g) PROVE ResponseCounted'
  BY <1>17 DEF IInv, TypeOK, Pointers, ResponseCounted, LoggingIn,
      SetDisconnected, pointers, flags, refs, subs, history
<1>18. ASSUME NEW g \in Sessions, Signal(g) PROVE ResponseCounted'
  BY <1>18 DEF IInv, TypeOK, Pointers, ResponseCounted, LoggingIn, Signal,
      pointers, flags, refs, subs, history
<1>19. ASSUME NEW g \in Sessions, ChooseSession(g) PROVE ResponseCounted'
  BY <1>19 DEF IInv, TypeOK, Pointers, ResponseCounted, LoggingIn,
      ChooseSession, pointers, flags, refs, subs, history
<1>20. ASSUME NEW g \in Sessions, SetError(g) PROVE ResponseCounted'
  BY <1>20 DEF IInv, TypeOK, Pointers, ResponseCounted, LoggingIn, SetError,
      pointers, flags, refs, subs, history
<1>21. ASSUME NEW g \in Sessions, Leave(g) PROVE ResponseCounted'
  BY <1>21 DEF IInv, TypeOK, Pointers, ResponseCounted, LoggingIn, Leave,
      DropStatus, Add, pointers, flags, refs, subs, history
<1>22. CASE UNCHANGED vars
  BY <1>22 DEF IInv, ResponseCounted, LoggingIn, TypeOK, Pointers, vars,
      pointers, flags, refs, subs, history
<1>23. QED
  BY <1>1, <1>2, <1>3, <1>4, <1>5, <1>6, <1>7, <1>8, <1>9, <1>10, <1>11,
      <1>12, <1>13, <1>14, <1>15, <1>16, <1>17, <1>18, <1>19, <1>20, <1>21,
      <1>22 DEF Next, LoginStep, LogoutStep, Handle

LEMMA SessionCountedStep == ASSUME IInv, [Next]_vars PROVE SessionCounted'
<1> USE SessionAssumption DEF Sessions
<1>1. CASE LoginFc
  BY <1>1 DEF IInv, TypeOK, Pointers, StatusCounted, ResponseCounted,
      SessionCounted, StatusCreator, LoggingIn, LoginFc, pointers, flags,
      refs, subs, history
<1>2. CASE Login
  BY <1>2 DEF IInv, TypeOK, Pointers, StatusCounted, ResponseCounted,
      SessionCounted, StatusCreator, LoggingIn, Login, Reset, pointers, flags,
      refs, subs, history
<1>3. CASE Wake
  BY <1>3 DEF IInv, TypeOK, Pointers, StatusCounted, ResponseCounted,
      SessionCounted, StatusCreator, LoggingIn, Wake, pointers, flags, refs,
      subs, history
<1>4. CASE Timeout
  BY <1>4 DEF IInv, TypeOK, Pointers, StatusCounted, ResponseCounted,
      SessionCounted, StatusCreator, LoggingIn, Timeout, pointers, flags,
      refs, subs, history
<1>5. CASE TestConnected
  BY <1>5 DEF IInv, TypeOK, Pointers, StatusCounted, ResponseCounted,
      SessionCounted, StatusCreator, LoggingIn, TestConnected, pointers,
      flags, refs, subs, history
<1>6. CASE Subscribe
  BY <1>6 DEF IInv, TypeOK, Pointers, StatusCounted, ResponseCounted,
      SessionCounted, StatusCreator, LoggingIn, Subscribe, Add, pointers,
      flags, refs, subs, history
<1>7. CASE UseListener
  BY <1>7 DEF IInv, TypeOK, Pointers, StatusCounted, ResponseCounted,
      SessionCounted, StatusCreator, LoggingIn, UseListener,
      ResponseListenerLives, pointers, flags, refs, subs, history
<1>8. CASE LogoutFc
  BY <1>8 DEF IInv, TypeOK, Pointers, StatusCounted, ResponseCounted,
      SessionCounted, StatusCreator, LoggingIn, LogoutFc, pointers, flags,
      refs, subs, history
<1>9. CASE UnsubscribeResponse
  <2>1. UNCHANGED <<session, closed, statusRefs>>
    BY <1>9 DEF UnsubscribeResponse, pointers, history
  <2>2. CASE responseListener = session /\ session \in responseSub
    <3>1. session \in Sessions /\ responseRefs[session] > 0 /\ DropResponse(session)
      BY <1>9, <2>2 DEF UnsubscribeResponse, ResponseListenerLives, IInv,
          TypeOK, Pointers, ResponseCounted
    <3>2. responseRefs[session] \in 1 .. 2 /\ responseRefs \in [Sessions -> 0 .. 2]
            /\ sessionRefs \in [Sessions -> 0 .. 3]
      BY <3>1, Bounds DEF IInv, TypeOK
    <3>3. /\ responseRefs'[session] = responseRefs[session] - 1
          /\ sessionRefs'[session] =
               sessionRefs[session] - (IF responseRefs[session] = 1 THEN 1 ELSE 0)
          /\ \A h \in Sessions \ {session} :
               responseRefs'[h] = responseRefs[h] /\ sessionRefs'[h] = sessionRefs[h]
      BY <3>1, DroppedResponse
    <3>4. sessionRefs[session] =
            (IF session <= session /\ session \notin closed THEN 1 ELSE 0)
              + (IF statusRefs[session] > 0 THEN 1 ELSE 0) + 1
      BY <3>1 DEF IInv, SessionCounted
    <3>5. sessionRefs'[session] =
            (IF session <= session /\ session \notin closed THEN 1 ELSE 0)
              + (IF statusRefs[session] > 0 THEN 1 ELSE 0)
              + (IF responseRefs'[session] > 0 THEN 1 ELSE 0)
      <4>1. CASE responseRefs[session] = 1
        BY <4>1, <3>2, <3>3, <3>4
      <4>2. CASE responseRefs[session] = 2
        BY <4>2, <3>2, <3>3, <3>4
      <4>3. QED
        BY <4>1, <4>2, <3>2
    <3>6. QED
      BY <2>1, <3>3, <3>5 DEF IInv, SessionCounted
  <2>3. CASE ~(responseListener = session /\ session \in responseSub)
    BY <1>9, <2>1, <2>3 DEF UnsubscribeResponse, IInv, SessionCounted
  <2>4. QED
    BY <2>2, <2>3
<1>10. CASE ReleaseResponse
  <2>1. UNCHANGED <<session, closed, statusRefs>>
    BY <1>10 DEF ReleaseResponse, pointers, history
  <2>2. CASE ResponseListenerLives
    <3>1. responseListener \in Sessions /\ responseRefs[responseListener] > 0 /\ DropResponse(responseListener)
      BY <1>10, <2>2 DEF ReleaseResponse, ResponseListenerLives, IInv, TypeOK,
          Pointers, ResponseCounted
    <3>2. responseRefs[responseListener] \in 1 .. 2 /\ responseRefs \in [Sessions -> 0 .. 2]
            /\ sessionRefs \in [Sessions -> 0 .. 3]
      BY <3>1, Bounds DEF IInv, TypeOK
    <3>3. /\ responseRefs'[responseListener] = responseRefs[responseListener] - 1
          /\ sessionRefs'[responseListener] =
               sessionRefs[responseListener] - (IF responseRefs[responseListener] = 1 THEN 1 ELSE 0)
          /\ \A h \in Sessions \ {responseListener} :
               responseRefs'[h] = responseRefs[h] /\ sessionRefs'[h] = sessionRefs[h]
      BY <3>1, DroppedResponse
    <3>4. sessionRefs[responseListener] =
            (IF responseListener <= session /\ responseListener \notin closed THEN 1 ELSE 0)
              + (IF statusRefs[responseListener] > 0 THEN 1 ELSE 0) + 1
      BY <3>1 DEF IInv, SessionCounted
    <3>5. sessionRefs'[responseListener] =
            (IF responseListener <= session /\ responseListener \notin closed THEN 1 ELSE 0)
              + (IF statusRefs[responseListener] > 0 THEN 1 ELSE 0)
              + (IF responseRefs'[responseListener] > 0 THEN 1 ELSE 0)
      <4>1. CASE responseRefs[responseListener] = 1
        BY <4>1, <3>2, <3>3, <3>4
      <4>2. CASE responseRefs[responseListener] = 2
        BY <4>2, <3>2, <3>3, <3>4
      <4>3. QED
        BY <4>1, <4>2, <3>2
    <3>6. QED
      BY <2>1, <3>3, <3>5 DEF IInv, SessionCounted
  <2>3. CASE ~ResponseListenerLives
    BY <1>10, <2>1, <2>3 DEF ReleaseResponse, IInv, SessionCounted
  <2>4. QED
    BY <2>2, <2>3
<1>11. CASE Logout
  BY <1>11 DEF IInv, TypeOK, Pointers, StatusCounted, ResponseCounted,
      SessionCounted, StatusCreator, LoggingIn, Logout, Reset, pointers,
      flags, refs, subs, history
<1>12. CASE UnsubscribeStatus
  <2>1. UNCHANGED <<session, closed, responseRefs>>
    BY <1>12 DEF UnsubscribeStatus, pointers, history
  <2>2. session \in Sessions /\ statusRefs[session] > 0 /\ DropStatus(session)
    BY <1>12, Owned DEF UnsubscribeStatus
  <2>3. statusRefs[session] \in 1 .. 3 /\ statusRefs \in [Sessions -> 0 .. 3]
          /\ sessionRefs \in [Sessions -> 0 .. 3]
    BY <2>2, Bounds DEF IInv, TypeOK
  <2>4. /\ statusRefs'[session] = statusRefs[session] - 1
        /\ sessionRefs'[session] =
             sessionRefs[session] - (IF statusRefs[session] = 1 THEN 1 ELSE 0)
        /\ \A h \in Sessions \ {session} :
             statusRefs'[h] = statusRefs[h] /\ sessionRefs'[h] = sessionRefs[h]
    BY <2>2, Dropped
  <2>5. /\ (statusRefs'[session] > 0) <=> (statusRefs[session] # 1)
        /\ \A h \in Sessions \ {session} : (statusRefs'[h] > 0) <=> (statusRefs[h] > 0)
    BY <2>3, <2>4
  <2>6. sessionRefs[session] = (IF session <= session /\ session \notin closed THEN 1 ELSE 0)
                          + 1 + (IF responseRefs[session] > 0 THEN 1 ELSE 0)
    BY <2>2 DEF IInv, SessionCounted
  <2>7. sessionRefs'[session] = (IF session <= session /\ session \notin closed THEN 1 ELSE 0)
                           + (IF statusRefs'[session] > 0 THEN 1 ELSE 0)
                           + (IF responseRefs[session] > 0 THEN 1 ELSE 0)
    <3>1. CASE statusRefs[session] = 1
      BY <3>1, <2>3, <2>4, <2>5, <2>6
    <3>2. CASE statusRefs[session] # 1
      BY <3>2, <2>3, <2>4, <2>5, <2>6
    <3>3. QED
      BY <3>1, <3>2
  <2>8. QED
    BY <2>1, <2>4, <2>5, <2>7 DEF IInv, SessionCounted
<1>13. CASE ReleaseStatus
  <2>1. UNCHANGED <<session, closed, responseRefs>>
    BY <1>13 DEF ReleaseStatus, pointers, history
  <2>2. session \in Sessions /\ statusRefs[session] > 0 /\ DropStatus(session)
    BY <1>13, Owned DEF ReleaseStatus
  <2>3. statusRefs[session] \in 1 .. 3 /\ statusRefs \in [Sessions -> 0 .. 3]
          /\ sessionRefs \in [Sessions -> 0 .. 3]
    BY <2>2, Bounds DEF IInv, TypeOK
  <2>4. /\ statusRefs'[session] = statusRefs[session] - 1
        /\ sessionRefs'[session] =
             sessionRefs[session] - (IF statusRefs[session] = 1 THEN 1 ELSE 0)
        /\ \A h \in Sessions \ {session} :
             statusRefs'[h] = statusRefs[h] /\ sessionRefs'[h] = sessionRefs[h]
    BY <2>2, Dropped
  <2>5. /\ (statusRefs'[session] > 0) <=> (statusRefs[session] # 1)
        /\ \A h \in Sessions \ {session} : (statusRefs'[h] > 0) <=> (statusRefs[h] > 0)
    BY <2>3, <2>4
  <2>6. sessionRefs[session] = (IF session <= session /\ session \notin closed THEN 1 ELSE 0)
                          + 1 + (IF responseRefs[session] > 0 THEN 1 ELSE 0)
    BY <2>2 DEF IInv, SessionCounted
  <2>7. sessionRefs'[session] = (IF session <= session /\ session \notin closed THEN 1 ELSE 0)
                           + (IF statusRefs'[session] > 0 THEN 1 ELSE 0)
                           + (IF responseRefs[session] > 0 THEN 1 ELSE 0)
    <3>1. CASE statusRefs[session] = 1
      BY <3>1, <2>3, <2>4, <2>5, <2>6
    <3>2. CASE statusRefs[session] # 1
      BY <3>2, <2>3, <2>4, <2>5, <2>6
    <3>3. QED
      BY <3>1, <3>2
  <2>8. QED
    BY <2>1, <2>4, <2>5, <2>7 DEF IInv, SessionCounted
<1>14. CASE ReleaseSession
  BY <1>14 DEF IInv, TypeOK, Pointers, StatusCounted, ResponseCounted,
      SessionCounted, StatusCreator, LoggingIn, ReleaseSession, Add, pointers,
      flags, refs, subs, history
<1>15. ASSUME NEW g \in Sessions, NEW s \in Reported, Report(g, s)
      PROVE SessionCounted'
  <2>1. UNCHANGED <<session, closed, responseRefs, sessionRefs>>
    BY <1>15 DEF Report, pointers
  <2>2. \A h \in Sessions : (statusRefs'[h] > 0) <=> (statusRefs[h] > 0)
    <3>1. g \in statusSub => statusRefs[g] > 0
      BY Bounds DEF IInv, StatusCounted
    <3>2. statusRefs \in [Sessions -> 0 .. 3]
      BY DEF IInv, TypeOK
    <3>3. QED
      BY <1>15, <3>1, <3>2 DEF Report, Add
  <2>3. QED
    BY <2>1, <2>2 DEF IInv, SessionCounted
<1>16. ASSUME NEW g \in Sessions, SetConnected(g) PROVE SessionCounted'
  BY <1>16 DEF IInv, TypeOK, Pointers, StatusCounted, ResponseCounted,
      SessionCounted, StatusCreator, LoggingIn, SetConnected, pointers, flags,
      refs, subs, history
<1>17. ASSUME NEW g \in Sessions, SetDisconnected(g) PROVE SessionCounted'
  BY <1>17 DEF IInv, TypeOK, Pointers, StatusCounted, ResponseCounted,
      SessionCounted, StatusCreator, LoggingIn, SetDisconnected, pointers,
      flags, refs, subs, history
<1>18. ASSUME NEW g \in Sessions, Signal(g) PROVE SessionCounted'
  BY <1>18 DEF IInv, TypeOK, Pointers, StatusCounted, ResponseCounted,
      SessionCounted, StatusCreator, LoggingIn, Signal, pointers, flags, refs,
      subs, history
<1>19. ASSUME NEW g \in Sessions, ChooseSession(g) PROVE SessionCounted'
  BY <1>19 DEF IInv, TypeOK, Pointers, StatusCounted, ResponseCounted,
      SessionCounted, StatusCreator, LoggingIn, ChooseSession, pointers,
      flags, refs, subs, history
<1>20. ASSUME NEW g \in Sessions, SetError(g) PROVE SessionCounted'
  BY <1>20 DEF IInv, TypeOK, Pointers, StatusCounted, ResponseCounted,
      SessionCounted, StatusCreator, LoggingIn, SetError, pointers, flags,
      refs, subs, history
<1>21. ASSUME NEW g \in Sessions, Leave(g) PROVE SessionCounted'
  <2>1. UNCHANGED <<session, closed, responseRefs>>
    BY <1>21 DEF Leave, pointers, history
  <2>2. g \in Sessions /\ statusRefs[g] > 0 /\ DropStatus(g)
    BY <1>21, Bounds DEF Leave
  <2>3. statusRefs[g] \in 1 .. 3 /\ statusRefs \in [Sessions -> 0 .. 3]
          /\ sessionRefs \in [Sessions -> 0 .. 3]
    BY <2>2, Bounds DEF IInv, TypeOK
  <2>4. /\ statusRefs'[g] = statusRefs[g] - 1
        /\ sessionRefs'[g] =
             sessionRefs[g] - (IF statusRefs[g] = 1 THEN 1 ELSE 0)
        /\ \A h \in Sessions \ {g} :
             statusRefs'[h] = statusRefs[h] /\ sessionRefs'[h] = sessionRefs[h]
    BY <2>2, Dropped
  <2>5. /\ (statusRefs'[g] > 0) <=> (statusRefs[g] # 1)
        /\ \A h \in Sessions \ {g} : (statusRefs'[h] > 0) <=> (statusRefs[h] > 0)
    BY <2>3, <2>4
  <2>6. sessionRefs[g] = (IF g <= session /\ g \notin closed THEN 1 ELSE 0)
                          + 1 + (IF responseRefs[g] > 0 THEN 1 ELSE 0)
    BY <2>2 DEF IInv, SessionCounted
  <2>7. sessionRefs'[g] = (IF g <= session /\ g \notin closed THEN 1 ELSE 0)
                           + (IF statusRefs'[g] > 0 THEN 1 ELSE 0)
                           + (IF responseRefs[g] > 0 THEN 1 ELSE 0)
    <3>1. CASE statusRefs[g] = 1
      BY <3>1, <2>3, <2>4, <2>5, <2>6
    <3>2. CASE statusRefs[g] # 1
      BY <3>2, <2>3, <2>4, <2>5, <2>6
    <3>3. QED
      BY <3>1, <3>2
  <2>8. QED
    BY <2>1, <2>4, <2>5, <2>7 DEF IInv, SessionCounted
<1>22. CASE UNCHANGED vars
  BY <1>22 DEF IInv, SessionCounted, StatusCreator, LoggingIn, TypeOK,
      Pointers, StatusCounted, ResponseCounted, vars, pointers, flags, refs,
      subs, history
<1>23. QED
  BY <1>1, <1>2, <1>3, <1>4, <1>5, <1>6, <1>7, <1>8, <1>9, <1>10, <1>11,
      <1>12, <1>13, <1>14, <1>15, <1>16, <1>17, <1>18, <1>19, <1>20, <1>21,
      <1>22 DEF Next, LoginStep, LogoutStep, Handle

LEMMA ReportsStep == ASSUME IInv, [Next]_vars PROVE Reports'
<1> USE SessionAssumption DEF Sessions
<1>1. CASE LoginFc
  BY <1>1 DEF IInv, TypeOK, Pointers, Reports, LoggingIn, LoginFc, pointers,
      flags, refs, subs, history
<1>2. CASE Login
  <2>1. session \in Sessions /\ cbPc[session] = "idle" /\ ~mSessionEvent[session]
          /\ session \notin up \cup down /\ sessionListener = session
    BY <1>2 DEF Login, IInv, TypeOK, Pointers
  <2>2. UNCHANGED <<session, cbPc, mSessionEvent, up, down>> /\ pc' = "wait"
    BY <1>2 DEF Login, pointers, history
  <2>3. \A g \in Sessions : mConnected'[g] => mConnected[g]
    BY <1>2 DEF Login, Reset, IInv, TypeOK
  <2>4. \A g \in Sessions \ {session} :
          status'[g] = status[g] /\ mConnected'[g] = mConnected[g]
    BY <1>2, <2>1 DEF Login, Reset, IInv, TypeOK
  <2>5. QED
    BY <2>1, <2>2, <2>3, <2>4 DEF IInv, Reports
<1>3. CASE Wake
  BY <1>3 DEF IInv, TypeOK, Pointers, Reports, LoggingIn, Wake, pointers,
      flags, refs, subs, history
<1>4. CASE Timeout
  BY <1>4 DEF IInv, TypeOK, Pointers, Reports, LoggingIn, Timeout, pointers,
      flags, refs, subs, history
<1>5. CASE TestConnected
  BY <1>5 DEF IInv, TypeOK, Pointers, Reports, LoggingIn, TestConnected,
      pointers, flags, refs, subs, history
<1>6. CASE Subscribe
  BY <1>6 DEF IInv, TypeOK, Pointers, Reports, LoggingIn, Subscribe, Add,
      pointers, flags, refs, subs, history
<1>7. CASE UseListener
  BY <1>7 DEF IInv, TypeOK, Pointers, Reports, LoggingIn, UseListener,
      ResponseListenerLives, pointers, flags, refs, subs, history
<1>8. CASE LogoutFc
  BY <1>8 DEF IInv, TypeOK, Pointers, Reports, LoggingIn, LogoutFc, pointers,
      flags, refs, subs, history
<1>9. CASE UnsubscribeResponse
  BY <1>9 DEF IInv, TypeOK, Pointers, Reports, LoggingIn, UnsubscribeResponse,
      DropResponse, Add, pointers, flags, refs, subs, history
<1>10. CASE ReleaseResponse
  BY <1>10 DEF IInv, TypeOK, Pointers, Reports, LoggingIn, ReleaseResponse,
      DropResponse, Add, ResponseListenerLives, pointers, flags, refs, subs,
      history
<1>11. CASE Logout
  BY <1>11 DEF IInv, TypeOK, Pointers, Reports, LoggingIn, Logout, Reset,
      pointers, flags, refs, subs, history
<1>12. CASE UnsubscribeStatus
  BY <1>12 DEF IInv, TypeOK, Pointers, Reports, LoggingIn, UnsubscribeStatus,
      DropStatus, Add, pointers, flags, refs, subs, history
<1>13. CASE ReleaseStatus
  BY <1>13 DEF IInv, TypeOK, Pointers, Reports, LoggingIn, ReleaseStatus,
      DropStatus, Add, pointers, flags, refs, subs, history
<1>14. CASE ReleaseSession
  BY <1>14 DEF IInv, TypeOK, Pointers, Reports, LoggingIn, ReleaseSession,
      Add, pointers, flags, refs, subs, history
<1>15. ASSUME NEW g \in Sessions, NEW s \in Reported, Report(g, s)
      PROVE Reports'
  <2>1. UNCHANGED <<pc, session, mConnected, mSessionEvent>>
    BY <1>15 DEF Report, pointers, flags
  <2>2. cbPc[g] = "idle" /\ status' = [status EXCEPT ![g] = s]
    BY <1>15 DEF Report
  <2>3. CASE g \notin statusSub
    <3>1. UNCHANGED <<cbPc, up, down>>
      BY <1>15, <2>3 DEF Report
    <3>2. QED
      BY <2>1, <2>2, <3>1 DEF IInv, TypeOK, Reports
  <2>4. CASE g \in statusSub
    <3>1. /\ cbPc' = [cbPc EXCEPT ![g] = FirstStep(s)]
          /\ up' = IF s = "Connected" THEN up \cup {g} ELSE up
          /\ down' = IF s = "Disconnected" THEN down \cup {g} ELSE down
      BY <1>15, <2>4 DEF Report
    <3>2. CASE s = "Connected"
      <4>1. FirstStep(s) = "setConnected"
        BY <3>2, Handler
      <4>2. up' = up \cup {g} /\ down' = down
        BY <3>1, <3>2
      <4>3. QED
        BY <2>1, <2>2, <3>1, <3>2, <4>1, <4>2 DEF IInv, TypeOK, Reports
    <3>3. CASE s = "Disconnected"
      <4>1. FirstStep(s) = "setConnected"
        BY <3>3, Handler
      <4>2. up' = up /\ down' = down \cup {g}
        BY <3>1, <3>3
      <4>3. QED
        BY <2>1, <2>2, <3>1, <3>3, <4>1, <4>2 DEF IInv, TypeOK, Reports
    <3>4. CASE s \notin {"Connected", "Disconnected"}
      <4>1. FirstStep(s) \in {"chooseSession", "setError", "leave"}
        BY <3>4, Handler
      <4>2. up' = up /\ down' = down
        BY <3>1, <3>4
      <4>3. QED
        BY <2>1, <2>2, <3>1, <4>1, <4>2 DEF IInv, TypeOK, Reports
    <3>5. QED
      BY <3>2, <3>3, <3>4
  <2>5. QED
    BY <2>3, <2>4
<1>16. ASSUME NEW g \in Sessions, SetConnected(g) PROVE Reports'
  BY <1>16 DEF IInv, TypeOK, Pointers, Reports, LoggingIn, SetConnected,
      pointers, flags, refs, subs, history
<1>17. ASSUME NEW g \in Sessions, SetDisconnected(g) PROVE Reports'
  BY <1>17 DEF IInv, TypeOK, Pointers, Reports, LoggingIn, SetDisconnected,
      pointers, flags, refs, subs, history
<1>18. ASSUME NEW g \in Sessions, Signal(g) PROVE Reports'
  BY <1>18 DEF IInv, TypeOK, Pointers, Reports, LoggingIn, Signal, pointers,
      flags, refs, subs, history
<1>19. ASSUME NEW g \in Sessions, ChooseSession(g) PROVE Reports'
  BY <1>19 DEF IInv, TypeOK, Pointers, Reports, LoggingIn, ChooseSession,
      pointers, flags, refs, subs, history
<1>20. ASSUME NEW g \in Sessions, SetError(g) PROVE Reports'
  BY <1>20 DEF IInv, TypeOK, Pointers, Reports, LoggingIn, SetError, pointers,
      flags, refs, subs, history
<1>21. ASSUME NEW g \in Sessions, Leave(g) PROVE Reports'
  BY <1>21 DEF IInv, TypeOK, Pointers, Reports, LoggingIn, Leave, DropStatus,
      Add, pointers, flags, refs, subs, history
<1>22. CASE UNCHANGED vars
  BY <1>22 DEF IInv, Reports, LoggingIn, TypeOK, Pointers, vars, pointers,
      flags, refs, subs, history
<1>23. QED
  BY <1>1, <1>2, <1>3, <1>4, <1>5, <1>6, <1>7, <1>8, <1>9, <1>10, <1>11,
      <1>12, <1>13, <1>14, <1>15, <1>16, <1>17, <1>18, <1>19, <1>20, <1>21,
      <1>22 DEF Next, LoginStep, LogoutStep, Handle

LEMMA UseIsSafeStep == ASSUME IInv, [Next]_vars PROVE UseIsSafe'
<1> USE SessionAssumption DEF Sessions
<1>1. CASE LoginFc
  BY <1>1 DEF IInv, TypeOK, Pointers, ResponseCounted, UseIsSafe, LoggingIn,
      LoginFc, pointers, flags, refs, subs, history
<1>2. CASE Login
  BY <1>2 DEF IInv, TypeOK, Pointers, ResponseCounted, UseIsSafe, LoggingIn,
      Login, Reset, pointers, flags, refs, subs, history
<1>3. CASE Wake
  BY <1>3 DEF IInv, TypeOK, Pointers, ResponseCounted, UseIsSafe, LoggingIn,
      Wake, pointers, flags, refs, subs, history
<1>4. CASE Timeout
  BY <1>4 DEF IInv, TypeOK, Pointers, ResponseCounted, UseIsSafe, LoggingIn,
      Timeout, pointers, flags, refs, subs, history
<1>5. CASE TestConnected
  BY <1>5 DEF IInv, TypeOK, Pointers, ResponseCounted, UseIsSafe, LoggingIn,
      TestConnected, pointers, flags, refs, subs, history
<1>6. CASE Subscribe
  BY <1>6 DEF IInv, TypeOK, Pointers, ResponseCounted, UseIsSafe, LoggingIn,
      Subscribe, Add, pointers, flags, refs, subs, history
<1>7. CASE UseListener
  BY <1>7 DEF IInv, TypeOK, Pointers, ResponseCounted, UseIsSafe, LoggingIn,
      UseListener, ResponseListenerLives, pointers, flags, refs, subs, history
<1>8. CASE LogoutFc
  BY <1>8 DEF IInv, TypeOK, Pointers, ResponseCounted, UseIsSafe, LoggingIn,
      LogoutFc, pointers, flags, refs, subs, history
<1>9. CASE UnsubscribeResponse
  BY <1>9 DEF IInv, TypeOK, Pointers, ResponseCounted, UseIsSafe, LoggingIn,
      UnsubscribeResponse, DropResponse, Add, pointers, flags, refs, subs,
      history
<1>10. CASE ReleaseResponse
  <2>1. ~failed => ResponseListenerLives
    <3>1. ASSUME ~failed PROVE responseListener = session /\ session \in Sessions
                              /\ session \notin closed
      BY <1>10, <3>1 DEF ReleaseResponse, IInv, TypeOK, Pointers, LoggingIn
    <3>2. QED
      BY <1>10, <3>1 DEF ReleaseResponse, ResponseListenerLives, IInv,
          ResponseCounted
  <2>2. QED
    BY <1>10, <2>1 DEF ReleaseResponse, IInv, UseIsSafe, history
<1>11. CASE Logout
  BY <1>11 DEF IInv, TypeOK, Pointers, ResponseCounted, UseIsSafe, LoggingIn,
      Logout, Reset, pointers, flags, refs, subs, history
<1>12. CASE UnsubscribeStatus
  BY <1>12 DEF IInv, TypeOK, Pointers, ResponseCounted, UseIsSafe, LoggingIn,
      UnsubscribeStatus, DropStatus, Add, pointers, flags, refs, subs, history
<1>13. CASE ReleaseStatus
  BY <1>13 DEF IInv, TypeOK, Pointers, ResponseCounted, UseIsSafe, LoggingIn,
      ReleaseStatus, DropStatus, Add, pointers, flags, refs, subs, history
<1>14. CASE ReleaseSession
  BY <1>14 DEF IInv, TypeOK, Pointers, ResponseCounted, UseIsSafe, LoggingIn,
      ReleaseSession, Add, pointers, flags, refs, subs, history
<1>15. ASSUME NEW g \in Sessions, NEW s \in Reported, Report(g, s)
      PROVE UseIsSafe'
  BY <1>15 DEF IInv, TypeOK, Pointers, ResponseCounted, UseIsSafe, LoggingIn,
      Report, FirstStep, Add, pointers, flags, refs, subs, history
<1>16. ASSUME NEW g \in Sessions, SetConnected(g) PROVE UseIsSafe'
  BY <1>16 DEF IInv, TypeOK, Pointers, ResponseCounted, UseIsSafe, LoggingIn,
      SetConnected, pointers, flags, refs, subs, history
<1>17. ASSUME NEW g \in Sessions, SetDisconnected(g) PROVE UseIsSafe'
  BY <1>17 DEF IInv, TypeOK, Pointers, ResponseCounted, UseIsSafe, LoggingIn,
      SetDisconnected, pointers, flags, refs, subs, history
<1>18. ASSUME NEW g \in Sessions, Signal(g) PROVE UseIsSafe'
  BY <1>18 DEF IInv, TypeOK, Pointers, ResponseCounted, UseIsSafe, LoggingIn,
      Signal, pointers, flags, refs, subs, history
<1>19. ASSUME NEW g \in Sessions, ChooseSession(g) PROVE UseIsSafe'
  BY <1>19 DEF IInv, TypeOK, Pointers, ResponseCounted, UseIsSafe, LoggingIn,
      ChooseSession, pointers, flags, refs, subs, history
<1>20. ASSUME NEW g \in Sessions, SetError(g) PROVE UseIsSafe'
  BY <1>20 DEF IInv, TypeOK, Pointers, ResponseCounted, UseIsSafe, LoggingIn,
      SetError, pointers, flags, refs, subs, history
<1>21. ASSUME NEW g \in Sessions, Leave(g) PROVE UseIsSafe'
  BY <1>21 DEF IInv, TypeOK, Pointers, ResponseCounted, UseIsSafe, LoggingIn,
      Leave, DropStatus, Add, pointers, flags, refs, subs, history
<1>22. CASE UNCHANGED vars
  BY <1>22 DEF IInv, UseIsSafe, LoggingIn, TypeOK, Pointers, ResponseCounted,
      vars, pointers, flags, refs, subs, history
<1>23. QED
  BY <1>1, <1>2, <1>3, <1>4, <1>5, <1>6, <1>7, <1>8, <1>9, <1>10, <1>11,
      <1>12, <1>13, <1>14, <1>15, <1>16, <1>17, <1>18, <1>19, <1>20, <1>21,
      <1>22 DEF Next, LoginStep, LogoutStep, Handle

-----------------------------------------------------------------------------
LEMMA Initially == Init => IInv
<1> SUFFICES ASSUME Init PROVE IInv
  OBVIOUS
<1> USE SessionAssumption DEF Init, Sessions
<1>1. TypeOK
  <2>1. /\ 0 \in 0 .. MaxSessions /\ 0 \in 0 .. 3 /\ 0 \in 0 .. 2
        /\ FALSE \in BOOLEAN
    OBVIOUS
  <2>2. /\ sessionRefs \in [Sessions -> 0 .. 3] /\ statusRefs \in [Sessions -> 0 .. 3]
        /\ responseRefs \in [Sessions -> 0 .. 2]
        /\ session \in 0 .. MaxSessions /\ sessionListener \in 0 .. MaxSessions
        /\ responseListener \in 0 .. MaxSessions
    BY <2>1
  <2>3. /\ mConnected \in [Sessions -> BOOLEAN] /\ mDisconnected \in [Sessions -> BOOLEAN]
        /\ mError \in [Sessions -> BOOLEAN] /\ mSessionEvent \in [Sessions -> BOOLEAN]
    BY Zenon
  <2>4. /\ status \in [Sessions -> Reported \cup {"New", "LoginCalled",
                                                  "TradingSessionSet"}]
        /\ cbPc \in [Sessions -> {"idle", "setConnected", "setDisconnected",
                                  "signal", "chooseSession", "setError", "leave"}]
    BY Zenon
  <2>5. QED
    BY <2>2, <2>3, <2>4, Zenon DEF TypeOK
<1>2. Pointers
  BY DEF Pointers, LoggingIn
<1>3. StatusCounted
  BY DEF StatusCounted, StatusCreator
<1>4. ResponseCounted /\ SessionCounted /\ UseIsSafe
  BY DEF ResponseCounted, SessionCounted, UseIsSafe
<1>5. Reports
  BY DEF Reports, LoggingIn
<1>6. QED
  BY <1>1, <1>2, <1>3, <1>4, <1>5 DEF IInv

LEMMA Inductive == IInv /\ [Next]_vars => IInv'
BY TypeOKStep, PointersStep, StatusCountedStep, ResponseCountedStep,
  SessionCountedStep, ReportsStep, UseIsSafeStep DEF IInv

LEMMA Invariance == SafetySpec => []IInv
BY Initially, Inductive, PTL DEF SafetySpec

\* The types of all variables: no reference count is ever negative.
THEOREM TypeCorrect == SafetySpec => []TypeOK
<1>1. IInv => TypeOK
  BY DEF IInv
<1>2. QED
  BY <1>1, Invariance, PTL

\* No login sleeps through the report it waits for.
THEOREM NoWakeupLost == SafetySpec => []NoLostWakeup
<1>1. IInv => NoLostWakeup
  BY DEF IInv, TypeOK, Reports, NoLostWakeup, Sessions
<1>2. QED
  BY <1>1, Invariance, PTL

\* As long as every login has connected, nothing NULL or deleted is used.
THEOREM SafeUse == SafetySpec => []UseIsSafe
<1>1. IInv => UseIsSafe
  BY DEF IInv
<1>2. QED
  BY <1>1, Invariance, PTL

\* Callbacks only run in listeners, and on sessions, that exist.
THEOREM SafeCallback == SafetySpec => []CallbackIsSafe
<1>1. IInv => CallbackIsSafe
  BY Bounds DEF CallbackIsSafe
<1>2. QED
  BY <1>1, Invariance, PTL

\* What logout_fc has closed is deleted with its last callback.
THEOREM NoLeak == SafetySpec => []NothingLeaks
<1>1. ASSUME IInv, NEW g \in closed, cbPc[g] = "idle"
      PROVE  sessionRefs[g] = 0 /\ statusRefs[g] = 0 /\ responseRefs[g] = 0
  <2>1. g \in Sessions /\ g \in 1 .. session
    BY <1>1 DEF IInv, TypeOK, Pointers
  <2>2. statusRefs[g] = 0 /\ responseRefs[g] = 0
    BY <1>1, <2>1 DEF IInv, StatusCounted, StatusCreator, ResponseCounted
  <2>3. QED
    BY <1>1, <2>1, <2>2 DEF IInv, SessionCounted
<1>2. IInv => NothingLeaks
  BY <1>1 DEF NothingLeaks
<1>3. QED
  BY <1>2, Invariance, PTL

\* The answer of a login that was woken is true of its session.
THEOREM TrueAnswer == SafetySpec => LoginAnswer
<1>1. ASSUME IInv, [Next]_vars
      PROVE  [pc = "test" => /\ pc' = "subscribe" => session \in up
                             /\ pc' = "idle" => session \in down]_vars
  <2>1. SUFFICES ASSUME pc = "test", Next
                 PROVE  /\ pc' = "subscribe" => session \in up
                        /\ pc' = "idle" => session \in down
    BY <1>1
  <2>2. session \in Sessions /\ sessionListener = session
    BY <1>1, <2>1, SessionAssumption DEF IInv, TypeOK, Pointers, Sessions
  <2>3. /\ mConnected[session] => session \in up
        /\ ~mConnected[session] => session \in down
    BY <1>1, <2>1, <2>2 DEF IInv, Reports
  <2>4. TestConnected \/ pc' = pc
    BY <2>1 DEF Next, LoginFc, LoginStep, Login, Wake, Timeout, TestConnected,
      Subscribe, UseListener, LogoutFc, LogoutStep, UnsubscribeResponse,
      ReleaseResponse, Logout, UnsubscribeStatus, ReleaseStatus, ReleaseSession,
      Report, Handle, SetConnected, SetDisconnected, Signal, ChooseSession,
      SetError, Leave
  <2>5. QED
    BY <2>1, <2>2, <2>3, <2>4 DEF TestConnected
<1>2. QED
  BY <1>1, Invariance, PTL DEF SafetySpec, LoginAnswer
=============================================================================
