---------------------------- MODULE SessionStatus ----------------------------
(***************************************************************************)
(* Logging in and out.  Each login_fc creates a session with a listener of *)
(* its status and, once connected, one of its responses; logout_fc undoes  *)
(* it, through three global pointers that are never set back to NULL.      *)
(*                                                                         *)
(* Sessions are numbered in the order they are created, a listener has the *)
(* number of its session, and 0 is NULL.  The MATLAB thread (pc) runs the  *)
(* scripts FC_login.m, FC_logout.m and those that use the library; every   *)
(* session calls its status listener on a thread of its own (cbPc).        *)
(*                                                                         *)
(* All three classes count references.  The library is taken to own a      *)
(* reference to a listener that is subscribed, and another one while it    *)
(* calls it, which is what the counts are there for.                       *)
(***************************************************************************)
EXTENDS Integers, FiniteSets

CONSTANTS
    MaxSessions     \* bound: sessions created

ASSUME SessionAssumption == MaxSessions \in Nat \ {0}

Sessions == 1 .. MaxSessions

\* What a session reports to its status listener: the values of
\* O2GSessionStatus, and the call of onLoginFailed.
Quiet    == {"Connecting", "Reconnecting", "Disconnecting", "SessionLost",
             "NeedToChangePassword"}
Reported == Quiet \cup {"TradingSessionRequested", "Connected", "Disconnected",
                        "LoginFailed"}

\* External: the order in which a session's status changes.
Follows ==
    {"LoginCalled"} \X {"Connecting"}
      \cup {"Connecting"} \X {"TradingSessionRequested"}
      \cup {"Connecting", "TradingSessionSet"}
             \X {"Connected", "NeedToChangePassword", "LoginFailed"}
      \cup {"LoginFailed"} \X {"Disconnected"}
      \cup {"Connected"} \X {"SessionLost"}
      \cup {"SessionLost"} \X {"Reconnecting"}
      \cup {"Reconnecting"} \X {"Connected", "Disconnected"}
      \cup {"Connected", "TradingSessionRequested", "NeedToChangePassword"}
             \X {"Disconnecting"}
      \cup {"Disconnecting"} \X {"Disconnected"}

VARIABLES
    loaded,                                     \* libisloaded('fc_matlab')
    pc,                                         \* the MATLAB thread
    session, sessionListener, responseListener, \* the global pointers
    mConnected, mDisconnected, mError,          \* fields of the status listeners
    mSessionEvent,
    sessionRefs, statusRefs, responseRefs,      \* reference counts
    statusSub, responseSub,                     \* sessions with a subscribed listener
    status,                                     \* what each session last reported
    cbPc,                                       \* the sessions' callback threads
    crashed,                                    \* a NULL or dead object was used
    failed,            \* history: has a login_fc returned without a connection?
    up, down,          \* history: sessions reported connected, disconnected
    closed             \* history: sessions that logout_fc took down

pointers == <<session, sessionListener, responseListener>>
flags    == <<mConnected, mDisconnected, mError, mSessionEvent>>
refs     == <<sessionRefs, statusRefs, responseRefs>>
subs     == <<statusSub, responseSub>>
history  == <<failed, up, down, closed>>
vars     == <<loaded, pc, pointers, flags, refs, subs, status, cbPc, crashed,
              history>>

\* A type invariant: in particular, no count ever becomes negative.
TypeOK ==
    /\ loaded \in BOOLEAN /\ crashed \in BOOLEAN /\ failed \in BOOLEAN
    /\ pc \in {"idle", "login", "wait", "test", "subscribe", "unsubscribe",
               "releaseResponse", "logout", "unsubscribeStatus",
               "releaseStatus", "releaseSession"}
    /\ session \in 0 .. MaxSessions
    /\ sessionListener \in 0 .. MaxSessions
    /\ responseListener \in 0 .. MaxSessions
    /\ mConnected \in [Sessions -> BOOLEAN]
    /\ mDisconnected \in [Sessions -> BOOLEAN]
    /\ mError \in [Sessions -> BOOLEAN]
    /\ mSessionEvent \in [Sessions -> BOOLEAN]
    /\ sessionRefs \in [Sessions -> 0 .. 3]
    /\ statusRefs \in [Sessions -> 0 .. 3]
    /\ responseRefs \in [Sessions -> 0 .. 2]
    /\ statusSub \subseteq Sessions
    /\ responseSub \subseteq Sessions
    /\ status \in [Sessions -> Reported \cup {"New", "LoginCalled",
                                              "TradingSessionSet"}]
    /\ cbPc \in [Sessions -> {"idle", "setConnected", "setDisconnected",
                              "signal", "chooseSession", "setError", "leave"}]
    /\ up \subseteq Sessions /\ down \subseteq Sessions
    /\ closed \subseteq Sessions

Init ==
    /\ loaded = FALSE
    /\ pc = "idle"
    /\ session = 0 /\ sessionListener = 0 /\ responseListener = 0
    /\ mConnected = [g \in Sessions |-> FALSE]
    /\ mDisconnected = [g \in Sessions |-> FALSE]
    /\ mError = [g \in Sessions |-> FALSE]
    /\ mSessionEvent = [g \in Sessions |-> FALSE]
    /\ sessionRefs = [g \in Sessions |-> 0]
    /\ statusRefs = [g \in Sessions |-> 0]
    /\ responseRefs = [g \in Sessions |-> 0]
    /\ statusSub = {} /\ responseSub = {}
    /\ status = [g \in Sessions |-> "New"]
    /\ cbPc = [g \in Sessions |-> "idle"]
    /\ crashed = FALSE /\ failed = FALSE
    /\ up = {} /\ down = {} /\ closed = {}

-----------------------------------------------------------------------------
\* Counting references

Add(counts, g, n) == [counts EXCEPT ![g] = @ + n]

\* A listener's destructor releases its session.
DropStatus(g) ==
    /\ statusRefs' = Add(statusRefs, g, -1)
    /\ sessionRefs' = IF statusRefs[g] = 1 THEN Add(sessionRefs, g, -1)
                                           ELSE sessionRefs

\* Mutant: the destructor of the response listener keeps its session.
DropResponseKeeps(g) ==
    /\ responseRefs' = Add(responseRefs, g, -1)
    /\ UNCHANGED sessionRefs

DropResponse(g) ==
    /\ responseRefs' = Add(responseRefs, g, -1)
    /\ sessionRefs' = IF responseRefs[g] = 1 THEN Add(sessionRefs, g, -1)
                                             ELSE sessionRefs

\* The response listener can be used: it is neither NULL nor deleted.
ResponseListenerLives ==
    responseListener # 0 /\ responseRefs[responseListener] > 0

-----------------------------------------------------------------------------
\* FC_login.m

\* Mutant: the status listener's constructor sets mRefCount to 0.
LoginFcUncounted ==
    /\ pc = "idle" /\ session < MaxSessions
    /\ loaded' = TRUE
    /\ session' = session + 1
    /\ sessionListener' = session + 1
    /\ sessionRefs' = [sessionRefs EXCEPT ![session + 1] = 2]
    /\ statusRefs' = [statusRefs EXCEPT ![session + 1] = 1]
    /\ statusSub' = statusSub \cup {session + 1}
    /\ pc' = "login"
    /\ UNCHANGED <<responseListener, flags, responseRefs, responseSub, status,
                   cbPc, crashed, history>>

\* Mutant: the status listener's constructor does not add a reference to its
\* session.
LoginFcBorrows ==
    /\ pc = "idle" /\ session < MaxSessions
    /\ loaded' = TRUE
    /\ session' = session + 1
    /\ sessionListener' = session + 1
    /\ sessionRefs' = [sessionRefs EXCEPT ![session + 1] = 1]
    /\ statusRefs' = [statusRefs EXCEPT ![session + 1] = 2]
    /\ statusSub' = statusSub \cup {session + 1}
    /\ pc' = "login"
    /\ UNCHANGED <<responseListener, flags, responseRefs, responseSub, status,
                   cbPc, crashed, history>>

\* login_fc: createSession, the status listener and its subscription.
\* The session is owned by its creator and by the listener, the listener by
\* its creator and by the library.
LoginFc ==
    /\ pc = "idle" /\ session < MaxSessions
    /\ loaded' = TRUE
    /\ session' = session + 1
    /\ sessionListener' = session + 1
    /\ sessionRefs' = [sessionRefs EXCEPT ![session + 1] = 2]
    /\ statusRefs' = [statusRefs EXCEPT ![session + 1] = 2]
    /\ statusSub' = statusSub \cup {session + 1}
    /\ pc' = "login"
    /\ UNCHANGED <<responseListener, flags, responseRefs, responseSub, status,
                   cbPc, crashed, history>>

\* reset
Reset(g) ==
    /\ mConnected' = [mConnected EXCEPT ![g] = FALSE]
    /\ mDisconnected' = [mDisconnected EXCEPT ![g] = FALSE]
    /\ mError' = [mError EXCEPT ![g] = FALSE]

\* Mutant: the flags are reset after IO2GSession::login.
LoginResetsLate ==
    /\ pc = "login"
    /\ IF status[session] = "New"
         THEN /\ status' = [status EXCEPT ![session] = "LoginCalled"]
              /\ UNCHANGED <<mConnected, mDisconnected, mError, pc>>
         ELSE Reset(sessionListener) /\ pc' = "wait" /\ UNCHANGED status
    /\ UNCHANGED <<loaded, pointers, mSessionEvent, refs, subs, cbPc, crashed,
                   history>>

\* login: reset and IO2GSession::login
Login ==
    /\ pc = "login"
    /\ Reset(sessionListener)
    /\ status' = [status EXCEPT ![session] = "LoginCalled"]
    /\ pc' = "wait"
    /\ UNCHANGED <<loaded, pointers, mSessionEvent, refs, subs, cbPc, crashed,
                   history>>

\* waitEvents
Wake ==
    /\ pc = "wait" /\ mSessionEvent[sessionListener]
    /\ mSessionEvent' = [mSessionEvent EXCEPT ![sessionListener] = FALSE]
    /\ pc' = "test"
    /\ UNCHANGED <<loaded, pointers, mConnected, mDisconnected, mError, refs,
                   subs, status, cbPc, crashed, history>>

\* Mutant: the wait begins again.
TimeoutWaitsOn ==
    /\ pc = "wait"
    /\ UNCHANGED vars

Timeout ==
    /\ pc = "wait"
    /\ pc' = "idle"
    /\ failed' = TRUE
    /\ UNCHANGED <<loaded, pointers, flags, refs, subs, status, cbPc, crashed,
                   up, down, closed>>

\* isConnected; login_fc returns 1 in either case
TestConnected ==
    /\ pc = "test"
    /\ IF mConnected[sessionListener]
         THEN pc' = "subscribe" /\ UNCHANGED failed
         ELSE pc' = "idle" /\ failed' = TRUE
    /\ UNCHANGED <<loaded, pointers, flags, refs, subs, status, cbPc, crashed,
                   up, down, closed>>

\* Mutant: the response listener's constructor sets mRefCount to 0.
SubscribeUncounted ==
    /\ pc = "subscribe"
    /\ responseListener' = session
    /\ responseRefs' = [responseRefs EXCEPT ![session] = 1]
    /\ sessionRefs' = Add(sessionRefs, session, 1)
    /\ responseSub' = responseSub \cup {session}
    /\ pc' = "idle"
    /\ UNCHANGED <<loaded, session, sessionListener, flags, statusRefs,
                   statusSub, status, cbPc, crashed, history>>

\* The response listener and its subscription: the listener is owned by its
\* creator and by the library, and owns the session.
Subscribe ==
    /\ pc = "subscribe"
    /\ responseListener' = session
    /\ responseRefs' = [responseRefs EXCEPT ![session] = 2]
    /\ sessionRefs' = Add(sessionRefs, session, 1)
    /\ responseSub' = responseSub \cup {session}
    /\ pc' = "idle"
    /\ UNCHANGED <<loaded, session, sessionListener, flags, statusRefs,
                   statusSub, status, cbPc, crashed, history>>

-----------------------------------------------------------------------------
\* The scripts that use the library: getRealTimePrices, stopPrices and
\* getAccountBalance begin by using the response listener.
UseListener ==
    /\ pc = "idle" /\ loaded
    /\ crashed' = ~ResponseListenerLives
    /\ UNCHANGED <<loaded, pc, pointers, flags, refs, subs, status, cbPc, history>>

-----------------------------------------------------------------------------
\* FC_logout.m: each line of logout_fc is a step

LogoutFc ==
    /\ pc = "idle" /\ loaded
    /\ pc' = "unsubscribe"
    /\ UNCHANGED <<loaded, pointers, flags, refs, subs, status, cbPc, crashed,
                   history>>

\* unsubscribeResponse: the library drops its reference, and ignores a
\* listener that is not subscribed to this session.
UnsubscribeResponse ==
    /\ pc = "unsubscribe"
    /\ IF responseListener = session /\ session \in responseSub
         THEN DropResponse(session) /\ responseSub' = responseSub \ {session}
         ELSE UNCHANGED <<responseRefs, sessionRefs, responseSub>>
    /\ pc' = "releaseResponse"
    /\ UNCHANGED <<loaded, pointers, flags, statusRefs, statusSub, status, cbPc,
                   crashed, history>>

ReleaseResponse ==
    /\ pc = "releaseResponse"
    /\ IF ResponseListenerLives
         THEN DropResponse(responseListener) /\ UNCHANGED crashed
         ELSE crashed' = TRUE /\ UNCHANGED <<responseRefs, sessionRefs>>
    /\ pc' = "logout"
    /\ UNCHANGED <<loaded, pointers, flags, statusRefs, subs, status, cbPc,
                   history>>

\* logout: reset and IO2GSession::logout, which returns at once; the session
\* reports the disconnection when it comes to it.
Logout ==
    /\ pc = "logout"
    /\ Reset(sessionListener)
    /\ pc' = "unsubscribeStatus"
    /\ UNCHANGED <<loaded, pointers, mSessionEvent, refs, subs, status, cbPc,
                   crashed, history>>

UnsubscribeStatus ==
    /\ pc = "unsubscribeStatus"
    /\ DropStatus(session)
    /\ statusSub' = statusSub \ {session}
    /\ pc' = "releaseStatus"
    /\ UNCHANGED <<loaded, pointers, flags, responseRefs, responseSub, status,
                   cbPc, crashed, history>>

ReleaseStatus ==
    /\ pc = "releaseStatus"
    /\ DropStatus(sessionListener)
    /\ pc' = "releaseSession"
    /\ UNCHANGED <<loaded, pointers, flags, responseRefs, subs, status, cbPc,
                   crashed, history>>

\* session->release, and unloadlibrary of the script
ReleaseSession ==
    /\ pc = "releaseSession"
    /\ sessionRefs' = Add(sessionRefs, session, -1)
    /\ closed' = closed \cup {session}
    /\ loaded' = FALSE
    /\ pc' = "idle"
    /\ UNCHANGED <<pointers, flags, statusRefs, responseRefs, subs, status,
                   cbPc, crashed, failed, up, down>>

-----------------------------------------------------------------------------
\* The callback thread of session g

\* Which handler, and where in it, serves a report
FirstStep(s) ==
    CASE s \in {"Connected", "Disconnected"} -> "setConnected"
      [] s = "TradingSessionRequested"       -> "chooseSession"
      [] s = "LoginFailed"                   -> "setError"
      [] s \in Quiet                         -> "leave"

\* A session reports s; its listener is called only while it is subscribed.
Report(g, s) ==
    /\ sessionRefs[g] > 0 /\ cbPc[g] = "idle"
    /\ <<status[g], s>> \in Follows
    /\ status' = [status EXCEPT ![g] = s]
    /\ IF g \in statusSub
         THEN /\ cbPc' = [cbPc EXCEPT ![g] = FirstStep(s)]
              /\ statusRefs' = Add(statusRefs, g, 1)
              /\ up' = IF s = "Connected" THEN up \cup {g} ELSE up
              /\ down' = IF s = "Disconnected" THEN down \cup {g} ELSE down
         ELSE UNCHANGED <<cbPc, statusRefs, up, down>>
    /\ UNCHANGED <<loaded, pc, pointers, flags, sessionRefs, responseRefs, subs,
                   crashed, failed, closed>>

\* onSessionStatusChanged(Connected) and (Disconnected)
SetConnected(g) ==
    /\ cbPc[g] = "setConnected"
    /\ mConnected' = [mConnected EXCEPT ![g] = status[g] = "Connected"]
    /\ cbPc' = [cbPc EXCEPT ![g] = "setDisconnected"]
    /\ UNCHANGED <<loaded, pc, pointers, mDisconnected, mError, mSessionEvent,
                   refs, subs, status, crashed, history>>

SetDisconnected(g) ==
    /\ cbPc[g] = "setDisconnected"
    /\ mDisconnected' = [mDisconnected EXCEPT ![g] = status[g] = "Disconnected"]
    /\ cbPc' = [cbPc EXCEPT ![g] = "signal"]
    /\ UNCHANGED <<loaded, pc, pointers, mConnected, mError, mSessionEvent,
                   refs, subs, status, crashed, history>>

\* Mutant: only the connection signals the event.
SignalConnectedOnly(g) ==
    /\ cbPc[g] = "signal"
    /\ mSessionEvent' =
         [mSessionEvent EXCEPT ![g] = @ \/ status[g] = "Connected"]
    /\ cbPc' = [cbPc EXCEPT ![g] = "leave"]
    /\ UNCHANGED <<loaded, pc, pointers, mConnected, mDisconnected, mError,
                   refs, subs, status, crashed, history>>

Signal(g) ==
    /\ cbPc[g] = "signal"
    /\ mSessionEvent' = [mSessionEvent EXCEPT ![g] = TRUE]
    /\ cbPc' = [cbPc EXCEPT ![g] = "leave"]
    /\ UNCHANGED <<loaded, pc, pointers, mConnected, mDisconnected, mError,
                   refs, subs, status, crashed, history>>

\* onSessionStatusChanged(TradingSessionRequested): login_fc asks for the
\* session "", which is among the descriptors or is not.
ChooseSession(g) ==
    /\ cbPc[g] = "chooseSession"
    /\ \/ cbPc' = [cbPc EXCEPT ![g] = "setError"] /\ UNCHANGED status
       \/ /\ cbPc' = [cbPc EXCEPT ![g] = "leave"]
          /\ status' = [status EXCEPT ![g] = "TradingSessionSet"]
    /\ UNCHANGED <<loaded, pc, pointers, flags, refs, subs, crashed, history>>

\* onLoginFailed
SetError(g) ==
    /\ cbPc[g] = "setError"
    /\ mError' = [mError EXCEPT ![g] = TRUE]
    /\ cbPc' = [cbPc EXCEPT ![g] = "leave"]
    /\ UNCHANGED <<loaded, pc, pointers, mConnected, mDisconnected,
                   mSessionEvent, refs, subs, status, crashed, history>>

\* External: a call of the listener is over
Leave(g) ==
    /\ cbPc[g] = "leave"
    /\ DropStatus(g)
    /\ cbPc' = [cbPc EXCEPT ![g] = "idle"]
    /\ UNCHANGED <<loaded, pc, pointers, flags, responseRefs, subs, status,
                   crashed, history>>

-----------------------------------------------------------------------------
LoginStep  == Login \/ Wake \/ TestConnected \/ Subscribe
LogoutStep == UnsubscribeResponse \/ ReleaseResponse \/ Logout
                \/ UnsubscribeStatus \/ ReleaseStatus \/ ReleaseSession
Handle(g)  == SetConnected(g) \/ SetDisconnected(g) \/ Signal(g)
                \/ ChooseSession(g) \/ SetError(g) \/ Leave(g)

Next ==
    /\ ~crashed
    /\ \/ LoginFc \/ LoginStep \/ Timeout
       \/ UseListener
       \/ LogoutFc \/ LogoutStep
       \/ \E g \in Sessions : (\E s \in Reported : Report(g, s)) \/ Handle(g)

SafetySpec == Init /\ [][Next]_vars

\* Both threads are scheduled; the library need not report anything, and a wait
\* need not time out.
Spec == /\ SafetySpec
        /\ WF_vars(~crashed /\ (LoginStep \/ LogoutStep))
        /\ \A g \in Sessions : WF_vars(~crashed /\ Handle(g))

-----------------------------------------------------------------------------
\* A login that still waits once its session has reported the connection or
\* the disconnection finds the event signalled: with the flags set before the
\* event, and the event signalled by every such report, no wake-up is lost.
NoLostWakeup ==
    pc = "wait" /\ session \in up \cup down /\ cbPc[session] = "idle"
      => mSessionEvent[session]

\* The answer of a login that was woken is true of its session: it goes on only
\* after the session has been connected, and gives up only if the session has
\* been disconnected (the reset of the flags comes before IO2GSession::login).
LoginAnswer ==
    [][pc = "test" =>
         /\ pc' = "subscribe" => session \in up
         /\ pc' = "idle" => session \in down]_vars

\* As long as every login_fc has connected, no script and no callback ever uses
\* a listener that is NULL or deleted, whatever the scripts are called for and
\* although logout_fc does not wait for the disconnection.
UseIsSafe == crashed => failed

\* A callback never runs in a listener, or on a session, that is deleted, even
\* if logout_fc takes them down meanwhile.
CallbackIsSafe ==
    \A g \in Sessions : cbPc[g] # "idle" => statusRefs[g] > 0 /\ sessionRefs[g] > 0

\* logout_fc leaves nothing behind: once the last callback is over, the session
\* it closed and both its listeners are deleted.
NothingLeaks ==
    \A g \in closed : cbPc[g] = "idle" =>
        sessionRefs[g] = 0 /\ statusRefs[g] = 0 /\ responseRefs[g] = 0

\* The report of the connection, or of the disconnection, ends the wait of
\* login_fc, which does not need its timeout for that.
AnswerEndsWait == \A g \in Sessions :
    pc = "wait" /\ session = g /\ g \in up \cup down ~> pc # "wait"

\* If a wait that goes on times out, each call of login_fc and of logout_fc
\* returns (or crashes), whatever the server reports or does not: also the login
\* that is told to change the password, and the one whose trading session is
\* not found, neither of which signals the event.
CallsReturn ==
    WF_vars(~crashed /\ Timeout) => (pc # "idle" ~> pc = "idle" \/ crashed)
=============================================================================
