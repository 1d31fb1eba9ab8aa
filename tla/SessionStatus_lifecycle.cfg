\* Two logins, each of which may fail, time out or connect.
SPECIFICATION Spec
CONSTANTS
    MaxSessions = 2
INVARIANTS
    TypeOK
    NoLostWakeup
    UseIsSafe
    CallbackIsSafe
    NothingLeaks
PROPERTIES
    LoginAnswer
    AnswerEndsWait
    CallsReturn
CHECK_DEADLOCK FALSE
