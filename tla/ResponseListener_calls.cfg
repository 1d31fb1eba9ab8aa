\* Calls and answers when a handler may outlive the call it belongs to.
SPECIFICATION Spec
CONSTANTS
    Queries = {q1, q2}
    Orders = {o1, o2}
    Nil = Nil
INVARIANTS
    TypeOK
    NoLostWakeup
    UndisturbedAnswer
    ForeignAnswerIsStraddlers
    RefsBalanced
PROPERTIES
    CallReturns
    KeepsPromise
CHECK_DEADLOCK FALSE
