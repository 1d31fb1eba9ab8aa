\* Every order of delivery, every fate of the order.
SPECIFICATION Spec
CONSTANTS
    OriginAmount = 4
    Garbage <- MCGarbage
INVARIANTS
    TypeOK
    ResultTruthful
    CompletedMeansReceived
    FinalResult
PROPERTIES
    ResultSettles
CHECK_DEADLOCK FALSE
