\* Every set of quotes in a short span, every period, a file or the screen.
SPECIFICATION Spec
CONSTANTS
    MaxDate = 6
    QueryDepth = 3
    Eps = 1
    Files = {f1}
    NoFile = NoFile
    MayRefuse = TRUE
    MayLackFactory = TRUE
INVARIANTS
    TypeOK
    FilesInOrder
    Complete
PROPERTIES
    DownloadEnds
    NewestFirst
