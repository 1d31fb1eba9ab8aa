\* The download after one that has failed.
CONSTANTS MaxDate = 4
          QueryDepth = 2
          Eps = 0
          Files = {f1, f2}
          NoFile = NoFile
          MayRefuse = FALSE
          MayLackFactory = FALSE
SPECIFICATION SafetySpec
INVARIANTS OutputFile
