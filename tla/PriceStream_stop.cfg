\* stopPrices while an update is handled.
CONSTANTS Instruments = {i1, i2, i3}
          Empty = Empty
          Mixture = Mixture
          NoWrite = NoWrite
          MaxRows = 2
SPECIFICATION Spec
PROPERTIES StopStops
