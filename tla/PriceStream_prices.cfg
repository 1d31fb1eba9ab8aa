\* Updates of offers against the assignment of the instrument's name.
CONSTANTS Instruments = {i1, i2, i3}
          Empty = Empty
          Mixture = Mixture
          NoWrite = NoWrite
          MaxRows = 4
SPECIFICATION Spec
INVARIANTS TypeOK PrintsWhatIsAsked
SYMMETRY Symmetry
