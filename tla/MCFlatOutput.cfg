SPECIFICATION FairSpec
CONSTANTS
  MaxRanks = 2
  NCases = 2
  MaxRuns = 2
  Modes = {"shared", "parts", "buffered"}
  WaveSizes = {2}
  Pieces = 2
INVARIANTS
  EveryBlockOnce
  BlocksWhole
  StaleOnlyFromIdle
  NoPartLeft
PROPERTIES
  Ends
