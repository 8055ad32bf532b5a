CONSTANTS
  r1 = r1
  r2 = r2
  Rank = {r1, r2}
  Devices = {r1, r2}
  NTasks = 4
  WaveSize = 3
  Batchable <- MCBatchable
  Solvable <- MCSolvable
  CheckQlim = TRUE

SPECIFICATION FairSpec

INVARIANTS
  OneRowPerEvent
  OnlyCleanIsEmitted
  SummaryIsOwn
  OverlayOnBase

PROPERTIES
  NeverRetried
  Terminates
