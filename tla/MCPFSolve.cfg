CONSTANTS
  MaxIteration = 5
  MaxQlim = 1
  MaxController = 4
  LeastPasses = 3
  MaxArea = 3
  StagnantThreshold = 2
  NPV = 3

SPECIFICATION FairSpec

CHECK_DEADLOCK FALSE

INVARIANTS
  TypeOK
  SummaryAgrees
  AcceptedIsSolved
  NoControlOnFailure

PROPERTY Terminates
