CONSTANTS
  MaxIteration = 5
  MaxQlim = 1
  MaxController = 4
  LeastPasses = 3
  MaxArea = 3
  StagnantThreshold = 2
  NPV = 3

SPECIFICATION Spec

CHECK_DEADLOCK FALSE

INVARIANT PushOnOwnMap
