CONSTANTS
  r1 = r1
  r2 = r2
  r3 = r3
  Rank = {r1, r2, r3}
  Groups <- MCGroups
  TaskCounts = {0, 1, 3}
  MaxRounds = 2
  MaxCancels = 2
  IntMax = 100

SPECIFICATION FairSpec

INVARIANTS
  OnlyOnce
  AllGiven
  SameTasks

PROPERTIES
  CancelIsFinal
  ImplementsPool
  Terminates
