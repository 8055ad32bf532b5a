SPECIFICATION Spec
CONSTANTS
  BusOrder <- MCBusOrder
  BranchOrder <- MCBranchOrder
  Ends <- MCEnds
  BranchOf <- MCBranchOf
  RestOf <- MCRestOf
  GenBus <- MCGenBus
  BusRelay <- MCBusRelay
  LineRelay <- MCLineRelay
  PickUp <- MCPickUp
  Breaker <- MCBreaker
  EventLists <- MCRelayBusLists
  EndStep = 3
  None = None
INVARIANTS
  LineStaysOut
CHECK_DEADLOCK FALSE
