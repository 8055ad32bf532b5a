SPECIFICATION Spec
CONSTANTS
  BusOrder <- MCBusOrder
  BranchOrder <- MCBranchOrder
  Ends <- MCEnds
  BranchOf <- MCBranchOf
  RestOf <- MCRestOf
  GenBus <- MCGenBus
  BusRelay <- MCBusRelay
  LineRelay <- MCLineRelay
  PickUp <- MCPickUp
  Breaker <- MCBreaker
  EventLists <- MCEventLists
  EndStep = 3
  None = None
INVARIANTS
  MatrixIsNetwork
PROPERTIES
  RelayIsPatient
CHECK_DEADLOCK FALSE
