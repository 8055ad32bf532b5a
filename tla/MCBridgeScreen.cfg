SPECIFICATION FairSpec
CONSTANTS
  NBus = 4
  AllOrders = 3
  OneOrder = 5
  Networks <- MCNetworks
INVARIANTS
  ScreenIsExact
  ShortcutIsProbe
PROPERTIES
  Terminates
