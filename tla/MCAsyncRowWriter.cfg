CONSTANTS
  MaxBlocks = 5

SPECIFICATION FairWriterSpec

INVARIANTS
  ClosedIsComplete
  NoLostWakeup

PROPERTIES
  ImplementsRowWriter
  Closes
