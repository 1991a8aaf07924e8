SPECIFICATION LogSpec
CONSTANTS
  Processes = {run}
  MaxSize = 2
  Sizes <- MCSizes
  MaxLines = 6
  MaxFaults = 2
INVARIANTS
  LogTypeOK
  SizeBound
  WarningsKept
PROPERTIES
  OnlyOldestDropped
  ImplementsDurableLog
\* The bound on lines ends the behaviours.
CHECK_DEADLOCK FALSE
