SPECIFICATION LogSpec
CONSTANTS
  Processes = {run, next_run}
  MaxSize = 2
  Sizes <- MCOneSize
  MaxLines = 4
  MaxFaults = 0
INVARIANTS
  OwnOrderKept
\* The bound on lines ends the behaviours.
CHECK_DEADLOCK FALSE
