SPECIFICATION RequestSpec
CONSTANTS
  Timeouts = {1, 2, 3}
  MILLIS = 3
  IntLimit = 4
  RequestKinds = {"GET", "HEAD"}
  Statuses <- MCStatuses
  MaxAddresses = 2
  Lengths <- MCLengths
  MaxPayload = 2
  MaxPieces = 6
  MaxWait = 4
INVARIANTS
  OnlyCompleteResponses
  TimeBoundedByProgress
  OutcomeIsAReply
PROPERTIES
  RequestEnds
\* A request ends.
CHECK_DEADLOCK FALSE
