SPECIFICATION Spec
CONSTANTS
  Documents <- MCDocuments
  ValidEmails <- MCValidEmails
  Modulus = 2048
INVARIANT DocumentedLimitUsed
\* Loading ends.
CHECK_DEADLOCK FALSE
