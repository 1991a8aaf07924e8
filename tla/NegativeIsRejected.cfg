SPECIFICATION Spec
CONSTANTS
  Documents <- MCDocuments
  ValidEmails <- MCValidEmails
  Modulus = 2048
INVARIANT NegativeIsRejected
\* Loading ends.
CHECK_DEADLOCK FALSE
