SPECIFICATION Spec
CONSTANTS
  Documents <- MCDocuments
  ValidEmails <- MCValidEmails
  Modulus = 2048
INVARIANTS
  LoaderTypeOK
  AcceptedExactly
  FirstProblemReported
  LoadedAsWritten
  LoadedIsBuildable
\* Loading ends.
CHECK_DEADLOCK FALSE
