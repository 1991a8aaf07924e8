SPECIFICATION Spec
CONSTANTS
  Recipients <- MCRecipients
  MaxRecipients = 2
  BufferSizes <- MCBufferSizes
  MaxMails = 2
INVARIANTS
  TypeOK
  UploadIsPrefix
  TrueMeansDelivered
  NothingLeaks
PROPERTY SendEnds
\* The last call has returned.
CHECK_DEADLOCK FALSE
