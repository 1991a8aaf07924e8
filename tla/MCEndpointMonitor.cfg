SPECIFICATION Spec
CONSTANTS
  Urls <- MCUrls
  UnsupportedSchemeUrls <- MCUnsupportedSchemeUrls
  BadPortUrls <- MCBadPortUrls
  HttpStatuses <- MCHttpStatuses
  TransportErrors <- MCTransportErrors
  Settings <- MCSettings
  Latencies <- MCLatencies
  MaxReservable = 3
  MaxCalls = 2
INVARIANTS
  TypeOK
  AttemptBudget
  VerdictSound
  TranscriptFaithful
  WaitsBetweenAttempts
  MonitorInv
PROPERTY CallEnds
\* A monitor stops after its last call, an exception or a crash.
CHECK_DEADLOCK FALSE
