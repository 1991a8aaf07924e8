SPECIFICATION RunnerSpec
CONSTANTS
  Urls <- MCUrls
  UnsupportedSchemeUrls <- MCUnsupportedSchemeUrls
  BadPortUrls <- MCBadPortUrls
  HttpStatuses <- MCHttpStatuses
  TransportErrors <- MCTransportErrors
  Settings <- MCSettings
  Latencies <- MCLatencies
  MaxReservable = 3
  MaxCalls = 3
  Apps <- MCApps
  Configs <- MCConfigs
INVARIANTS
  RunnerTypeOK
  ReportTruthful
  ReportsAfterAllChecks
  EveryAppReportedOnce
  MailsFollowSuccess
  RunnerInv
PROPERTIES
  RunEnds
  ImplementsHealthReport
\* A run ends.
CHECK_DEADLOCK FALSE
