SPECIFICATION RunnerSpec
CONSTANTS
  Urls <- MCUrls
  UnsupportedSchemeUrls <- MCUnsupportedSchemeUrls
  BadPortUrls <- MCBadPortUrls
  HttpStatuses <- MCHttpStatuses
  TransportErrors <- MCTransportErrors
  Settings <- MCSettings
  Latencies <- MCLatencies
  MaxReservable = 3
  MaxCalls = 3
  Apps <- MCApps
  Configs <- MCConfigs
INVARIANT ResultsAreLogged
\* A run ends.
CHECK_DEADLOCK FALSE
