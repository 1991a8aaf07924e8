SPECIFICATION ToolSpec
CONSTANTS
  Urls <- MCUrls
  UnsupportedSchemeUrls <- MCUnsupportedSchemeUrls
  BadPortUrls <- MCBadPortUrls
  HttpStatuses <- MCHttpStatuses
  TransportErrors <- MCTransportErrors
  Settings <- MCSettings
  Latencies <- MCLatencies
  MaxReservable = 3
  MaxCalls = 3
  Apps <- MCApps
  Configs <- MCConfigs
  Documents <- MCDocuments
  ValidEmails <- MCValidEmails
  Modulus = 2048
  UnwritablePaths <- MCUnwritablePaths
  LineSizes <- MCLineSizes
  EarlierSizes <- MCEarlierSizes
INVARIANTS
  ToolTypeOK
  StatusTellsOfReport
  WarningsOutliveProcess
  LoadedConfigRuns
PROPERTIES
  ToolEnds
\* The process ends.
CHECK_DEADLOCK FALSE
