SPECIFICATION ProcessSpec
CONSTANTS
  StaticConfigs <- MCConfigs
  XdsConfigs <- MCConfigs
  Readers = {}
  MaxPublished = 3
  Own <- MCOwn
  Files <- MCFiles
INVARIANTS
  ProcessTypeOK
  StaticBeforeRequests
PROPERTY BothServersOrNone
CHECK_DEADLOCK FALSE
