SPECIFICATION ProcessSpec
CONSTANTS
  StaticConfigs <- MCConfigs
  XdsConfigs <- MCConfigs
  Readers = {}
  MaxPublished = 3
  Own <- MCOwn
  Files <- MCFiles
INVARIANT PodFieldsFromEnvironment
CHECK_DEADLOCK FALSE
