SPECIFICATION EndToEndSpec
CONSTANTS
  Worlds <- MCWorlds
  ListenerNames = {1}
  RequestCapacity = 1
  ResponseCapacity = 1
  MaxBreaks = 1
  StaticConfigs <- MCStaticConfigs
  MaxPublished = 14
INVARIANTS
  EndToEndTypeOK
  PublishFindsReceiver
  ServedAtRest
PROPERTY ServesControlPlane
CHECK_DEADLOCK FALSE
