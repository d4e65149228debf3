SPECIFICATION Spec
CONSTANTS
  Worlds <- MCWorlds
  ListenerNames = {}
  RequestCapacity = 2
  ResponseCapacity = 2
  MaxBreaks = 1
INVARIANTS
  TypeOK
  SubscriptionInSync
  FollowsReferences
  OnlyMissingClusters
  MirrorsServer
  IdleSynced
CHECK_DEADLOCK FALSE
