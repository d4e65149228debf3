SPECIFICATION Spec
CONSTANTS
  Worlds <- MCInlineWorlds
  ListenerNames = {1, 2}
  RequestCapacity = 1
  ResponseCapacity = 1
  MaxBreaks = 1
INVARIANT ClustersFollowed
CHECK_DEADLOCK FALSE
