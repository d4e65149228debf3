SPECIFICATION FairSpec
CONSTANTS
  Worlds <- MCLiveWorlds
  ListenerNames = {1, 2}
  RequestCapacity = 1
  ResponseCapacity = 1
  MaxBreaks = 1
PROPERTY Converges
CHECK_DEADLOCK FALSE
