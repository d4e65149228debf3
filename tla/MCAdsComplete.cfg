SPECIFICATION Spec
CONSTANTS
  Worlds <- MCWorlds
  ListenerNames = {1, 2}
  RequestCapacity = 1
  ResponseCapacity = 1
  MaxBreaks = 1
PROPERTY PublishedComplete
CHECK_DEADLOCK FALSE
