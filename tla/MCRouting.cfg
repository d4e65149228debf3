SPECIFICATION Spec
CONSTANTS
  Tables <- MCTables
  Requests <- MCRequests
INVARIANT RoutesAsConfigured
CHECK_DEADLOCK FALSE
