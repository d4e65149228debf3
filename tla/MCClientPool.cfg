SPECIFICATION Spec
CONSTANTS
  Callers = {c1, c2}
  Keys = {"own", "split", "unset"}
  Provider <- MCProvider
  CertProvider <- MCCertProvider
  RootProvider <- MCRootProvider
  MaxRotations = 1
INVARIANTS
  TypeOK
  OneClientPerKey
  FailsForCause
  ReadsOwnFiles
PROPERTIES
  ImplementsCache
  EveryCallReturns
CHECK_DEADLOCK FALSE
