SPECIFICATION Spec
CONSTANTS
  StaticConfigs <- MCConfigs
  XdsConfigs <- MCConfigs
  Readers = {r1}
  MaxPublished = 4
INVARIANTS
  TypeOK
  SingleApplier
  ReadyReplyCoherent
  NoLostUpdate
PROPERTIES
  ReadyStable
  ImplementsRegister
  EventuallyServed
