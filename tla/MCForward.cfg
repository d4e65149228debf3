SPECIFICATION Spec
CONSTANTS
  Characters = {"d", "h", "p", "v", "comma", "bar"}
  WeightModulus = 8
  CounterModulus = 16
  Configs <- MCConfigs
  Inputs <- MCInputs
  Malformed = {"w2"}
  Requests = {q1, q2}
  Providers <- MCProviders
SYMMETRY MCSymmetry
INVARIANTS
  TypeOK
  NoConfigurationHole
  DrainedClusterUnused
  SentToHealthyDestination
  SentAsClusterRequires
