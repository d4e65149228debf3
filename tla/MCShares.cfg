SPECIFICATION SharesSpec
CONSTANTS
  Characters = {"d", "h", "p", "u", "v", "comma", "bar"}
  WeightModulus = 8
  CounterModulus = 16
  Configs <- MCConfigs
  Inputs <- MCInputs
  Malformed = {"w2"}
  Requests = {q1}
  Providers = {}
INVARIANT SharesMatchWeights
CHECK_DEADLOCK FALSE
