SPECIFICATION Spec
CONSTANTS
  Pickers = {p1, p2}
  Weights <- MixedWeights
  DispatchRetries = 0
  MaxCalls = 4
  MaxFlips = 4
CHECK_DEADLOCK FALSE
INVARIANTS
  TypeOK
  SoloSendSucceeds
  WeightedShare
SYMMETRY AnyPicker
