SPECIFICATION Spec
CONSTANTS
  Prime = 163
  Exponent = 2
  ExtensionDegree = 1
  Plus <- ModularPlus
  Minus <- ModularMinus
  Times <- ModularTimes
  kParallelRadix3Threshold = 27
  kParallelEncodeThreshold = 9
  Calls <- MCCalls
INVARIANTS
  ResultIsReference
  StagesHoldResidues
