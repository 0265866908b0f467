SPECIFICATION Spec
CONSTANTS
  Prime = 2
  Exponent = 2
  ExtensionDegree = 6
  Plus <- PairPlus
  Minus <- PairMinus
  Times <- PairTimes
  Inputs <- MCInputs
  WordBits = 8
  ExtraRepetitions = {1, 3}
INVARIANTS
  SelectionIsUsable
  SkippedForCause
