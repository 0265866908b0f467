SPECIFICATION Spec
CONSTANTS
  Prime = 2
  Exponent = 2
  ExtensionDegree = 6
  Plus <- PairPlus
  Minus <- PairMinus
  Times <- PairTimes
  Setups <- ZeroSetups
  Sources <- ZeroSources
  Targets <- AllTargets
  ChallengeSample <- AllChallenges
  PositionBound = 2
  DamagedCases <- NoCases
INVARIANTS
  HonestIsAccepted
