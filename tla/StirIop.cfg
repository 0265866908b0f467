SPECIFICATION Spec
CONSTANTS
  Prime = 163
  Exponent = 2
  ExtensionDegree = 1
  Plus <- ModularPlus
  Minus <- ModularMinus
  Times <- ModularTimes
  Setups <- AllSetups
  Polynomials <- AllPolynomials
  ChallengeSample <- AllChallenges
  PoolBound = 1
  PositionBound = 2
  DamagedCases <- AllCases
INVARIANTS
  IntactIsAccepted
  ProverKeepsBounds
  ShakePoolNeverEmpty
  ReuseIsEncoding
  AcceptMeansConsistent
