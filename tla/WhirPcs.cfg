SPECIFICATION Spec
CONSTANTS
  Prime = 2
  Exponent = 2
  ExtensionDegree = 6
  Plus <- PairPlus
  Minus <- PairMinus
  Times <- PairTimes
  Setups <- AllSetups
  Sources <- AllSources
  Targets <- AllTargets
  ChallengeSample <- AllChallenges
  PositionBound = 2
  DamagedCases <- AllCases
INVARIANTS
  SigmaIsConstraintSum
  SumcheckMatchesEvaluator
  FoldsAreNextPolynomial
  OpeningAnswersCommitment
  IntactIsAccepted
  AcceptMeansConsistent
