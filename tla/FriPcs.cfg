SPECIFICATION Spec
CONSTANTS
  Prime = 19
  Exponent = 2
  ExtensionDegree = 1
  Plus <- ModularPlus
  Minus <- ModularMinus
  Times <- ModularTimes
  Setups <- AllSetups
  Polynomials <- AllPolynomials
  OpeningPoints <- AllPoints
  ChallengeSample <- AllChallenges
  DamagedCases <- AllCases
INVARIANTS
  IntactIsAccepted
  CommitPromisesOpen
  OpeningAnswersCommitment
  AcceptMeansConsistent
  ZeroRoundClaimIsTrue
  FinalOracleIndexable
