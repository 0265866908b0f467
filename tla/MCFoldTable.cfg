SPECIFICATION Spec
CONSTANTS
  Prime = 31
  Exponent = 2
  ExtensionDegree = 1
  Plus <- ModularPlus
  Minus <- ModularMinus
  Times <- ModularTimes
  DomainSize = 30
  FoldFactor = 3
  Polynomials <- MCPolynomials
  Offsets <- MCOffsets
  Alphas <- MCAlphas
  ThreadCounts = {1, 8}
INVARIANTS
  TableEncodesFold
PROPERTIES
  SlotsWrittenOnce
