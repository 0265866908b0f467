SPECIFICATION Spec
CONSTANTS
  MaxLeaves = 8
  MaxQueries = 3
INVARIANTS
  PlanIsExactFrontier
  PlanMatchesClosedForm
