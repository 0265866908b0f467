SPECIFICATION Spec
CONSTANTS
  Payload = {p1, p2}
  MaxLeaves = 5
  MaxQueries = 3
INVARIANTS
  TypeOK
  WalkStaysOnPlan
  Binding
  SiblingsAreUnique
PROPERTY
  ImplementsVectorCommitment
