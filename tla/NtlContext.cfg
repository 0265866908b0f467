SPECIFICATION Spec
CONSTANTS
  Threads = {t1, t2}
  Contexts = {small, large, broken}
  VendorSearch = {small}
  Unbuildable = {broken}
  MaxCalls = 2
  None = None
INVARIANTS
  BodyInContext
  LazyStateDeterministic
  LeavesNoTrace
PROPERTIES
  PublishedOnce
  WaitersProceed
