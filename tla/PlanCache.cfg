SPECIFICATION CacheSpec
CHECK_DEADLOCK FALSE
CONSTANTS
  Threads = {t1, t2, t3}
  Addresses = {a1, a2}
  Configs = {small, large}
  Shapes = {nine}
  None = None
INVARIANTS
  PlanFitsDomain
  OnePlanPerDomain
PROPERTIES
  TransformsReturn
