SPECIFICATION BundleSpec
CONSTANTS
  Enqueuers = {p1, p2}
  Completions = {a, b, c}
  None = none
INVARIANTS BundleTypeOK NoLostWakeup
PROPERTIES EveryBuildCompletes
CHECK_DEADLOCK FALSE
