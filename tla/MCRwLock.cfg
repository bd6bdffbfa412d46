SPECIFICATION RwSpec
CONSTANTS
  Threads = {t1, t2, t3}
  MaxOps = 4
  None = none
INVARIANTS RwTypeOK WriterExclusion NoStrayPermit
PROPERTIES EveryoneReturns
CHECK_DEADLOCK FALSE
