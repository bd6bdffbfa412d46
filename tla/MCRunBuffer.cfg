SPECIFICATION RingSpec
CONSTANTS
  Threads = {t1, t2}
  CAPACITY = 4
  Modulus = 8
  Start = 6
  MaxNodes = 6
  MaxList = 3
  None = none
INVARIANTS RingTypeOK RingSizes
PROPERTIES ImplementsBuffers
CHECK_DEADLOCK FALSE
SYMMETRY Symmetry
