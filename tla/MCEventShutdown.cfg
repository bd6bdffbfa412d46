CONSTANTS
  Waiters = {t1, t2}
  Notifiers = {n1}
  Closers = {c1}
SPECIFICATION EventSpec
PROPERTIES ShutdownWakesSleepers
