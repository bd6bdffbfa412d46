CONSTANTS
  Waiters = {t1, t2, t3}
  Notifiers = {n1}
  Closers = {c1}
SPECIFICATION EventSpec
INVARIANTS EventTypeOK SleepersCovered
PROPERTIES TokenDelivered
