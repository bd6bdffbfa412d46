SPECIFICATION QueueSpec
CONSTANTS
  Producers = {p1, p2, p3}
  Nodes = {a, b, c, d}
  None = none
  MaxChain = 2
INVARIANTS QueueTypeOK OldBackLive PopSeesReturnedPush IsEmptyHonest
PROPERTIES IsFifo PopReturns
