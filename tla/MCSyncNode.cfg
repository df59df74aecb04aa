SPECIFICATION FairSpec
CONSTANTS
  PostThreads = {p1, p2}
  MaxQueued = 1
  MaxReads = 2
  Nodes = {1, 2}
  Setups <- SmallSetups
INVARIANTS TypeOK ReadyIsListening ReadyIsServed SyncFollowsNodes
PROPERTY TicksReturn
CHECK_DEADLOCK FALSE
