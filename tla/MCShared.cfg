\* A pipe: two writers and a reader; writes shorter than PIPE_BUF, as long, and
\* longer; room for exactly an atomic write, and for one byte less.  A ring of
\* two cells that three threads use, every cell in two turns at least.  Two CPUs
\* with three calls of synchronize or call_rcu.  Two thin devices with two
\* virtual blocks each on a pool of two.
CONSTANTS
  Writers = {w1, w2}
  Readers = {r1}
  PIPE_BUF = 2
  Capacities = {1, 2}
  WriteLengths = {1, 2, 3}
  ReadLengths = {1, 2}
  MaxCalls = 1
  RingThreads = {t1, t2, t3}
  Items = {i, j}
  Empty = Empty
  Capacity = 2
  MaxPushes = 3
  CPUs = {c1, c2}
  Calls = {"synchronize", "call_rcu"}
  MaxRcuCalls = 3
  Callers = {p, q}
  Devices = {d1, d2}
  VBlocks = {0, 1}
  NoBlock = NoBlock
  NrBlocks = 2
  MaxRefs = 3
SPECIFICATION MCSpec
INVARIANTS
  AtomicWritesStayWhole
  ResultCountsBytes
  CellsHaveOneOwner
  RcuGracePeriodOutlastsReaders
  RcuCallbacksAwaitReaders
  RcuLaterCountsAreRight
  ThinBlocksAreCounted
  ThinSharersAreSnapshots
PROPERTIES
  ImplementsByteStream
  WriteReturns
  ImplementsBoundedQueue
\* A pipe stops for good once both its ends are dropped.
CHECK_DEADLOCK FALSE
