\* WRITER = 3: three readers reach the limit, which 2^31 - 1 of them reach in
\* the code.  GenMod = 2: the generation wraps at every second round.
CONSTANTS
  Threads = {t1, t2, t3, t4}
  WRITER = 3
  SeqThreads = {s1, s2, s3}
  Words = {1, 2}
  MaxValue = 2
  MaxSeq = 2
  Crew = {c1, c2, c3, c4}
  GenMod = 2
  MaxRounds = 3
  OnceThreads = {o1, o2, o3}
  NoValue = NoValue
  Uses = {{"get_or_init", "set"}, {"get_or_try_init"}}
  Outcomes = {"ok", "err", "panic"}
  Builds = {TRUE, FALSE}
  N = 5
  Radix = 2
SPECIFICATION MCSpec
INVARIANTS
  ReadsAreWhole
  OneLeaderPerRound
  WpWritersArePreferred
  CallOnceInitializesOnce
  SuccessMeansStored
  ReturnsInitialized
PROPERTIES
  ReadersShareWritersExclude
  NobodyPassesEarly
  EverybodyPasses
  WpReadersShareWritersExclude
  WpSomeWriterEnters
  CallsEnd
  TreeNobodyPassesEarly
\* When every initialiser has panicked, or the bounds are reached, nobody calls.
CHECK_DEADLOCK FALSE
