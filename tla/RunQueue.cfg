\* One CPU and three threads, two levels per class and a slice of two ticks; the
\* parameters put threads into a time-sharing class, at both levels of a
\* real-time class, above the highest level and into the deadline class.  A CPU whose
\* timer interrupt spins on the lock that the CPU itself holds stops for good, so a
\* state without a successor is no error.
CONSTANTS
  CPUs = {c1}
  Threads = {t1, t2, t3}
  None = None
  PRIORITY_LEVELS = 2
  TIME_SLICE = 2
  MaxRunning = 4
  Params <- MCParams
  DefaultParams <- MCDefaultParams
CHECK_DEADLOCK FALSE
SPECIFICATION FairSpec
INVARIANTS
  BitmapMatchesLevels
  RealTimeAsksForResched
  NrRunningCovers
PROPERTIES
  HighestClassRuns
  
