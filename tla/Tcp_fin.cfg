\* One connection, two bytes, nothing duplicated.
CONSTANTS
  SeqNumMod = 64
  ISN <- MCISN
  MaxConns = 1
  MaxData = 2
  MaxReply = 0
  MaxDups = 0
SPECIFICATION Spec
INVARIANT FinMeansNoMoreData
CHECK_DEADLOCK FALSE
