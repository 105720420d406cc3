\* The client's numbers wrap; an old SYN makes a second connection at the server.
CONSTANTS
  SeqNumMod = 64
  ISN <- MCISN
  MaxConns = 2
  MaxData = 2
  MaxReply = 0
  MaxDups = 1
SPECIFICATION Spec
INVARIANTS
  DeliversPrefix
  AckedIsDelivered
  QueuedOnce
CHECK_DEADLOCK FALSE
