\* As many ticket values as threads: the counters wrap at every turn, and all
\* tickets can be out at once.
CONSTANTS
  Threads = {t1, t2, t3, t4}
  TicketMod = 4
  McsThreads = {m1, m2, m3}
  NoNode = NoNode
  CPUs = {c1, c2}
  Locks = {1, 2}
SPECIFICATION MCSpec
INVARIANTS
  TicketsAreDealt
  McsQueueIsLinked
  IrqNoSelfDeadlock
  IrqFlagIsRestored
PROPERTIES
  ServesInOrder
  EveryTicketIsServed
  McsServesInOrder
  McsEveryWaiterEnters
