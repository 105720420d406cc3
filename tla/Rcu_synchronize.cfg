CONSTANTS
  CPUs = {c1, c2}
  Calls = {"synchronize", "call_rcu"}
  MaxCalls = 2
SPECIFICATION Spec
PROPERTIES SynchronizeAwaitsReaders
