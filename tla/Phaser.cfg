CONSTANTS
  Threads = {a, b, c}
  Members = {a, b, c}
  MaxPhases = 3
SPECIFICATION Spec
INVARIANTS WaitsForOthers
CHECK_DEADLOCK FALSE
