\* Two callers, which may be of the same device and the same virtual block.
CONSTANTS
  Callers = {p, q}
  Devices = {d1, d2}
  VBlocks = {0, 1}
  NoBlock = NoBlock
  NrBlocks = 3
  MaxRefs = 3
SPECIFICATION Spec
INVARIANT ProvisionsUnmapped
