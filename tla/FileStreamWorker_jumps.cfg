SPECIFICATION Spec
CONSTANTS
  Files = 2
  Infos <- PlayedOnce
  Reconnects = 0
  Client = {c1, c2}
  JumpTo = {1, 2}
  Inputs = 4
  MaxCycle = 1
  MaxJumps = 2
  MaxTime = 0
SYMMETRY Symmetry
INVARIANTS
  OneOwner
  JumpsThere
CHECK_DEADLOCK FALSE
