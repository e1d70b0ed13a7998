SPECIFICATION FairSpec
CONSTANTS
  Files = 2
  Infos <- PlayedOnce
  Reconnects = 0
  Client = {c1}
  JumpTo = {1}
  Inputs = 4
  MaxCycle = 1
  MaxJumps = 1
  MaxTime = 0
PROPERTIES
  StopReturns
CHECK_DEADLOCK FALSE
