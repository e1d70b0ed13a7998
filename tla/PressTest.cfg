\* Two tests, one or two clients each, of a user who waits for the last to end.
SPECIFICATION Spec
CONSTANTS
  initBlockCount = 2
  growBlockcount = 1
  Examination = 2
  Normal = 3
  Senders = 2
  Share = 1
  Sizes = {0, 2, 3}
  Knowing = {1}
  Patient = TRUE
  MaxStarts = 2
  MaxClients = 4
  MaxCount = 1
INVARIANTS EndsCleanly AloneIsSafe
PROPERTIES StopEndsTest
CHECK_DEADLOCK FALSE
