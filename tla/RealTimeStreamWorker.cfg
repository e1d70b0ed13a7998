\* One stream, stopped at any time.  Of the time stamps 5 and 6 are in order;
\* 0 after 5 is before the first, and 5 after 0 too far ahead to wait for.
SPECIFICATION FairSpec
CONSTANTS
  Infos <- AllInfos
  Dts = {0, 5, 6}
  Outputs = 2
  MaxTime = 2
  SleepWord = 3
  PositionWord = 20
  IntWord = 8
INVARIANTS FrameAlive StreamsPresent StopBound ErrorTold PacedByClock
PROPERTIES StopReturns
CHECK_DEADLOCK FALSE
