SPECIFICATION FairSpec
CONSTANTS
  Files = 2
  Infos <- ListAndLimit
  Reconnects = 1
  Client = {c1}
  JumpTo = {1, 2}
  Inputs = 4
  MaxCycle = 1
  MaxJumps = 1
  MaxTime = 1
  Latency = 1
  PacketBytes = {3000}
  Refused <- TestRefused
  PoolSize = 2
  Lists <- TestLists
  Silences <- TestSilences
  Wanted <- TestWanted
  Outputs = {"rtmp", "rtsp"}
  MaxPackets = 2
  MaxTroubles = 1
INVARIANTS PauseNotMissed HeardAsPlayed
PROPERTIES EndsInTime
CHECK_DEADLOCK FALSE
