SPECIFICATION FairSpec
CONSTANTS
  Handler = {h1, h2}
  Stream = {s1}
  NoStream = NoStream
  MaxMsgSize = 1
  MaxReport = 2
CHECK_DEADLOCK FALSE
INVARIANTS QuietIsSafe ClientsOutliveManagers
PROPERTIES LostAtTheEdges InterruptEnds
