\* FileStream, clients that serialise the requests for an id, and shutdown.
SPECIFICATION FairSpec
CONSTANTS
  Id = {i1}
  Obj = {o1, o2}
  NoObj = NoObj
  Client = {c1, c2}
  Collector = Collector
  Kind = "file"
  Operations = {"start", "stop"}
  ReleaseTime = 1
  Serial = TRUE
  Prompt = TRUE
  Shutdown = TRUE
INVARIANTS ExclusivePush FaultOnlyByStopRace
PROPERTIES
  StopIsFinal KeptForReleaseTime
  RequestAnswered
