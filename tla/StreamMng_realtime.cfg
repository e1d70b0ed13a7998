\* RealTimeStream, clients that serialise the requests for an id.
SPECIFICATION Spec
CONSTANTS
  Id = {i1}
  Obj = {o1, o2}
  NoObj = NoObj
  Client = {c1, c2}
  Collector = Collector
  Kind = "realtime"
  Operations = {"start", "stop"}
  ReleaseTime = 1
  Serial = TRUE
  Prompt = TRUE
  Shutdown = TRUE
SYMMETRY Symmetry
INVARIANTS ExclusivePush
