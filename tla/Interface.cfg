SPECIFICATION Spec
CONSTANTS
  Clients = {c1, c2}
  Id <- TestIds
  Workloads <- FileAndRealtime
  Configs <- TestConfigs
  Media <- TestMedia
  PushUrls <- Urls
  streamReleaseTime = 0
  MaxStreams = 2
  MaxRequests = 3
  ReloadsUntil = 1
  MaxTime = 2
SYMMETRY Symmetry
INVARIANTS ShownAsAsked StoppedTellsWhy ReportsAsAsked FreedOnlyWhenDue QueryComplete
CHECK_DEADLOCK FALSE
