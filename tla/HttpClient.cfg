\* Two streams report to one client.  The model stops when the client is
\* closed or every producer has reported MaxSubmit times.
SPECIFICATION FairSpec
CONSTANTS
  Producer = {p1, p2}
  Worker = w
  MaxMsgSize = 2
  MaxSubmit = 2
  NoMsg = NoMsg
  Shutdown = TRUE
CHECK_DEADLOCK FALSE
INVARIANTS OverrunByProducersOnly NoLostWakeup
PROPERTIES ImplementsChannel CallbackLeaves
