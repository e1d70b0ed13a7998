----------------------- MODULE MCRealTimeStreamWorker ------------------------
(* A stream without end and one of a second, with and without the codec,    *)
(* with two attempts to reconnect; one without attempts, and one that does  *)
(* not report its stop.                                                     *)
EXTENDS RealTimeStreamWorker

Usual ==
  [duration : {0, 1}, convert : BOOLEAN, stopCallback : {TRUE},
   reconnects : {2}]
NoAttempts ==
  [duration : {0}, convert : BOOLEAN, stopCallback : {TRUE}, reconnects : {0}]
Quiet ==
  [duration : {0}, convert : {FALSE}, stopCallback : {FALSE},
   reconnects : {1}]
AllInfos == Usual \cup NoAttempts \cup Quiet
=============================================================================
