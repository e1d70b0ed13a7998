--------------------------- MODULE MCMessageQueue ---------------------------
(* MessageQueue for model checking, with no symmetry as the run is also    *)
(* about liveness.                                                         *)
EXTENDS MessageQueue
=============================================================================
