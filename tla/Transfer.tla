------------------------------- MODULE Transfer ------------------------------
(* What the message layer promises: a body that one peer sends reaches the  *)
(* other whole or not at all, and is not changed after that.                *)
CONSTANT Bodies

VARIABLES sent,      \* the body
          received   \* {} before, {the body} after

vars == <<sent, received>>

Init == sent \in Bodies /\ received = {}

Deliver == received = {} /\ received' = {sent} /\ UNCHANGED sent

Next == Deliver

Spec == Init /\ [][Next]_vars
=============================================================================
