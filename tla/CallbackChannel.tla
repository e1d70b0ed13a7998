-------------------------- MODULE CallbackChannel --------------------------
(* What the HTTP client promises the streams: a callback is delivered at   *)
(* most once, callbacks are delivered in the order in which they were      *)
(* submitted, and some may be lost on the way.                             *)
EXTENDS Sequences, SequencesExt

CONSTANT Msg

VARIABLES pending, delivered

Init == pending = <<>> /\ delivered = <<>>

Used(m) == \E i \in DOMAIN pending : pending[i] = m

Submit(m) ==
  /\ ~Used(m) /\ \A i \in DOMAIN delivered : delivered[i] # m
  /\ pending' = Append(pending, m)
  /\ UNCHANGED delivered

Deliver ==
  /\ pending # <<>>
  /\ delivered' = Append(delivered, Head(pending))
  /\ pending' = Tail(pending)

Lose ==
  /\ \E i \in DOMAIN pending : pending' = RemoveAt(pending, i)
  /\ UNCHANGED delivered

Next == (\E m \in Msg : Submit(m)) \/ Deliver \/ Lose

Spec == Init /\ [][Next]_<<pending, delivered>>
=============================================================================
