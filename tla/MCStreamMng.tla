---------------------------- MODULE MCStreamMng ----------------------------
(* StreamMng for model checking: symmetry over threads, ids and storage.   *)
EXTENDS StreamMng, TLC

Symmetry ==
  Permutations(Client) \cup Permutations(Id) \cup Permutations(Obj)
=============================================================================
