------------------------- MODULE MCFileStreamWorker -------------------------
(* A list played once in sequence, once in random order, and one played    *)
(* for a second with a codec; silence is pushed in the pauses of the last  *)
(* two.                                                                    *)
EXTENDS FileStreamWorker, TLC

Sequence ==
  [mode |-> "seq", cycle |-> 1, duration |-> 0, convert |-> FALSE,
   silence |-> FALSE]

RandomOrder == [Sequence EXCEPT !.mode = "random", !.silence = TRUE]

Limited ==
  [mode |-> "seq", cycle |-> 0, duration |-> 1, convert |-> TRUE,
   silence |-> TRUE]

PlayedOnce == {Sequence}
ListAndLimit == {RandomOrder, Limited}

Symmetry == Permutations(Client)
=============================================================================
