----------------------------- MODULE MemoryPool -----------------------------
(***************************************************************************)
(* The pool the load generator takes its clients from (MemoryPool,         *)
(* MemoryBlock).  All objects have one size, so there is one list of       *)
(* blocks, at index 0 of memoryHashMap; a unit is named by its block and   *)
(* its place in it.                                                        *)
(***************************************************************************)
EXTENDS Integers, Sequences, SequencesExt

CONSTANTS
  initBlockCount,   \* units of the first block
  growBlockcount    \* units of the blocks that follow

(* A new block: its first unit is taken, and each free one holds the       *)
(* number of the next.                                                     *)
NewBlock(id, units) ==
  [id |-> id, units |-> units, free |-> units - 1, first |-> 1]

(* Hash compares with the last size it has seen, and there is one.         *)
Hash == 0

(* Alloc takes the first free unit of the first block that has one; a      *)
(* block that is added becomes the head of the list.                       *)
Alloc(blocks) ==
  LET i == SelectInSeq(blocks, LAMBDA b : b.free > 0)
      id == Len(blocks) + 1
      added == NewBlock(id, IF id = 1 THEN initBlockCount ELSE growBlockcount)
  IN  IF i = 0
        THEN [unit |-> <<id, 0>>, blocks |-> <<added>> \o blocks]
        ELSE [unit |-> <<blocks[i].id, blocks[i].first>>,
              blocks |-> [blocks EXCEPT
                            ![i].first = (@ + 1) % blocks[i].units,
                            ![i].free = @ - 1]]

(* FreeAlloc finds the block a unit lies in, but leaves the loop over the  *)
(* sixteen lists only if its index is not 0: the search goes on, ends at   *)
(* an empty list, and nothing is given back.                               *)
FreeAlloc(blocks, unit) ==
  IF Hash = 0
    THEN blocks
    ELSE LET i == SelectInSeq(blocks, LAMBDA b : b.id = unit[1])
         IN  [blocks EXCEPT ![i].first = unit[2], ![i].free = @ + 1]
=============================================================================
