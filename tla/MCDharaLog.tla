---------------------------- MODULE MCDharaLog ----------------------------
(***************************************************************************)
(* Instances of DharaLog for TLC: two paths, a value of one block and one  *)
(* of two, a log of a few blocks.  BadLimit - 1 blocks are skipped at each *)
(* restart, as in the program; IndexSlots is below the number of names, so *)
(* that some paths are looked up without the index.                        *)
(***************************************************************************)
EXTENDS DharaLog, TLC

CONSTANTS
    p1, p2   \* two paths

McPath   == {p1, p2}
McBlocks == ("one" :> 1) @@ ("two" :> 2)
AtoB     == {<<p1, p2>>}

\* Sound where no pair of paths is renamed: the paths are interchangeable.
Paths == Permutations(McPath)
==========================================================================
