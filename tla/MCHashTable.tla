---------------------------- MODULE MCHashTable ----------------------------
(* Constants of the table's run: keys are numbers. *)
EXTENDS HashTable, TLC

\* All but 1 collide in a table of two buckets, 0, 4 and 8 in one of four.
MCHash == [k \in Key |-> k]

\* Values differ only by who they are.
ValSymmetry == Permutations(Val)
=============================================================================
