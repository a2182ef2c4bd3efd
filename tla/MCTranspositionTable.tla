------------------------ MODULE MCTranspositionTable ------------------------
(* A bucket of two slots and two positions.  Each has a result without a   *)
(* move, the same for both; the first has one with a move, which must      *)
(* never be seen at the other.                                             *)
EXTENDS TranspositionTable, TLC

CONSTANTS p1, p2, m1

Symmetry == Permutations(Threads)

MCEntries ==
  p1 :> {[depth |-> 1, exact |-> TRUE, move |-> m1],
         [depth |-> 2, exact |-> FALSE, move |-> Nil]} @@
  p2 :> {[depth |-> 2, exact |-> FALSE, move |-> Nil]}

(* The two values in use: 0 and 3.                                         *)
MCLayouts == {[bucket |-> FALSE, keep |-> FALSE], [bucket |-> TRUE, keep |-> TRUE]}
=============================================================================
