------------------------ MODULE MCForkJoinFramework ------------------------
(* An array of three: five tasks in a tree that is higher on one side. The  *)
(* sums of different sets of elements differ.                               *)
EXTENDS ForkJoinFramework

MCN == 3
MCArr == [i \in 0 .. 2 |-> 2 ^ i]
=============================================================================
