--------------------------- MODULE MCForkJoinPool ---------------------------
(* A table of five tasks: fibonacci(3) just fits, and fibonacci(4) needs    *)
(* nine.                                                                    *)
EXTENDS ForkJoinPool

MCMaxTasks == 5
MCMaxN == 4
=============================================================================
