----------------------------- MODULE MCRangeSum -----------------------------
(* Command lines with up to five threads and seven elements, too few and    *)
(* too many arguments, and arguments that are out of range or no numbers.   *)
(* With ints from -8 to 7, four threads of at least two elements already    *)
(* overflow the check of validate_and_split_argarray, and 17 is 1 as an int.*)
(* The elements are powers of two: no two sets of them have the same sum.   *)
(* The cell of a missing thread holds zero or something else.               *)
EXTENDS RangeSum

MCArgLists == {<<>>, <<3>>, <<3, 2, 1, 1>>, <<4, 2, NaN>>, <<4, 2, 1>>, <<NaN, 2>>, <<2, NaN>>}
                \cup ({0, 1, 2, 3, 4, 5, 7, 17} \X {0, 1, 2, 3, 4, 5, 18})
MCData == [k \in 0 .. 6 |-> 2 ^ k]
MCIntMax == 7
MCTHRSL_MIN == 2
MCLeftovers == {0, 1000}
=============================================================================
