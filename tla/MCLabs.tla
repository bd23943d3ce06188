------------------------------- MODULE MCLabs -------------------------------
(* Two slots and five items: a buffer fills, empties and its indices wrap   *)
(* around.  Three additions per thread.  A queue with room for two messages *)
(* and sessions with, without and beyond an "end".  Three units, requested  *)
(* so that two processes wait at once.  Three nodes: one is given out again *)
(* while a client still holds its old address.  Numbers whose quotients     *)
(* need rounding and whose integral part is zero.                           *)
EXTENDS Labs

MCMaxSpurious == 1
MCSLOTS == 2
MCITEMS == 5
MCMAX_COUNT == 3
MCRatingFiles == {<<[movie |-> 1, rating |-> 4]>>,
                  <<[movie |-> 1, rating |-> 2], [movie |-> 1, rating |-> 5]>>,
                  <<[movie |-> 2, rating |-> 3], [movie |-> 1, rating |-> 1]>>}
MCInputs == {<<>>, <<"hello">>, <<"hello", "again", "end">>, <<"hello", "end", "more">>, <<"end">>}
MCQUEUE_MAX == 2
MCNUM_RESOURCES == 3
MCRequests == <<2, 3, 2, 1>>
MCN == 4
MCNodes == 1 .. 3
MCPUSHES == 2
MCWRITES == 2
MCNumbers == {-150, 0, 50, 300}
MCMAX_LINES == 2

=============================================================================
