----------------------------- MODULE MCSeqLock -----------------------------
(* Three writes by three writers, two readers and a caller of rdlock.  The *)
(* counter has eight values: it wraps around, but never returns to a       *)
(* number a reader has looked at, which takes a fourth write.              *)
EXTENDS SeqLock

MCOperations == 1
MCModulus == 8
=============================================================================
