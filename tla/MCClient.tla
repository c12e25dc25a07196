------------------------------ MODULE MCClient ------------------------------
(* Small instances of Client.                                              *)
EXTENDS Client, TLC

CONSTANTS t1, t2

ThreadSymmetry == Permutations(Thread)
=============================================================================
