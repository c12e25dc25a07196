------------------------------ MODULE MCServer ------------------------------
(* Small instances of Server.                                              *)
EXTENDS Server, TLC

CONSTANTS c1, c2, c3, v1, v2

ConnSymmetry == Permutations(Conn)
=============================================================================
