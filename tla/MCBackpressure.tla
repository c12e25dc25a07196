---------------------------- MODULE MCBackpressure ----------------------------
(* Small instances of Backpressure: clients that only publish, that only   *)
(* subscribe, and that do both.                                            *)
EXTENDS Backpressure

MCRoles == {
    [pubs |-> {1}, subs |-> {2, 3}],
    [pubs |-> {1, 2}, subs |-> {3}],
    [pubs |-> {1, 2}, subs |-> {2, 3}],
    [pubs |-> {1, 2}, subs |-> {1, 2}]}
=============================================================================
