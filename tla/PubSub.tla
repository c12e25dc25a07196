-------------------------------- MODULE PubSub --------------------------------
(***************************************************************************)
(* What the broker promises for a topic that clients publish and subscribe *)
(* to (README, "How it works"): data is stored and goes, once, to all who  *)
(* have subscribed by then; who subscribes gets what is stored, and nobody *)
(* else does.                                                              *)
(***************************************************************************)
EXTENDS Sequences

CONSTANTS Client, Topic, Data

VARIABLES stored,     \* a function from the topics that have data
          subscribed, \* of each client: the topics
          received    \* of each client: pairs of a topic and data

vars == <<stored, subscribed, received>>

Nowhere == [n \in {} |-> n]

Init ==
    /\ stored = Nowhere
    /\ subscribed = [c \in Client |-> {}]
    /\ received = [c \in Client |-> <<>>]

Publish(n, d) ==
    /\ stored' = [m \in DOMAIN stored \cup {n} |-> IF m = n THEN d ELSE stored[m]]
    /\ received' = [c \in Client |-> IF n \in subscribed[c]
                                       THEN Append(received[c], <<n, d>>)
                                       ELSE received[c]]
    /\ UNCHANGED subscribed

Subscribe(c, n) ==
    /\ subscribed' = [subscribed EXCEPT ![c] = @ \cup {n}]
    /\ received' = IF n \in DOMAIN stored
                     THEN [received EXCEPT ![c] = Append(@, <<n, stored[n]>>)]
                     ELSE received
    /\ UNCHANGED stored

Clear == stored' = Nowhere /\ UNCHANGED <<subscribed, received>>

Leave(c) ==
    /\ subscribed' = [subscribed EXCEPT ![c] = {}]
    /\ UNCHANGED <<stored, received>>

Stop ==
    /\ stored' = Nowhere
    /\ subscribed' = [c \in Client |-> {}]
    /\ UNCHANGED received

Next ==
    \/ \E n \in Topic : (\E d \in Data : Publish(n, d)) \/ \E c \in Client : Subscribe(c, n)
    \/ \E c \in Client : Leave(c)
    \/ Clear \/ Stop

Spec == Init /\ [][Next]_vars
=============================================================================
