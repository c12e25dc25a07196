-------------------------------- MODULE Fifo --------------------------------
(* What one direction of a connection promises to basesend() and process(): *)
(* whole messages arrive, once and in the order in which they were sent,   *)
(* until the connection ends.                                              *)
EXTENDS Naturals, Sequences

CONSTANT Message

VARIABLES sent, received, open

vars == <<sent, received, open>>

Init == sent = <<>> /\ received = <<>> /\ open = TRUE

Send ==
    /\ \E m \in Message : sent' = Append(sent, m)
    /\ UNCHANGED <<received, open>>

Deliver ==
    /\ open
    /\ Len(received) < Len(sent)
    /\ received' = Append(received, sent[Len(received) + 1])
    /\ UNCHANGED <<sent, open>>

Break ==
    /\ open
    /\ open' = FALSE
    /\ UNCHANGED <<sent, received>>

Next == Send \/ Deliver \/ Break

Spec == Init /\ [][Next]_vars

FairSpec == Spec /\ WF_vars(Deliver)
=============================================================================
