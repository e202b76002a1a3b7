--------------------------- MODULE MCEmailOutbox ---------------------------
(* TLC instance of EmailOutbox: all messages go to one recipient.            *)
EXTENDS EmailOutbox, TLC

CONSTANT a1

MCTo == [m \in Msgs |-> a1]
=============================================================================
