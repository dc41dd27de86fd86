------------------------ MODULE MCDeliveryConsumer ------------------------
(* A small instance of DeliveryConsumer for TLC: a message of each of two   *)
(* events, one malformed, one an orphan.                                    *)
EXTENDS DeliveryConsumer

CONSTANTS p1, m1, m2, orphan, bad, k1, k2

MCKindOf == [m \in Messages |->
    IF m = bad THEN "malformed" ELSE IF m = orphan THEN "orphan" ELSE "valid"]
MCKeyOf == [m \in Messages |-> IF m = m2 THEN k2 ELSE k1]
MCPartitionOf == [m \in Messages |-> p1]
=============================================================================
