--------------------------- MODULE MCMQTTDelivery ---------------------------
(* Four messages, the second too large for the spool, which holds two of     *)
(* the others; up to three faults of any kind.                              *)
EXTENDS MQTTDelivery, TLC

MCSize == [m \in Messages |-> IF m = 2 THEN 3 ELSE 1]
=============================================================================
