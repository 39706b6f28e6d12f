----------------------------- MODULE MCMQTTCache -----------------------------
(* A spool of at most four logical bytes, with messages of one, two and     *)
(* three, restarted with the smaller limit of two, and a foreign backup     *)
(* that holds a message above the limit and more bytes than fit.            *)
EXTENDS MQTTCache, TLC

CONSTANTS small, medium, large

MCMessages == {small, medium, large}
MCSize == (small :> 1) @@ (medium :> 2) @@ (large :> 3)
MCLimits == {2, 4}
MCArchives == {<<medium, large, medium, small>>}
=============================================================================
