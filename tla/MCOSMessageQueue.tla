--------------------------- MODULE MCOSMessageQueue ---------------------------
(* Four threads, so that two receivers can race for one message while a third *)
(* and a fourth thread send; two slots, so that the ring wraps; five messages. *)
EXTENDS OSMessageQueue, TLC

CONSTANTS t1, t2, t3, t4
===============================================================================
