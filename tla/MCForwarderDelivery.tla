------------------------ MODULE MCForwarderDelivery ------------------------
(* Model-checking instances of ForwarderDelivery.                          *)
EXTENDS ForwarderDelivery

(* Event 2 is protected, event 3 may evict event 1.                        *)
MCPriority == [id \in 1 .. MaxEvents |-> CASE id = 2 -> 4 [] id = 3 -> 2 [] OTHER -> 0]
=============================================================================
