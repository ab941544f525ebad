------------------------- MODULE MCEventWriteQueue -------------------------
(* Model-checking instances of EventWriteQueue.                            *)
EXTENDS EventWriteQueue

CONSTANTS rowA, rowB, rowD, c1, c2

(* Two batches that overlap: the forwarder regrouped an event.             *)
MCStable == [k1 |-> {{rowA, rowB}}, k2 |-> {{rowA, rowD}}]

(* The same payload, one event of it discarded at first and retained when  *)
(* a filter rule or an identity has changed.                               *)
MCRerouted == [k1 |-> {{rowA}, {rowA, rowB}}]
=============================================================================
