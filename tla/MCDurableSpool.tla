--------------------------- MODULE MCDurableSpool ---------------------------
(* Model-checking instances of DurableSpool.                               *)
EXTENDS DurableSpool

(* Record 1 is larger than the others.                                     *)
MCSize == [id \in 1 .. MaxPuts |-> IF id = 1 THEN 2 ELSE 1]

(* States with an operation behind a torn one are not extended: most       *)
(* properties say nothing of them, and AlwaysReplayable has its own run.   *)
Undamaged == ~damaged
=============================================================================
