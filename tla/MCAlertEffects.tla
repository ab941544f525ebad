--------------------------- MODULE MCAlertEffects ---------------------------
(***************************************************************************)
(* Two replicas, an early event and a late one, the late one with the      *)
(* clock's last value, so that an operator's change can be later than the  *)
(* first and as late as the second.  The late one has one delivery, which   *)
(* may as well be to the first replica: nothing else tells them apart.     *)
(***************************************************************************)
EXTENDS AlertEffects, TLC

CONSTANTS e1, e2, r1, r2

MCAt == (e1 :> 0) @@ (e2 :> 1)
MCReach == (e1 :> Replicas) @@ (e2 :> {r1})
=============================================================================
