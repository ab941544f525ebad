--------------------------- MODULE EventDelivery ---------------------------
(***************************************************************************)
(* What the forwarder and the ingest API together promise for one stream   *)
(* of observed events.  An event the forwarder reported durable is owed;   *)
(* it stops being owed only when the API has taken it or the dead-letter   *)
(* file holds it.  Delivery may be repeated, ownership may not be dropped. *)
(***************************************************************************)
CONSTANT Events

VARIABLES
    promised,   \* events ever reported durable
    owed,       \* events a restart would still deliver
    delivered   \* events the API took or the dead-letter file holds

vars == <<promised, owed, delivered>>

Init ==
    /\ promised = {}
    /\ owed = {}
    /\ delivered = {}

(* The log may drop what it owes only once it is delivered, and never      *)
(* takes up again an event it let go before promising it.                  *)
Next ==
    /\ promised' \in SUBSET Events
    /\ owed' \in SUBSET promised'
    /\ delivered' \in SUBSET Events
    /\ promised \subseteq promised'
    /\ delivered \subseteq delivered'
    /\ owed' \ owed = promised' \ promised
    /\ owed \ owed' \subseteq delivered'

Spec == Init /\ [][Next]_vars
=============================================================================
