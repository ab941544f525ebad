--------------------------- MODULE MCIngestBatch ---------------------------
(* Model-checking instances of IngestBatch.                                *)
EXTENDS IngestBatch

CONSTANTS r1, r2

MCRequests == {r1, r2}

(* A lifecycle fact or a judged event with an alert in front of an event   *)
(* of another kind.                                                        *)
MCMixes == {<<"structural", "alerting">>, <<"alerting", "async">>}

MCAlertingAsync == {<<"alerting", "async">>}
=============================================================================
