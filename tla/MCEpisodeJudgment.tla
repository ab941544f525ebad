-------------------------- MODULE MCEpisodeJudgment --------------------------
(***************************************************************************)
(* Two agents and four episodes: a judged one that is published twice (the *)
(* Flink sink is at-least-once), a legacy one of the same agent that its   *)
(* rule cannot decide, a temporal one and a rule version nobody knows.     *)
(***************************************************************************)
EXTENDS EpisodeJudgment

CONSTANTS e1, e2, e3, e4, a1, a2

Judged   == [key |-> e1, agent |-> a1, route |-> "judge", valid |-> TRUE, end |-> 0]
Legacy   == [key |-> e2, agent |-> a1, route |-> "legacy", valid |-> FALSE, end |-> 1]
Temporal == [key |-> e3, agent |-> a2, route |-> "temporal", valid |-> TRUE, end |-> 1]
Unknown  == [key |-> e4, agent |-> a2, route |-> "skip", valid |-> TRUE, end |-> 1]

MCTopic == <<Judged, Legacy, Unknown, Judged, Temporal>>
=============================================================================
