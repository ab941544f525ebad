--------------------------- MODULE EpisodeJudgment ---------------------------
(***************************************************************************)
(* The judgment of behaviour episodes (stream-worker-main.ts).             *)
(*                                                                         *)
(* The episode consumer reads the episodes that the Flink job publishes.   *)
(* It drops the ones nobody wants any more, decides the deterministic      *)
(* ones itself, and hands the others to the composite judge: it reserves   *)
(* the agent's next model slot in Redis, queues a job, records a pending   *)
(* finding and only then commits the Kafka offset.  Judge workers take the *)
(* jobs when they are due, call the model once and record what it said.    *)
(* Consumer and workers write the same row of a ReplacingMergeTree, where  *)
(* the row with the latest judgedAt wins.                                  *)
(*                                                                         *)
(* Kafka, Redis, BullMQ and ClickHouse are modelled by what they promise   *)
(* here: a message whose handler fails is handed out again, a restarted    *)
(* consumer starts from the committed offset, add() ignores an id it       *)
(* knows, a job whose worker dies is handed out once more, and any call    *)
(* may fail.                                                               *)
(***************************************************************************)
EXTENDS Integers, Sequences, FiniteSets

CONSTANTS
    Agents,        \* agentCorrelationId
    Episodes,      \* episodeId-revision, the id of a job and the key of a row
    Topic,         \* the messages of the episodes topic, in order
    MaxAge,        \* compositeMaxEventAgeMs
    Spacing,       \* the 60 s between two model calls of an agent
    Concurrency,   \* ANYSENTRY_COMPOSITE_CONCURRENCY
    MaxStalled,    \* how often BullMQ hands a stalled job out again
    MaxTime,       \* bound of the clock
    MaxFaults      \* bound of the failed calls and restarts

(***************************************************************************)
(* "skip": a rule version this worker does not know, or a legacy one that  *)
(* is switched off; "temporal": decided by rule, a failure is recorded;    *)
(* "legacy": decided by rule, a failure goes to the composite judge;       *)
(* "judge": decided by the composite judge.                                *)
(***************************************************************************)
Routes == {"skip", "temporal", "legacy", "judge"}

ASSUME TopicAssumption ==
    /\ Topic \in Seq([key : Episodes, agent : Agents, route : Routes,
                      valid : BOOLEAN, end : Nat])
    /\ \A i, j \in DOMAIN Topic :
          Topic[i].key = Topic[j].key => Topic[i] = Topic[j]
ASSUME BoundAssumption ==
    /\ MaxAge \in Nat /\ Spacing \in Nat \ {0} /\ Concurrency \in Nat \ {0}
    /\ MaxStalled \in Nat /\ MaxTime \in Nat /\ MaxFaults \in Nat

VARIABLES
    now,       \* Date.now()
    cursor,    \* index of the message the consumer handles or waits for
    offset,    \* messages committed to Kafka
    handler,   \* eachMessage: its step and its local values
    nextAt,    \* anysentry:composite-next:<agent> in Redis
    job,       \* the composite queue
    row,       \* the row FINAL shows of each key
    dropped,   \* history: messages passed over as unknown or too old
    faults     \* failed calls and restarts so far

vars == <<now, cursor, offset, handler, nextAt, job, row, dropped, faults>>

Idle == [step |-> "idle", at |-> 0, runAt |-> 0]
NoJob == [state |-> "none", slot |-> 0, runAt |-> 0, out |-> "none", at |-> 0,
          stalls |-> 0, calls |-> 0]
NoRow == [status |-> "none", at |-> 0]

Later(a, b) == IF a >= b THEN a ELSE b

\* The end of the topic is handled as a message that never comes.
Message == Topic[cursor]
Waiting == handler.step = "idle" /\ cursor <= Len(Topic)
TooOld(m) == now - m.end > MaxAge

\* ReplacingMergeTree(recordVersion): of two rows the later judgedAt is kept,
\* of two equal ones the row that was inserted last.
Upsert(key, status, at) ==
    row' = [row EXCEPT ![key] =
               IF at >= @.at THEN [status |-> status, at |-> at] ELSE @]

\* The handler goes on, and what it stamped is not used again.
Go(step) == handler' = [Idle EXCEPT !.step = step]

Fault ==
    /\ faults < MaxFaults
    /\ faults' = faults + 1

Active == {k \in Episodes : job[k].state \in {"calling", "storing"}}

Init ==
    /\ now = 0 /\ cursor = 1 /\ offset = 0 /\ handler = Idle
    /\ nextAt = [a \in Agents |-> 0]
    /\ job = [k \in Episodes |-> NoJob]
    /\ row = [k \in Episodes |-> NoRow]
    /\ dropped = {} /\ faults = 0

-----------------------------------------------------------------------------
\* The episode consumer

(* Mutant: the episode is passed over without a commit. *)
DropAndGoOn ==
    /\ Waiting
    /\ Message.route = "skip" \/ TooOld(Message)
    /\ dropped' = dropped \cup {cursor}
    /\ cursor' = cursor + 1
    /\ UNCHANGED <<now, offset, handler, nextAt, job, row, faults>>

\* An episode of an unknown or disabled rule, or one too old to matter, is
\* committed and nothing else.
Drop ==
    /\ Waiting
    /\ Message.route = "skip" \/ TooOld(Message)
    /\ dropped' = dropped \cup {cursor}
    /\ Go("commit")
    /\ UNCHANGED <<now, cursor, offset, nextAt, job, row, faults>>

\* The deterministic path: the rule is evaluated, and the finding it makes is
\* stamped before it is written.  Evidence that does not support the rule
\* throws into the same catch as a failed write.
Decide ==
    /\ Waiting
    /\ Message.route \in {"temporal", "legacy"}
    /\ ~ TooOld(Message)
    /\ handler' = [handler EXCEPT !.at = now,
                      !.step = IF Message.valid THEN "decided" ELSE "caught"]
    /\ UNCHANGED <<now, cursor, offset, nextAt, job, row, dropped, faults>>

StoreDecision ==
    /\ handler.step = "decided"
    /\ Upsert(Message.key, "succeeded", handler.at)
    /\ Go("commitDecision")
    /\ UNCHANGED <<now, cursor, offset, nextAt, job, dropped, faults>>

\* The write of the decision or the commit behind it fails; a failed commit
\* may have reached the broker all the same.
DecisionFails ==
    /\ handler.step \in {"decided", "commitDecision"}
    /\ Fault
    /\ Go("caught")
    /\ \/ UNCHANGED <<row, offset>>
       \/ /\ handler.step = "decided"
          /\ Upsert(Message.key, "succeeded", handler.at)
          /\ UNCHANGED offset
       \/ /\ handler.step = "commitDecision"
          /\ offset' = Later(offset, cursor)
          /\ UNCHANGED row
    /\ UNCHANGED <<now, cursor, nextAt, job, dropped>>

\* catch (error): a temporal rule records that it failed, a legacy one turns
\* into a request to the composite judge.
Catch ==
    /\ handler.step = "caught"
    /\ handler' = [handler EXCEPT !.at = now,
                      !.step = IF Message.route = "temporal" THEN "failing" ELSE "rate"]
    /\ UNCHANGED <<now, cursor, offset, nextAt, job, row, dropped, faults>>

StoreFailure ==
    /\ handler.step = "failing"
    /\ Upsert(Message.key, "failed", handler.at)
    /\ Go("commit")
    /\ UNCHANGED <<now, cursor, offset, nextAt, job, dropped, faults>>

ToJudge ==
    /\ Waiting
    /\ Message.route = "judge"
    /\ ~ TooOld(Message)
    /\ Go("rate")
    /\ UNCHANGED <<now, cursor, offset, nextAt, job, row, dropped, faults>>

\* The first time the agent's model slot is free.
RunAt(agent) == Later(now, nextAt[agent])

(* Mutant: the next slot is counted from now. *)
ReserveFromNow ==
    /\ handler.step = "rate"
    /\ LET runAt == RunAt(Message.agent) IN
          /\ nextAt' = [nextAt EXCEPT ![Message.agent] = now + Spacing]
          /\ handler' = [step |-> "add", at |-> now, runAt |-> runAt]
    /\ UNCHANGED <<now, cursor, offset, job, row, dropped, faults>>

\* get and set of the agent's next slot; the agent's partition has one
\* consumer, so that nothing comes between them.
ReserveSlot ==
    /\ handler.step = "rate"
    /\ LET runAt == RunAt(Message.agent) IN
          /\ nextAt' = [nextAt EXCEPT ![Message.agent] = runAt + Spacing]
          /\ handler' = [step |-> "add", at |-> now, runAt |-> runAt]
    /\ UNCHANGED <<now, cursor, offset, job, row, dropped, faults>>

\* add() with the episode and revision as jobId: an id the queue has seen,
\* finished jobs included, is ignored.  The delay runs from the moment of the
\* add, though it was reckoned from the moment of the reservation.
Enqueue(key) ==
    job' = IF job[key].state = "none"
           THEN [job EXCEPT ![key] =
                    [NoJob EXCEPT !.state = "waiting", !.slot = handler.runAt,
                                  !.runAt = now + (handler.runAt - handler.at)]]
           ELSE job

(* Mutant: no finding announces the job. *)
AddJobOnly ==
    /\ handler.step = "add"
    /\ Enqueue(Message.key)
    /\ Go("commit")
    /\ UNCHANGED <<now, cursor, offset, nextAt, row, dropped, faults>>

AddJob ==
    /\ handler.step = "add"
    /\ Enqueue(Message.key)
    /\ Go("stamp")
    /\ UNCHANGED <<now, cursor, offset, nextAt, row, dropped, faults>>

\* compositeFinding(...) runs when add() has answered, and takes the time.
StampPending ==
    /\ handler.step = "stamp"
    /\ handler' = [handler EXCEPT !.step = "pending", !.at = now]
    /\ UNCHANGED <<now, cursor, offset, nextAt, job, row, dropped, faults>>

StorePending ==
    /\ handler.step = "pending"
    /\ Upsert(Message.key, "pending", handler.at)
    /\ Go("commit")
    /\ UNCHANGED <<now, cursor, offset, nextAt, job, dropped, faults>>

Commit ==
    /\ handler.step \in {"commit", "commitDecision"}
    /\ offset' = Later(offset, cursor)
    /\ cursor' = cursor + 1
    /\ handler' = Idle
    /\ UNCHANGED <<now, nextAt, job, row, dropped, faults>>

\* The call under way fails, with or without its effect, outside the try: the
\* handler throws and the same message is handed out again.
HandlerFails ==
    /\ handler.step \in {"rate", "add", "pending", "failing", "commit"}
    /\ Fault
    /\ handler' = Idle
    /\ \/ UNCHANGED <<nextAt, job, row, offset>>
       \/ /\ handler.step = "rate"
          /\ nextAt' = [nextAt EXCEPT ![Message.agent] = RunAt(Message.agent) + Spacing]
          /\ UNCHANGED <<job, row, offset>>
       \/ /\ handler.step = "add"
          /\ Enqueue(Message.key)
          /\ UNCHANGED <<nextAt, row, offset>>
       \/ /\ handler.step \in {"pending", "failing"}
          /\ Upsert(Message.key, IF handler.step = "pending" THEN "pending" ELSE "failed",
                    handler.at)
          /\ UNCHANGED <<nextAt, job, offset>>
       \/ /\ handler.step = "commit"
          /\ offset' = Later(offset, cursor)
          /\ UNCHANGED <<nextAt, job, row>>
    /\ UNCHANGED <<now, cursor, dropped>>

\* The process dies; the next one starts behind the committed offset.
ConsumerRestarts ==
    /\ Fault
    /\ handler' = Idle
    /\ cursor' = offset + 1
    /\ UNCHANGED <<now, offset, nextAt, job, row, dropped>>

-----------------------------------------------------------------------------
\* The judge workers

EndOf(key) == (CHOOSE i \in DOMAIN Topic : Topic[i].key = key)
Late(key) == TooOld(Topic[EndOf(key)])

End(key, state) ==
    job' = [job EXCEPT ![key] = [@ EXCEPT !.state = state, !.out = "none", !.at = 0]]

\* A due job is taken (runAt is over and falls back to the slot).  One that
\* waited too long is suppressed without a model call.
Take(key) ==
    /\ job[key].state = "waiting"
    /\ job[key].runAt <= now
    /\ Cardinality(Active) < Concurrency
    /\ job' = [job EXCEPT ![key] =
                  IF Late(key)
                  THEN [@ EXCEPT !.state = "storing", !.runAt = job[key].slot,
                                 !.out = "suppressed", !.at = now]
                  ELSE [@ EXCEPT !.state = "calling", !.runAt = job[key].slot,
                                 !.calls = job[key].calls + 1]]
    /\ UNCHANGED <<now, cursor, offset, handler, nextAt, row, dropped, faults>>

\* The model answers, fails, or runs into the timeout: each makes a finding.
ModelAnswers(key) ==
    /\ job[key].state = "calling"
    /\ \E out \in {"succeeded", "failed"} :
          job' = [job EXCEPT ![key].state = "storing", ![key].out = out, ![key].at = now]
    /\ UNCHANGED <<now, cursor, offset, handler, nextAt, row, dropped, faults>>

StoreJudgment(key) ==
    /\ job[key].state = "storing"
    /\ Upsert(key, job[key].out, job[key].at)
    /\ End(key, "done")
    /\ UNCHANGED <<now, cursor, offset, handler, nextAt, dropped, faults>>

\* attempts: 1 - a job whose finding cannot be written is over.
StoreJudgmentFails(key) ==
    /\ job[key].state = "storing"
    /\ Fault
    /\ End(key, "failed")
    /\ \/ UNCHANGED row
       \/ Upsert(key, job[key].out, job[key].at)
    /\ UNCHANGED <<now, cursor, offset, handler, nextAt, dropped>>

\* The worker dies; BullMQ finds the lock expired and hands the job out again,
\* or gives it up.
WorkerDies(key) ==
    /\ key \in Active
    /\ Fault
    /\ job' = [job EXCEPT ![key] =
                  [@ EXCEPT !.out = "none", !.at = 0,
                            !.state = IF job[key].stalls < MaxStalled THEN "waiting" ELSE "failed",
                            !.stalls = IF job[key].stalls < MaxStalled
                                       THEN job[key].stalls + 1 ELSE job[key].stalls]]
    /\ UNCHANGED <<now, cursor, offset, handler, nextAt, row, dropped>>

\* The clock stops at its bound, but not before every queued job is due.
Tick ==
    /\ \/ now < MaxTime
       \/ \E k \in Episodes : job[k].state = "waiting" /\ job[k].runAt > now
    /\ now' = now + 1
    /\ UNCHANGED <<cursor, offset, handler, nextAt, job, row, dropped, faults>>

-----------------------------------------------------------------------------
Consumer ==
    \/ Drop \/ Decide \/ StoreDecision \/ Catch \/ StoreFailure \/ ToJudge
    \/ ReserveSlot \/ AddJob \/ StampPending \/ StorePending \/ Commit

Worker(key) == Take(key) \/ ModelAnswers(key) \/ StoreJudgment(key)

Next ==
    \/ Consumer \/ DecisionFails \/ HandlerFails \/ ConsumerRestarts
    \/ \E key \in Episodes :
          Worker(key) \/ StoreJudgmentFails(key) \/ WorkerDies(key)
    \/ Tick

(***************************************************************************)
(* The consumer keeps handling messages, a worker that took a job goes on  *)
(* with it, a due job is taken when a worker is free, and time passes.     *)
(***************************************************************************)
Fairness ==
    /\ WF_vars(Consumer)
    /\ \A key \in Episodes : WF_vars(Worker(key))
    /\ WF_vars(Tick)

Spec == Init /\ [][Next]_vars /\ Fairness

-----------------------------------------------------------------------------
Statuses == {"none", "pending", "succeeded", "failed", "suppressed"}
Steps == {"idle", "decided", "commitDecision", "caught", "failing", "rate",
          "add", "stamp", "pending", "commit"}

(* Types, and: the consumer never waits behind its committed offset more
   than the message it failed to finish, and no row is stamped in the future. *)
TypeOK ==
    /\ now \in Nat /\ faults \in 0..MaxFaults
    /\ offset \in 0..Len(Topic) /\ cursor \in 1..(Len(Topic) + 1)
    /\ cursor \in {offset, offset + 1}
    /\ handler \in [step : Steps, at : Nat, runAt : Nat]
    /\ nextAt \in [Agents -> Nat]
    /\ job \in [Episodes -> [state : {"none", "waiting", "calling", "storing", "done", "failed"},
                             slot : Nat, runAt : Nat, out : Statuses, at : Nat,
                             stalls : 0..MaxStalled, calls : Nat]]
    /\ row \in [Episodes -> [status : Statuses, at : Nat]]
    /\ \A k \in Episodes : row[k].at <= now
    /\ dropped \subseteq DOMAIN Topic

(* A committed episode is never lost: it was passed over on purpose, or its row
   is in the store, and unless a rule decided it there is a job for it. *)
CommittedIsRecorded ==
    \A i \in 1..offset :
       LET m == Topic[i] IN
          \/ i \in dropped
          \/ /\ row[m.key].status # "none"
             /\ m.route = "judge" => job[m.key].state # "none"

(* "exactly one Composite Judge call" (streaming/flink/README.md:19): however
   often an episode is published, redelivered or queued, the model is called
   once, and once more only for a worker that died over it. Two jobs of one
   agent never hold model slots within Spacing of each other, and none is due
   before its slot, whatever was redelivered between them. *)
CallsAreMetered ==
    /\ \A k \in Episodes : job[k].calls <= 1 + job[k].stalls
    /\ \A k \in Episodes : job[k].runAt >= job[k].slot
    /\ \A i, j \in DOMAIN Topic :
          LET k == Topic[i].key  l == Topic[j].key IN
             (/\ k # l /\ Topic[i].agent = Topic[j].agent
              /\ job[k].state # "none" /\ job[l].state # "none")
             => \/ job[k].slot >= job[l].slot + Spacing
                \/ job[l].slot >= job[k].slot + Spacing

(* "a pending revision must not replace the last completed conclusion"
   (scripts/verify-streaming-phase2.mjs:238): a verdict that readers have seen is not
   replaced by the announcement or the failure of the same work. *)
ConclusionIsKept ==
    [][\A k \in Episodes :
          row[k].status = "succeeded" => row'[k].status = "succeeded"]_vars

(* Every episode of the topic is committed and no job stays in the queue. *)
EveryEpisodeSettles ==
    <>[](/\ offset = Len(Topic)
         /\ \A k \in Episodes : job[k].state \in {"none", "done", "failed"})
=============================================================================
