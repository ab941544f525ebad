--------------------------- MODULE Episode_proofs ---------------------------
(***************************************************************************)
(* Proofs about EpisodeJudgment, for any topic, any number of agents and   *)
(* workers and any faults: a committed episode is recorded, the model is   *)
(* called once for an episode, and the slots of an agent are spaced.       *)
(*                                                                         *)
(* And about TemporalEpisode, the builder those episodes come from, for    *)
(* any facts, inputs and bounds: each history makes one episode of a       *)
(* candidate and of a terminal, and no complete chain that is kept goes    *)
(* unanswered.                                                             *)
(***************************************************************************)
EXTENDS EpisodeJudgment, TemporalEpisode, FiniteSetTheorems, NaturalsInduction,
        WellFoundedInduction, TLAPS


Messages == [key : Episodes, agent : Agents, route : Routes, valid : BOOLEAN, end : Nat]
JobStates == {"none", "waiting", "calling", "storing", "done", "failed"}
JobRecords == [state : JobStates, slot : Nat, runAt : Nat, out : Statuses, at : Nat,
               stalls : Nat, calls : Nat]
Rows == [status : Statuses, at : Nat]

(* Types without the bounds of the instance, and: the consumer is at its   *)
(* committed offset or one behind it, with a message while it handles one, *)
(* and what it stamped is over.                                            *)
TypeInv ==
    /\ now \in Nat
    /\ offset \in 0..Len(Topic) /\ cursor \in 1..(Len(Topic) + 1)
    /\ cursor \in {offset, offset + 1}
    /\ handler \in [step : Steps, at : Nat, runAt : Nat]
    /\ handler.at <= now
    /\ handler.step # "idle" => cursor <= Len(Topic)
    /\ nextAt \in [Agents -> Nat]
    /\ job \in [Episodes -> JobRecords]
    /\ row \in [Episodes -> Rows]
    /\ \A k \in Episodes : row[k].status = "none" => row[k].at = 0

(* What the handler of a message has seen to before each of its steps.     *)
Recorded(i) ==
    /\ row[Topic[i].key].status # "none"
    /\ Topic[i].route = "judge" => job[Topic[i].key].state # "none"

StepInv ==
    /\ handler.step \in {"decided", "commitDecision", "caught", "failing"}
          => Message.route \in {"temporal", "legacy"}
    /\ handler.step \in {"stamp", "pending"} => job[Message.key].state # "none"
    /\ handler.step = "commitDecision" => row[Message.key].status # "none"
    /\ handler.step = "commit" => cursor \in dropped \/ Recorded(cursor)

(* A job that waits has not been called for its present turn, and a worker *)
(* that stores has something to store.                                     *)
JobInv ==
    \A k \in Episodes :
       /\ job[k].state = "storing" => job[k].out # "none"
       /\ job[k].state \in {"none", "waiting"} => job[k].calls <= job[k].stalls

(* The slots handed out so far end before the agent's next one, that of    *)
(* the message under way included.                                         *)
SlotsEndBefore(agent, time) ==
    \A i \in DOMAIN Topic :
       Topic[i].agent = agent /\ job[Topic[i].key].state # "none"
          => job[Topic[i].key].slot + Spacing <= time

SlotInv ==
    /\ \A a \in Agents : SlotsEndBefore(a, nextAt[a])
    /\ handler.step = "add" =>
          /\ SlotsEndBefore(Message.agent, handler.runAt)
          /\ handler.runAt + Spacing <= nextAt[Message.agent]

IndInv ==
    /\ TypeInv /\ StepInv /\ CommittedIsRecorded
    /\ JobInv /\ SlotInv /\ CallsAreMetered

-----------------------------------------------------------------------------
(* The messages of the topic, by their type.                               *)
LEMMA TopicFacts ==
    /\ Len(Topic) \in Nat /\ DOMAIN Topic = 1..Len(Topic)
    /\ \A i \in DOMAIN Topic : Topic[i] \in Messages
    /\ \A i, j \in DOMAIN Topic : Topic[i].key = Topic[j].key => Topic[i] = Topic[j]
<1>1. Topic \in Seq(Messages)
  BY TopicAssumption DEF Messages
<1> QED
  BY <1>1, TopicAssumption

(* The message under way.                                                  *)
LEMMA MessageFacts ==
    ASSUME TypeInv, handler.step # "idle" \/ Waiting
    PROVE  /\ cursor \in DOMAIN Topic /\ cursor \in Nat
           /\ Message \in Messages /\ Message.key \in Episodes /\ Message.agent \in Agents
BY TopicFacts DEF TypeInv, Waiting, Message, Messages

(* ReplacingMergeTree never takes a row away, and what is put where there  *)
(* was none is there.                                                      *)
LEMMA UpsertKeeps ==
    ASSUME TypeInv, NEW key \in Episodes, NEW status \in Statuses \ {"none"},
           NEW at \in Nat, Upsert(key, status, at)
    PROVE  /\ row' \in [Episodes -> Rows]
           /\ \A k \in Episodes : row'[k].status = "none" => row'[k].at = 0
           /\ \A k \in Episodes : row[k].status # "none" => row'[k].status # "none"
           /\ row'[key].status # "none"
<1>1. PICK new \in Rows : new = [status |-> status, at |-> at]
  BY DEF Rows
<1>2. row' = [row EXCEPT ![key] = IF at >= row[key].at THEN new ELSE row[key]]
  BY <1>1 DEF Upsert
<1>3. row[key] \in Rows /\ row[key].at \in Nat
  BY DEF TypeInv, Rows
<1>4. CASE at >= row[key].at
  BY <1>1, <1>2, <1>4 DEF TypeInv
<1>5. CASE ~ (at >= row[key].at)
  <2>1. row[key].status # "none"
    BY <1>3, <1>5 DEF TypeInv
  <2>2. row' = row
    BY <1>2, <1>5 DEF TypeInv
  <2> QED
    BY <2>1, <2>2 DEF TypeInv
<1> QED
  BY <1>4, <1>5

(* What is recorded stays so while rows, jobs and dropped messages stay.   *)
LEMMA RecordKept ==
    ASSUME CommittedIsRecorded, offset \in 0..Len(Topic), dropped \subseteq dropped',
           \A k \in Episodes : row[k].status # "none" => row'[k].status # "none",
           \A k \in Episodes : job[k].state # "none" => job'[k].state # "none"
    PROVE  /\ \A i \in DOMAIN Topic : Recorded(i) => Recorded(i)'
           /\ \A i \in 1..offset : i \in dropped' \/ Recorded(i)'
<1>1. \A i \in DOMAIN Topic : Topic[i].key \in Episodes
  BY TopicFacts DEF Messages
<1>2. \A i \in DOMAIN Topic : Recorded(i) => Recorded(i)'
  BY <1>1 DEF Recorded
<1>3. \A i \in 1..offset : i \in DOMAIN Topic
  BY TopicFacts
<1>4. \A i \in 1..offset : i \in dropped \/ Recorded(i)
  BY DEF CommittedIsRecorded, Recorded
<1> QED
  BY <1>2, <1>3, <1>4

(* A message enters the committed ones.                                    *)
LEMMA CommitKept ==
    ASSUME offset \in 0..Len(Topic), NEW c \in DOMAIN Topic, c \in {offset, offset + 1},
           offset' = Later(offset, c),
           c \in dropped' \/ Recorded(c)',
           \A i \in 1..offset : i \in dropped' \/ Recorded(i)'
    PROVE  offset' \in 0..Len(Topic) /\ offset' = c /\ CommittedIsRecorded'
<1>1. offset' = c /\ c \in 1..Len(Topic)
  BY TopicFacts DEF Later
<1>2. \A i \in 1..c : i \in 1..offset \/ i = c
  BY <1>1, TopicFacts
<1>3. \A i \in 1..offset' : i \in dropped' \/ Recorded(i)'
  BY <1>1, <1>2
<1> QED
  BY <1>1, <1>3, TopicFacts DEF CommittedIsRecorded, Recorded

(* add() gives the message's episode a job whose slot is the reserved one; *)
(* a job that exists stays as it is.                                       *)
LEMMA EnqueueKeeps ==
    ASSUME IndInv, handler.step = "add", Enqueue(Message.key), UNCHANGED nextAt
    PROVE  /\ job' \in [Episodes -> JobRecords] /\ JobInv' /\ CallsAreMetered'
           /\ \A a \in Agents : SlotsEndBefore(a, nextAt[a])'
           /\ \A k \in Episodes : job[k].state # "none" => job'[k].state # "none"
           /\ job'[Message.key].state # "none"
<1> USE DEF IndInv
<1>1. /\ cursor \in DOMAIN Topic /\ Message \in Messages
      /\ Message.key \in Episodes /\ Message.agent \in Agents
  BY MessageFacts
<1>2. PICK k \in Episodes : k = Message.key
  BY <1>1
<1>3. CASE job[k].state # "none"
  <2>1. job' = job
    BY <1>2, <1>3 DEF Enqueue
  <2> QED
    BY <2>1, <1>2, <1>3 DEF TypeInv, JobInv, SlotInv, SlotsEndBefore, CallsAreMetered
<1>4. CASE job[k].state = "none"
  <2>1. PICK slot \in Nat : slot = handler.runAt
    BY DEF TypeInv
  <2>2. PICK due \in Nat : due = now + (handler.runAt - handler.at) /\ due >= slot
    BY <2>1 DEF TypeInv
  <2>3. PICK j \in JobRecords :
           /\ j = [NoJob EXCEPT !.state = "waiting", !.slot = slot, !.runAt = due]
           /\ j.state = "waiting" /\ j.slot = slot /\ j.runAt = due
           /\ j.calls = 0 /\ j.stalls = 0
    <3>1. NoJob \in JobRecords /\ NoJob.calls = 0 /\ NoJob.stalls = 0
      BY DEF NoJob, JobRecords, JobStates, Statuses
    <3>2. PICK j \in JobRecords :
             j = [NoJob EXCEPT !.state = "waiting", !.slot = slot, !.runAt = due]
      BY <3>1 DEF JobRecords, JobStates
    <3> QED
      BY <3>1, <3>2 DEF JobRecords
  <2>4. job' = [job EXCEPT ![k] = j]
    BY <1>2, <1>4, <2>1, <2>2, <2>3 DEF Enqueue
  <2>5. /\ job' \in [Episodes -> JobRecords] /\ job'[k] = j
        /\ \A l \in Episodes \ {k} : job'[l] = job[l]
    BY <2>4 DEF TypeInv
  <2>6. JobInv'
    <3>1. j.state = "waiting" /\ j.calls <= j.stalls
      BY <2>3
    <3> QED
      BY <3>1, <2>5 DEF JobInv
  <2>7. \A i \in DOMAIN Topic : Topic[i].key = k => Topic[i].agent = Message.agent
    BY <1>1, <1>2, TopicFacts DEF Message
  <2>8. \A i \in DOMAIN Topic : Topic[i].key \in Episodes
    BY TopicFacts DEF Messages
  <2>9. /\ SlotsEndBefore(Message.agent, slot)
        /\ slot + Spacing <= nextAt[Message.agent]
    BY <2>1 DEF SlotInv
  <2>10. \A a \in Agents : SlotsEndBefore(a, nextAt[a])'
    <3> SUFFICES ASSUME NEW a \in Agents, NEW i \in DOMAIN Topic,
                        Topic[i].agent = a, job'[Topic[i].key].state # "none"
                 PROVE  job'[Topic[i].key].slot + Spacing <= nextAt[a]
      BY DEF SlotsEndBefore
    <3>1. CASE Topic[i].key = k
      BY <3>1, <2>3, <2>5, <2>7, <2>9
    <3>2. CASE Topic[i].key # k
      BY <3>2, <2>5, <2>8 DEF SlotInv, SlotsEndBefore
    <3> QED
      BY <3>1, <3>2
  <2>11. \A l \in Episodes : job'[l].calls <= 1 + job'[l].stalls /\ job'[l].runAt >= job'[l].slot
    <3>1. j.calls <= 1 + j.stalls /\ j.runAt >= j.slot
      BY <2>2, <2>3
    <3> QED
      BY <3>1, <2>5 DEF CallsAreMetered
  <2>12. \A i \in DOMAIN Topic :
            (/\ Topic[i].key # k /\ Topic[i].agent = Message.agent
             /\ job'[Topic[i].key].state # "none")
            => job'[k].slot >= job'[Topic[i].key].slot + Spacing
    BY <2>3, <2>5, <2>8, <2>9 DEF SlotsEndBefore
  <2>13. CallsAreMetered'
    <3> SUFFICES ASSUME NEW i \in DOMAIN Topic, NEW n \in DOMAIN Topic,
                        Topic[i].key # Topic[n].key, Topic[i].agent = Topic[n].agent,
                        job'[Topic[i].key].state # "none", job'[Topic[n].key].state # "none"
                 PROVE  \/ job'[Topic[i].key].slot >= job'[Topic[n].key].slot + Spacing
                        \/ job'[Topic[n].key].slot >= job'[Topic[i].key].slot + Spacing
      BY <2>11 DEF CallsAreMetered
    <3>1. CASE Topic[i].key = k
      BY <3>1, <2>7, <2>12
    <3>2. CASE Topic[n].key = k
      BY <3>2, <2>7, <2>12
    <3>3. CASE Topic[i].key # k /\ Topic[n].key # k
      BY <3>3, <2>5, <2>8 DEF CallsAreMetered
    <3> QED
      BY <3>1, <3>2, <3>3
  <2> QED
    BY <1>2, <2>3, <2>5, <2>6, <2>10, <2>13
<1> QED
  BY <1>3, <1>4

(* A worker changes one job, which keeps its slot and is due no earlier.   *)
LEMMA WorkerKeeps ==
    ASSUME IndInv, NEW k \in Episodes, NEW j \in JobRecords,
           job' = [job EXCEPT ![k] = j], job[k].state # "none", UNCHANGED nextAt,
           j.state # "none", j.slot = job[k].slot, j.runAt >= j.slot,
           j.calls <= 1 + j.stalls,
           j.state = "storing" => j.out # "none",
           j.state = "waiting" => j.calls <= j.stalls
    PROVE  /\ job' \in [Episodes -> JobRecords] /\ JobInv' /\ CallsAreMetered'
           /\ \A a \in Agents : SlotsEndBefore(a, nextAt[a])'
           /\ \A l \in Episodes : job[l].state # "none" <=> job'[l].state # "none"
           /\ \A a \in Agents, time \in Nat :
                 SlotsEndBefore(a, time) => SlotsEndBefore(a, time)'
<1> USE DEF IndInv
<1>1. /\ job' \in [Episodes -> JobRecords] /\ job'[k] = j
      /\ \A l \in Episodes \ {k} : job'[l] = job[l]
  BY DEF TypeInv
<1>2. \A l \in Episodes : /\ job[l].state # "none" <=> job'[l].state # "none"
                         /\ job'[l].slot = job[l].slot
  BY <1>1
<1>3. \A i \in DOMAIN Topic : Topic[i].key \in Episodes
  BY TopicFacts DEF Messages
<1>4. JobInv'
  BY <1>1 DEF JobInv
<1>5. \A l \in Episodes : job'[l].calls <= 1 + job'[l].stalls /\ job'[l].runAt >= job'[l].slot
  BY <1>1 DEF CallsAreMetered
<1>6. CallsAreMetered'
  BY <1>2, <1>3, <1>5 DEF CallsAreMetered
<1>7. \A a \in Agents, time \in Nat : SlotsEndBefore(a, time) => SlotsEndBefore(a, time)'
  BY <1>2, <1>3 DEF SlotsEndBefore
<1>8. \A a \in Agents : SlotsEndBefore(a, nextAt[a])'
  BY <1>2, <1>3 DEF SlotInv, SlotsEndBefore
<1> QED
  BY <1>1, <1>2, <1>4, <1>6, <1>7, <1>8

(* No message is committed, and no slot handed out, at the start.          *)
LEMMA InitHolds == Init => IndInv
<1> SUFFICES ASSUME Init PROVE IndInv
  OBVIOUS
<1>1. TypeInv
  BY TopicFacts DEF Init, TypeInv, Idle, NoJob, NoRow, Steps, Statuses, JobRecords, JobStates, Rows
<1>2. StepInv /\ CommittedIsRecorded
  BY DEF Init, StepInv, CommittedIsRecorded, Idle
<1>3. JobInv /\ CallsAreMetered
  BY TopicFacts DEF Init, JobInv, CallsAreMetered, NoJob, Messages
<1>4. SlotInv
  BY TopicFacts DEF Init, SlotInv, SlotsEndBefore, NoJob, Idle, Messages
<1> QED
  BY <1>1, <1>2, <1>3, <1>4 DEF IndInv

-----------------------------------------------------------------------------
(* The consumer's steps.                                                   *)

Handlers == [step : Steps, at : Nat, runAt : Nat]

(* The handler goes on with nothing stamped.                               *)
LEMMA GoFacts ==
    ASSUME NEW step \in Steps
    PROVE  /\ Go(step) => handler' \in Handlers /\ handler'.step = step /\ handler'.at = 0
           /\ Idle \in Handlers /\ Idle.step = "idle" /\ Idle.at = 0
BY DEF Go, Idle, Handlers, Steps

(* The handler stamps what it is about to write.                           *)
LEMMA StampFacts ==
    ASSUME TypeInv, NEW step \in Steps,
           \/ handler' = [handler EXCEPT !.at = now, !.step = step]
           \/ handler' = [handler EXCEPT !.step = step, !.at = now]
    PROVE  handler' \in Handlers /\ handler'.step = step /\ handler'.at <= now
<1>1. now \in Nat /\ handler \in Handlers
  BY DEF TypeInv, Handlers
<1>2. handler'.step = step /\ handler'.at = now /\ handler' \in Handlers
  BY <1>1 DEF Handlers
<1> QED
  BY <1>1, <1>2

(* A step that leaves jobs and slots alone.                                *)
LEMMA QuietStep ==
    ASSUME IndInv, TypeInv', StepInv', CommittedIsRecorded', UNCHANGED <<job, nextAt>>,
           handler'.step # "add" \/ UNCHANGED <<handler, cursor>>
    PROVE  IndInv'
<1> USE DEF IndInv
<1>1. JobInv' /\ CallsAreMetered'
  BY DEF JobInv, CallsAreMetered
<1>2. \A a \in Agents : SlotsEndBefore(a, nextAt[a])'
  BY DEF SlotInv, SlotsEndBefore
<1>3. SlotInv'
  <2>1. CASE handler'.step # "add"
    BY <1>2, <2>1 DEF SlotInv
  <2>2. CASE UNCHANGED <<handler, cursor>>
    BY <1>2, <2>2 DEF SlotInv, SlotsEndBefore, Message
  <2> QED
    BY <2>1, <2>2
<1> QED
  BY <1>1, <1>3

(* A step of the handler within its message that touches nothing else.     *)
LEMMA HandlerStep ==
    ASSUME IndInv, UNCHANGED <<now, cursor, offset, nextAt, job, row>>,
           dropped \subseteq dropped', handler' \in Handlers, handler'.at <= now,
           handler'.step # "idle" => cursor \in DOMAIN Topic,
           handler'.step # "add", StepInv'
    PROVE  IndInv'
<1> USE DEF IndInv
<1>1. TypeInv'
  BY TopicFacts DEF TypeInv, Handlers
<1>2. CommittedIsRecorded'
  BY RecordKept DEF TypeInv, CommittedIsRecorded, Recorded
<1> QED
  BY <1>1, <1>2, QuietStep

(* A step of the handler that writes the row of its message.               *)
LEMMA WriteStep ==
    ASSUME IndInv, handler.step # "idle",
           NEW status \in Statuses \ {"none"}, Upsert(Message.key, status, handler.at),
           UNCHANGED <<now, cursor, offset, nextAt, job, dropped>>,
           handler' \in Handlers, handler'.at <= now, handler'.step # "add",
           row'[Message.key].status # "none" => StepInv'
    PROVE  IndInv'
<1> USE DEF IndInv
<1>1. Message.key \in Episodes /\ handler.at \in Nat /\ cursor \in DOMAIN Topic
  BY MessageFacts DEF TypeInv
<1>2. TypeInv'
  BY <1>1, UpsertKeeps DEF TypeInv, Handlers
<1>3. CommittedIsRecorded'
  BY <1>1, UpsertKeeps, RecordKept DEF TypeInv, CommittedIsRecorded, Recorded
<1> QED
  BY <1>1, <1>2, <1>3, UpsertKeeps, QuietStep

(* An episode that is passed over may be committed.                        *)
LEMMA DropKeeps == IndInv /\ Drop => IndInv'
<1> SUFFICES ASSUME IndInv, Drop PROVE IndInv'
  OBVIOUS
<1>1. cursor \in DOMAIN Topic
  BY MessageFacts DEF IndInv, Drop
<1>2. /\ handler' \in Handlers /\ handler'.step = "commit" /\ handler'.at <= now
      /\ dropped' = dropped \cup {cursor} /\ UNCHANGED cursor
  BY GoFacts DEF Drop, Steps, IndInv, TypeInv
<1>3. StepInv'
  BY <1>2 DEF StepInv
<1> QED
  BY <1>1, <1>2, <1>3, HandlerStep DEF Drop

(* A rule decides the episodes of its own route.                           *)
LEMMA DecideKeeps == IndInv /\ Decide => IndInv'
<1> SUFFICES ASSUME IndInv, Decide PROVE IndInv'
  OBVIOUS
<1>1. cursor \in DOMAIN Topic
  BY MessageFacts DEF IndInv, Decide
<1>2. /\ handler' \in Handlers /\ handler'.step \in {"decided", "caught"} /\ handler'.at <= now
      /\ Message.route \in {"temporal", "legacy"} /\ UNCHANGED cursor
  <2>1. PICK step \in {"decided", "caught"} :
           step = IF Message.valid THEN "decided" ELSE "caught"
    OBVIOUS
  <2>2. handler' = [handler EXCEPT !.at = now, !.step = step]
    BY <2>1 DEF Decide
  <2> QED
    BY <2>2, StampFacts DEF Decide, Steps, IndInv
<1>3. StepInv'
  BY <1>2 DEF StepInv, Message
<1> QED
  BY <1>1, <1>2, <1>3, HandlerStep DEF Decide

(* The decision is in the store before it is committed.                    *)
LEMMA StoreDecisionKeeps == IndInv /\ StoreDecision => IndInv'
<1> SUFFICES ASSUME IndInv, StoreDecision PROVE IndInv'
  OBVIOUS
<1>1. handler' \in Handlers /\ handler'.step = "commitDecision" /\ handler'.at <= now
  BY GoFacts DEF StoreDecision, Steps, IndInv, TypeInv
<1>2. row'[Message.key].status # "none" => StepInv'
  BY <1>1 DEF StoreDecision, IndInv, StepInv, Message
<1> QED
  BY <1>1, <1>2, WriteStep DEF StoreDecision, Statuses

(* The failed temporal rule records that, the legacy one asks the judge. *)
LEMMA CatchKeeps == IndInv /\ Catch => IndInv'
<1> SUFFICES ASSUME IndInv, Catch PROVE IndInv'
  OBVIOUS
<1>1. cursor \in DOMAIN Topic
  BY MessageFacts DEF IndInv, Catch
<1>2. /\ handler' \in Handlers /\ handler'.step \in {"failing", "rate"} /\ handler'.at <= now
      /\ UNCHANGED cursor
  <2>1. PICK step \in {"failing", "rate"} :
           step = IF Message.route = "temporal" THEN "failing" ELSE "rate"
    OBVIOUS
  <2>2. handler' = [handler EXCEPT !.at = now, !.step = step]
    BY <2>1 DEF Catch
  <2> QED
    BY <2>2, StampFacts DEF Catch, Steps, IndInv
<1>3. StepInv'
  BY <1>2 DEF Catch, IndInv, StepInv, Message
<1> QED
  BY <1>1, <1>2, <1>3, HandlerStep DEF Catch

(* The failure of a rule is in the store before it is committed.           *)
LEMMA StoreFailureKeeps == IndInv /\ StoreFailure => IndInv'
<1> SUFFICES ASSUME IndInv, StoreFailure PROVE IndInv'
  OBVIOUS
<1>1. handler' \in Handlers /\ handler'.step = "commit" /\ handler'.at <= now
  BY GoFacts DEF StoreFailure, Steps, IndInv, TypeInv
<1>2. row'[Message.key].status # "none" => StepInv'
  BY <1>1 DEF StoreFailure, IndInv, StepInv, Message, Recorded
<1> QED
  BY <1>1, <1>2, WriteStep DEF StoreFailure, Statuses

(* What goes to the judge is not committed yet.                            *)
LEMMA ToJudgeKeeps == IndInv /\ ToJudge => IndInv'
<1> SUFFICES ASSUME IndInv, ToJudge PROVE IndInv'
  OBVIOUS
<1>1. cursor \in DOMAIN Topic
  BY MessageFacts DEF IndInv, ToJudge
<1>2. handler' \in Handlers /\ handler'.step = "rate" /\ handler'.at <= now
  BY GoFacts DEF ToJudge, Steps, IndInv, TypeInv
<1>3. StepInv'
  BY <1>2 DEF StepInv
<1> QED
  BY <1>1, <1>2, <1>3, HandlerStep DEF ToJudge

(* The slot that is reserved is no earlier than the end of the last one.   *)
LEMMA ReserveSlotKeeps == IndInv /\ ReserveSlot => IndInv'
<1> SUFFICES ASSUME IndInv, ReserveSlot PROVE IndInv'
  OBVIOUS
<1> USE DEF IndInv
<1>1. /\ cursor \in DOMAIN Topic /\ Message.agent \in Agents
      /\ \A i \in DOMAIN Topic : Topic[i].key \in Episodes /\ Topic[i].agent \in Agents
  BY MessageFacts, TopicFacts DEF ReserveSlot, Messages
<1>2. PICK agent \in Agents : agent = Message.agent
  BY <1>1
<1>3. PICK runAt \in Nat : runAt = RunAt(agent) /\ runAt >= nextAt[agent]
  BY DEF RunAt, Later, TypeInv
<1>4. /\ nextAt' = [nextAt EXCEPT ![agent] = runAt + Spacing]
      /\ handler' = [step |-> "add", at |-> now, runAt |-> runAt]
      /\ UNCHANGED <<now, cursor, offset, job, row, dropped>>
  BY <1>2, <1>3 DEF ReserveSlot
<1>5. /\ handler' \in Handlers /\ handler'.step = "add" /\ handler'.runAt = runAt
      /\ handler'.at = now
  BY <1>4 DEF Handlers, Steps, TypeInv
<1>6. /\ nextAt' \in [Agents -> Nat] /\ nextAt'[agent] = runAt + Spacing
      /\ \A a \in Agents \ {agent} : nextAt'[a] = nextAt[a]
  BY <1>4, BoundAssumption DEF TypeInv
<1>7. TypeInv'
  BY <1>1, <1>4, <1>5, <1>6, TopicFacts DEF TypeInv, Handlers
<1>8. StepInv' /\ JobInv' /\ CallsAreMetered'
  BY <1>4, <1>5 DEF StepInv, JobInv, CallsAreMetered
<1>9. CommittedIsRecorded'
  BY <1>4 DEF CommittedIsRecorded
<1>10. \A i \in DOMAIN Topic : job[Topic[i].key].slot \in Nat
  BY <1>1 DEF TypeInv, JobRecords
<1>11. SlotsEndBefore(agent, runAt)
  <2>1. SlotsEndBefore(agent, nextAt[agent]) /\ nextAt[agent] \in Nat /\ Spacing \in Nat
    BY BoundAssumption DEF SlotInv, TypeInv
  <2>2. \A slot \in Nat : slot + Spacing <= nextAt[agent] => slot + Spacing <= runAt
    BY <1>3, <2>1
  <2> HIDE DEF IndInv
  <2> QED
    BY <2>1, <2>2, <1>10 DEF SlotsEndBefore
<1>12. \A a \in Agents : SlotsEndBefore(a, nextAt'[a])
  <2> SUFFICES ASSUME NEW a \in Agents PROVE SlotsEndBefore(a, nextAt'[a])
    OBVIOUS
  <2>1. CASE a = agent
    BY <2>1, <1>6, <1>10, <1>11, BoundAssumption DEF SlotsEndBefore
  <2>2. CASE a # agent
    BY <2>2, <1>6 DEF SlotInv
  <2> QED
    BY <2>1, <2>2
<1>13. SlotInv'
  BY <1>2, <1>4, <1>5, <1>6, <1>11, <1>12 DEF SlotInv, SlotsEndBefore, Message
<1> QED
  BY <1>7, <1>8, <1>9, <1>13

(* The job takes the slot that was reserved for it.                        *)
LEMMA AddJobKeeps == IndInv /\ AddJob => IndInv'
<1> SUFFICES ASSUME IndInv, AddJob PROVE IndInv'
  OBVIOUS
<1> USE DEF IndInv
<1>1. handler.step = "add" /\ Enqueue(Message.key)
      /\ UNCHANGED <<now, cursor, offset, nextAt, row, dropped>>
  BY DEF AddJob
<1>2. handler' \in Handlers /\ handler'.step = "stamp" /\ handler'.at = 0
  BY GoFacts DEF AddJob, Steps
<1>3. TypeInv'
  BY <1>1, <1>2, EnqueueKeeps DEF TypeInv, Handlers
<1>4. StepInv'
  BY <1>1, <1>2, EnqueueKeeps DEF StepInv, Message
<1>5. CommittedIsRecorded'
  BY <1>1, EnqueueKeeps, RecordKept DEF TypeInv, CommittedIsRecorded, Recorded
<1>6. SlotInv'
  BY <1>1, <1>2, EnqueueKeeps DEF SlotInv
<1> QED
  BY <1>1, <1>3, <1>4, <1>5, <1>6, EnqueueKeeps

(* The pending finding is stamped after the job is there.                  *)
LEMMA StampPendingKeeps == IndInv /\ StampPending => IndInv'
<1> SUFFICES ASSUME IndInv, StampPending PROVE IndInv'
  OBVIOUS
<1>1. cursor \in DOMAIN Topic
  BY MessageFacts DEF IndInv, StampPending
<1>2. handler' \in Handlers /\ handler'.step = "pending" /\ handler'.at <= now
  BY StampFacts DEF StampPending, Steps, IndInv
<1>3. StepInv'
  BY <1>2 DEF StampPending, IndInv, StepInv, Message
<1> QED
  BY <1>1, <1>2, <1>3, HandlerStep DEF StampPending

(* A committed request has its row and its job.                            *)
LEMMA StorePendingKeeps == IndInv /\ StorePending => IndInv'
<1> SUFFICES ASSUME IndInv, StorePending PROVE IndInv'
  OBVIOUS
<1>1. handler' \in Handlers /\ handler'.step = "commit" /\ handler'.at <= now
  BY GoFacts DEF StorePending, Steps, IndInv, TypeInv
<1>2. row'[Message.key].status # "none" => StepInv'
  BY <1>1 DEF StorePending, IndInv, StepInv, Message, Recorded
<1> QED
  BY <1>1, <1>2, WriteStep DEF StorePending, Statuses

(* The offset of the message under way is committed, the handler goes on.  *)
LEMMA CommitStep ==
    ASSUME IndInv, handler.step \in {"commit", "commitDecision"},
           offset' = Later(offset, cursor), UNCHANGED <<now, nextAt, job, row, dropped>>,
           handler' \in Handlers, handler'.at <= now,
           \/ handler' = Idle /\ cursor' = cursor + 1
           \/ handler' = Idle /\ cursor' = cursor
           \/ handler'.step = "caught" /\ handler.step = "commitDecision" /\ cursor' = cursor
    PROVE  IndInv'
<1> USE DEF IndInv
<1>1. cursor \in DOMAIN Topic /\ cursor \in {offset, offset + 1} /\ offset \in 0..Len(Topic)
  BY MessageFacts DEF TypeInv
<1>2. PICK c \in DOMAIN Topic : c = cursor
  BY <1>1
<1>3. c \in dropped \/ Recorded(c)
  BY <1>2 DEF StepInv, Recorded, Message
<1>4. /\ \A i \in DOMAIN Topic : Recorded(i) => Recorded(i)'
      /\ \A i \in 1..offset : i \in dropped' \/ Recorded(i)'
  BY <1>1, RecordKept
<1>5. /\ offset' \in 0..Len(Topic) /\ offset' = c
      /\ CommittedIsRecorded'
  BY <1>1, <1>2, <1>3, <1>4, CommitKept
<1>6. handler'.step \in {"idle", "caught"}
      /\ (handler'.step = "caught" => handler.step = "commitDecision" /\ cursor' = cursor)
  BY DEF Idle
<1>7. TypeInv'
  <2>1. cursor' \in 1..(Len(Topic) + 1) /\ cursor' \in {offset', offset' + 1}
    BY <1>2, <1>5, TopicFacts
  <2>2. handler'.step # "idle" => cursor' <= Len(Topic)
    BY <1>2, <1>6, TopicFacts
  <2> QED
    BY <1>5, <2>1, <2>2 DEF TypeInv, Handlers
<1>8. StepInv'
  BY <1>6 DEF StepInv, Message
<1> QED
  BY <1>5, <1>6, <1>7, <1>8, QuietStep

(* The commit at the end of a message.                                     *)
LEMMA CommitKeeps == IndInv /\ Commit => IndInv'
<1> SUFFICES ASSUME IndInv, Commit PROVE IndInv'
  OBVIOUS
<1>1. handler' = Idle /\ handler' \in Handlers /\ handler'.at <= now
  BY GoFacts DEF Commit, Steps, IndInv, TypeInv
<1> QED
  BY <1>1, CommitStep DEF Commit

(* The try fails: the row or the offset may have been written.             *)
LEMMA DecisionFailsKeeps == IndInv /\ DecisionFails => IndInv'
<1> SUFFICES ASSUME IndInv, DecisionFails PROVE IndInv'
  OBVIOUS
<1>1. cursor \in DOMAIN Topic
  BY MessageFacts DEF IndInv, DecisionFails
<1>2. /\ handler' \in Handlers /\ handler'.step = "caught" /\ handler'.at <= now
      /\ UNCHANGED <<now, cursor, nextAt, job, dropped>>
  BY GoFacts DEF DecisionFails, Steps, IndInv, TypeInv
<1>3. StepInv'
  BY <1>2 DEF DecisionFails, IndInv, StepInv, Message
<1>4. CASE UNCHANGED <<row, offset>>
  BY <1>1, <1>2, <1>3, <1>4, HandlerStep
<1>5. CASE /\ handler.step = "decided" /\ UNCHANGED offset
           /\ Upsert(Message.key, "succeeded", handler.at)
  BY <1>2, <1>3, <1>5, WriteStep DEF Statuses
<1>6. CASE /\ handler.step = "commitDecision" /\ UNCHANGED row
           /\ offset' = Later(offset, cursor)
  BY <1>2, <1>6, CommitStep
<1> QED
  BY <1>4, <1>5, <1>6 DEF DecisionFails

(* The handler throws: what the call has done stays.                       *)
LEMMA HandlerFailsKeeps == IndInv /\ HandlerFails => IndInv'
<1> SUFFICES ASSUME IndInv, HandlerFails PROVE IndInv'
  OBVIOUS
<1> USE DEF IndInv
<1>1. cursor \in DOMAIN Topic /\ Message.agent \in Agents
  BY MessageFacts DEF HandlerFails
<1>2. /\ handler' = Idle /\ handler' \in Handlers /\ handler'.step = "idle"
      /\ handler'.at <= now /\ UNCHANGED <<now, cursor, dropped>>
  BY GoFacts DEF HandlerFails, Steps, TypeInv
<1>3. StepInv'
  BY <1>2 DEF StepInv
<1>4. CASE UNCHANGED <<nextAt, job, row, offset>>
  BY <1>1, <1>2, <1>3, <1>4, HandlerStep
<1>5. CASE /\ nextAt' = [nextAt EXCEPT ![Message.agent] = RunAt(Message.agent) + Spacing]
           /\ UNCHANGED <<job, row, offset>>
  <2>1. PICK agent \in Agents : agent = Message.agent
    BY <1>1
  <2>2. PICK runAt \in Nat : runAt = RunAt(agent) /\ runAt >= nextAt[agent]
    BY DEF RunAt, Later, TypeInv
  <2>3. /\ nextAt' \in [Agents -> Nat]
        /\ \A a \in Agents : nextAt'[a] \in Nat /\ nextAt[a] \in Nat /\ nextAt'[a] >= nextAt[a]
    BY <1>5, <2>1, <2>2, BoundAssumption DEF TypeInv
  <2>4. \A i \in DOMAIN Topic : job[Topic[i].key].slot \in Nat
    BY TopicFacts DEF TypeInv, JobRecords, Messages
  <2>5. \A a \in Agents : SlotsEndBefore(a, nextAt'[a])
    BY <2>3, <2>4, BoundAssumption DEF SlotInv, SlotsEndBefore
  <2>6. SlotInv'
    BY <1>2, <1>5, <2>5 DEF SlotInv, SlotsEndBefore
  <2>7. TypeInv'
    BY <1>2, <1>5, <2>3 DEF TypeInv, Handlers
  <2>8. JobInv' /\ CallsAreMetered' /\ CommittedIsRecorded'
    BY <1>2, <1>5 DEF JobInv, CallsAreMetered, CommittedIsRecorded
  <2> QED
    BY <1>3, <2>6, <2>7, <2>8
<1>6. CASE handler.step = "add" /\ Enqueue(Message.key) /\ UNCHANGED <<nextAt, row, offset>>
  <2>1. TypeInv'
    BY <1>2, <1>6, EnqueueKeeps DEF TypeInv, Handlers
  <2>2. CommittedIsRecorded'
    BY <1>2, <1>6, EnqueueKeeps, RecordKept DEF TypeInv, CommittedIsRecorded, Recorded
  <2>3. SlotInv'
    BY <1>2, <1>6, EnqueueKeeps DEF SlotInv
  <2> QED
    BY <1>3, <1>6, <2>1, <2>2, <2>3, EnqueueKeeps
<1>7. CASE /\ handler.step \in {"pending", "failing"} /\ UNCHANGED <<nextAt, job, offset>>
           /\ Upsert(Message.key, IF handler.step = "pending" THEN "pending" ELSE "failed",
                     handler.at)
  <2>1. PICK status \in Statuses \ {"none"} :
           status = IF handler.step = "pending" THEN "pending" ELSE "failed"
    BY DEF Statuses
  <2> QED
    BY <1>2, <1>3, <1>7, <2>1, WriteStep
<1>8. CASE /\ handler.step = "commit" /\ UNCHANGED <<nextAt, job, row>>
           /\ offset' = Later(offset, cursor)
  BY <1>2, <1>8, CommitStep
<1> QED
  BY <1>4, <1>5, <1>6, <1>7, <1>8 DEF HandlerFails

(* A new consumer begins behind the committed offset.                      *)
LEMMA ConsumerRestartsKeeps == IndInv /\ ConsumerRestarts => IndInv'
<1> SUFFICES ASSUME IndInv, ConsumerRestarts PROVE IndInv'
  OBVIOUS
<1> USE DEF IndInv
<1>1. /\ handler' \in Handlers /\ handler'.step = "idle" /\ handler'.at <= now
      /\ UNCHANGED <<now, offset, nextAt, job, row, dropped>> /\ cursor' = offset + 1
  BY GoFacts DEF ConsumerRestarts, Steps, TypeInv
<1>2. TypeInv'
  BY <1>1, TopicFacts DEF TypeInv, Handlers
<1>3. StepInv' /\ CommittedIsRecorded'
  BY <1>1 DEF StepInv, CommittedIsRecorded
<1> QED
  BY <1>1, <1>2, <1>3, QuietStep

-----------------------------------------------------------------------------
(* The workers' steps.                                                     *)

(* A worker changes its job and, if anything, writes its row.              *)
LEMMA WorkerStep ==
    ASSUME IndInv, NEW k \in Episodes, NEW j \in JobRecords,
           job' = [job EXCEPT ![k] = j], job[k].state # "none",
           j.state # "none", j.slot = job[k].slot, j.runAt >= j.slot,
           j.calls <= 1 + j.stalls,
           j.state = "storing" => j.out # "none",
           j.state = "waiting" => j.calls <= j.stalls,
           UNCHANGED <<now, cursor, offset, handler, nextAt, dropped>>,
           \/ UNCHANGED row
           \/ \E status \in Statuses \ {"none"}, at \in Nat : Upsert(k, status, at)
    PROVE  IndInv'
<1> USE DEF IndInv
<1>1. /\ job' \in [Episodes -> JobRecords] /\ JobInv' /\ CallsAreMetered'
      /\ \A a \in Agents : SlotsEndBefore(a, nextAt[a])'
      /\ \A l \in Episodes : job[l].state # "none" <=> job'[l].state # "none"
      /\ \A a \in Agents, time \in Nat :
            SlotsEndBefore(a, time) => SlotsEndBefore(a, time)'
  BY WorkerKeeps
<1>2. /\ row' \in [Episodes -> Rows]
      /\ \A l \in Episodes : row'[l].status = "none" => row'[l].at = 0
      /\ \A l \in Episodes : row[l].status # "none" => row'[l].status # "none"
  BY UpsertKeeps DEF TypeInv
<1>3. TypeInv'
  BY <1>1, <1>2 DEF TypeInv
<1>4. /\ CommittedIsRecorded'
      /\ \A i \in DOMAIN Topic : Recorded(i) => Recorded(i)'
  BY <1>1, <1>2, RecordKept DEF TypeInv, CommittedIsRecorded, Recorded
<1>5. handler.step # "idle" => /\ cursor \in DOMAIN Topic /\ Message.key \in Episodes
                               /\ Message.agent \in Agents
  BY MessageFacts
<1>6. StepInv'
  BY <1>1, <1>2, <1>5 DEF StepInv, Message, Recorded
<1>7. SlotInv'
  <2>1. handler.runAt \in Nat
    BY DEF TypeInv
  <2> QED
    BY <1>1, <1>5, <2>1 DEF SlotInv, SlotsEndBefore, Message
<1> QED
  BY <1>1, <1>3, <1>4, <1>6, <1>7

(* A job of the queue, by its type.                                        *)
LEMMA JobFacts ==
    ASSUME IndInv, NEW k \in Episodes
    PROVE  /\ job[k] \in JobRecords /\ job[k].at \in Nat /\ job[k].slot \in Nat
           /\ job[k].runAt \in Nat /\ job[k].calls \in Nat /\ job[k].stalls \in Nat
           /\ now \in Nat /\ job[k].runAt >= job[k].slot
           /\ job[k].calls <= 1 + job[k].stalls
           /\ job[k].state \in {"none", "waiting"} => job[k].calls <= job[k].stalls
           /\ job[k].state = "storing" => job[k].out \in Statuses \ {"none"}
BY DEF IndInv, TypeInv, JobRecords, JobInv, CallsAreMetered

(* A job is taken: one call of the model, or none if it is late.           *)
LEMMA TakeKeeps == ASSUME IndInv, NEW k \in Episodes, Take(k) PROVE IndInv'
<1>1. PICK r \in JobRecords : r = job[k]
  BY JobFacts
<1>2. CASE Late(k)
  <2>1. PICK j \in JobRecords :
           j = [r EXCEPT !.state = "storing", !.runAt = r.slot, !.out = "suppressed", !.at = now]
    BY JobFacts DEF JobRecords, JobStates, Statuses
  <2>2. /\ j.state = "storing" /\ j.slot = r.slot /\ j.runAt = r.slot
        /\ j.out = "suppressed" /\ j.calls = r.calls /\ j.stalls = r.stalls
    BY <2>1 DEF JobRecords
  <2>3. job' = [job EXCEPT ![k] = j]
    BY <1>1, <1>2, <2>1 DEF Take
  <2>4. j.runAt >= j.slot /\ j.calls <= 1 + j.stalls /\ j.slot = job[k].slot
    BY <1>1, <2>2, JobFacts
  <2>5. job[k].state # "none" /\ UNCHANGED <<now, cursor, offset, handler, nextAt, dropped, row>>
    BY DEF Take
  <2> QED
    BY <2>2, <2>3, <2>4, <2>5, WorkerStep
<1>3. CASE ~ Late(k)
  <2>1. PICK calls \in Nat : calls = r.calls + 1
    BY DEF JobRecords
  <2>2. PICK j \in JobRecords :
           j = [r EXCEPT !.state = "calling", !.runAt = r.slot, !.calls = calls]
    BY DEF JobRecords, JobStates
  <2>3. /\ j.state = "calling" /\ j.slot = r.slot /\ j.runAt = r.slot
        /\ j.calls = calls /\ j.stalls = r.stalls
    BY <2>2 DEF JobRecords
  <2>4. job' = [job EXCEPT ![k] = j]
    <3>1. j = [job[k] EXCEPT !.state = "calling", !.runAt = job[k].slot, !.calls = job[k].calls + 1]
      BY <1>1, <2>1, <2>2
    <3>2. job' = [job EXCEPT ![k] = [job[k] EXCEPT !.state = "calling", !.runAt = job[k].slot,
                                                  !.calls = job[k].calls + 1]]
      BY <1>3 DEF Take
    <3> QED
      BY <3>1, <3>2
  <2>5. j.runAt >= j.slot /\ j.calls <= 1 + j.stalls /\ j.slot = job[k].slot
    BY <1>1, <2>1, <2>3, JobFacts DEF Take
  <2>6. job[k].state # "none" /\ UNCHANGED <<now, cursor, offset, handler, nextAt, dropped, row>>
    BY DEF Take
  <2> QED
    BY <2>3, <2>4, <2>5, <2>6, WorkerStep
<1> QED
  BY <1>2, <1>3

(* An answer of the model waits to be stored.                              *)
LEMMA ModelAnswersKeeps == ASSUME IndInv, NEW k \in Episodes, ModelAnswers(k) PROVE IndInv'
<1>1. PICK out \in {"succeeded", "failed"} :
         job' = [job EXCEPT ![k].state = "storing", ![k].out = out, ![k].at = now]
  BY DEF ModelAnswers
<1>2. PICK r \in JobRecords : r = job[k]
  BY JobFacts
<1>3. PICK j \in JobRecords : j = [r EXCEPT !.state = "storing", !.out = out, !.at = now]
  BY JobFacts DEF JobRecords, JobStates, Statuses
<1>4. /\ j.state = "storing" /\ j.slot = r.slot /\ j.runAt = r.runAt
      /\ j.out = out /\ j.calls = r.calls /\ j.stalls = r.stalls
  BY <1>3 DEF JobRecords
<1>5. job' = [job EXCEPT ![k] = j]
  BY <1>1, <1>2, <1>3 DEF IndInv, TypeInv
<1> QED
  BY <1>2, <1>4, <1>5, JobFacts, WorkerStep DEF ModelAnswers

(* The job is over, whether its finding could be written or not.           *)
LEMMA EndFacts ==
    ASSUME IndInv, NEW k \in Episodes, NEW state \in {"done", "failed"}, End(k, state)
    PROVE  \E j \in JobRecords :
              /\ job' = [job EXCEPT ![k] = j]
              /\ j.state = state /\ j.slot = job[k].slot /\ j.runAt = job[k].runAt
              /\ j.calls = job[k].calls /\ j.stalls = job[k].stalls
<1>1. PICK r \in JobRecords : r = job[k]
  BY JobFacts
<1>2. PICK j \in JobRecords : j = [r EXCEPT !.state = state, !.out = "none", !.at = 0]
  BY DEF JobRecords, JobStates, Statuses
<1>3. j.state = state /\ j.slot = r.slot /\ j.runAt = r.runAt /\ j.calls = r.calls
      /\ j.stalls = r.stalls
  BY <1>2 DEF JobRecords
<1>4. job' = [job EXCEPT ![k] = j]
  BY <1>1, <1>2 DEF End
<1> QED
  BY <1>1, <1>3, <1>4

(* The finding is stored, or the job fails for good.                       *)
LEMMA StoreJudgmentKeeps ==
    ASSUME IndInv, NEW k \in Episodes, StoreJudgment(k) \/ StoreJudgmentFails(k)
    PROVE  IndInv'
<1>1. PICK state \in {"done", "failed"} : End(k, state)
  BY DEF StoreJudgment, StoreJudgmentFails
<1>2. PICK j \in JobRecords :
         /\ job' = [job EXCEPT ![k] = j]
         /\ j.state = state /\ j.slot = job[k].slot /\ j.runAt = job[k].runAt
         /\ j.calls = job[k].calls /\ j.stalls = job[k].stalls
  BY <1>1, EndFacts
<1>3. job[k].state = "storing" /\ UNCHANGED <<now, cursor, offset, handler, nextAt, dropped>>
      /\ (UNCHANGED row \/ Upsert(k, job[k].out, job[k].at))
  BY DEF StoreJudgment, StoreJudgmentFails
<1> QED
  BY <1>2, <1>3, JobFacts, WorkerStep

(* A job that is handed out again is allowed one more call.                *)
LEMMA WorkerDiesKeeps == ASSUME IndInv, NEW k \in Episodes, WorkerDies(k) PROVE IndInv'
<1>1. job[k].state \in {"calling", "storing"}
      /\ UNCHANGED <<now, cursor, offset, handler, nextAt, row, dropped>>
  BY DEF WorkerDies, Active
<1>2. PICK r \in JobRecords : r = job[k] /\ r.stalls \in Nat
  BY JobFacts
<1>3. CASE r.stalls < MaxStalled
  <2>1. PICK stalls \in Nat : stalls = r.stalls + 1
    BY <1>2
  <2>2. PICK j \in JobRecords :
           j = [r EXCEPT !.out = "none", !.at = 0, !.state = "waiting", !.stalls = stalls]
    BY DEF JobRecords, JobStates, Statuses
  <2>3. /\ j.state = "waiting" /\ j.slot = r.slot /\ j.runAt = r.runAt
        /\ j.calls = r.calls /\ j.stalls = stalls
    BY <2>2 DEF JobRecords
  <2>4. job' = [job EXCEPT ![k] = j]
    <3>1. j = [job[k] EXCEPT !.out = "none", !.at = 0, !.state = "waiting",
                            !.stalls = job[k].stalls + 1]
      BY <1>2, <2>1, <2>2
    <3>2. job' = [job EXCEPT ![k] = [job[k] EXCEPT !.out = "none", !.at = 0, !.state = "waiting",
                                                  !.stalls = job[k].stalls + 1]]
      BY <1>2, <1>3 DEF WorkerDies
    <3> QED
      BY <3>1, <3>2
  <2>5. j.calls <= 1 + j.stalls /\ j.calls <= j.stalls
    BY <1>2, <2>1, <2>3, JobFacts
  <2> QED
    BY <1>1, <1>2, <2>3, <2>4, <2>5, JobFacts, WorkerStep
<1>4. CASE ~ (r.stalls < MaxStalled)
  <2>1. PICK j \in JobRecords :
           j = [r EXCEPT !.out = "none", !.at = 0, !.state = "failed", !.stalls = r.stalls]
    BY DEF JobRecords, JobStates, Statuses
  <2>2. /\ j.state = "failed" /\ j.slot = r.slot /\ j.runAt = r.runAt
        /\ j.calls = r.calls /\ j.stalls = r.stalls
    BY <2>1 DEF JobRecords
  <2>3. job' = [job EXCEPT ![k] = j]
    <3>1. j = [job[k] EXCEPT !.out = "none", !.at = 0, !.state = "failed",
                            !.stalls = job[k].stalls]
      BY <1>2, <2>1
    <3>2. job' = [job EXCEPT ![k] = [job[k] EXCEPT !.out = "none", !.at = 0, !.state = "failed",
                                                  !.stalls = job[k].stalls]]
      BY <1>2, <1>4 DEF WorkerDies
    <3> QED
      BY <3>1, <3>2
  <2> QED
    BY <1>1, <1>2, <2>2, <2>3, JobFacts, WorkerStep
<1> QED
  BY <1>3, <1>4

(* Time alone changes nothing.                                             *)
LEMMA TickKeeps == IndInv /\ Tick => IndInv'
<1> SUFFICES ASSUME IndInv, Tick PROVE IndInv'
  OBVIOUS
<1>1. TypeInv'
  BY DEF Tick, IndInv, TypeInv
<1>2. StepInv' /\ CommittedIsRecorded'
  BY DEF Tick, IndInv, StepInv, CommittedIsRecorded, Message, Recorded
<1> QED
  BY <1>1, <1>2, QuietStep DEF Tick

-----------------------------------------------------------------------------
(* Every step keeps the invariant.                                         *)
LEMMA NextKeeps == IndInv /\ [Next]_vars => IndInv'
<1> SUFFICES ASSUME IndInv, [Next]_vars PROVE IndInv'
  OBVIOUS
<1>1. ASSUME Consumer PROVE IndInv'
  BY <1>1, DropKeeps, DecideKeeps, StoreDecisionKeeps, CatchKeeps, StoreFailureKeeps,
     ToJudgeKeeps, ReserveSlotKeeps, AddJobKeeps, StampPendingKeeps, StorePendingKeeps,
     CommitKeeps DEF Consumer
<1>2. ASSUME NEW k \in Episodes, Worker(k) \/ StoreJudgmentFails(k) \/ WorkerDies(k)
      PROVE  IndInv'
  BY <1>2, TakeKeeps, ModelAnswersKeeps, StoreJudgmentKeeps, WorkerDiesKeeps DEF Worker
<1>3. CASE UNCHANGED vars
  BY <1>3, QuietStep DEF vars, IndInv, TypeInv, StepInv, CommittedIsRecorded, Message, Recorded
<1> QED
  BY <1>1, <1>2, <1>3, DecisionFailsKeeps, HandlerFailsKeeps, ConsumerRestartsKeeps, TickKeeps
     DEF Next

(* The invariant holds throughout.                                         *)
THEOREM Inductive == Spec => []IndInv
<1> QED
  BY InitHolds, NextKeeps, PTL DEF Spec

(* What is stamped is over, and what is counted is bounded.                *)
Bounds ==
    /\ faults \in 0..MaxFaults
    /\ dropped \subseteq DOMAIN Topic
    /\ \A k \in Episodes :
          row[k].at <= now /\ job[k].at <= now /\ job[k].stalls <= MaxStalled

(* A row that is written with a stamp that is over.                        *)
LEMMA UpsertBounds ==
    ASSUME TypeInv, Bounds, now' = now, NEW key, NEW status, NEW at \in Nat, at <= now,
           Upsert(key, status, at)
    PROVE  \A k \in Episodes : row'[k].at <= now
<1> USE DEF TypeInv, Bounds, Rows
<1>1. PICK new : new = [status |-> status, at |-> at]
  OBVIOUS
<1>2. row' = [row EXCEPT ![key] = IF at >= row[key].at THEN new ELSE row[key]]
  BY <1>1 DEF Upsert
<1>3. ASSUME NEW k \in Episodes PROVE row'[k].at <= now
  <2>1. row'[k] = row[k] \/ row'[k] = new
    BY <1>2
  <2>2. new.at <= now
    BY <1>1
  <2> QED
    BY <2>1, <2>2
<1> QED
  BY <1>3

(* A new job has no stamp and no stall.                                    *)
LEMMA EnqueueBounds ==
    ASSUME TypeInv, Bounds, NEW key, Enqueue(key)
    PROVE  \A k \in Episodes : job'[k].at <= now /\ job'[k].stalls <= MaxStalled
<1> USE BoundAssumption DEF TypeInv, Bounds, JobRecords
<1>1. PICK new : new = [NoJob EXCEPT !.state = "waiting", !.slot = handler.runAt,
                                     !.runAt = now + (handler.runAt - handler.at)]
  OBVIOUS
<1>2. new.at = 0 /\ new.stalls = 0
  BY <1>1 DEF NoJob
<1>3. \A k \in Episodes : job'[k] = job[k] \/ job'[k] = new
  BY <1>1 DEF Enqueue
<1>4. now \in Nat /\ MaxStalled \in Nat
  OBVIOUS
<1>5. ASSUME NEW k \in Episodes PROVE job'[k].at <= now /\ job'[k].stalls <= MaxStalled
  <2>1. CASE job'[k] = job[k]
    BY <2>1
  <2>2. CASE job'[k] = new
    BY <1>2, <1>4, <2>2
  <2> QED
    BY <1>3, <2>1, <2>2
<1> QED
  BY <1>5

(* A step of a worker.                                                     *)
LEMMA WorkerBounds ==
    ASSUME TypeInv, Bounds, NEW key \in Episodes, Worker(key) \/ StoreJudgmentFails(key)
           \/ WorkerDies(key)
    PROVE  Bounds'
<1> USE BoundAssumption DEF TypeInv, Bounds
<1>1. job[key] \in JobRecords /\ job[key].at \in Nat /\ job[key].stalls \in Nat
  BY DEF JobRecords
<1>2. CASE Take(key)
  <2>1. PICK new : new = IF Late(key)
                  THEN [job[key] EXCEPT !.state = "storing", !.runAt = job[key].slot,
                                 !.out = "suppressed", !.at = now]
                  ELSE [job[key] EXCEPT !.state = "calling", !.runAt = job[key].slot,
                                 !.calls = job[key].calls + 1]
    OBVIOUS
  <2>2. job' = [job EXCEPT ![key] = new]
    BY <1>2, <2>1, <1>1 DEF Take
  <2>3. new.at \in {now, job[key].at} /\ new.stalls = job[key].stalls
    BY <1>1, <2>1 DEF JobRecords
  <2>4. new.at <= now /\ new.stalls <= MaxStalled
    BY <2>3
  <2> QED
    BY <1>2, <2>2, <2>4 DEF Take
<1>3. CASE ModelAnswers(key)
  <2>1. PICK out \in {"succeeded", "failed"} :
          job' = [job EXCEPT ![key].state = "storing", ![key].out = out, ![key].at = now]
    BY <1>3 DEF ModelAnswers
  <2>2. \A k \in Episodes : /\ job'[k].at = job[k].at \/ job'[k].at = now
                            /\ job'[k].stalls = job[k].stalls
    BY <2>1 DEF JobRecords
  <2> QED
    BY SMTT(30), <1>3, <2>2 DEF ModelAnswers
<1>4. ASSUME NEW state, End(key, state)
      PROVE  \A k \in Episodes : job'[k].at <= now /\ job'[k].stalls <= MaxStalled
  <2>1. \A k \in Episodes : /\ job'[k].at = job[k].at \/ job'[k].at = 0
                            /\ job'[k].stalls = job[k].stalls
    BY <1>4 DEF End, JobRecords
  <2>2. \A k \in Episodes : job[k].at <= now /\ job[k].stalls <= MaxStalled /\ 0 <= now
    OBVIOUS
  <2> QED
    BY <2>1, <2>2
<1>5. CASE StoreJudgment(key)
  BY <1>1, <1>4, <1>5, UpsertBounds DEF StoreJudgment
<1>6. CASE StoreJudgmentFails(key)
  <2>1. faults' \in 0..MaxFaults
    BY <1>6 DEF StoreJudgmentFails, Fault
  <2>2. \A k \in Episodes : row'[k].at <= now
    BY <1>1, <1>6, UpsertBounds DEF StoreJudgmentFails
  <2> QED
    BY <1>4, <1>6, <2>1, <2>2 DEF StoreJudgmentFails
<1>7. CASE WorkerDies(key)
  <2>1. PICK new : new = [job[key] EXCEPT !.out = "none", !.at = 0,
                            !.state = IF job[key].stalls < MaxStalled THEN "waiting" ELSE "failed",
                            !.stalls = IF job[key].stalls < MaxStalled
                                       THEN job[key].stalls + 1 ELSE job[key].stalls]
    OBVIOUS
  <2>2. job' = [job EXCEPT ![key] = new]
    BY <1>7, <2>1 DEF WorkerDies
  <2>3. /\ new.at = 0
        /\ new.stalls = IF job[key].stalls < MaxStalled
                        THEN job[key].stalls + 1 ELSE job[key].stalls
    BY <1>1, <2>1 DEF JobRecords
  <2>5. new.at <= now /\ new.stalls <= MaxStalled
    BY <1>1, <2>3
  <2>4. faults' \in 0..MaxFaults
    BY SMTT(30), <1>7 DEF WorkerDies, Fault
  <2> QED
    BY <1>7, <2>2, <2>4, <2>5 DEF WorkerDies
<1> QED
  BY <1>2, <1>3, <1>5, <1>6, <1>7 DEF Worker

(* A step of the consumer.                                                 *)
LEMMA ConsumerBounds ==
    ASSUME TypeInv, Bounds, Consumer \/ DecisionFails \/ HandlerFails \/ ConsumerRestarts
    PROVE  Bounds'
<1> USE DEF TypeInv, Bounds
<1>1. handler.at \in Nat /\ handler.at <= now
  OBVIOUS
<1>2. CASE Drop
  BY <1>2, MessageFacts DEF Drop
<1>3. CASE StoreDecision
  BY <1>1, <1>3, UpsertBounds DEF StoreDecision
<1>4. CASE StoreFailure
  BY <1>1, <1>4, UpsertBounds DEF StoreFailure
<1>5. CASE StorePending
  BY <1>1, <1>5, UpsertBounds DEF StorePending
<1>6. CASE AddJob
  BY <1>6, EnqueueBounds DEF AddJob
<1>7. CASE Decide \/ Catch \/ ToJudge \/ ReserveSlot \/ StampPending \/ Commit
  BY <1>7 DEF Decide, Catch, ToJudge, ReserveSlot, StampPending, Commit
<1>8. CASE DecisionFails
  <2>1. faults' \in 0..MaxFaults
    BY <1>8, BoundAssumption DEF DecisionFails, Fault
  <2>2. \A k \in Episodes : row'[k].at <= now
    BY <1>1, <1>8, UpsertBounds DEF DecisionFails
  <2> QED
    BY <1>8, <2>1, <2>2 DEF DecisionFails
<1>9. CASE HandlerFails
  <2>1. faults' \in 0..MaxFaults
    BY <1>9, BoundAssumption DEF HandlerFails, Fault
  <2>2. \A k \in Episodes : row'[k].at <= now
    BY <1>1, <1>9, UpsertBounds DEF HandlerFails
  <2>3. \A k \in Episodes : job'[k].at <= now /\ job'[k].stalls <= MaxStalled
    BY <1>9, EnqueueBounds DEF HandlerFails
  <2> QED
    BY <1>9, <2>1, <2>2, <2>3 DEF HandlerFails
<1>10. CASE ConsumerRestarts
  BY <1>10, BoundAssumption DEF ConsumerRestarts, Fault
<1> QED
  BY <1>2, <1>3, <1>4, <1>5, <1>6, <1>7, <1>8, <1>9, <1>10 DEF Consumer

(* The state stays well typed, the consumer is never further behind its    *)
(* committed offset than the message it failed to finish, and no row is    *)
(* stamped in the future.                                                  *)
THEOREM TypeCorrect == Spec => []TypeOK
<1>1. Init => Bounds
  BY BoundAssumption DEF Init, Bounds, NoRow, NoJob
<1>2. IndInv /\ Bounds /\ [Next]_vars => Bounds'
  <2> SUFFICES ASSUME IndInv, Bounds, [Next]_vars PROVE Bounds'
    OBVIOUS
  <2>1. CASE Tick
    BY <2>1 DEF Tick, Bounds, IndInv, TypeInv, Rows, JobRecords
  <2>2. CASE UNCHANGED vars
    BY <2>2 DEF vars, Bounds
  <2> QED
    BY <2>1, <2>2, ConsumerBounds, WorkerBounds DEF Next, IndInv
<1>3. IndInv /\ Bounds => TypeOK
  <2> SUFFICES ASSUME IndInv, Bounds PROVE TypeOK
    OBVIOUS
  <2>1. job \in [Episodes -> [state : JobStates, slot : Nat, runAt : Nat, out : Statuses,
                              at : Nat, stalls : 0..MaxStalled, calls : Nat]]
    BY BoundAssumption DEF IndInv, TypeInv, Bounds, JobRecords
  <2> QED
    BY <2>1 DEF IndInv, TypeInv, Bounds, TypeOK, Rows, JobStates
<1> QED
  BY <1>1, <1>2, <1>3, Inductive, PTL DEF Spec

(* No commit of the consumer leaves an episode behind, whatever failed,    *)
(* was delivered again or restarted in between.                            *)
THEOREM CommittedIsAlwaysRecorded == Spec => []CommittedIsRecorded
<1>1. IndInv => CommittedIsRecorded
  BY DEF IndInv
<1> QED
  BY <1>1, Inductive, PTL

(* One call of the model for an episode, one more for a worker that died   *)
(* over it, and the slots of an agent Spacing apart.                       *)
THEOREM CallsAreAlwaysMetered == Spec => []CallsAreMetered
<1>1. IndInv => CallsAreMetered
  BY DEF IndInv
<1> QED
  BY <1>1, Inductive, PTL

-----------------------------------------------------------------------------
(***************************************************************************)
(* The builder (TemporalEpisode).  A rule names at most one chain, so that *)
(* no two matches share a candidate or a terminal; it finds the chains of  *)
(* the later facts among all, so that moving the window makes no new ones; *)
(* and it finds one if there is one.  What the state remembers is then     *)
(* exactly what it has put out.                                            *)
(***************************************************************************)

AtMostOne(E) == \A e, g \in E : e = g

(* The facts are numbered, and their times are positive and in that order. *)
LEMMA SignalFacts ==
    /\ Signals = 1 .. Len(Signal) /\ Len(Signal) \in Nat
    /\ \A s \in Signals : s \in Nat /\ Time(s) \in Nat /\ Time(s) > 0
    /\ \A s, t \in Signals : s <= t => Time(s) <= Time(t)
    /\ \A s \in Signals : File(s) \in Files \cup {None} /\ Signal[s].op \in Operations
<1> DEFINE R == [op : Operations, time : Nat \ {0}, file : Files \cup {None},
                 scope : Scopes \cup {None}, target : Targets \cup {None},
                 privileged : BOOLEAN]
<1>1. Signal \in Seq(R)
  BY SignalAssumption
<1>2. Signals = 1 .. Len(Signal) /\ Len(Signal) \in Nat
  BY <1>1 DEF Signals
<1>3. \A s \in Signals : Signal[s] \in R
  <2> HIDE DEF R
  <2> QED
    BY <1>1 DEF Signals
<1>4. \A s \in Signals : s \in Nat /\ Time(s) \in Nat /\ Time(s) > 0
  BY <1>2, <1>3 DEF Time
<1>5. \A s \in Signals : File(s) \in Files \cup {None} /\ Signal[s].op \in Operations
  BY <1>3 DEF File
<1>6. ASSUME NEW s \in Signals, NEW t \in Signals, s <= t PROVE Time(s) <= Time(t)
  <2>1. CASE s = t
    BY <2>1, <1>4
  <2>2. CASE s < t
    BY <2>2, SignalAssumption DEF Signals, Time
  <2> QED
    BY <2>1, <2>2, <1>6, <1>4
<1> QED
  BY <1>2, <1>4, <1>5, <1>6

(* There is at most one latest fact before another. *)
LEMMA LatestUnique ==
    ASSUME NEW S \in SUBSET Signals, NEW s \in S, NEW t \in S, NEW n,
           LatestBefore(s, S, n), LatestBefore(t, S, n)
    PROVE  s = t
<1>1. s <= t /\ t <= s
  BY DEF LatestBefore
<1>2. s \in Nat /\ t \in Nat
  BY SignalFacts
<1> QED
  BY <1>1, <1>2

(* A rule ends in at most one fact, the last of its kind. *)
LEMMA EndUnique ==
    ASSUME NEW F \in SUBSET Signals, NEW ops, NEW s \in Ends(F, ops), NEW t \in Ends(F, ops)
    PROVE  s = t
<1>1. s <= t /\ t <= s
  BY DEF Ends
<1>2. s \in Nat /\ t \in Nat
  BY SignalFacts DEF Ends, Of
<1> QED
  BY <1>1, <1>2

(* A rule names at most one chain: of a downloaded file, *)
LEMMA DownloadUnique ==
    ASSUME NEW F \in SUBSET Signals, NEW f
    PROVE  AtMostOne(DownloadExecute(F, f))
<1> DEFINE S == OfFile(F, f)
<1>0. S \in SUBSET Signals
  BY DEF OfFile
<1>1. SUFFICES ASSUME NEW e \in DownloadExecute(F, f), NEW g \in DownloadExecute(F, f)
               PROVE e = g
  BY DEF AtMostOne
<1> HIDE DEF S
<1>2. /\ e \in Of(S, {"download"}) \X Of(S, Writes) \X Of(S, {"chmod"}) \X Ends(S, {"execute"})
      /\ LatestBefore(e[3], Of(S, {"chmod"}), e[4])
      /\ LatestBefore(e[2], Of(S, Writes), e[3])
      /\ LatestBefore(e[1], Of(S, {"download"}), e[2])
  BY <1>1 DEF DownloadExecute, S
<1>3. /\ g \in Of(S, {"download"}) \X Of(S, Writes) \X Of(S, {"chmod"}) \X Ends(S, {"execute"})
      /\ LatestBefore(g[3], Of(S, {"chmod"}), g[4])
      /\ LatestBefore(g[2], Of(S, Writes), g[3])
      /\ LatestBefore(g[1], Of(S, {"download"}), g[2])
  BY <1>1 DEF DownloadExecute, S
<1>4. \A T \in SUBSET Signals : \A ops : Of(T, ops) \in SUBSET Signals
  BY DEF Of
<1>5. e[4] = g[4]
  BY <1>0, <1>2, <1>3, EndUnique
<1>6. e[3] = g[3]
  BY <1>0, <1>2, <1>3, <1>4, <1>5, LatestUnique
<1>7. e[2] = g[2]
  BY <1>0, <1>2, <1>3, <1>4, <1>6, LatestUnique
<1>8. e[1] = g[1]
  BY <1>0, <1>2, <1>3, <1>4, <1>7, LatestUnique
<1> QED
  BY <1>2, <1>3, <1>5, <1>6, <1>7, <1>8

(* of a file that is read and sent away, *)
LEMMA ExfiltrationUnique ==
    ASSUME NEW F \in SUBSET Signals, NEW f
    PROVE  AtMostOne(SensitiveExfiltration(F, f))
<1> DEFINE S == OfFile(F, f)
<1>0. S \in SUBSET Signals
  BY DEF OfFile
<1>1. SUFFICES ASSUME NEW e \in SensitiveExfiltration(F, f), NEW g \in SensitiveExfiltration(F, f)
               PROVE e = g
  BY DEF AtMostOne
<1> HIDE DEF S
<1>2. /\ e \in Of(S, {"file_read"}) \X Of(S, Transforms) \X Ends(F, {"egress"})
      /\ LatestBefore(e[2], Of(S, Transforms), e[3])
      /\ LatestBefore(e[1], Of(S, {"file_read"}), e[2])
  BY <1>1 DEF SensitiveExfiltration, S
<1>3. /\ g \in Of(S, {"file_read"}) \X Of(S, Transforms) \X Ends(F, {"egress"})
      /\ LatestBefore(g[2], Of(S, Transforms), g[3])
      /\ LatestBefore(g[1], Of(S, {"file_read"}), g[2])
  BY <1>1 DEF SensitiveExfiltration, S
<1>4. \A T \in SUBSET Signals : \A ops : Of(T, ops) \in SUBSET Signals
  BY DEF Of
<1>5. e[3] = g[3]
  BY <1>2, <1>3, EndUnique
<1>6. e[2] = g[2]
  BY <1>0, <1>2, <1>3, <1>4, <1>5, LatestUnique
<1>7. e[1] = g[1]
  BY <1>0, <1>2, <1>3, <1>4, <1>6, LatestUnique
<1> QED
  BY <1>2, <1>3, <1>5, <1>6, <1>7

(* of a persistent change, *)
LEMMA PersistenceUnique ==
    ASSUME NEW F \in SUBSET Signals
    PROVE  AtMostOne(Persistence(F))
<1>0. F \in SUBSET Signals
  OBVIOUS
<1>1. SUFFICES ASSUME NEW e \in Persistence(F), NEW g \in Persistence(F)
               PROVE e = g
  BY DEF AtMostOne
<1>2. /\ e \in Of(F, {"persistence_write"}) \X Ends(F, {"persistence_activate"})
      /\ SameTarget(e[1], e[2])
      /\ LatestBefore(e[1], {s \in Of(F, {"persistence_write"}) : SameTarget(s, e[2])}, e[2])
  BY <1>1 DEF Persistence
<1>3. /\ g \in Of(F, {"persistence_write"}) \X Ends(F, {"persistence_activate"})
      /\ SameTarget(g[1], g[2])
      /\ LatestBefore(g[1], {s \in Of(F, {"persistence_write"}) : SameTarget(s, g[2])}, g[2])
  BY <1>1 DEF Persistence
<1>4. \A T \in SUBSET Signals : \A ops : Of(T, ops) \in SUBSET Signals
  BY DEF Of
<1>5. e[2] = g[2]
  BY <1>0, <1>2, <1>3, EndUnique
<1>6. e[1] = g[1]
  <2> DEFINE T == {s \in Of(F, {"persistence_write"}) : SameTarget(s, e[2])}
  <2>1. T \in SUBSET Signals
    BY DEF Of
  <2>2. e[1] \in T /\ g[1] \in T
    BY <1>2, <1>3, <1>5
  <2>3. LatestBefore(e[1], T, e[2]) /\ LatestBefore(g[1], T, e[2])
    BY <1>2, <1>3, <1>5
  <2> HIDE DEF T
  <2> QED
    BY <2>1, <2>2, <2>3, LatestUnique
<1> QED
  BY <1>2, <1>3, <1>5, <1>6

(* of a sandbox that is left, *)
LEMMA SandboxUnique ==
    ASSUME NEW F \in SUBSET Signals
    PROVE  AtMostOne(SandboxBreakout(F))
<1>0. F \in SUBSET Signals
  OBVIOUS
<1>1. SUFFICES ASSUME NEW e \in SandboxBreakout(F), NEW g \in SandboxBreakout(F)
               PROVE e = g
  BY DEF AtMostOne
<1>2. /\ e \in Of(F, {"sandbox_probe"}) \X Of(F, {"privilege_change"}) \X Privileged(F)
      /\ \A t \in Privileged(F) : t <= e[3]
      /\ LatestBefore(e[2], Of(F, {"privilege_change"}), e[3])
      /\ LatestBefore(e[1], Of(F, {"sandbox_probe"}), e[2])
  BY <1>1 DEF SandboxBreakout
<1>3. /\ g \in Of(F, {"sandbox_probe"}) \X Of(F, {"privilege_change"}) \X Privileged(F)
      /\ \A t \in Privileged(F) : t <= g[3]
      /\ LatestBefore(g[2], Of(F, {"privilege_change"}), g[3])
      /\ LatestBefore(g[1], Of(F, {"sandbox_probe"}), g[2])
  BY <1>1 DEF SandboxBreakout
<1>4. \A T \in SUBSET Signals : \A ops : Of(T, ops) \in SUBSET Signals
  BY DEF Of
<1>5. e[3] = g[3]
  <2>1. e[3] <= g[3] /\ g[3] <= e[3] /\ e[3] \in Privileged(F) /\ g[3] \in Privileged(F)
    BY <1>2, <1>3
  <2>2. e[3] \in Nat /\ g[3] \in Nat
    BY <2>1, SignalFacts DEF Privileged
  <2> QED
    BY <2>1, <2>2
<1>6. e[2] = g[2]
  BY <1>0, <1>2, <1>3, <1>4, <1>5, LatestUnique
<1>7. e[1] = g[1]
  BY <1>0, <1>2, <1>3, <1>4, <1>6, LatestUnique
<1> QED
  BY <1>2, <1>3, <1>5, <1>6, <1>7

(* of a destruction, *)
LEMMA DestructiveUnique ==
    ASSUME NEW F \in SUBSET Signals
    PROVE  AtMostOne(DestructiveBehavior(F))
<1>0. F \in SUBSET Signals
  OBVIOUS
<1>1. SUFFICES ASSUME NEW e \in DestructiveBehavior(F), NEW g \in DestructiveBehavior(F)
               PROVE e = g
  BY DEF AtMostOne
<1>2. /\ e \in Of(F, {"target_discovery"}) \X Of(F, {"destroy"}) \X Ends(F, {"destroy"})
      /\ LatestBefore(e[2], Of(F, {"destroy"}), e[3])
      /\ WithinPath(e[1], e[2]) /\ WithinPath(e[1], e[3])
      /\ LatestBefore(e[1], {s \in Of(F, {"target_discovery"}) :
                               WithinPath(s, e[2]) /\ WithinPath(s, e[3])}, e[2])
  BY <1>1 DEF DestructiveBehavior
<1>3. /\ g \in Of(F, {"target_discovery"}) \X Of(F, {"destroy"}) \X Ends(F, {"destroy"})
      /\ LatestBefore(g[2], Of(F, {"destroy"}), g[3])
      /\ WithinPath(g[1], g[2]) /\ WithinPath(g[1], g[3])
      /\ LatestBefore(g[1], {s \in Of(F, {"target_discovery"}) :
                               WithinPath(s, g[2]) /\ WithinPath(s, g[3])}, g[2])
  BY <1>1 DEF DestructiveBehavior
<1>4. \A T \in SUBSET Signals : \A ops : Of(T, ops) \in SUBSET Signals
  BY DEF Of
<1>5. e[3] = g[3]
  BY <1>0, <1>2, <1>3, EndUnique
<1>6. e[2] = g[2]
  BY <1>0, <1>2, <1>3, <1>4, <1>5, LatestUnique
<1>7. e[1] = g[1]
  <2> DEFINE T == {s \in Of(F, {"target_discovery"}) : WithinPath(s, e[2]) /\ WithinPath(s, e[3])}
  <2>1. T \in SUBSET Signals
    BY DEF Of
  <2>2. e[1] \in T /\ g[1] \in T
    BY <1>2, <1>3, <1>5, <1>6
  <2>3. LatestBefore(e[1], T, e[2]) /\ LatestBefore(g[1], T, e[2])
    BY <1>2, <1>3, <1>5, <1>6
  <2> HIDE DEF T
  <2> QED
    BY <2>1, <2>2, <2>3, LatestUnique
<1> QED
  BY <1>2, <1>3, <1>5, <1>6, <1>7

(* of a move to another machine. *)
LEMMA LateralUnique ==
    ASSUME NEW F \in SUBSET Signals
    PROVE  AtMostOne(LateralMovement(F))
<1>0. F \in SUBSET Signals
  OBVIOUS
<1>1. SUFFICES ASSUME NEW e \in LateralMovement(F), NEW g \in LateralMovement(F)
               PROVE e = g
  BY DEF AtMostOne
<1>2. /\ e \in Of(F, {"file_read"}) \X Of(F, {"remote_connect"}) \X Ends(F, RemoteActions)
      /\ SameTarget(e[2], e[3]) /\ SameFile(e[2], e[3])
      /\ LatestBefore(e[2], {s \in Of(F, {"remote_connect"}) :
                               SameTarget(s, e[3]) /\ SameFile(s, e[3])}, e[3])
      /\ SameFile(e[1], e[2])
      /\ LatestBefore(e[1], {s \in Of(F, {"file_read"}) : SameFile(s, e[2])}, e[2])
  BY <1>1 DEF LateralMovement
<1>3. /\ g \in Of(F, {"file_read"}) \X Of(F, {"remote_connect"}) \X Ends(F, RemoteActions)
      /\ SameTarget(g[2], g[3]) /\ SameFile(g[2], g[3])
      /\ LatestBefore(g[2], {s \in Of(F, {"remote_connect"}) :
                               SameTarget(s, g[3]) /\ SameFile(s, g[3])}, g[3])
      /\ SameFile(g[1], g[2])
      /\ LatestBefore(g[1], {s \in Of(F, {"file_read"}) : SameFile(s, g[2])}, g[2])
  BY <1>1 DEF LateralMovement
<1>4. \A T \in SUBSET Signals : \A ops : Of(T, ops) \in SUBSET Signals
  BY DEF Of
<1>5. e[3] = g[3]
  BY <1>0, <1>2, <1>3, EndUnique
<1>6. e[2] = g[2]
  <2> DEFINE T == {s \in Of(F, {"remote_connect"}) : SameTarget(s, e[3]) /\ SameFile(s, e[3])}
  <2>1. T \in SUBSET Signals
    BY DEF Of
  <2>2. e[2] \in T /\ g[2] \in T
    BY <1>2, <1>3, <1>5
  <2>3. LatestBefore(e[2], T, e[3]) /\ LatestBefore(g[2], T, e[3])
    BY <1>2, <1>3, <1>5
  <2> HIDE DEF T
  <2> QED
    BY <2>1, <2>2, <2>3, LatestUnique
<1>7. e[1] = g[1]
  <2> DEFINE T == {s \in Of(F, {"file_read"}) : SameFile(s, e[2])}
  <2>1. T \in SUBSET Signals
    BY DEF Of
  <2>2. e[1] \in T /\ g[1] \in T
    BY <1>2, <1>3, <1>6
  <2>3. LatestBefore(e[1], T, e[2]) /\ LatestBefore(g[1], T, e[2])
    BY <1>2, <1>3, <1>6
  <2> HIDE DEF T
  <2> QED
    BY <2>1, <2>2, <2>3, LatestUnique
<1> QED
  BY <1>2, <1>3, <1>5, <1>6, <1>7

(* The same for the chains with a gap: of a downloaded file, *)
LEMMA MaybeDownloadUnique ==
    ASSUME NEW F \in SUBSET Signals, NEW f
    PROVE  AtMostOne(AmbiguousDownload(F, f))
<1> DEFINE S == OfFile(F, f)
<1>0. S \in SUBSET Signals
  BY DEF OfFile
<1>1. SUFFICES ASSUME NEW e \in AmbiguousDownload(F, f), NEW g \in AmbiguousDownload(F, f)
               PROVE e = g
  BY DEF AtMostOne
<1> HIDE DEF S
<1>2. /\ e \in Of(S, {"download"}) \X Ends(S, {"execute"})
      /\ LatestBefore(e[1], Of(S, {"download"}), e[2])
  BY <1>1 DEF AmbiguousDownload, S
<1>3. /\ g \in Of(S, {"download"}) \X Ends(S, {"execute"})
      /\ LatestBefore(g[1], Of(S, {"download"}), g[2])
  BY <1>1 DEF AmbiguousDownload, S
<1>4. \A T \in SUBSET Signals : \A ops : Of(T, ops) \in SUBSET Signals
  BY DEF Of
<1>5. e[2] = g[2]
  BY <1>0, <1>2, <1>3, EndUnique
<1>6. e[1] = g[1]
  BY <1>0, <1>2, <1>3, <1>4, <1>5, LatestUnique
<1> QED
  BY <1>2, <1>3, <1>5, <1>6

(* of a file that is read, *)
LEMMA MaybeExfiltrationUnique ==
    ASSUME NEW F \in SUBSET Signals, NEW f
    PROVE  AtMostOne(AmbiguousExfiltration(F, f))
<1> DEFINE S == OfFile(F, f)
<1>0. S \in SUBSET Signals
  BY DEF OfFile
<1>1. SUFFICES ASSUME NEW e \in AmbiguousExfiltration(F, f), NEW g \in AmbiguousExfiltration(F, f)
               PROVE e = g
  BY DEF AtMostOne
<1> HIDE DEF S
<1>2. /\ e \in Of(S, {"file_read"}) \X Ends(F, {"egress"})
      /\ LatestBefore(e[1], Of(S, {"file_read"}), e[2])
  BY <1>1 DEF AmbiguousExfiltration, S
<1>3. /\ g \in Of(S, {"file_read"}) \X Ends(F, {"egress"})
      /\ LatestBefore(g[1], Of(S, {"file_read"}), g[2])
  BY <1>1 DEF AmbiguousExfiltration, S
<1>4. \A T \in SUBSET Signals : \A ops : Of(T, ops) \in SUBSET Signals
  BY DEF Of
<1>5. e[2] = g[2]
  BY <1>2, <1>3, EndUnique
<1>6. e[1] = g[1]
  BY <1>0, <1>2, <1>3, <1>4, <1>5, LatestUnique
<1> QED
  BY <1>2, <1>3, <1>5, <1>6

(* of a persistent change, *)
LEMMA MaybePersistenceUnique ==
    ASSUME NEW F \in SUBSET Signals
    PROVE  AtMostOne(AmbiguousPersistence(F))
<1>0. F \in SUBSET Signals
  OBVIOUS
<1>1. SUFFICES ASSUME NEW e \in AmbiguousPersistence(F), NEW g \in AmbiguousPersistence(F)
               PROVE e = g
  BY DEF AtMostOne
<1>2. /\ e \in Of(F, {"persistence_write"}) \X Ends(F, {"persistence_activate"})
      /\ LatestBefore(e[1], Of(F, {"persistence_write"}), e[2])
  BY <1>1 DEF AmbiguousPersistence
<1>3. /\ g \in Of(F, {"persistence_write"}) \X Ends(F, {"persistence_activate"})
      /\ LatestBefore(g[1], Of(F, {"persistence_write"}), g[2])
  BY <1>1 DEF AmbiguousPersistence
<1>4. \A T \in SUBSET Signals : \A ops : Of(T, ops) \in SUBSET Signals
  BY DEF Of
<1>5. e[2] = g[2]
  BY <1>0, <1>2, <1>3, EndUnique
<1>6. e[1] = g[1]
  BY <1>0, <1>2, <1>3, <1>4, <1>5, LatestUnique
<1> QED
  BY <1>2, <1>3, <1>5, <1>6

(* of a sandbox that is left, *)
LEMMA MaybeSandboxUnique ==
    ASSUME NEW F \in SUBSET Signals
    PROVE  AtMostOne(AmbiguousSandbox(F))
<1>0. F \in SUBSET Signals
  OBVIOUS
<1>1. SUFFICES ASSUME NEW e \in AmbiguousSandbox(F), NEW g \in AmbiguousSandbox(F)
               PROVE e = g
  BY DEF AtMostOne
<1>2. /\ e \in Of(F, {"sandbox_probe", "privilege_change"}) \X Privileged(F)
      /\ \A t \in Privileged(F) : t <= e[2]
      /\ LatestBefore(e[1], Of(F, {"sandbox_probe", "privilege_change"}), e[2])
  BY <1>1 DEF AmbiguousSandbox
<1>3. /\ g \in Of(F, {"sandbox_probe", "privilege_change"}) \X Privileged(F)
      /\ \A t \in Privileged(F) : t <= g[2]
      /\ LatestBefore(g[1], Of(F, {"sandbox_probe", "privilege_change"}), g[2])
  BY <1>1 DEF AmbiguousSandbox
<1>4. \A T \in SUBSET Signals : \A ops : Of(T, ops) \in SUBSET Signals
  BY DEF Of
<1>5. e[2] = g[2]
  <2>1. e[2] <= g[2] /\ g[2] <= e[2] /\ e[2] \in Privileged(F) /\ g[2] \in Privileged(F)
    BY <1>2, <1>3
  <2>2. e[2] \in Nat /\ g[2] \in Nat
    BY <2>1, SignalFacts DEF Privileged
  <2> QED
    BY <2>1, <2>2
<1>6. e[1] = g[1]
  BY <1>0, <1>2, <1>3, <1>4, <1>5, LatestUnique
<1> QED
  BY <1>2, <1>3, <1>5, <1>6

(* of a destruction, *)
LEMMA MaybeDestructiveUnique ==
    ASSUME NEW F \in SUBSET Signals
    PROVE  AtMostOne(AmbiguousDestructive(F))
<1>0. F \in SUBSET Signals
  OBVIOUS
<1>1. SUFFICES ASSUME NEW e \in AmbiguousDestructive(F), NEW g \in AmbiguousDestructive(F)
               PROVE e = g
  BY DEF AtMostOne
<1>2. /\ e \in Of(F, {"target_discovery"}) \X Ends(F, {"destroy"})
      /\ WithinPath(e[1], e[2])
      /\ LatestBefore(e[1], {s \in Of(F, {"target_discovery"}) : WithinPath(s, e[2])}, e[2])
  BY <1>1 DEF AmbiguousDestructive
<1>3. /\ g \in Of(F, {"target_discovery"}) \X Ends(F, {"destroy"})
      /\ WithinPath(g[1], g[2])
      /\ LatestBefore(g[1], {s \in Of(F, {"target_discovery"}) : WithinPath(s, g[2])}, g[2])
  BY <1>1 DEF AmbiguousDestructive
<1>4. \A T \in SUBSET Signals : \A ops : Of(T, ops) \in SUBSET Signals
  BY DEF Of
<1>5. e[2] = g[2]
  BY <1>0, <1>2, <1>3, EndUnique
<1>6. e[1] = g[1]
  <2> DEFINE T == {s \in Of(F, {"target_discovery"}) : WithinPath(s, e[2])}
  <2>1. T \in SUBSET Signals
    BY DEF Of
  <2>2. e[1] \in T /\ g[1] \in T
    BY <1>2, <1>3, <1>5
  <2>3. LatestBefore(e[1], T, e[2]) /\ LatestBefore(g[1], T, e[2])
    BY <1>2, <1>3, <1>5
  <2> HIDE DEF T
  <2> QED
    BY <2>1, <2>2, <2>3, LatestUnique
<1> QED
  BY <1>2, <1>3, <1>5, <1>6

(* of a move to another machine. *)
LEMMA MaybeLateralUnique ==
    ASSUME NEW F \in SUBSET Signals
    PROVE  AtMostOne(AmbiguousLateral(F))
<1>0. F \in SUBSET Signals
  OBVIOUS
<1>1. SUFFICES ASSUME NEW e \in AmbiguousLateral(F), NEW g \in AmbiguousLateral(F)
               PROVE e = g
  BY DEF AtMostOne
<1>2. /\ e \in Of(F, {"file_read"}) \X Ends(F, RemoteActions)
      /\ SameFile(e[1], e[2])
      /\ LatestBefore(e[1], {s \in Of(F, {"file_read"}) : SameFile(s, e[2])}, e[2])
  BY <1>1 DEF AmbiguousLateral
<1>3. /\ g \in Of(F, {"file_read"}) \X Ends(F, RemoteActions)
      /\ SameFile(g[1], g[2])
      /\ LatestBefore(g[1], {s \in Of(F, {"file_read"}) : SameFile(s, g[2])}, g[2])
  BY <1>1 DEF AmbiguousLateral
<1>4. \A T \in SUBSET Signals : \A ops : Of(T, ops) \in SUBSET Signals
  BY DEF Of
<1>5. e[2] = g[2]
  BY <1>0, <1>2, <1>3, EndUnique
<1>6. e[1] = g[1]
  <2> DEFINE T == {s \in Of(F, {"file_read"}) : SameFile(s, e[2])}
  <2>1. T \in SUBSET Signals
    BY DEF Of
  <2>2. e[1] \in T /\ g[1] \in T
    BY <1>2, <1>3, <1>5
  <2>3. LatestBefore(e[1], T, e[2]) /\ LatestBefore(g[1], T, e[2])
    BY <1>2, <1>3, <1>5
  <2> HIDE DEF T
  <2> QED
    BY <2>1, <2>2, <2>3, LatestUnique
<1> QED
  BY <1>2, <1>3, <1>5, <1>6

(* A match of a rule: its evidence is the chain the rule chose. *)
Chosen(F, m) ==
    /\ m = Match(m.type, m.entity, m.evidence, "rule")
    /\ \/ /\ m.type = "download_execute" /\ m.entity \in Files
          /\ m.evidence \in DownloadExecute(F, m.entity)
       \/ /\ m.type = "sensitive_data_exfiltration" /\ m.entity \in Files
          /\ m.evidence \in SensitiveExfiltration(F, m.entity)
       \/ /\ m.type = "persistence_installation" /\ m.evidence \in Persistence(F)
          /\ m.entity = <<"persistence", Target(m.evidence[2])>>
       \/ /\ m.type = "sandbox_privilege_breakout" /\ m.evidence \in SandboxBreakout(F)
          /\ m.entity = ProcessOf(m.evidence)
       \/ /\ m.type = "destructive_behavior" /\ m.evidence \in DestructiveBehavior(F)
          /\ m.entity = PathOf(m.evidence)
       \/ /\ m.type = "lateral_movement" /\ m.evidence \in LateralMovement(F)
          /\ m.entity = LateralOf(m.evidence)

(* The complete matches are those a rule chose. *)
LEMMA DeterministicFacts ==
    ASSUME NEW F, NEW m
    PROVE  m \in Deterministic(F) <=> Chosen(F, m)
<1> DEFINE A(f) == {Match("download_execute", f, e, "rule") : e \in DownloadExecute(F, f)}
<1> DEFINE B(f) ==
        {Match("sensitive_data_exfiltration", f, e, "rule") : e \in SensitiveExfiltration(F, f)}
<1> DEFINE U == UNION {A(f) \cup B(f) : f \in Files}
<1> DEFINE R0 ==
        {Match("persistence_installation", <<"persistence", Target(e[2])>>, e, "rule") : e \in Persistence(F)}
<1> DEFINE R1 ==
        {Match("sandbox_privilege_breakout", ProcessOf(e), e, "rule") : e \in SandboxBreakout(F)}
<1> DEFINE R2 ==
        {Match("destructive_behavior", PathOf(e), e, "rule") : e \in DestructiveBehavior(F)}
<1> DEFINE R3 == {Match("lateral_movement", LateralOf(e), e, "rule") : e \in LateralMovement(F)}
<1>1. Deterministic(F) = U \cup R0 \cup R1 \cup R2 \cup R3
  BY Zenon DEF Deterministic
<1>2. m \in U <=> \E f \in Files : m \in A(f) \/ m \in B(f)
  <2> HIDE DEF A, B
  <2> QED
    OBVIOUS
<1>3. \A t, n, e, p : /\ Match(t, n, e, p).type = t /\ Match(t, n, e, p).entity = n
                      /\ Match(t, n, e, p).evidence = e /\ Match(t, n, e, p).path = p
  BY DEF Match
<1>4. \A f : m \in A(f) <=>
         /\ m = Match(m.type, m.entity, m.evidence, "rule") /\ m.type = "download_execute"
         /\ m.entity = f /\ m.evidence \in DownloadExecute(F, f)
  BY <1>3
<1>5. \A f : m \in B(f) <=>
         /\ m = Match(m.type, m.entity, m.evidence, "rule") /\ m.type = "sensitive_data_exfiltration"
         /\ m.entity = f /\ m.evidence \in SensitiveExfiltration(F, f)
  BY <1>3
<1>6. m \in R0 <=>
         /\ m = Match(m.type, m.entity, m.evidence, "rule") /\ m.type = "persistence_installation"
         /\ m.entity = <<"persistence", Target(m.evidence[2])>> /\ m.evidence \in Persistence(F)
  <2> DEFINE E(e) == <<"persistence", Target(e[2])>>
  <2>1. R0 = {Match("persistence_installation", E(e), e, "rule") : e \in Persistence(F)}
    OBVIOUS
  <2> HIDE DEF E, R0
  <2>2. m \in R0 <=>
         /\ m = Match(m.type, m.entity, m.evidence, "rule") /\ m.type = "persistence_installation"
         /\ m.entity = E(m.evidence) /\ m.evidence \in Persistence(F)
    BY <1>3, <2>1
  <2> QED
    BY <2>2 DEF E
<1>7. m \in R1 <=>
         /\ m = Match(m.type, m.entity, m.evidence, "rule") /\ m.type = "sandbox_privilege_breakout"
         /\ m.entity = ProcessOf(m.evidence) /\ m.evidence \in SandboxBreakout(F)
  BY <1>3
<1>8. m \in R2 <=>
         /\ m = Match(m.type, m.entity, m.evidence, "rule") /\ m.type = "destructive_behavior"
         /\ m.entity = PathOf(m.evidence) /\ m.evidence \in DestructiveBehavior(F)
  BY <1>3
<1>9. m \in R3 <=>
         /\ m = Match(m.type, m.entity, m.evidence, "rule") /\ m.type = "lateral_movement"
         /\ m.entity = LateralOf(m.evidence) /\ m.evidence \in LateralMovement(F)
  BY <1>3
<1> HIDE DEF A, B, U, R0, R1, R2, R3
<1>10. m \in Deterministic(F) <=> (m \in U \/ m \in R0 \/ m \in R1 \/ m \in R2 \/ m \in R3)
  BY <1>1
<1> QED
  BY <1>10, <1>2, <1>4, <1>5, <1>6, <1>7, <1>8, <1>9, Zenon DEF Chosen

(* A match with a gap goes to the judge, with the beginning and the end of the chain. *)
Doubtful(F, m) ==
    /\ m = Match(m.type, m.entity, m.evidence, "judge")
    /\ \/ /\ m.type = "download_execute" /\ m.entity \in Files
          /\ m.evidence \in AmbiguousDownload(F, m.entity)
       \/ /\ m.type = "sensitive_data_exfiltration" /\ m.entity \in Files
          /\ m.evidence \in AmbiguousExfiltration(F, m.entity)
       \/ /\ m.type = "persistence_installation" /\ m.evidence \in AmbiguousPersistence(F)
          /\ m.entity = ProcessOf(m.evidence)
       \/ /\ m.type = "sandbox_privilege_breakout" /\ m.evidence \in AmbiguousSandbox(F)
          /\ m.entity = ProcessOf(m.evidence)
       \/ /\ m.type = "destructive_behavior" /\ m.evidence \in AmbiguousDestructive(F)
          /\ m.entity = PathOf(m.evidence)
       \/ /\ m.type = "lateral_movement" /\ m.evidence \in AmbiguousLateral(F)
          /\ m.entity = LateralOf(m.evidence)

(* The matches for the judge are those a rule left incomplete. *)
LEMMA AmbiguousFacts ==
    ASSUME NEW F, NEW m
    PROVE  m \in Ambiguous(F) <=> Doubtful(F, m)
<1> DEFINE A(f) == {Match("download_execute", f, e, "judge") : e \in AmbiguousDownload(F, f)}
<1> DEFINE B(f) ==
        {Match("sensitive_data_exfiltration", f, e, "judge") : e \in AmbiguousExfiltration(F, f)}
<1> DEFINE U == UNION {A(f) \cup B(f) : f \in Files}
<1> DEFINE R0 ==
        {Match("persistence_installation", ProcessOf(e), e, "judge") : e \in AmbiguousPersistence(F)}
<1> DEFINE R1 ==
        {Match("sandbox_privilege_breakout", ProcessOf(e), e, "judge") : e \in AmbiguousSandbox(F)}
<1> DEFINE R2 ==
        {Match("destructive_behavior", PathOf(e), e, "judge") : e \in AmbiguousDestructive(F)}
<1> DEFINE R3 ==
        {Match("lateral_movement", LateralOf(e), e, "judge") : e \in AmbiguousLateral(F)}
<1>1. Ambiguous(F) = U \cup R0 \cup R1 \cup R2 \cup R3
  BY Zenon DEF Ambiguous
<1>2. m \in U <=> \E f \in Files : m \in A(f) \/ m \in B(f)
  <2> HIDE DEF A, B
  <2> QED
    OBVIOUS
<1>3. \A t, n, e, p : /\ Match(t, n, e, p).type = t /\ Match(t, n, e, p).entity = n
                      /\ Match(t, n, e, p).evidence = e /\ Match(t, n, e, p).path = p
  BY DEF Match
<1>4. \A f : m \in A(f) <=>
         /\ m = Match(m.type, m.entity, m.evidence, "judge") /\ m.type = "download_execute"
         /\ m.entity = f /\ m.evidence \in AmbiguousDownload(F, f)
  BY <1>3
<1>5. \A f : m \in B(f) <=>
         /\ m = Match(m.type, m.entity, m.evidence, "judge") /\ m.type = "sensitive_data_exfiltration"
         /\ m.entity = f /\ m.evidence \in AmbiguousExfiltration(F, f)
  BY <1>3
<1>6. m \in R0 <=>
         /\ m = Match(m.type, m.entity, m.evidence, "judge") /\ m.type = "persistence_installation"
         /\ m.entity = ProcessOf(m.evidence) /\ m.evidence \in AmbiguousPersistence(F)
  BY <1>3
<1>7. m \in R1 <=>
         /\ m = Match(m.type, m.entity, m.evidence, "judge") /\ m.type = "sandbox_privilege_breakout"
         /\ m.entity = ProcessOf(m.evidence) /\ m.evidence \in AmbiguousSandbox(F)
  BY <1>3
<1>8. m \in R2 <=>
         /\ m = Match(m.type, m.entity, m.evidence, "judge") /\ m.type = "destructive_behavior"
         /\ m.entity = PathOf(m.evidence) /\ m.evidence \in AmbiguousDestructive(F)
  BY <1>3
<1>9. m \in R3 <=>
         /\ m = Match(m.type, m.entity, m.evidence, "judge") /\ m.type = "lateral_movement"
         /\ m.entity = LateralOf(m.evidence) /\ m.evidence \in AmbiguousLateral(F)
  BY <1>3
<1> HIDE DEF A, B, U, R0, R1, R2, R3
<1>10. m \in Ambiguous(F) <=> (m \in U \/ m \in R0 \/ m \in R1 \/ m \in R2 \/ m \in R3)
  BY <1>1
<1> QED
  BY <1>10, <1>2, <1>4, <1>5, <1>6, <1>7, <1>8, <1>9, Zenon DEF Doubtful

(* No two matches of a set are of one rule and one entity. *)
OnePerRule(M) == \A m, n \in M : m.type = n.type /\ m.entity = n.entity => m = n

(* Among the complete matches there is one per rule and entity. *)
LEMMA DeterministicOnePerRule ==
    ASSUME NEW F \in SUBSET Signals
    PROVE  OnePerRule(Deterministic(F))
<1> SUFFICES ASSUME NEW m \in Deterministic(F), NEW n \in Deterministic(F),
                    m.type = n.type, m.entity = n.entity
             PROVE  m = n
  BY DEF OnePerRule
<1>1. Chosen(F, m) /\ Chosen(F, n)
  BY DeterministicFacts
<1>2. SUFFICES m.evidence = n.evidence
  BY <1>1 DEF Chosen
<1>3. CASE m.type = "download_execute"
  BY <1>1, <1>3, DownloadUnique DEF Chosen, AtMostOne
<1>4. CASE m.type = "sensitive_data_exfiltration"
  BY <1>1, <1>4, ExfiltrationUnique DEF Chosen, AtMostOne
<1>5. CASE m.type = "persistence_installation"
  BY <1>1, <1>5, PersistenceUnique DEF Chosen, AtMostOne
<1>6. CASE m.type = "sandbox_privilege_breakout"
  BY <1>1, <1>6, SandboxUnique DEF Chosen, AtMostOne
<1>7. CASE m.type = "destructive_behavior"
  BY <1>1, <1>7, DestructiveUnique DEF Chosen, AtMostOne
<1>8. CASE m.type = "lateral_movement"
  BY <1>1, <1>8, LateralUnique DEF Chosen, AtMostOne
<1> QED
  BY <1>1, <1>3, <1>4, <1>5, <1>6, <1>7, <1>8 DEF Chosen

(* Among the incomplete ones too. *)
LEMMA AmbiguousOnePerRule ==
    ASSUME NEW F \in SUBSET Signals
    PROVE  OnePerRule(Ambiguous(F))
<1> SUFFICES ASSUME NEW m \in Ambiguous(F), NEW n \in Ambiguous(F),
                    m.type = n.type, m.entity = n.entity
             PROVE  m = n
  BY DEF OnePerRule
<1>1. Doubtful(F, m) /\ Doubtful(F, n)
  BY AmbiguousFacts
<1>2. SUFFICES m.evidence = n.evidence
  BY <1>1 DEF Doubtful
<1>3. CASE m.type = "download_execute"
  BY <1>1, <1>3, MaybeDownloadUnique DEF Doubtful, AtMostOne
<1>4. CASE m.type = "sensitive_data_exfiltration"
  BY <1>1, <1>4, MaybeExfiltrationUnique DEF Doubtful, AtMostOne
<1>5. CASE m.type = "persistence_installation"
  BY <1>1, <1>5, MaybePersistenceUnique DEF Doubtful, AtMostOne
<1>6. CASE m.type = "sandbox_privilege_breakout"
  BY <1>1, <1>6, MaybeSandboxUnique DEF Doubtful, AtMostOne
<1>7. CASE m.type = "destructive_behavior"
  BY <1>1, <1>7, MaybeDestructiveUnique DEF Doubtful, AtMostOne
<1>8. CASE m.type = "lateral_movement"
  BY <1>1, <1>8, MaybeLateralUnique DEF Doubtful, AtMostOne
<1> QED
  BY <1>1, <1>3, <1>4, <1>5, <1>6, <1>7, <1>8 DEF Doubtful

(* A set of facts from which only older ones have been taken away. *)
Suffix(G, F) == G \subseteq F /\ \A s \in G, t \in F : s <= t => t \in G

(* Taking the older facts away takes the older ones of each kind and file away. *)
LEMMA SuffixOf ==
    ASSUME NEW F \in SUBSET Signals, NEW G, Suffix(G, F)
    PROVE  /\ \A ops : Suffix(Of(G, ops), Of(F, ops)) /\ Of(F, ops) \in SUBSET Signals
           /\ \A f : Suffix(OfFile(G, f), OfFile(F, f)) /\ OfFile(F, f) \in SUBSET Signals
           /\ G \in SUBSET Signals
<1>1. \A ops : Suffix(Of(G, ops), Of(F, ops)) /\ Of(F, ops) \in SUBSET Signals
  BY DEF Suffix, Of
<1>2. \A f : Suffix(OfFile(G, f), OfFile(F, f)) /\ OfFile(F, f) \in SUBSET Signals
  BY DEF Suffix, OfFile
<1> QED
  BY <1>1, <1>2 DEF Suffix

(* The last of the later facts is the last of all. *)
LEMMA SuffixEnds ==
    ASSUME NEW F \in SUBSET Signals, NEW G, Suffix(G, F), NEW ops, NEW s \in Ends(G, ops)
    PROVE  s \in Ends(F, ops)
<1>1. s \in Of(G, ops) /\ \A t \in Of(G, ops) : t <= s
  BY DEF Ends
<1>2. s \in G /\ Signal[s].op \in ops /\ s \in F
  BY <1>1 DEF Of, Suffix
<1>3. ASSUME NEW t \in Of(F, ops) PROVE t <= s
  <2>1. t \in F /\ Signal[t].op \in ops
    BY DEF Of
  <2>2. t \in Nat /\ s \in Nat
    BY <1>2, <2>1, SignalFacts
  <2>3. CASE s <= t
    <3>1. t \in Of(G, ops)
      BY <1>2, <2>1, <2>3 DEF Suffix, Of
    <3> QED
      BY <3>1, <1>1
  <2> QED
    BY <2>2, <2>3
<1> QED
  BY <1>2, <1>3 DEF Ends, Of

(* What is the latest before a fact among the later ones is so among all. *)
LEMMA SuffixLatest ==
    ASSUME NEW B \in SUBSET Signals, NEW A, Suffix(A, B), NEW s \in A, NEW n,
           LatestBefore(s, A, n)
    PROVE  LatestBefore(s, B, n)
<1>1. ASSUME NEW t \in B, Time(t) < Time(n) PROVE t <= s
  <2>1. t \in Nat /\ s \in Nat
    BY SignalFacts DEF Suffix
  <2>2. CASE s <= t
    BY <1>1, <2>2 DEF Suffix, LatestBefore
  <2> QED
    BY <2>1, <2>2
<1> QED
  BY <1>1 DEF LatestBefore

(* The last privileged fact of the later ones is the last of all. *)
LEMMA SuffixPrivileged ==
    ASSUME NEW F \in SUBSET Signals, NEW G, Suffix(G, F), NEW s \in Privileged(G),
           \A t \in Privileged(G) : t <= s
    PROVE  s \in Privileged(F) /\ \A t \in Privileged(F) : t <= s
<1>1. s \in Privileged(F) /\ s \in G
  BY DEF Privileged, Suffix
<1>2. ASSUME NEW t \in Privileged(F) PROVE t <= s
  <2>1. t \in Nat /\ s \in Nat /\ t \in F
    BY <1>1, SignalFacts DEF Privileged
  <2>2. CASE s <= t
    <3>1. t \in Privileged(G)
      BY <1>1, <2>1, <2>2 DEF Suffix, Privileged
    <3> QED
      BY <3>1
  <2> QED
    BY <2>1, <2>2
<1> QED
  BY <1>1, <1>2

(* A chain that a rule finds among the later facts it finds among all of them:
   of a downloaded file, *)
LEMMA DownloadSuffix ==
    ASSUME NEW F \in SUBSET Signals, NEW G, Suffix(G, F), NEW f
    PROVE  DownloadExecute(G, f) \subseteq DownloadExecute(F, f)
<1> DEFINE S == OfFile(F, f)
<1> DEFINE T == OfFile(G, f)
<1>0. Suffix(T, S) /\ S \in SUBSET Signals
  BY SuffixOf
<1> SUFFICES ASSUME NEW e \in DownloadExecute(G, f) PROVE e \in DownloadExecute(F, f)
  OBVIOUS
<1> HIDE DEF S, T
<1>1. /\ e \in Of(T, {"download"}) \X Of(T, Writes) \X Of(T, {"chmod"}) \X Ends(T, {"execute"})
      /\ LatestBefore(e[3], Of(T, {"chmod"}), e[4])
      /\ LatestBefore(e[2], Of(T, Writes), e[3])
      /\ LatestBefore(e[1], Of(T, {"download"}), e[2])
      /\ InWindow(e)
  BY DEF DownloadExecute, S, T
<1>2. e \in Of(S, {"download"}) \X Of(S, Writes) \X Of(S, {"chmod"}) \X Ends(S, {"execute"})
  <2>1. \A ops : Of(T, ops) \subseteq Of(S, ops)
    BY <1>0, SuffixOf DEF Suffix
  <2>2. \A ops : Ends(T, ops) \subseteq Ends(S, ops) /\ Ends(G, ops) \subseteq Ends(F, ops)
    BY <1>0, SuffixEnds
  <2> QED
    BY <1>1, <2>1, <2>2
<1>3. LatestBefore(e[3], Of(S, {"chmod"}), e[4])
  BY <1>0, <1>1, SuffixOf, SuffixLatest
<1>4. LatestBefore(e[2], Of(S, Writes), e[3])
  BY <1>0, <1>1, SuffixOf, SuffixLatest
<1>5. LatestBefore(e[1], Of(S, {"download"}), e[2])
  BY <1>0, <1>1, SuffixOf, SuffixLatest
<1> QED
  BY <1>1, <1>2, <1>3, <1>4, <1>5 DEF DownloadExecute, S, T

(* of a file that is read and sent away, *)
LEMMA ExfiltrationSuffix ==
    ASSUME NEW F \in SUBSET Signals, NEW G, Suffix(G, F), NEW f
    PROVE  SensitiveExfiltration(G, f) \subseteq SensitiveExfiltration(F, f)
<1> DEFINE S == OfFile(F, f)
<1> DEFINE T == OfFile(G, f)
<1>0. Suffix(T, S) /\ S \in SUBSET Signals
  BY SuffixOf
<1> SUFFICES ASSUME NEW e \in SensitiveExfiltration(G, f) PROVE e \in SensitiveExfiltration(F, f)
  OBVIOUS
<1> HIDE DEF S, T
<1>1. /\ e \in Of(T, {"file_read"}) \X Of(T, Transforms) \X Ends(G, {"egress"})
      /\ LatestBefore(e[2], Of(T, Transforms), e[3])
      /\ LatestBefore(e[1], Of(T, {"file_read"}), e[2])
      /\ InWindow(e)
  BY DEF SensitiveExfiltration, S, T
<1>2. e \in Of(S, {"file_read"}) \X Of(S, Transforms) \X Ends(F, {"egress"})
  <2>1. \A ops : Of(T, ops) \subseteq Of(S, ops)
    BY <1>0, SuffixOf DEF Suffix
  <2>2. \A ops : Ends(T, ops) \subseteq Ends(S, ops) /\ Ends(G, ops) \subseteq Ends(F, ops)
    BY <1>0, SuffixEnds
  <2> QED
    BY <1>1, <2>1, <2>2
<1>3. LatestBefore(e[2], Of(S, Transforms), e[3])
  BY <1>0, <1>1, SuffixOf, SuffixLatest
<1>4. LatestBefore(e[1], Of(S, {"file_read"}), e[2])
  BY <1>0, <1>1, SuffixOf, SuffixLatest
<1> QED
  BY <1>1, <1>2, <1>3, <1>4 DEF SensitiveExfiltration, S, T

(* of a persistent change, *)
LEMMA PersistenceSuffix ==
    ASSUME NEW F \in SUBSET Signals, NEW G, Suffix(G, F)
    PROVE  Persistence(G) \subseteq Persistence(F)
<1> SUFFICES ASSUME NEW e \in Persistence(G) PROVE e \in Persistence(F)
  OBVIOUS
<1>1. /\ e \in Of(G, {"persistence_write"}) \X Ends(G, {"persistence_activate"})
      /\ SameTarget(e[1], e[2])
      /\ LatestBefore(e[1], {s \in Of(G, {"persistence_write"}) : SameTarget(s, e[2])}, e[2])
      /\ InWindow(e) /\ SameScope(e)
  BY DEF Persistence
<1>2. e \in Of(F, {"persistence_write"}) \X Ends(F, {"persistence_activate"})
  BY <1>1, SuffixOf, SuffixEnds, SuffixPrivileged DEF Suffix
<1>3. LatestBefore(e[1], {s \in Of(F, {"persistence_write"}) : SameTarget(s, e[2])}, e[2])
  <2> DEFINE A == {s \in Of(G, {"persistence_write"}) : SameTarget(s, e[2])}
  <2> DEFINE B == {s \in Of(F, {"persistence_write"}) : SameTarget(s, e[2])}
  <2>1. Suffix(A, B) /\ B \in SUBSET Signals
    BY DEF Suffix, Of
  <2>2. e[1] \in A /\ LatestBefore(e[1], A, e[2])
    BY <1>1
  <2> HIDE DEF A, B
  <2>3. LatestBefore(e[1], B, e[2])
    BY <2>1, <2>2, SuffixLatest
  <2> QED
    BY <2>3 DEF B
<1> QED
  BY <1>1, <1>2, <1>3 DEF Persistence

(* of a sandbox that is left, *)
LEMMA SandboxSuffix ==
    ASSUME NEW F \in SUBSET Signals, NEW G, Suffix(G, F)
    PROVE  SandboxBreakout(G) \subseteq SandboxBreakout(F)
<1> SUFFICES ASSUME NEW e \in SandboxBreakout(G) PROVE e \in SandboxBreakout(F)
  OBVIOUS
<1>1. /\ e \in Of(G, {"sandbox_probe"}) \X Of(G, {"privilege_change"}) \X Privileged(G)
      /\ \A t \in Privileged(G) : t <= e[3]
      /\ LatestBefore(e[2], Of(G, {"privilege_change"}), e[3])
      /\ LatestBefore(e[1], Of(G, {"sandbox_probe"}), e[2])
      /\ InWindow(e) /\ SameScope(e)
  BY DEF SandboxBreakout
<1>2. e \in Of(F, {"sandbox_probe"}) \X Of(F, {"privilege_change"}) \X Privileged(F)
  BY <1>1, SuffixOf, SuffixEnds, SuffixPrivileged DEF Suffix
<1>3. \A t \in Privileged(F) : t <= e[3]
  BY <1>1, SuffixPrivileged
<1>4. LatestBefore(e[2], Of(F, {"privilege_change"}), e[3])
  BY <1>1, SuffixOf, SuffixLatest
<1>5. LatestBefore(e[1], Of(F, {"sandbox_probe"}), e[2])
  BY <1>1, SuffixOf, SuffixLatest
<1> QED
  BY <1>1, <1>2, <1>3, <1>4, <1>5 DEF SandboxBreakout

(* of a destruction, *)
LEMMA DestructiveSuffix ==
    ASSUME NEW F \in SUBSET Signals, NEW G, Suffix(G, F)
    PROVE  DestructiveBehavior(G) \subseteq DestructiveBehavior(F)
<1> SUFFICES ASSUME NEW e \in DestructiveBehavior(G) PROVE e \in DestructiveBehavior(F)
  OBVIOUS
<1>1. /\ e \in Of(G, {"target_discovery"}) \X Of(G, {"destroy"}) \X Ends(G, {"destroy"})
      /\ LatestBefore(e[2], Of(G, {"destroy"}), e[3])
      /\ WithinPath(e[1], e[2]) /\ WithinPath(e[1], e[3])
      /\ LatestBefore(e[1], {s \in Of(G, {"target_discovery"}) :
                               WithinPath(s, e[2]) /\ WithinPath(s, e[3])}, e[2])
      /\ InWindow(e) /\ SameScope(e)
  BY DEF DestructiveBehavior
<1>2. e \in Of(F, {"target_discovery"}) \X Of(F, {"destroy"}) \X Ends(F, {"destroy"})
  BY <1>1, SuffixOf, SuffixEnds, SuffixPrivileged DEF Suffix
<1>3. LatestBefore(e[2], Of(F, {"destroy"}), e[3])
  BY <1>1, SuffixOf, SuffixLatest
<1>4. LatestBefore(e[1], {s \in Of(F, {"target_discovery"}) :
                               WithinPath(s, e[2]) /\ WithinPath(s, e[3])}, e[2])
  <2> DEFINE A == {s \in Of(G, {"target_discovery"}) :
                               WithinPath(s, e[2]) /\ WithinPath(s, e[3])}
  <2> DEFINE B == {s \in Of(F, {"target_discovery"}) :
                               WithinPath(s, e[2]) /\ WithinPath(s, e[3])}
  <2>1. Suffix(A, B) /\ B \in SUBSET Signals
    BY DEF Suffix, Of
  <2>2. e[1] \in A /\ LatestBefore(e[1], A, e[2])
    BY <1>1
  <2> HIDE DEF A, B
  <2>3. LatestBefore(e[1], B, e[2])
    BY <2>1, <2>2, SuffixLatest
  <2> QED
    BY <2>3 DEF B
<1> QED
  BY <1>1, <1>2, <1>3, <1>4 DEF DestructiveBehavior

(* of a move to another machine. *)
LEMMA LateralSuffix ==
    ASSUME NEW F \in SUBSET Signals, NEW G, Suffix(G, F)
    PROVE  LateralMovement(G) \subseteq LateralMovement(F)
<1> SUFFICES ASSUME NEW e \in LateralMovement(G) PROVE e \in LateralMovement(F)
  OBVIOUS
<1>1. /\ e \in Of(G, {"file_read"}) \X Of(G, {"remote_connect"}) \X Ends(G, RemoteActions)
      /\ SameTarget(e[2], e[3]) /\ SameFile(e[2], e[3])
      /\ LatestBefore(e[2], {s \in Of(G, {"remote_connect"}) :
                               SameTarget(s, e[3]) /\ SameFile(s, e[3])}, e[3])
      /\ SameFile(e[1], e[2])
      /\ LatestBefore(e[1], {s \in Of(G, {"file_read"}) : SameFile(s, e[2])}, e[2])
      /\ InWindow(e) /\ SameScope(e)
  BY DEF LateralMovement
<1>2. e \in Of(F, {"file_read"}) \X Of(F, {"remote_connect"}) \X Ends(F, RemoteActions)
  BY <1>1, SuffixOf, SuffixEnds, SuffixPrivileged DEF Suffix
<1>3. LatestBefore(e[2], {s \in Of(F, {"remote_connect"}) :
                               SameTarget(s, e[3]) /\ SameFile(s, e[3])}, e[3])
  <2> DEFINE A == {s \in Of(G, {"remote_connect"}) :
                               SameTarget(s, e[3]) /\ SameFile(s, e[3])}
  <2> DEFINE B == {s \in Of(F, {"remote_connect"}) :
                               SameTarget(s, e[3]) /\ SameFile(s, e[3])}
  <2>1. Suffix(A, B) /\ B \in SUBSET Signals
    BY DEF Suffix, Of
  <2>2. e[2] \in A /\ LatestBefore(e[2], A, e[3])
    BY <1>1
  <2> HIDE DEF A, B
  <2>3. LatestBefore(e[2], B, e[3])
    BY <2>1, <2>2, SuffixLatest
  <2> QED
    BY <2>3 DEF B
<1>4. LatestBefore(e[1], {s \in Of(F, {"file_read"}) : SameFile(s, e[2])}, e[2])
  <2> DEFINE A == {s \in Of(G, {"file_read"}) : SameFile(s, e[2])}
  <2> DEFINE B == {s \in Of(F, {"file_read"}) : SameFile(s, e[2])}
  <2>1. Suffix(A, B) /\ B \in SUBSET Signals
    BY DEF Suffix, Of
  <2>2. e[1] \in A /\ LatestBefore(e[1], A, e[2])
    BY <1>1
  <2> HIDE DEF A, B
  <2>3. LatestBefore(e[1], B, e[2])
    BY <2>1, <2>2, SuffixLatest
  <2> QED
    BY <2>3 DEF B
<1> QED
  BY <1>1, <1>2, <1>3, <1>4 DEF LateralMovement

(* The complete matches of the later facts are matches of all: when a window
   moves on, no match appears that was not there before. *)
LEMMA DeterministicSuffix ==
    ASSUME NEW F \in SUBSET Signals, NEW G, Suffix(G, F)
    PROVE  Deterministic(G) \subseteq Deterministic(F)
<1> SUFFICES ASSUME NEW m \in Deterministic(G) PROVE m \in Deterministic(F)
  OBVIOUS
<1>1. Chosen(G, m)
  BY DeterministicFacts
<1>2. /\ \A f : DownloadExecute(G, f) \subseteq DownloadExecute(F, f)
      /\ \A f : SensitiveExfiltration(G, f) \subseteq SensitiveExfiltration(F, f)
      /\ Persistence(G) \subseteq Persistence(F)
      /\ SandboxBreakout(G) \subseteq SandboxBreakout(F)
      /\ DestructiveBehavior(G) \subseteq DestructiveBehavior(F)
      /\ LateralMovement(G) \subseteq LateralMovement(F)
  BY DownloadSuffix, ExfiltrationSuffix, PersistenceSuffix, SandboxSuffix,
     DestructiveSuffix, LateralSuffix
<1>3. Chosen(F, m)
  BY <1>1, <1>2 DEF Chosen
<1> QED
  BY <1>3, DeterministicFacts

(* A set of numbers that is not empty has a least one.                     *)
LEMMA LeastExists ==
    ASSUME NEW S \in SUBSET Nat, S # {}
    PROVE  \E x \in S : \A y \in S : x <= y
<1>1. PICK x \in S : \A y \in S : ~(<<y, x>> \in OpToRel(<, Nat))
  BY NatLessThanWellFounded, WFMin
<1>2. \A y \in S : x <= y
  <2> SUFFICES ASSUME NEW y \in S, y < x PROVE FALSE
    OBVIOUS
  <2>1. <<y, x>> \in {ss \in Nat \X Nat : ss[1] < ss[2]}
    OBVIOUS
  <2> QED
    BY <1>1, <2>1 DEF OpToRel
<1> QED
  BY <1>2

(* A bounded set of numbers has a greatest one.                            *)
LEMMA GreatestExists ==
    ASSUME NEW k \in Nat, NEW S \in SUBSET (0 .. k), S # {}
    PROVE  \E x \in S : \A y \in S : y <= x
<1> DEFINE T == {d \in 0 .. k : k - d \in S}
<1>1. PICK x \in S : TRUE
  OBVIOUS
<1>2. k - x \in 0 .. k /\ k - (k - x) = x
  OBVIOUS
<1>3. k - x \in T
  BY <1>2
<1>4. T \in SUBSET Nat
  OBVIOUS
<1>5. PICK d \in T : \A e \in T : d <= e
  <2> HIDE DEF T
  <2> QED
    BY <1>3, <1>4, LeastExists
<1>6. ASSUME NEW y \in S PROVE y <= k - d
  <2>1. k - y \in 0 .. k /\ k - (k - y) = y
    OBVIOUS
  <2>2. k - y \in T
    BY <2>1
  <2>3. d <= k - y
    BY <1>5, <2>2
  <2>4. d \in 0 .. k /\ y \in 0 .. k
    BY <1>5
  <2> QED
    BY <2>3, <2>4
<1>7. k - d \in S
  BY <1>5
<1> QED
  BY <1>6, <1>7

(* Where a fact lies strictly before another, so does a latest one. *)
LEMMA LatestExists ==
    ASSUME NEW S \in SUBSET Signals, NEW c \in S, NEW n, Time(c) < Time(n)
    PROVE  \E s \in S : LatestBefore(s, S, n) /\ c <= s
<1> DEFINE E == {t \in S : Time(t) < Time(n)}
<1>1. E \in SUBSET (0 .. Len(Signal)) /\ Len(Signal) \in Nat /\ c \in E
  <2>1. S \in SUBSET (1 .. Len(Signal)) /\ Len(Signal) \in Nat
    BY SignalFacts
  <2>2. \A t \in 1 .. Len(Signal) : t \in 0 .. Len(Signal)
    BY <2>1
  <2>3. E \in SUBSET S /\ c \in E
    OBVIOUS
  <2> HIDE DEF E
  <2> QED
    BY <2>1, <2>2, <2>3
<1>2. PICK s \in E : \A y \in E : y <= s
  <2> HIDE DEF E
  <2>1. E # {}
    BY <1>1
  <2> QED
    BY <1>1, <2>1, GreatestExists
<1>3. s \in S /\ Time(s) < Time(n) /\ \A t \in S : Time(t) < Time(n) => t <= s
  BY <1>2
<1>4. c <= s
  BY <1>1, <1>2
<1> QED
  BY <1>3, <1>4 DEF LatestBefore

(* Walking backwards without a second try finds a chain of a downloaded file if there is one. *)
LEMMA DownloadFound ==
    ASSUME NEW F \in SUBSET Signals, NEW f, NEW x \in Ends(OfFile(F, f), {"execute"}),
           NEW c \in DownloadChains(F, f, x)
    PROVE  \E g \in DownloadExecute(F, f) :
              /\ g = <<g[1], g[2], g[3], x>>
              /\ <<g[1], g[2], g[3]>> \in DownloadChains(F, f, x)
<1> DEFINE S == OfFile(F, f)
<1>0. S \in SUBSET Signals
  BY DEF OfFile
<1>1. /\ c \in Of(S, {"download"}) \X Of(S, Writes) \X Of(S, {"chmod"})
      /\ Time(c[1]) < Time(c[2]) /\ Time(c[2]) < Time(c[3]) /\ Time(c[3]) < Time(x)
      /\ Time(x) - Time(c[1]) <= Window
  BY DEF DownloadChains
<1>2. x \in Ends(S, {"execute"})
  OBVIOUS
<1> HIDE DEF S
<1>3. /\ Of(S, {"download"}) \in SUBSET Signals /\ Of(S, Writes) \in SUBSET Signals
      /\ Of(S, {"chmod"}) \in SUBSET Signals /\ x \in Signals
  BY <1>0, <1>2 DEF Of, Ends
<1>4. PICK p \in Of(S, {"chmod"}) : LatestBefore(p, Of(S, {"chmod"}), x) /\ c[3] <= p
  BY <1>1, <1>3, LatestExists
<1>5. Time(c[3]) <= Time(p) /\ Time(c[3]) \in Nat /\ Time(p) \in Nat /\ Time(c[2]) \in Nat
  BY <1>1, <1>3, <1>4, SignalFacts
<1>6. PICK w \in Of(S, Writes) : LatestBefore(w, Of(S, Writes), p) /\ c[2] <= w
  <2>1. Time(c[2]) < Time(p)
    BY <1>1, <1>5
  <2> QED
    BY <1>1, <1>3, <2>1, LatestExists
<1>7. Time(c[2]) <= Time(w) /\ Time(w) \in Nat /\ Time(c[1]) \in Nat
  BY <1>1, <1>3, <1>6, SignalFacts
<1>8. PICK d \in Of(S, {"download"}) : LatestBefore(d, Of(S, {"download"}), w) /\ c[1] <= d
  <2>1. Time(c[1]) < Time(w)
    BY <1>1, <1>5, <1>7
  <2> QED
    BY <1>1, <1>3, <2>1, LatestExists
<1>9. Time(c[1]) <= Time(d) /\ Time(d) \in Nat /\ Time(x) \in Nat
  BY <1>1, <1>3, <1>8, SignalFacts
<1>10. Time(x) - Time(d) <= Window
  BY <1>1, <1>7, <1>9, SignalAssumption
<1>11. PICK g : g = <<d, w, p, x>>
  OBVIOUS
<1>12. g[1] = d /\ g[2] = w /\ g[3] = p /\ g[4] = x /\ Len(g) = 4
  BY <1>11
<1>13. g \in DownloadExecute(F, f)
  <2>1. InWindow(g)
    BY <1>10, <1>12 DEF InWindow
  <2>2. g \in Of(S, {"download"}) \X Of(S, Writes) \X Of(S, {"chmod"}) \X Ends(S, {"execute"})
    BY <1>2, <1>11
  <2> QED
    BY <1>4, <1>6, <1>8, <1>12, <2>1, <2>2 DEF DownloadExecute, S
<1>14. <<d, w, p>> \in DownloadChains(F, f, x)
  <2>1. Time(d) < Time(w) /\ Time(w) < Time(p) /\ Time(p) < Time(x)
    BY <1>4, <1>6, <1>8 DEF LatestBefore
  <2> QED
    BY <1>10, <2>1 DEF DownloadChains, S
<1> QED
  BY <1>11, <1>12, <1>13, <1>14

(* The same for a file that is read, transformed and sent away. *)
LEMMA ExfiltrationFound ==
    ASSUME NEW F \in SUBSET Signals, NEW f, NEW x \in Ends(F, {"egress"}),
           NEW c \in ExfiltrationChains(F, f, x)
    PROVE  \E g \in SensitiveExfiltration(F, f) :
              /\ g = <<g[1], g[2], x>>
              /\ <<g[1], g[2]>> \in ExfiltrationChains(F, f, x)
<1> DEFINE S == OfFile(F, f)
<1>0. S \in SUBSET Signals
  BY DEF OfFile
<1>1. /\ c \in Of(S, {"file_read"}) \X Of(S, Transforms)
      /\ Time(c[1]) < Time(c[2]) /\ Time(c[2]) < Time(x)
      /\ Time(x) - Time(c[1]) <= Window
  BY DEF ExfiltrationChains
<1> HIDE DEF S
<1>3. /\ Of(S, {"file_read"}) \in SUBSET Signals /\ Of(S, Transforms) \in SUBSET Signals
      /\ x \in Signals
  BY <1>0 DEF Of, Ends
<1>6. PICK w \in Of(S, Transforms) : LatestBefore(w, Of(S, Transforms), x) /\ c[2] <= w
  BY <1>1, <1>3, LatestExists
<1>7. Time(c[2]) <= Time(w) /\ Time(w) \in Nat /\ Time(c[1]) \in Nat /\ Time(c[2]) \in Nat
  BY <1>1, <1>3, <1>6, SignalFacts
<1>8. PICK d \in Of(S, {"file_read"}) : LatestBefore(d, Of(S, {"file_read"}), w) /\ c[1] <= d
  <2>1. Time(c[1]) < Time(w)
    BY <1>1, <1>7
  <2> QED
    BY <1>1, <1>3, <2>1, LatestExists
<1>9. Time(c[1]) <= Time(d) /\ Time(d) \in Nat /\ Time(x) \in Nat
  BY <1>1, <1>3, <1>8, SignalFacts
<1>10. Time(x) - Time(d) <= Window
  BY <1>1, <1>7, <1>9, SignalAssumption
<1>11. PICK g : g = <<d, w, x>>
  OBVIOUS
<1>12. g[1] = d /\ g[2] = w /\ g[3] = x /\ Len(g) = 3
  BY <1>11
<1>13. g \in SensitiveExfiltration(F, f)
  <2>1. InWindow(g)
    BY <1>10, <1>12 DEF InWindow
  <2>2. g \in Of(S, {"file_read"}) \X Of(S, Transforms) \X Ends(F, {"egress"})
    BY <1>11
  <2> QED
    BY <1>6, <1>8, <1>12, <2>1, <2>2 DEF SensitiveExfiltration, S
<1>14. <<d, w>> \in ExfiltrationChains(F, f, x)
  <2>1. Time(d) < Time(w) /\ Time(w) < Time(x)
    BY <1>6, <1>8 DEF LatestBefore
  <2> QED
    BY <1>10, <2>1 DEF ExfiltrationChains, S
<1> QED
  BY <1>11, <1>12, <1>13, <1>14

Newest(F, k) == {s \in F : Cardinality({t \in F : s < t}) < k}

(* Of numbers that have fewer than k later ones there are at most k. *)
LEMMA FewLater ==
    ASSUME NEW F \in SUBSET Nat, IsFiniteSet(F), NEW k \in Nat \ {0}
    PROVE  IsFiniteSet(Newest(F, k)) /\ Cardinality(Newest(F, k)) <= k
<1> DEFINE After(s) == {t \in F : s < t}
<1> DEFINE G == {s \in F : Cardinality(After(s)) < k}
<1>0. G = Newest(F, k)
  BY DEF Newest
<1>1. G \in SUBSET F /\ G \in SUBSET Nat
  OBVIOUS
<1>2. IsFiniteSet(G)
  <2> HIDE DEF G
  <2> QED
    BY <1>1, FS_Subset
<1>3. CASE G = {}
  <2> HIDE DEF G
  <2>1. Cardinality(G) = 0
    BY <1>3, FS_EmptySet
  <2> QED
    BY <1>0, <1>2, <2>1
<1>4. CASE G # {}
  <2>1. PICK g \in G : \A y \in G : g <= y
    <3> HIDE DEF G
    <3> QED
      BY <1>1, <1>4, LeastExists
  <2>2. Cardinality(After(g)) < k /\ After(g) \in SUBSET F
    BY <2>1
  <2>3. G \ {g} \in SUBSET After(g)
    BY <1>1, <2>1
  <2> HIDE DEF After, G
  <2>4. IsFiniteSet(After(g)) /\ Cardinality(After(g)) \in Nat
    BY <2>2, FS_Subset, FS_CardinalityType
  <2>5. Cardinality(G \ {g}) <= Cardinality(After(g)) /\ IsFiniteSet(G \ {g})
    BY <2>3, <2>4, FS_Subset
  <2>6. Cardinality(G \ {g}) = Cardinality(G) - 1
    BY <2>1, <1>2, FS_RemoveElement
  <2>7. Cardinality(G) \in Nat
    BY <1>2, FS_CardinalityType
  <2> QED
    BY <2>2, <2>4, <2>5, <2>6, <2>7, <1>0, <1>2
<1> QED
  BY <1>3, <1>4

Fields == {"pos", "facts", "maximum", "active", "pending", "matchedCandidates",
           "matchedTerminals", "emitted", "timers", "eventTimers"}

(* The part of the state that has to do with the facts, for an input i. *)
FactsOK(o, i) ==
    /\ DOMAIN o = Fields
    /\ o.pos \in 0 .. Len(i)
    /\ o.facts \subseteq {i[n] : n \in DOMAIN i} /\ Cardinality(o.facts) <= MaxFacts
    /\ o.active = ActiveFiles(o.facts) /\ Cardinality(o.active) <= MaxFiles
    /\ o.maximum \in Nat /\ \A s \in o.facts : Time(s) <= o.maximum

(* The part that has to do with what waits for more evidence. *)
PendingOK(o) ==
    IsFiniteSet(DOMAIN o.pending) /\ Cardinality(DOMAIN o.pending) <= MaxAmbiguous
Timely(o) ==
    /\ \A k \in DOMAIN o.pending : o.pending[k] \in o.timers
    /\ o.timers \subseteq Nat /\ o.eventTimers \subseteq Nat

(* What is remembered is what has been put out, no two episodes of it share a
   candidate or a terminal, and nothing waits for a terminal that is over. *)
Distinct(E) ==
    \A a, b \in E :
       a = b \/ (CandidateKey(a) # CandidateKey(b) /\ TerminalKey(a) # TerminalKey(b))
Ledger(o) ==
    /\ o.matchedCandidates = {CandidateKey(e) : e \in o.emitted}
    /\ o.matchedTerminals = {TerminalKey(e) : e \in o.emitted}
    /\ Distinct(o.emitted)
    /\ \A e \in o.emitted : TerminalKey(e) \notin DOMAIN o.pending

(* Every complete chain of the kept facts is one that has been put out, or it
   shares its candidate or its terminal with one that has. *)
Claimed(o, m) == CandidateKey(m) \in o.matchedCandidates \/ TerminalKey(m) \in o.matchedTerminals
Reported(o) == \A m \in Deterministic(o.facts) : Claimed(o, m)

StateOK(o, i) == FactsOK(o, i) /\ PendingOK(o) /\ Timely(o) /\ Ledger(o) /\ Reported(o)

BuilderInv ==
    /\ input \in Inputs /\ clock \in Nat /\ restarts \in 0 .. MaxRestarts
    /\ StateOK(op, input) /\ StateOK(saved, input)
    /\ op.emitted \subseteq published \cup buffer
    /\ saved.emitted \subseteq published

-----------------------------------------------------------------------------
(* The input holds signals, and any part of it is a set the tables know. *)
LEMMA InputFacts ==
    ASSUME NEW i \in Inputs
    PROVE  /\ Len(i) \in Nat /\ DOMAIN i = 1 .. Len(i)
           /\ \A n \in 1 .. Len(i) : i[n] \in Signals
           /\ \A F \in SUBSET {i[n] : n \in DOMAIN i} : F \in SUBSET Signals /\ F \in FactSets
<1>1. i \in Seq(Signals)
  BY BuilderAssumption
<1>2. Len(i) \in Nat /\ DOMAIN i = 1 .. Len(i) /\ \A n \in 1 .. Len(i) : i[n] \in Signals
  BY <1>1
<1> QED
  BY <1>2 DEF FactSets

(* The tables hold the answers of the matcher. *)
LEMMA TableFacts ==
    ASSUME NEW F \in FactSets
    PROVE  /\ Complete[F] = Deterministic(F) /\ Incomplete[F] = Ambiguous(F)
           /\ KeptChains[F] = {k \in ChainsOf(F) : k[4] # {}}
<1>1. \A f : Tabulated(f) = f
  BY DEF Tabulated
<1>2. Complete[F] = Deterministic(F)
  BY <1>1 DEF Complete
<1>3. Incomplete[F] = Ambiguous(F)
  BY <1>1 DEF Incomplete
<1>4. KeptChains[F] = {k \in ChainsOf(F) : k[4] # {}}
  BY <1>1 DEF KeptChains
<1> QED
  BY <1>2, <1>3, <1>4

(* Any set of facts is finite, and so are their files. *)
LEMMA FactsFinite ==
    ASSUME NEW F \in SUBSET Signals
    PROVE  /\ IsFiniteSet(F) /\ Cardinality(F) \in Nat /\ F \in SUBSET Nat
           /\ IsFiniteSet(ActiveFiles(F)) /\ Cardinality(ActiveFiles(F)) \in Nat
<1>1. Signals = 1 .. Len(Signal) /\ Len(Signal) \in Nat
  BY SignalFacts
<1>2. IsFiniteSet(Signals)
  <2>1. 1 \in Int /\ Len(Signal) \in Int
    BY <1>1
  <2> QED
    BY <1>1, <2>1, FS_Interval
<1>3. IsFiniteSet(F) /\ Cardinality(F) \in Nat
  BY <1>2, FS_Subset, FS_CardinalityType
<1>4. F \in SUBSET Nat
  BY SignalFacts
<1> DEFINE E == {t \in F : Seed(t) /\ File(t) # None}
<1> DEFINE g == [s \in E |-> File(s)]
<1>5. E \in SUBSET F
  OBVIOUS
<1>6. g \in Surjection(E, ActiveFiles(F))
  BY DEF ActiveFiles, Surjection
<1> HIDE DEF E, g
<1>7. IsFiniteSet(E)
  BY <1>3, <1>5, FS_Subset
<1>8. IsFiniteSet(ActiveFiles(F))
  BY <1>6, <1>7, FS_Surjection
<1> QED
  BY <1>3, <1>4, <1>8, FS_CardinalityType

-----------------------------------------------------------------------------
\* What removes facts

(* p is o without some of its older facts. *)
Cut(p, o) ==
    /\ DOMAIN p = Fields
    /\ p.pos = o.pos /\ p.maximum = o.maximum /\ p.pending = o.pending
    /\ p.timers = o.timers /\ p.eventTimers = o.eventTimers
    /\ p.matchedCandidates = o.matchedCandidates /\ p.matchedTerminals = o.matchedTerminals
    /\ p.emitted = o.emitted
    /\ Suffix(p.facts, o.facts) /\ p.active = ActiveFiles(p.facts)

(* Removing older facts and looking at the files again. *)
LEMMA WithFactsCut ==
    ASSUME NEW o, DOMAIN o = Fields, NEW F, Suffix(F, o.facts)
    PROVE  Cut(WithFacts(o, F), o) /\ WithFacts(o, F).facts = F
<1>1. PICK p : p = WithFacts(o, F)
  OBVIOUS
<1>2. /\ DOMAIN p = Fields /\ p.facts = F /\ p.active = ActiveFiles(F)
      /\ p.pos = o.pos /\ p.maximum = o.maximum /\ p.pending = o.pending
    /\ p.timers = o.timers /\ p.eventTimers = o.eventTimers
      /\ p.matchedCandidates = o.matchedCandidates /\ p.matchedTerminals = o.matchedTerminals
      /\ p.emitted = o.emitted
  BY <1>1 DEF WithFacts, Fields
<1> QED
  BY <1>1, <1>2 DEF Cut

(* Removing nothing. *)
LEMMA NothingCut ==
    ASSUME NEW o, DOMAIN o = Fields, o.active = ActiveFiles(o.facts)
    PROVE  Cut(o, o)
BY DEF Cut, Suffix

(* Removing what is older than a moment. *)
LEMMA PrunedCut ==
    ASSUME NEW o, DOMAIN o = Fields, o.facts \in SUBSET Signals,
           o.active = ActiveFiles(o.facts), NEW threshold \in Int
    PROVE  Cut(Pruned(o, threshold), o)
<1> DEFINE F == {s \in o.facts : Time(s) >= threshold}
<1>1. Suffix(F, o.facts)
  <2> SUFFICES ASSUME NEW s \in F, NEW t \in o.facts, s <= t PROVE Time(t) >= threshold
    BY DEF Suffix
  <2>1. s \in Signals /\ t \in Signals /\ Time(s) >= threshold
    OBVIOUS
  <2>2. Time(s) <= Time(t) /\ Time(s) \in Nat /\ Time(t) \in Nat
    BY <2>1, SignalFacts
  <2> QED
    BY <2>1, <2>2
<1>2. CASE threshold <= 0
  BY <1>2, NothingCut DEF Pruned
<1>3. CASE ~ (threshold <= 0)
  <2>1. Pruned(o, threshold) = WithFacts(o, F)
    BY <1>3 DEF Pruned
  <2> HIDE DEF F
  <2> QED
    BY <1>1, <2>1, WithFactsCut
<1> QED
  BY <1>2, <1>3

(* What has fewer than k later facts is closed under later facts. *)
LEMMA NewestSuffix ==
    ASSUME NEW F \in SUBSET Nat, IsFiniteSet(F), NEW k \in Nat
    PROVE  Suffix(Newest(F, k), F)
<1> DEFINE After(s) == {t \in F : s < t}
<1>1. ASSUME NEW s \in F, NEW t \in F, s <= t, Cardinality(After(s)) < k
      PROVE  Cardinality(After(t)) < k
  <2>0. \A u \in F : t < u => s < u
    BY <1>1
  <2>1. After(t) \in SUBSET After(s) /\ After(s) \in SUBSET F
    BY <2>0
  <2> HIDE DEF After
  <2>2. IsFiniteSet(After(s))
    BY <2>1, FS_Subset
  <2>3. Cardinality(After(t)) <= Cardinality(After(s)) /\ IsFiniteSet(After(t))
    BY <2>1, <2>2, FS_Subset
  <2>4. Cardinality(After(t)) \in Nat /\ Cardinality(After(s)) \in Nat
    BY <2>2, <2>3, FS_CardinalityType
  <2> QED
    BY <1>1, <2>3, <2>4
<1>2. Newest(F, k) = {s \in F : Cardinality(After(s)) < k}
  BY DEF Newest
<1> HIDE DEF After
<1> QED
  BY <1>1, <1>2 DEF Suffix

(* Removing what is too much. *)
LEMMA BoundCut ==
    ASSUME NEW o, DOMAIN o = Fields, o.facts \in SUBSET Signals,
           o.active = ActiveFiles(o.facts)
    PROVE  Cut(BoundFacts(o), o) /\ Cardinality(BoundFacts(o).facts) <= MaxFacts
<1>1. CASE Cardinality(o.facts) <= MaxFacts
  BY <1>1, NothingCut DEF BoundFacts
<1>2. CASE ~ (Cardinality(o.facts) <= MaxFacts)
  <2>1. BoundFacts(o) = WithFacts(o, Newest(o.facts, MaxFacts))
    BY <1>2 DEF BoundFacts, Newest
  <2>2. IsFiniteSet(o.facts) /\ o.facts \in SUBSET Nat
    BY FactsFinite
  <2>3. MaxFacts \in Nat \ {0} /\ MaxFacts \in Nat
    BY BuilderAssumption
  <2>4. Suffix(Newest(o.facts, MaxFacts), o.facts)
    BY <2>2, <2>3, NewestSuffix
  <2>5. Cardinality(Newest(o.facts, MaxFacts)) <= MaxFacts
    BY <2>2, <2>3, FewLater
  <2> QED
    BY <2>1, <2>4, <2>5, WithFactsCut
<1> QED
  BY <1>1, <1>2

-----------------------------------------------------------------------------
\* What puts episodes out

(* An episode has the keys of its match. *)
LEMMA EpisodeKeys ==
    ASSUME NEW m
    PROVE  /\ CandidateKey(Episode(m)) = CandidateKey(m)
           /\ TerminalKey(Episode(m)) = TerminalKey(m)
BY DEF CandidateKey, TerminalKey, Terminal, Episode

(* Matches that share a candidate or a terminal are of one rule and one entity. *)
LEMMA KeysDiffer ==
    ASSUME NEW M, OnePerRule(M), NEW m \in M, NEW n \in M,
           CandidateKey(m) = CandidateKey(n) \/ TerminalKey(m) = TerminalKey(n)
    PROVE  m = n
<1>1. m.type = n.type /\ m.entity = n.entity
  BY DEF CandidateKey, TerminalKey
<1> QED
  BY <1>1 DEF OnePerRule

(* p is o after the matches of M have been put out. *)
PutOut(p, o, M) ==
    /\ DOMAIN p = Fields
    /\ p.pos = o.pos /\ p.facts = o.facts /\ p.maximum = o.maximum /\ p.active = o.active
    /\ p.pending = o.pending /\ p.timers = o.timers /\ p.eventTimers = o.eventTimers
    /\ p.emitted = o.emitted \cup {Episode(m) : m \in New(o, M)}
    /\ p.matchedCandidates = o.matchedCandidates \cup {CandidateKey(m) : m \in New(o, M)}
    /\ p.matchedTerminals = o.matchedTerminals \cup {TerminalKey(m) : m \in New(o, M)}

(* What emitMatch does to the state, field by field. *)
LEMMA EmitPutsOut ==
    ASSUME NEW o, DOMAIN o = Fields, NEW M
    PROVE  PutOut(Emit(o, M), o, M)
<1>1. PICK p : p = Emit(o, M)
  OBVIOUS
<1>2. PICK E : E = {Episode(m) : m \in New(o, M)}
  OBVIOUS
<1>3. PICK C : C = {CandidateKey(m) : m \in New(o, M)}
  OBVIOUS
<1>4. PICK T : T = {TerminalKey(m) : m \in New(o, M)}
  OBVIOUS
<1>5. p = [o EXCEPT !.emitted = @ \cup E, !.matchedCandidates = @ \cup C,
                    !.matchedTerminals = @ \cup T]
  BY <1>1, <1>2, <1>3, <1>4 DEF Emit
<1>6. /\ DOMAIN p = Fields
      /\ p.pos = o.pos /\ p.facts = o.facts /\ p.maximum = o.maximum /\ p.active = o.active
      /\ p.pending = o.pending /\ p.timers = o.timers /\ p.eventTimers = o.eventTimers
      /\ p.emitted = o.emitted \cup E
      /\ p.matchedCandidates = o.matchedCandidates \cup C
      /\ p.matchedTerminals = o.matchedTerminals \cup T
  BY <1>5 DEF Fields
<1> QED
  BY <1>1, <1>2, <1>3, <1>4, <1>6 DEF PutOut

(* Putting matches out keeps the ledger, when no one waits for them, and each of them
   is answered then. *)
LEMMA PutOutKeeps ==
    ASSUME NEW o, NEW M, NEW p, PutOut(p, o, M), Ledger(o), OnePerRule(M),
           \A m \in M : TerminalKey(m) \notin DOMAIN o.pending
    PROVE  /\ Ledger(p) /\ o.emitted \subseteq p.emitted
           /\ \A m \in M : Claimed(p, m)
           /\ \A m : Claimed(o, m) => Claimed(p, m)
<1>1. PICK N : N = New(o, M)
  OBVIOUS
<1>2. \A m \in N : /\ m \in M /\ CandidateKey(m) \notin o.matchedCandidates
                   /\ TerminalKey(m) \notin o.matchedTerminals
  BY <1>1 DEF New
<1>3. /\ p.emitted = o.emitted \cup {Episode(m) : m \in N}
      /\ p.matchedCandidates = o.matchedCandidates \cup {CandidateKey(m) : m \in N}
      /\ p.matchedTerminals = o.matchedTerminals \cup {TerminalKey(m) : m \in N}
      /\ p.pending = o.pending
  BY <1>1 DEF PutOut
<1>4. p.matchedCandidates = {CandidateKey(e) : e \in p.emitted}
  <2>1. {CandidateKey(e) : e \in p.emitted} =
           {CandidateKey(e) : e \in o.emitted} \cup {CandidateKey(Episode(m)) : m \in N}
    BY <1>3
  <2> QED
    BY <1>3, <2>1, EpisodeKeys DEF Ledger
<1>5. p.matchedTerminals = {TerminalKey(e) : e \in p.emitted}
  <2>1. {TerminalKey(e) : e \in p.emitted} =
           {TerminalKey(e) : e \in o.emitted} \cup {TerminalKey(Episode(m)) : m \in N}
    BY <1>3
  <2> QED
    BY <1>3, <2>1, EpisodeKeys DEF Ledger
<1>6. ASSUME NEW a \in p.emitted, NEW b \in p.emitted,
             CandidateKey(a) = CandidateKey(b) \/ TerminalKey(a) = TerminalKey(b)
      PROVE  a = b
  <2>1. \A e \in o.emitted : /\ CandidateKey(e) \in o.matchedCandidates
                             /\ TerminalKey(e) \in o.matchedTerminals
    BY DEF Ledger
  <2>2. \A m \in N : /\ CandidateKey(Episode(m)) \notin o.matchedCandidates
                     /\ TerminalKey(Episode(m)) \notin o.matchedTerminals
    BY <1>2, EpisodeKeys
  <2>3. CASE a \in o.emitted /\ b \in o.emitted
    BY <1>6, <2>3 DEF Ledger, Distinct
  <2>4. CASE a \in o.emitted /\ b \notin o.emitted
    BY <1>3, <1>6, <2>1, <2>2, <2>4
  <2>5. CASE a \notin o.emitted /\ b \in o.emitted
    BY <1>3, <1>6, <2>1, <2>2, <2>5
  <2>6. CASE a \notin o.emitted /\ b \notin o.emitted
    <3>1. PICK m \in N : a = Episode(m)
      BY <1>3, <2>6
    <3>2. PICK n \in N : b = Episode(n)
      BY <1>3, <2>6
    <3>3. CandidateKey(m) = CandidateKey(n) \/ TerminalKey(m) = TerminalKey(n)
      BY <1>6, <3>1, <3>2, EpisodeKeys
    <3>4. m = n
      BY <1>2, <3>3, KeysDiffer
    <3> QED
      BY <3>1, <3>2, <3>4
  <2> QED
    BY <2>3, <2>4, <2>5, <2>6
<1>7. \A e \in p.emitted : TerminalKey(e) \notin DOMAIN p.pending
  <2> SUFFICES ASSUME NEW e \in p.emitted PROVE TerminalKey(e) \notin DOMAIN o.pending
    BY <1>3
  <2>1. CASE e \in o.emitted
    BY <2>1 DEF Ledger
  <2>2. CASE e \notin o.emitted
    <3>1. PICK m \in N : e = Episode(m)
      BY <1>3, <2>2
    <3> QED
      BY <1>2, <3>1, EpisodeKeys
  <2> QED
    BY <2>1, <2>2
<1>8. ASSUME NEW m \in M PROVE Claimed(p, m)
  <2>1. CASE m \in N
    BY <1>3, <2>1 DEF Claimed
  <2>2. CASE m \notin N
    BY <1>1, <1>3, <2>2 DEF New, Claimed
  <2> QED
    BY <2>1, <2>2
<1>9. \A m : Claimed(o, m) => Claimed(p, m)
  BY <1>3 DEF Claimed
<1>10. Ledger(p)
  BY <1>4, <1>5, <1>6, <1>7 DEF Ledger, Distinct
<1> QED
  BY <1>3, <1>8, <1>9, <1>10

(* What is left when keys are removed. *)
LEMMA WithoutFacts ==
    ASSUME NEW pending, NEW keys
    PROVE  /\ DOMAIN Without(pending, keys) = DOMAIN pending \ keys
           /\ \A k \in DOMAIN pending \ keys : Without(pending, keys)[k] = pending[k]
BY DEF Without

(* p is o, except that some of what waited does so no longer. *)
Settled(p, o, keys) ==
    /\ DOMAIN p = Fields
    /\ p.pos = o.pos /\ p.facts = o.facts /\ p.maximum = o.maximum /\ p.active = o.active
    /\ p.timers = o.timers /\ p.eventTimers = o.eventTimers /\ p.emitted = o.emitted
    /\ p.matchedCandidates = o.matchedCandidates /\ p.matchedTerminals = o.matchedTerminals
    /\ DOMAIN p.pending = DOMAIN o.pending \ keys
    /\ \A k \in DOMAIN p.pending : p.pending[k] = o.pending[k]

(* Removing keys from what waits leaves everything else alone. *)
LEMMA RemoveSettles ==
    ASSUME NEW o, DOMAIN o = Fields, NEW keys
    PROVE  Settled([o EXCEPT !.pending = Without(@, keys)], o, keys)
<1>1. PICK w : w = Without(o.pending, keys)
  OBVIOUS
<1>2. PICK p : p = [o EXCEPT !.pending = w]
  OBVIOUS
<1>3. p = [o EXCEPT !.pending = Without(@, keys)]
  BY <1>1, <1>2
<1>4. /\ DOMAIN p = Fields /\ p.pending = w
      /\ p.pos = o.pos /\ p.facts = o.facts /\ p.maximum = o.maximum /\ p.active = o.active
      /\ p.timers = o.timers /\ p.eventTimers = o.eventTimers /\ p.emitted = o.emitted
      /\ p.matchedCandidates = o.matchedCandidates /\ p.matchedTerminals = o.matchedTerminals
  BY <1>2 DEF Fields
<1>5. /\ DOMAIN p.pending = DOMAIN o.pending \ keys
      /\ \A k \in DOMAIN p.pending : p.pending[k] = o.pending[k]
  <2> DEFINE P == o.pending
  <2>0. w = Without(P, keys)
    BY <1>1
  <2> HIDE DEF P
  <2>1. DOMAIN w = DOMAIN P \ keys /\ \A k \in DOMAIN w : w[k] = P[k]
    BY <2>0 DEF Without
  <2> USE DEF P
  <2> QED
    BY <1>4, <2>1
<1>6. Settled(p, o, keys)
  BY <1>4, <1>5 DEF Settled
<1> QED
  BY <1>3, <1>6

(* Nothing is spoilt when something stops waiting. *)
LEMMA SettledKeeps ==
    ASSUME NEW o, NEW keys, NEW p, Settled(p, o, keys), Ledger(o)
    PROVE  /\ Ledger(p)
           /\ PendingOK(o) => PendingOK(p)
           /\ \A m : Claimed(p, m) <=> Claimed(o, m)
<1>1. Ledger(p)
  BY DEF Settled, Ledger
<1>2. ASSUME PendingOK(o) PROVE PendingOK(p)
  <2>1. IsFiniteSet(DOMAIN o.pending) /\ DOMAIN p.pending \in SUBSET DOMAIN o.pending
    BY <1>2 DEF PendingOK, Settled
  <2>2. /\ IsFiniteSet(DOMAIN p.pending)
        /\ Cardinality(DOMAIN p.pending) <= Cardinality(DOMAIN o.pending)
    BY <2>1, FS_Subset
  <2>3. Cardinality(DOMAIN p.pending) \in Nat /\ Cardinality(DOMAIN o.pending) \in Nat
    BY <2>1, <2>2, FS_CardinalityType
  <2>4. Cardinality(DOMAIN p.pending) <= MaxAmbiguous
    BY <1>2, <2>2, <2>3, BuilderAssumption DEF PendingOK
  <2> QED
    BY <1>2, <2>1, <2>2, <2>4 DEF PendingOK, Settled
<1>3. \A m : Claimed(p, m) <=> Claimed(o, m)
  BY DEF Settled, Claimed
<1> QED
  BY <1>1, <1>2, <1>3

(* p is o after some matches have been put out: the facts are the same, and
   nothing new waits. *)
After(p, o) ==
    /\ DOMAIN p = Fields
    /\ p.pos = o.pos /\ p.facts = o.facts /\ p.maximum = o.maximum /\ p.active = o.active
    /\ p.timers = o.timers /\ p.eventTimers = o.eventTimers
    /\ DOMAIN p.pending \subseteq DOMAIN o.pending
    /\ \A k \in DOMAIN p.pending : p.pending[k] = o.pending[k]
    /\ o.emitted \subseteq p.emitted

(* Putting matches out does not touch the facts. *)
LEMMA AfterFacts ==
    ASSUME NEW o, NEW p, After(p, o), NEW i, FactsOK(o, i)
    PROVE  FactsOK(p, i)
BY DEF After, FactsOK

Removed(o, keys) == [o EXCEPT !.pending = Without(@, keys)]

(* What stops waiting and is put out at once. *)
LEMMA SettleAndPutOut ==
    ASSUME NEW o, DOMAIN o = Fields, PendingOK(o), Ledger(o),
           NEW keys, NEW M, OnePerRule(M), \A m \in M : TerminalKey(m) \in keys,
           NEW q, q = Removed(o, keys)
    PROVE  /\ After(Emit(q, M), o) /\ PendingOK(Emit(q, M)) /\ Ledger(Emit(q, M))
           /\ DOMAIN (Emit(q, M)).pending = DOMAIN o.pending \ keys
           /\ \A m \in M : Claimed(Emit(q, M), m)
           /\ \A m : Claimed(o, m) => Claimed(Emit(q, M), m)
<1>1. Settled(q, o, keys)
  BY RemoveSettles DEF Removed
<1>2. PICK p : p = Emit(q, M)
  OBVIOUS
<1>3. DOMAIN q = Fields
  BY <1>1 DEF Settled
<1>4. PutOut(p, q, M)
  BY <1>2, <1>3, EmitPutsOut
<1>5. Ledger(q) /\ PendingOK(q) /\ \A m : Claimed(q, m) <=> Claimed(o, m)
  BY <1>1, SettledKeeps
<1>6. \A m \in M : TerminalKey(m) \notin DOMAIN q.pending
  BY <1>1 DEF Settled
<1>7. /\ Ledger(p) /\ q.emitted \subseteq p.emitted
      /\ \A m \in M : Claimed(p, m)
      /\ \A m : Claimed(q, m) => Claimed(p, m)
  BY <1>4, <1>5, <1>6, PutOutKeeps
<1>8. p.pending = q.pending
  BY <1>4 DEF PutOut
<1>9. PendingOK(p)
  BY <1>5, <1>8 DEF PendingOK
<1>10. After(p, o)
  BY <1>1, <1>4, <1>7, <1>8 DEF After, Settled, PutOut
<1>11. DOMAIN p.pending = DOMAIN o.pending \ keys
  BY <1>1, <1>8 DEF Settled
<1> QED
  BY <1>2, <1>5, <1>7, <1>9, <1>10, <1>11

(* Asking the matcher again answers every complete chain of the facts. *)
LEMMA EmitDeterministicKeeps ==
    ASSUME NEW i \in Inputs, NEW o, FactsOK(o, i), PendingOK(o), Ledger(o)
    PROVE  /\ After(EmitDeterministic(o), o) /\ PendingOK(EmitDeterministic(o))
           /\ Ledger(EmitDeterministic(o)) /\ Reported(EmitDeterministic(o))
<1>1. o.facts \in SUBSET Signals /\ o.facts \in FactSets /\ DOMAIN o = Fields
  BY InputFacts DEF FactsOK
<1>2. PICK M : M = Deterministic(o.facts)
  OBVIOUS
<1>3. Complete[o.facts] = M /\ OnePerRule(M)
  BY <1>1, <1>2, TableFacts, DeterministicOnePerRule
<1>4. PICK keys : keys = {TerminalKey(m) : m \in M}
  OBVIOUS
<1>5. PICK q : q = Removed(o, keys)
  OBVIOUS
<1>6. EmitDeterministic(o) = Emit(q, M)
  BY <1>3, <1>4, <1>5 DEF EmitDeterministic, Removed
<1>7. \A m \in M : TerminalKey(m) \in keys
  BY <1>4
<1>8. /\ After(Emit(q, M), o) /\ PendingOK(Emit(q, M)) /\ Ledger(Emit(q, M))
      /\ \A m \in M : Claimed(Emit(q, M), m)
  BY <1>1, <1>3, <1>5, <1>7, SettleAndPutOut
<1>9. (Emit(q, M)).facts = o.facts
  BY <1>8 DEF After
<1>10. Reported(Emit(q, M))
  BY <1>2, <1>8, <1>9 DEF Reported
<1> QED
  BY <1>6, <1>8, <1>10

-----------------------------------------------------------------------------
\* What begins to wait

(* What an entity may be in a set of facts. *)
Types == {"download_execute", "sensitive_data_exfiltration", "persistence_installation",
          "sandbox_privilege_breakout", "destructive_behavior", "lateral_movement"}
EntityOf(type, e) ==
    IF type \in {"download_execute", "sensitive_data_exfiltration"} THEN File(e[1])
    ELSE IF type = "destructive_behavior" THEN PathOf(e)
    ELSE IF type = "lateral_movement" THEN LateralOf(e)
    ELSE ProcessOf(e)

(* A match with a gap has two facts for evidence, which name its entity. *)
LEMMA DoubtfulShape ==
    ASSUME NEW F \in SUBSET Signals, NEW m \in Ambiguous(F)
    PROVE  /\ m.type \in Types /\ m.evidence \in F \X F
           /\ TerminalKey(m) = <<m.type, EntityOf(m.type, m.evidence), m.evidence[2]>>
<1>1. Doubtful(F, m)
  BY AmbiguousFacts
<1>2. m.evidence \in F \X F /\ m.type \in Types /\ m.entity = EntityOf(m.type, m.evidence)
  <2>1. CASE m.type = "download_execute"
    <3>1. m.evidence \in AmbiguousDownload(F, m.entity)
      BY <1>1, <2>1 DEF Doubtful
    <3>2. m.evidence \in Of(OfFile(F, m.entity), {"download"}) \X Ends(OfFile(F, m.entity), {"execute"})
      BY <3>1 DEF AmbiguousDownload
    <3> QED
      BY <2>1, <3>2 DEF Of, OfFile, Ends, EntityOf, Types
  <2>2. CASE m.type = "sensitive_data_exfiltration"
    <3>1. m.evidence \in AmbiguousExfiltration(F, m.entity)
      BY <1>1, <2>2 DEF Doubtful
    <3>2. m.evidence \in Of(OfFile(F, m.entity), {"file_read"}) \X Ends(F, {"egress"})
      BY <3>1 DEF AmbiguousExfiltration
    <3> QED
      BY <2>2, <3>2 DEF Of, OfFile, Ends, EntityOf, Types
  <2>3. CASE m.type = "persistence_installation"
    <3>1. m.evidence \in AmbiguousPersistence(F) /\ m.entity = ProcessOf(m.evidence)
      BY <1>1, <2>3 DEF Doubtful
    <3>2. m.evidence \in Of(F, {"persistence_write"}) \X Ends(F, {"persistence_activate"})
      BY <3>1 DEF AmbiguousPersistence
    <3> QED
      BY <2>3, <3>1, <3>2 DEF Of, Ends, EntityOf, Types
  <2>4. CASE m.type = "sandbox_privilege_breakout"
    <3>1. m.evidence \in AmbiguousSandbox(F) /\ m.entity = ProcessOf(m.evidence)
      BY <1>1, <2>4 DEF Doubtful
    <3>2. m.evidence \in Of(F, {"sandbox_probe", "privilege_change"}) \X Privileged(F)
      BY <3>1 DEF AmbiguousSandbox
    <3> QED
      BY <2>4, <3>1, <3>2 DEF Of, Privileged, EntityOf, Types
  <2>5. CASE m.type = "destructive_behavior"
    <3>1. m.evidence \in AmbiguousDestructive(F) /\ m.entity = PathOf(m.evidence)
      BY <1>1, <2>5 DEF Doubtful
    <3>2. m.evidence \in Of(F, {"target_discovery"}) \X Ends(F, {"destroy"})
      BY <3>1 DEF AmbiguousDestructive
    <3> QED
      BY <2>5, <3>1, <3>2 DEF Of, Ends, EntityOf, Types
  <2>6. CASE m.type = "lateral_movement"
    <3>1. m.evidence \in AmbiguousLateral(F) /\ m.entity = LateralOf(m.evidence)
      BY <1>1, <2>6 DEF Doubtful
    <3>2. m.evidence \in Of(F, {"file_read"}) \X Ends(F, RemoteActions)
      BY <3>1 DEF AmbiguousLateral
    <3> QED
      BY <2>6, <3>1, <3>2 DEF Of, Ends, EntityOf, Types
  <2> QED
    BY <1>1, <2>1, <2>2, <2>3, <2>4, <2>5, <2>6 DEF Doubtful
<1>3. Len(m.evidence) = 2
  BY <1>2
<1> QED
  BY <1>2, <1>3 DEF TerminalKey, Terminal

(* Only finitely many terminals can begin to wait. *)
LEMMA NewlyAmbiguousFinite ==
    ASSUME NEW i \in Inputs, NEW o, FactsOK(o, i)
    PROVE  IsFiniteSet(NewlyAmbiguous(o))
<1>1. PICK F : F = o.facts
  OBVIOUS
<1>2. F \in SUBSET Signals /\ F \in FactSets
  BY <1>1, InputFacts DEF FactsOK
<1>3. IsFiniteSet(F)
  BY <1>2, FactsFinite
<1>4. IsFiniteSet(F \X F)
  BY <1>3, FS_Product
<1>5. IsFiniteSet(Types)
  <2> DEFINE A == {"download_execute"} \cup {"sensitive_data_exfiltration"}
  <2> DEFINE B == {"persistence_installation"} \cup {"sandbox_privilege_breakout"}
  <2> DEFINE C == {"destructive_behavior"} \cup {"lateral_movement"}
  <2>1. IsFiniteSet(A) /\ IsFiniteSet(B) /\ IsFiniteSet(C)
    BY FS_Singleton, FS_Union
  <2>2. Types = (A \cup B) \cup C
    BY DEF Types
  <2> HIDE DEF A, B, C
  <2>3. IsFiniteSet(A \cup B)
    BY <2>1, FS_Union
  <2> QED
    BY <2>1, <2>2, <2>3, FS_Union
<1>6. PICK P : P = Types \X (F \X F)
  OBVIOUS
<1>7. IsFiniteSet(P)
  BY <1>4, <1>5, <1>6, FS_Product
<1> DEFINE g == [x \in P |-> <<x[1], EntityOf(x[1], x[2]), x[2][2]>>]
<1> DEFINE K == {g[x] : x \in P}
<1>8. g \in Surjection(P, K)
  BY DEF Surjection
<1>9. ASSUME NEW m \in Ambiguous(F) PROVE TerminalKey(m) \in K
  <2>1. PICK x : x = <<m.type, m.evidence>>
    OBVIOUS
  <2>2. /\ m.type \in Types /\ m.evidence \in F \X F
        /\ TerminalKey(m) = <<m.type, EntityOf(m.type, m.evidence), m.evidence[2]>>
    BY <1>2, DoubtfulShape
  <2>3. x \in P /\ x[1] = m.type /\ x[2] = m.evidence
    BY <1>6, <2>1, <2>2
  <2>4. g[x] = TerminalKey(m)
    BY <2>2, <2>3
  <2> HIDE DEF g
  <2> QED
    BY <2>3, <2>4
<1>10. IsFiniteSet(K)
  <2> HIDE DEF g, K
  <2> QED
    BY <1>7, <1>8, FS_Surjection
<1>11. NewlyAmbiguous(o) \in SUBSET K
  <2>1. Incomplete[o.facts] = Ambiguous(F)
    BY <1>1, <1>2, TableFacts
  <2> HIDE DEF K
  <2> QED
    BY <1>9, <2>1 DEF NewlyAmbiguous
<1> HIDE DEF K
<1> QED
  BY <1>10, <1>11, FS_Subset

(* Taking facts away, the older ones first, spoils nothing. *)
LEMMA SuffixTransitive ==
    ASSUME NEW A, NEW B, NEW C, Suffix(A, B), Suffix(B, C)
    PROVE  Suffix(A, C)
BY DEF Suffix

(* Removing older facts twice is removing older facts. *)
LEMMA CutTransitive ==
    ASSUME NEW p, NEW q, NEW o, Cut(p, q), Cut(q, o)
    PROVE  Cut(p, o)
<1>1. Suffix(p.facts, o.facts)
  BY SuffixTransitive DEF Cut
<1> QED
  BY <1>1 DEF Cut

(* The facts of a state before they are bounded. *)
Loose(o, i) ==
    /\ DOMAIN o = Fields
    /\ o.pos \in 0 .. Len(i)
    /\ o.facts \subseteq {i[n] : n \in DOMAIN i}
    /\ o.active = ActiveFiles(o.facts) /\ Cardinality(o.active) <= MaxFiles
    /\ o.maximum \in Nat /\ \A s \in o.facts : Time(s) <= o.maximum

(* Removing older facts spoils nothing, and what was answered is. *)
LEMMA CutKeeps ==
    ASSUME NEW i \in Inputs, NEW o, Loose(o, i), PendingOK(o), Timely(o), Ledger(o),
           NEW p, Cut(p, o), Cardinality(p.facts) <= MaxFacts
    PROVE  /\ FactsOK(p, i) /\ PendingOK(p) /\ Timely(p) /\ Ledger(p)
           /\ Reported(o) => Reported(p)
<1>1. o.facts \in SUBSET Signals /\ p.facts \in SUBSET o.facts /\ p.facts \in SUBSET Signals
  BY InputFacts DEF Loose, Cut, Suffix
<1>2. Cardinality(ActiveFiles(p.facts)) <= MaxFiles
  <2>1. ActiveFiles(p.facts) \in SUBSET ActiveFiles(o.facts)
    BY <1>1 DEF ActiveFiles
  <2>2. IsFiniteSet(ActiveFiles(o.facts)) /\ Cardinality(ActiveFiles(o.facts)) \in Nat
    BY <1>1, FactsFinite
  <2>3. Cardinality(ActiveFiles(p.facts)) \in Nat
    BY <1>1, FactsFinite
  <2>4. Cardinality(ActiveFiles(p.facts)) <= Cardinality(ActiveFiles(o.facts))
    BY <2>1, <2>2, FS_Subset
  <2>5. Cardinality(ActiveFiles(o.facts)) <= MaxFiles /\ MaxFiles \in Nat
    BY BuilderAssumption DEF Loose
  <2> QED
    BY <2>2, <2>3, <2>4, <2>5
<1>3. FactsOK(p, i)
  BY <1>1, <1>2 DEF FactsOK, Loose, Cut
<1>4. PendingOK(p) /\ Timely(p) /\ Ledger(p)
  BY DEF Cut, PendingOK, Timely, Ledger
<1>5. ASSUME Reported(o) PROVE Reported(p)
  <2>1. Deterministic(p.facts) \subseteq Deterministic(o.facts)
    BY <1>1, DeterministicSuffix DEF Cut
  <2> QED
    BY <1>5, <2>1 DEF Reported, Claimed, Cut
<1> QED
  BY <1>3, <1>4, <1>5

(* A fact that is kept: its file becomes active if it is a seed, and there is room. *)
LEMMA ActiveWith ==
    ASSUME NEW F \in SUBSET Signals, NEW s \in Signals, Cardinality(ActiveFiles(F)) <= MaxFiles,
           ~ (/\ Bounded(s) /\ File(s) # None /\ File(s) \notin ActiveFiles(F)
              /\ ~ Seed(s) \/ Cardinality(ActiveFiles(F)) >= MaxFiles)
    PROVE  /\ ActiveFiles(F \cup {s}) =
                IF Bounded(s) /\ File(s) # None THEN ActiveFiles(F) \cup {File(s)} ELSE ActiveFiles(F)
           /\ Cardinality(ActiveFiles(F \cup {s})) <= MaxFiles
<1>1. ActiveFiles(F \cup {s}) =
         IF Seed(s) /\ File(s) # None THEN ActiveFiles(F) \cup {File(s)} ELSE ActiveFiles(F)
  BY DEF ActiveFiles
<1>2. Seed(s) => Bounded(s)
  BY DEF Seed, Bounded
<1>3. IsFiniteSet(ActiveFiles(F)) /\ Cardinality(ActiveFiles(F)) \in Nat /\ MaxFiles \in Nat
  BY FactsFinite, BuilderAssumption
<1>4. CASE Bounded(s) /\ File(s) # None
  <2>1. CASE File(s) \in ActiveFiles(F)
    BY <1>1, <1>4, <2>1
  <2>2. CASE File(s) \notin ActiveFiles(F)
    <3>1. Seed(s) /\ ~ (Cardinality(ActiveFiles(F)) >= MaxFiles)
      BY <1>4, <2>2
    <3>2. Cardinality(ActiveFiles(F) \cup {File(s)}) = Cardinality(ActiveFiles(F)) + 1
      BY <1>3, <2>2, FS_AddElement
    <3> QED
      BY <1>1, <1>3, <1>4, <3>1, <3>2
  <2> QED
    BY <2>1, <2>2
<1>5. CASE ~ (Bounded(s) /\ File(s) # None)
  BY <1>1, <1>2, <1>5
<1> QED
  BY <1>4, <1>5

(* Keeping a fact, moving the window and bounding the facts spoils nothing. *)
LEMMA KeptKeeps ==
    ASSUME BuilderInv, HasInput, NEW s, s = Arriving, ~ Unadmitted(s)
    PROVE  /\ FactsOK(Kept(s), input) /\ PendingOK(Kept(s)) /\ Timely(Kept(s))
           /\ Ledger(Kept(s)) /\ Kept(s).emitted = op.emitted
<1>1. /\ input \in Inputs /\ FactsOK(op, input) /\ PendingOK(op) /\ Timely(op) /\ Ledger(op)
  BY DEF BuilderInv, StateOK
<1>2. /\ op.pos + 1 \in 0 .. Len(input) /\ op.pos + 1 \in DOMAIN input /\ s \in Signals
      /\ s \in {input[n] : n \in DOMAIN input}
  BY <1>1, InputFacts DEF FactsOK, HasInput, Arriving
<1>3. PICK top : top = IF Time(s) > op.maximum THEN Time(s) ELSE op.maximum
  OBVIOUS
<1>4. top \in Nat /\ Time(s) <= top /\ op.maximum <= top /\ op.maximum \in Nat
  BY <1>1, <1>2, <1>3, SignalFacts DEF FactsOK
<1>5. PICK act : act = IF Bounded(s) /\ File(s) # None THEN op.active \cup {File(s)} ELSE op.active
  OBVIOUS
<1>6. PICK put : put = [Consumed EXCEPT !.facts = @ \cup {s},
                  !.active = IF Bounded(s) /\ File(s) # None THEN @ \cup {File(s)} ELSE @,
                  !.maximum = top,
                  !.eventTimers = @ \cup {Time(s)}]
  OBVIOUS
<1>7. Kept(s) = BoundFacts(Pruned(put, top - Window - Lateness))
  BY <1>3, <1>6 DEF Kept
<1>8. PICK c : c = Consumed
  OBVIOUS
<1>9. /\ DOMAIN c = Fields /\ c.pos = op.pos + 1
      /\ c.facts = op.facts /\ c.maximum = op.maximum /\ c.active = op.active
      /\ c.pending = op.pending /\ c.timers = op.timers /\ c.eventTimers = op.eventTimers
      /\ c.emitted = op.emitted
      /\ c.matchedCandidates = op.matchedCandidates /\ c.matchedTerminals = op.matchedTerminals
  <2>1. DOMAIN op = Fields
    BY <1>1 DEF FactsOK
  <2> QED
    BY <1>8, <2>1 DEF Consumed, Fields
<1>10. PICK F : F = op.facts \cup {s}
  OBVIOUS
<1>11. PICK ev : ev = c.eventTimers \cup {Time(s)}
  OBVIOUS
<1>12. put = [c EXCEPT !.facts = F, !.active = act, !.maximum = top, !.eventTimers = ev]
  BY <1>5, <1>6, <1>8, <1>9, <1>10, <1>11
<1>13. /\ DOMAIN put = Fields /\ put.pos = op.pos + 1
       /\ put.facts = F /\ put.maximum = top /\ put.active = act
       /\ put.pending = op.pending /\ put.timers = op.timers /\ put.eventTimers = ev
       /\ put.emitted = op.emitted
       /\ put.matchedCandidates = op.matchedCandidates
       /\ put.matchedTerminals = op.matchedTerminals
  BY <1>9, <1>12 DEF Fields
<1>14. op.facts \in SUBSET Signals /\ op.active = ActiveFiles(op.facts)
  BY <1>1, InputFacts DEF FactsOK
<1>15. act = ActiveFiles(F) /\ Cardinality(ActiveFiles(F)) <= MaxFiles
  <2>1. Cardinality(ActiveFiles(op.facts)) <= MaxFiles
    BY <1>1 DEF FactsOK
  <2>2. ~ (/\ Bounded(s) /\ File(s) # None /\ File(s) \notin ActiveFiles(op.facts)
           /\ ~ Seed(s) \/ Cardinality(ActiveFiles(op.facts)) >= MaxFiles)
    BY <1>14 DEF Unadmitted
  <2> QED
    BY <1>2, <1>5, <1>10, <1>14, <2>1, <2>2, ActiveWith
<1>16. \A t \in F : Time(t) <= top
  <2> SUFFICES ASSUME NEW t \in F PROVE Time(t) <= top
    OBVIOUS
  <2>1. CASE t = s
    BY <1>4, <2>1
  <2>2. CASE t \in op.facts
    <3>1. Time(t) <= op.maximum /\ Time(t) \in Nat
      BY <1>1, <1>14, <2>2, SignalFacts DEF FactsOK
    <3> QED
      BY <1>4, <3>1
  <2> QED
    BY <1>10, <2>1, <2>2
<1>17. Loose(put, input)
  <2>1. F \subseteq {input[n] : n \in DOMAIN input}
    BY <1>1, <1>2, <1>10 DEF FactsOK
  <2> QED
    BY <1>2, <1>4, <1>13, <1>15, <1>16, <2>1 DEF Loose
<1>18. PendingOK(put) /\ Timely(put) /\ Ledger(put)
  <2>1. ev \subseteq Nat
    BY <1>1, <1>2, <1>9, <1>11, SignalFacts DEF Timely
  <2> QED
    BY <1>1, <1>13, <2>1 DEF PendingOK, Timely, Ledger
<1>19. PICK q : q = Pruned(put, top - Window - Lateness)
  OBVIOUS
<1>20. F \in SUBSET Signals /\ top - Window - Lateness \in Int
  BY <1>2, <1>4, <1>10, <1>14, SignalAssumption, BuilderAssumption
<1>21. Cut(q, put)
  BY <1>13, <1>15, <1>19, <1>20, PrunedCut
<1>22. q.facts \in SUBSET Signals /\ DOMAIN q = Fields /\ q.active = ActiveFiles(q.facts)
  BY <1>13, <1>20, <1>21 DEF Cut, Suffix
<1>23. PICK p : p = BoundFacts(q)
  OBVIOUS
<1>24. Cut(p, q) /\ Cardinality(p.facts) <= MaxFacts
  BY <1>22, <1>23, BoundCut
<1>25. Cut(p, put)
  BY <1>21, <1>24, CutTransitive
<1>26. p = Kept(s) /\ p.emitted = op.emitted
  BY <1>7, <1>13, <1>19, <1>23, <1>25 DEF Cut
<1>27. FactsOK(p, input) /\ PendingOK(p) /\ Timely(p) /\ Ledger(p)
  BY <1>1, <1>17, <1>18, <1>24, <1>25, CutKeeps
<1> QED
  BY <1>26, <1>27

(* Terminals that begin to wait: each has a timer, there is room for it, and no
   episode has been made of it. *)
LEMMA AwaitKeeps ==
    ASSUME NEW i \in Inputs, NEW o, StateOK(o, i), clock \in Nat,
           NEW keys \in SUBSET NewlyAmbiguous(o),
           Cardinality(keys) = IF Cardinality(NewlyAmbiguous(o)) <= Room(o)
                               THEN Cardinality(NewlyAmbiguous(o)) ELSE Room(o)
    PROVE  StateOK(Await(o, keys), i) /\ Await(o, keys).emitted = o.emitted
<1>1. FactsOK(o, i) /\ PendingOK(o) /\ Timely(o) /\ Ledger(o) /\ Reported(o)
  BY DEF StateOK
<1>2. CASE keys = {}
  BY <1>2 DEF Await
<1>3. CASE keys # {}
  <2>1. IsFiniteSet(NewlyAmbiguous(o)) /\ IsFiniteSet(keys)
    <3>1. IsFiniteSet(NewlyAmbiguous(o))
      BY <1>1, NewlyAmbiguousFinite
    <3> QED
      BY <3>1, FS_Subset
  <2>2. /\ Cardinality(keys) \in Nat /\ Cardinality(NewlyAmbiguous(o)) \in Nat
        /\ Cardinality(DOMAIN o.pending) \in Nat
    BY <1>1, <2>1, FS_CardinalityType DEF PendingOK
  <2>3. MaxAmbiguous \in Nat /\ clock + Settle \in Nat
    BY BuilderAssumption
  <2>4. Cardinality(keys) <= MaxAmbiguous - Cardinality(DOMAIN o.pending)
    BY <2>2, <2>3 DEF Room
  <2>5. PICK D : D = DOMAIN o.pending \cup keys
    OBVIOUS
  <2>6. IsFiniteSet(D) /\ Cardinality(D) <= MaxAmbiguous
    <3>1. /\ IsFiniteSet(DOMAIN o.pending \cup keys)
          /\ Cardinality(DOMAIN o.pending \cup keys) =
               Cardinality(DOMAIN o.pending) + Cardinality(keys)
                 - Cardinality(DOMAIN o.pending \cap keys)
      BY <1>1, <2>1, FS_Union DEF PendingOK
    <3>2. Cardinality(DOMAIN o.pending \cap keys) \in Nat
      BY <2>1, FS_Intersection, FS_CardinalityType
    <3> QED
      BY <2>2, <2>3, <2>4, <2>5, <3>1, <3>2
  <2>7. PICK w : w = [k \in D |-> IF k \in keys THEN clock + Settle ELSE o.pending[k]]
    OBVIOUS
  <2>8. PICK ts : ts = o.timers \cup {clock + Settle}
    OBVIOUS
  <2>9. PICK p : p = [o EXCEPT !.pending = w, !.timers = ts]
    OBVIOUS
  <2>10. Await(o, keys) = p
    BY <1>3, <2>5, <2>7, <2>8, <2>9 DEF Await
  <2>11. DOMAIN o = Fields
    BY <1>1 DEF FactsOK
  <2>12. /\ DOMAIN p = Fields /\ p.pending = w /\ p.timers = ts
         /\ p.eventTimers = o.eventTimers
         /\ p.pos = o.pos /\ p.facts = o.facts /\ p.maximum = o.maximum /\ p.active = o.active
         /\ p.emitted = o.emitted
         /\ p.matchedCandidates = o.matchedCandidates /\ p.matchedTerminals = o.matchedTerminals
    BY <2>9, <2>11 DEF Fields
  <2>13. FactsOK(p, i) /\ Reported(p)
    BY <1>1, <2>12 DEF FactsOK, Reported, Claimed
  <2>14. DOMAIN w = D
    BY <2>7
  <2>15. PendingOK(p)
    BY <2>6, <2>12, <2>14 DEF PendingOK
  <2>16. Timely(p)
    <3>1. \A k \in D : w[k] \in ts
      BY <1>1, <2>5, <2>7, <2>8 DEF Timely
    <3>2. ts \subseteq Nat /\ p.eventTimers \subseteq Nat
      BY <1>1, <2>3, <2>8, <2>12 DEF Timely
    <3> QED
      BY <2>12, <2>14, <3>1, <3>2 DEF Timely
  <2>17. \A k \in keys : k \notin o.matchedTerminals
    BY DEF NewlyAmbiguous
  <2>18. \A e \in o.emitted : TerminalKey(e) \notin D
    BY <1>1, <2>5, <2>17 DEF Ledger
  <2>19. Ledger(p)
    BY <1>1, <2>12, <2>14, <2>18 DEF Ledger
  <2> QED
    BY <2>10, <2>12, <2>13, <2>15, <2>16, <2>19 DEF StateOK
<1> QED
  BY <1>2, <1>3

(* A step of the operator. *)
LEMMA OperatorStep ==
    ASSUME BuilderInv, StateOK(op', input), op'.emitted \subseteq published' \cup buffer',
           published \subseteq published',
           UNCHANGED <<input, saved, clock, restarts>>
    PROVE  BuilderInv'
<1>1. /\ input' = input /\ saved' = saved /\ clock' = clock /\ restarts' = restarts
  OBVIOUS
<1>2. StateOK(op', input') /\ StateOK(saved', input')
  BY <1>1 DEF BuilderInv
<1>3. /\ input' \in Inputs /\ clock' \in Nat /\ restarts' \in 0 .. MaxRestarts
      /\ saved'.emitted \subseteq published'
  BY <1>1 DEF BuilderInv
<1> QED
  BY <1>2, <1>3 DEF BuilderInv, StateOK, FactsOK, PendingOK, Timely, Ledger, Reported, Claimed

(* The state a key begins with. *)
LEMMA FreshFacts ==
    ASSUME NEW i \in Inputs
    PROVE  StateOK(Fresh, i) /\ Fresh.emitted = {}
<1>1. PICK o : o = Fresh
  OBVIOUS
<1>2. /\ DOMAIN o = Fields /\ o.pos = 0 /\ o.facts = {} /\ o.maximum = 0 /\ o.active = {}
      /\ o.pending = <<>> /\ o.matchedCandidates = {} /\ o.matchedTerminals = {}
      /\ o.emitted = {} /\ o.timers = {} /\ o.eventTimers = {}
  BY <1>1 DEF Fresh, Fields
<1>3. DOMAIN o.pending = {}
  BY <1>2
<1>4. FactsOK(o, i)
  <2>1. ActiveFiles({}) = {}
    BY DEF ActiveFiles
  <2>2. Cardinality({}) = 0
    BY FS_EmptySet
  <2>3. Len(i) \in Nat /\ MaxFacts \in Nat /\ MaxFiles \in Nat
    BY InputFacts, BuilderAssumption
  <2>4. Cardinality(o.facts) <= MaxFacts /\ Cardinality(o.active) <= MaxFiles /\ o.pos \in 0 .. Len(i)
    BY <1>2, <2>2, <2>3
  <2> QED
    BY <1>2, <2>1, <2>4 DEF FactsOK
<1>5. PendingOK(o)
  <2>1. Cardinality({}) = 0 /\ IsFiniteSet({}) /\ MaxAmbiguous \in Nat
    BY FS_EmptySet, BuilderAssumption
  <2> QED
    BY <1>3, <2>1 DEF PendingOK
<1>6. Timely(o) /\ Ledger(o)
  BY <1>2, <1>3 DEF Timely, Ledger, Distinct
<1>7. Reported(o)
  <2> SUFFICES ASSUME NEW m \in Deterministic({}) PROVE FALSE
    BY <1>2 DEF Reported
  <2>1. Chosen({}, m)
    BY DeterministicFacts
  <2>2. \A ops : Of({}, ops) = {} /\ Ends({}, ops) = {}
    BY DEF Of, Ends
  <2>3. \A f : OfFile({}, f) = {}
    BY DEF OfFile
  <2>4. /\ \A f : DownloadExecute({}, f) = {}
        /\ \A f : SensitiveExfiltration({}, f) = {}
    BY <2>2, <2>3 DEF DownloadExecute, SensitiveExfiltration
  <2>5. /\ Persistence({}) = {} /\ SandboxBreakout({}) = {}
        /\ DestructiveBehavior({}) = {} /\ LateralMovement({}) = {}
    BY <2>2 DEF Persistence, SandboxBreakout, DestructiveBehavior, LateralMovement
  <2> QED
    BY <2>1, <2>4, <2>5 DEF Chosen
<1> QED
  BY <1>1, <1>2, <1>4, <1>5, <1>6, <1>7 DEF StateOK

(* The invariant holds at first. *)
LEMMA BuilderInitHolds == BuilderInit => BuilderInv
<1> SUFFICES ASSUME BuilderInit PROVE BuilderInv
  OBVIOUS
<1>1. StateOK(op, input) /\ StateOK(saved, input) /\ op.emitted = {} /\ saved.emitted = {}
  BY FreshFacts DEF BuilderInit
<1>2. input \in Inputs /\ clock \in Nat /\ restarts \in 0 .. MaxRestarts
  BY BuilderAssumption DEF BuilderInit
<1> QED
  BY <1>1, <1>2 DEF BuilderInv

(* A fact that leaves no trace. *)
LEMMA IgnoreKeeps == BuilderInv /\ Ignore => BuilderInv'
<1> SUFFICES ASSUME BuilderInv, Ignore PROVE BuilderInv'
  OBVIOUS
<1>1. /\ input \in Inputs /\ StateOK(op, input) /\ DOMAIN op = Fields
      /\ op.pos \in 0 .. Len(input) /\ op.emitted \subseteq published \cup buffer
  BY DEF BuilderInv, StateOK, FactsOK
<1>2. HasInput /\ op' = Consumed /\ UNCHANGED <<input, saved, buffer, published, clock, restarts>>
  BY DEF Ignore
<1>3. PICK p : p = Consumed
  OBVIOUS
<1>4. /\ DOMAIN p = Fields /\ p.pos = op.pos + 1
      /\ p.facts = op.facts /\ p.maximum = op.maximum /\ p.active = op.active
      /\ p.pending = op.pending /\ p.timers = op.timers /\ p.eventTimers = op.eventTimers
      /\ p.emitted = op.emitted
      /\ p.matchedCandidates = op.matchedCandidates /\ p.matchedTerminals = op.matchedTerminals
  BY <1>1, <1>3 DEF Consumed, Fields
<1>5. p.pos \in 0 .. Len(input)
  BY <1>1, <1>2, <1>4, InputFacts DEF HasInput
<1>6. StateOK(p, input)
  BY <1>1, <1>4, <1>5 DEF StateOK, FactsOK, PendingOK, Timely, Ledger, Reported, Claimed
<1>7. op' = p
  BY <1>2, <1>3
<1>8. /\ StateOK(op', input) /\ op'.emitted \subseteq published' \cup buffer'
      /\ published \subseteq published' /\ UNCHANGED <<input, saved, clock, restarts>>
  BY <1>1, <1>2, <1>4, <1>6, <1>7
<1> QED
  BY <1>8, OperatorStep

(* A fact that is kept: whatever it completes is put out in the same step. *)
LEMMA KeepKeeps == BuilderInv /\ Keep => BuilderInv'
<1> SUFFICES ASSUME BuilderInv, Keep PROVE BuilderInv'
  OBVIOUS
<1>1. PICK s : s = Arriving
  OBVIOUS
<1>2. /\ HasInput /\ ~ Unadmitted(s)
      /\ buffer' = buffer \cup (op'.emitted \ op.emitted)
      /\ UNCHANGED <<input, saved, published, clock, restarts>>
  BY <1>1 DEF Keep
<1>3. PICK o : o = EmitDeterministic(Kept(s))
  OBVIOUS
<1>4. PICK new : new = NewlyAmbiguous(o)
  OBVIOUS
<1>5. PICK keys \in SUBSET new :
         /\ Cardinality(keys) = IF Cardinality(new) <= Room(o)
                                THEN Cardinality(new) ELSE Room(o)
         /\ op' = Await(o, keys)
  BY <1>1, <1>3, <1>4 DEF Keep
<1>6. /\ input \in Inputs /\ clock \in Nat /\ op.emitted \subseteq published \cup buffer
  BY DEF BuilderInv
<1>7. PICK k : k = Kept(s)
  OBVIOUS
<1>8. FactsOK(k, input) /\ PendingOK(k) /\ Timely(k) /\ Ledger(k) /\ k.emitted = op.emitted
  BY <1>1, <1>2, <1>7, KeptKeeps
<1>9. After(o, k) /\ PendingOK(o) /\ Ledger(o) /\ Reported(o)
  BY <1>3, <1>6, <1>7, <1>8, EmitDeterministicKeeps
<1>10. FactsOK(o, input)
  BY <1>8, <1>9, AfterFacts
<1>11. Timely(o)
  BY <1>8, <1>9 DEF Timely, After
<1>12. StateOK(o, input)
  BY <1>9, <1>10, <1>11 DEF StateOK
<1>13. StateOK(op', input) /\ op'.emitted = o.emitted
  BY <1>4, <1>5, <1>6, <1>12, AwaitKeeps
<1>14. op'.emitted \subseteq published' \cup buffer'
  BY <1>2, <1>6
<1> QED
  BY <1>2, <1>13, <1>14, OperatorStep

(* A processing-time timer: what is due stops waiting and is put out once. *)
LEMMA SettleAmbiguousKeeps == BuilderInv /\ SettleAmbiguous => BuilderInv'
<1> SUFFICES ASSUME BuilderInv, SettleAmbiguous PROVE BuilderInv'
  OBVIOUS
<1>1. PICK t \in op.timers :
         /\ \E o \in {EmitDeterministic([op EXCEPT !.timers = @ \ {t}])} :
            \E due \in {{k \in DOMAIN o.pending : o.pending[k] <= t}} :
               op' = Emit([o EXCEPT !.pending = Without(@, due)],
                          {m \in Incomplete[o.facts] : TerminalKey(m) \in due})
         /\ buffer' = buffer \cup (op'.emitted \ op.emitted)
         /\ UNCHANGED <<input, saved, published, clock, restarts>>
  BY DEF SettleAmbiguous
<1>2. PICK ts : ts = op.timers \ {t}
  OBVIOUS
<1>3. PICK a : a = [op EXCEPT !.timers = ts]
  OBVIOUS
<1>4. PICK o : o = EmitDeterministic(a)
  OBVIOUS
<1>5. PICK due : due = {k \in DOMAIN o.pending : o.pending[k] <= t}
  OBVIOUS
<1>6. PICK q : q = Removed(o, due)
  OBVIOUS
<1>7. PICK M : M = {m \in Incomplete[o.facts] : TerminalKey(m) \in due}
  OBVIOUS
<1>8. op' = Emit(q, M)
  BY <1>1, <1>2, <1>3, <1>4, <1>5, <1>6, <1>7 DEF Removed
<1>9. /\ input \in Inputs /\ FactsOK(op, input) /\ PendingOK(op) /\ Timely(op) /\ Ledger(op)
      /\ op.emitted \subseteq published \cup buffer
  BY DEF BuilderInv, StateOK
<1>10. /\ DOMAIN a = Fields /\ a.timers = ts /\ a.eventTimers = op.eventTimers
       /\ a.pos = op.pos /\ a.facts = op.facts /\ a.maximum = op.maximum /\ a.active = op.active
       /\ a.pending = op.pending /\ a.emitted = op.emitted
       /\ a.matchedCandidates = op.matchedCandidates /\ a.matchedTerminals = op.matchedTerminals
  <2>1. DOMAIN op = Fields
    BY <1>9 DEF FactsOK
  <2> QED
    BY <1>3, <2>1 DEF Fields
<1>11. FactsOK(a, input) /\ PendingOK(a) /\ Ledger(a)
  BY <1>9, <1>10 DEF FactsOK, PendingOK, Ledger
<1>12. After(o, a) /\ PendingOK(o) /\ Ledger(o) /\ Reported(o)
  BY <1>4, <1>9, <1>11, EmitDeterministicKeeps
<1>13. FactsOK(o, input)
  BY <1>11, <1>12, AfterFacts
<1>14. OnePerRule(M) /\ \A m \in M : TerminalKey(m) \in due
  <2>1. o.facts \in SUBSET Signals /\ o.facts \in FactSets
    BY <1>9, <1>13, InputFacts DEF FactsOK
  <2>2. Incomplete[o.facts] = Ambiguous(o.facts) /\ OnePerRule(Ambiguous(o.facts))
    BY <2>1, TableFacts, AmbiguousOnePerRule
  <2> QED
    BY <1>7, <2>2 DEF OnePerRule
<1>15. PICK p : p = Emit(q, M)
  OBVIOUS
<1>16. /\ After(p, o) /\ PendingOK(p) /\ Ledger(p)
       /\ DOMAIN p.pending = DOMAIN o.pending \ due
       /\ \A m : Claimed(o, m) => Claimed(p, m)
  <2>1. DOMAIN o = Fields
    BY <1>12 DEF After
  <2> QED
    BY <1>6, <1>12, <1>14, <1>15, <2>1, SettleAndPutOut
<1>17. FactsOK(p, input)
  BY <1>13, <1>16, AfterFacts
<1>18. Reported(p)
  BY <1>12, <1>16 DEF Reported, After
<1>19. Timely(p)
  <2>1. p.timers = ts /\ ts \subseteq Nat /\ p.eventTimers \subseteq Nat
    BY <1>2, <1>9, <1>10, <1>12, <1>16 DEF After, Timely
  <2>2. ASSUME NEW k \in DOMAIN p.pending PROVE p.pending[k] \in ts
    <3>1. /\ k \in DOMAIN o.pending /\ k \notin due /\ p.pending[k] = o.pending[k]
          /\ o.pending[k] = op.pending[k] /\ k \in DOMAIN op.pending
      BY <1>10, <1>12, <1>16, <2>2 DEF After
    <3>2. op.pending[k] \in op.timers /\ op.pending[k] \in Nat /\ t \in Nat
      BY <1>9, <3>1 DEF Timely
    <3>3. ~ (op.pending[k] <= t)
      BY <1>5, <3>1
    <3>4. op.pending[k] # t
      BY <3>2, <3>3
    <3> QED
      BY <1>2, <3>1, <3>2, <3>4
  <2> QED
    BY <2>1, <2>2 DEF Timely
<1>20. StateOK(op', input)
  BY <1>8, <1>15, <1>16, <1>17, <1>18, <1>19 DEF StateOK
<1>21. op'.emitted \subseteq published' \cup buffer'
  BY <1>1, <1>9
<1> QED
  BY <1>1, <1>20, <1>21, OperatorStep

(* An event-time timer: the older facts go. *)
LEMMA ExpireFactsKeeps == BuilderInv /\ ExpireFacts => BuilderInv'
<1> SUFFICES ASSUME BuilderInv, ExpireFacts PROVE BuilderInv'
  OBVIOUS
<1>1. PICK t \in op.eventTimers :
         /\ \E s \in op.facts : Time(s) < t
         /\ op' = Pruned([op EXCEPT !.eventTimers = {u \in @ : u > t}], t)
         /\ UNCHANGED <<input, saved, buffer, published, clock, restarts>>
  BY DEF ExpireFacts
<1>2. PICK ev : ev = {u \in op.eventTimers : u > t}
  OBVIOUS
<1>3. PICK o : o = [op EXCEPT !.eventTimers = ev]
  OBVIOUS
<1>4. op' = Pruned(o, t)
  BY <1>1, <1>2, <1>3
<1>5. /\ input \in Inputs /\ FactsOK(op, input) /\ PendingOK(op) /\ Timely(op) /\ Ledger(op)
      /\ Reported(op) /\ op.emitted \subseteq published \cup buffer
  BY DEF BuilderInv, StateOK
<1>6. t \in Int /\ ev \subseteq Nat
  BY <1>2, <1>5 DEF Timely
<1>7. /\ DOMAIN o = Fields /\ o.timers = op.timers /\ o.eventTimers = ev
      /\ o.pos = op.pos /\ o.facts = op.facts /\ o.maximum = op.maximum /\ o.active = op.active
      /\ o.pending = op.pending /\ o.emitted = op.emitted
      /\ o.matchedCandidates = op.matchedCandidates /\ o.matchedTerminals = op.matchedTerminals
  <2>1. DOMAIN op = Fields
    BY <1>5 DEF FactsOK
  <2> QED
    BY <1>3, <2>1 DEF Fields
<1>8. FactsOK(o, input) /\ Loose(o, input) /\ PendingOK(o) /\ Timely(o) /\ Ledger(o) /\ Reported(o)
  BY <1>5, <1>6, <1>7 DEF FactsOK, Loose, PendingOK, Timely, Ledger, Reported, Claimed
<1>9. o.facts \in SUBSET Signals /\ o.active = ActiveFiles(o.facts)
  BY <1>5, <1>8, InputFacts DEF FactsOK
<1>10. PICK p : p = Pruned(o, t)
  OBVIOUS
<1>11. Cut(p, o)
  BY <1>6, <1>7, <1>9, <1>10, PrunedCut
<1>12. Cardinality(p.facts) <= MaxFacts
  <2>1. p.facts \in SUBSET o.facts
    BY <1>11 DEF Cut, Suffix
  <2>2. IsFiniteSet(o.facts) /\ Cardinality(o.facts) \in Nat /\ MaxFacts \in Nat
    BY <1>9, FactsFinite, BuilderAssumption
  <2>3. Cardinality(p.facts) <= Cardinality(o.facts) /\ Cardinality(p.facts) \in Nat
    BY <2>1, <2>2, FS_Subset, FS_CardinalityType
  <2>4. Cardinality(o.facts) <= MaxFacts
    BY <1>8 DEF FactsOK
  <2> QED
    BY <2>2, <2>3, <2>4
<1>13. FactsOK(p, input) /\ PendingOK(p) /\ Timely(p) /\ Ledger(p) /\ Reported(p)
  BY <1>5, <1>8, <1>11, <1>12, CutKeeps
<1>14. StateOK(op', input) /\ op'.emitted = op.emitted
  BY <1>4, <1>7, <1>10, <1>11, <1>13 DEF StateOK, Cut
<1>15. op'.emitted \subseteq published' \cup buffer'
  BY <1>1, <1>5, <1>14
<1> QED
  BY <1>1, <1>14, <1>15, OperatorStep

(* A checkpoint, a restart and the passing of time. *)
LEMMA JobKeeps == BuilderInv /\ (Checkpoint \/ Restart \/ TimePasses) => BuilderInv'
<1> SUFFICES ASSUME BuilderInv, Checkpoint \/ Restart \/ TimePasses PROVE BuilderInv'
  OBVIOUS
<1>1. /\ input \in Inputs /\ clock \in Nat /\ restarts \in 0 .. MaxRestarts
      /\ StateOK(op, input) /\ StateOK(saved, input)
      /\ op.emitted \subseteq published \cup buffer /\ saved.emitted \subseteq published
      /\ MaxRestarts \in Nat
  BY BuilderAssumption DEF BuilderInv
<1>2. CASE Checkpoint
  <2>1. /\ saved' = op /\ published' = published \cup buffer /\ buffer' = {}
        /\ input' = input /\ op' = op /\ clock' = clock /\ restarts' = restarts
    BY <1>2 DEF Checkpoint
  <2>2. op'.emitted \subseteq published' \cup buffer' /\ saved'.emitted \subseteq published'
    BY <1>1, <2>1
  <2>3. StateOK(op', input') /\ StateOK(saved', input')
    BY <1>1, <2>1
  <2> QED
    BY <1>1, <2>1, <2>2, <2>3
       DEF BuilderInv, StateOK, FactsOK, PendingOK, Timely, Ledger, Reported, Claimed
<1>3. CASE Restart
  <2>1. /\ restarts < MaxRestarts /\ restarts' = restarts + 1 /\ op' = saved
        /\ published \subseteq published' /\ input' = input /\ saved' = saved /\ clock' = clock
    BY <1>3 DEF Restart
  <2>2. op'.emitted \subseteq published' \cup buffer' /\ saved'.emitted \subseteq published'
    BY <1>1, <2>1
  <2>3. StateOK(op', input') /\ StateOK(saved', input') /\ restarts' \in 0 .. MaxRestarts
    BY <1>1, <2>1
  <2> QED
    BY <1>1, <2>1, <2>2, <2>3
       DEF BuilderInv, StateOK, FactsOK, PendingOK, Timely, Ledger, Reported, Claimed
<1>4. CASE TimePasses
  <2>1. clock' = clock + 1 /\ UNCHANGED <<input, op, saved, buffer, published, restarts>>
    BY <1>4 DEF TimePasses
  <2>2. clock' \in Nat
    BY <1>1, <2>1
  <2> QED
    BY <1>1, <2>1, <2>2
       DEF BuilderInv, StateOK, FactsOK, PendingOK, Timely, Ledger, Reported, Claimed
<1> QED
  BY <1>2, <1>3, <1>4

(* Every step of the job keeps the invariant. *)
LEMMA BuilderNextKeeps == BuilderInv /\ [BuilderNext]_builderVars => BuilderInv'
<1> SUFFICES ASSUME BuilderInv, [BuilderNext]_builderVars PROVE BuilderInv'
  OBVIOUS
<1>1. CASE UNCHANGED builderVars
  BY <1>1 DEF builderVars, BuilderInv, StateOK, FactsOK, PendingOK, Timely, Ledger, Reported, Claimed
<1> QED
  BY <1>1, IgnoreKeeps, KeepKeeps, SettleAmbiguousKeeps, ExpireFactsKeeps, JobKeeps
     DEF BuilderNext

(* Whatever the input, the timers and the restarts, every state of the builder is well
   formed, and each complete chain of the facts it keeps has been answered. *)
THEOREM BuilderInductive == BuilderSpec => []BuilderInv
BY BuilderInitHolds, BuilderNextKeeps, PTL DEF BuilderSpec

(* The bounds hold, the active files are those of the kept seeds, and whatever waits
   for more evidence has a timer. *)
THEOREM BuilderTypeCorrect == BuilderSpec => []BuilderTypeOK
<1>1. BuilderInv => BuilderTypeOK
  <2> SUFFICES ASSUME BuilderInv PROVE BuilderTypeOK
    OBVIOUS
  <2>1. input \in Inputs /\ clock \in Nat /\ restarts \in 0 .. MaxRestarts /\ saved.emitted \subseteq published
    BY DEF BuilderInv
  <2>2. ASSUME NEW o, StateOK(o, input)
        PROVE  /\ o.pos \in 0 .. Len(input)
               /\ o.facts \subseteq Signals /\ Cardinality(o.facts) <= MaxFacts
               /\ o.active = ActiveFiles(o.facts) /\ Cardinality(o.active) <= MaxFiles
               /\ Cardinality(DOMAIN o.pending) <= MaxAmbiguous
               /\ \A k \in DOMAIN o.pending : o.pending[k] \in o.timers
               /\ \A s \in o.facts : Time(s) <= o.maximum
    BY <2>1, <2>2, InputFacts DEF StateOK, FactsOK, PendingOK, Timely
  <2> QED
    BY <2>1, <2>2 DEF BuilderTypeOK, BuilderInv
<1> QED
  BY <1>1, BuilderInductive, PTL

(* Of the episodes of one history no two share a candidate or a terminal, nothing waits
   for a terminal that is over, and no terminal is closed by an episode that is lost. *)
THEOREM OneEpisodePerTerminalHolds == BuilderSpec => []OneEpisodePerTerminal
<1>1. BuilderInv => OneEpisodePerTerminal
  <2> SUFFICES ASSUME BuilderInv PROVE OneEpisodePerTerminal
    OBVIOUS
  <2>1. Ledger(op) /\ op.emitted \subseteq published \cup buffer
    BY DEF BuilderInv, StateOK
  <2>2. \A k \in op.matchedTerminals : \E e \in published \cup buffer : TerminalKey(e) = k
    BY <2>1 DEF Ledger
  <2> QED
    BY <2>1, <2>2 DEF OneEpisodePerTerminal, Ledger, Distinct
<1> QED
  BY <1>1, BuilderInductive, PTL

(* The end and the beginning of a chain of four, *)
LEMMA FourParts ==
    ASSUME NEW a, NEW b, NEW c, NEW x
    PROVE  /\ Len(<<a, b, c, x>>) = 4 /\ <<a, b, c, x>>[4] = x
           /\ SubSeq(<<a, b, c, x>>, 1, 3) = <<a, b, c>>
<1>1. Len(<<a, b, c, x>>) = 4 /\ <<a, b, c, x>>[4] = x
  OBVIOUS
<1>2. SubSeq(<<a, b, c, x>>, 1, 3) = <<a, b, c>>
  <2>1. PICK s : s = <<a, b, c, x>>
    OBVIOUS
  <2>2. PICK t : t = SubSeq(s, 1, 3)
    OBVIOUS
  <2>3. s \in Seq({a, b, c, x}) /\ Len(s) = 4 /\ s[1] = a /\ s[2] = b /\ s[3] = c
    BY <2>1
  <2>4. t \in Seq({a, b, c, x}) /\ Len(t) = 3 /\ t[1] = a /\ t[2] = b /\ t[3] = c
    BY <2>2, <2>3
  <2>5. t = <<a, b, c>>
    BY <2>4
  <2> QED
    BY <2>1, <2>2, <2>5
<1> QED
  BY <1>1, <1>2

(* and of one of three. *)
LEMMA ThreeParts ==
    ASSUME NEW a, NEW b, NEW x
    PROVE  /\ Len(<<a, b, x>>) = 3 /\ <<a, b, x>>[3] = x
           /\ SubSeq(<<a, b, x>>, 1, 2) = <<a, b>>
<1>1. Len(<<a, b, x>>) = 3 /\ <<a, b, x>>[3] = x
  OBVIOUS
<1>2. SubSeq(<<a, b, x>>, 1, 2) = <<a, b>>
  <2>1. PICK s : s = <<a, b, x>>
    OBVIOUS
  <2>2. PICK t : t = SubSeq(s, 1, 2)
    OBVIOUS
  <2>3. s \in Seq({a, b, x}) /\ Len(s) = 3 /\ s[1] = a /\ s[2] = b
    BY <2>1
  <2>4. t \in Seq({a, b, x}) /\ Len(t) = 2 /\ t[1] = a /\ t[2] = b
    BY <2>2, <2>3
  <2>5. t = <<a, b>>
    BY <2>4
  <2> QED
    BY <2>1, <2>2, <2>5
<1> QED
  BY <1>1, <1>2

(* Wherever the kept facts hold a complete chain of a file, walking backwards without a
   second try has found one, and it or its terminal is accounted for. *)
THEOREM KeptChainIsAlwaysClaimed == BuilderSpec => []KeptChainIsClaimed
<1>1. BuilderInv => KeptChainIsClaimed
  <2> SUFFICES ASSUME BuilderInv PROVE KeptChainIsClaimed
    OBVIOUS
  <2>1. PICK F : F = op.facts
    OBVIOUS
  <2>2. F \in SUBSET Signals /\ F \in FactSets /\ Reported(op)
    BY <2>1, InputFacts DEF BuilderInv, StateOK, FactsOK
  <2>3. KeptChains[F] = {k \in ChainsOf(F) : k[4] # {}}
    BY <2>2, TableFacts
  <2>4. SUFFICES ASSUME NEW k \in ChainsOf(F), k[4] # {}
                 PROVE  \/ <<k[1], k[2], k[3]>> \in op.matchedTerminals
                        \/ \E c \in k[4] : <<k[1], k[2], c>> \in op.matchedCandidates
    BY <2>1, <2>3 DEF KeptChainIsClaimed
  <2>5. PICK f \in Files :
           \/ \E x \in Ends(OfFile(F, f), {"execute"}) :
                 k = <<"download_execute", f, x, DownloadChains(F, f, x)>>
           \/ \E x \in Ends(F, {"egress"}) :
                 k = <<"sensitive_data_exfiltration", f, x, ExfiltrationChains(F, f, x)>>
    BY <2>4 DEF ChainsOf
  <2>6. CASE \E x \in Ends(OfFile(F, f), {"execute"}) :
                 k = <<"download_execute", f, x, DownloadChains(F, f, x)>>
    <3>1. PICK x \in Ends(OfFile(F, f), {"execute"}) :
                 k = <<"download_execute", f, x, DownloadChains(F, f, x)>>
      BY <2>6
    <3>2. /\ k[1] = "download_execute" /\ k[2] = f /\ k[3] = x
          /\ k[4] = DownloadChains(F, f, x)
      BY <3>1
    <3>3. PICK c : c \in DownloadChains(F, f, x)
      BY <2>4, <3>2
    <3>4. PICK g \in DownloadExecute(F, f) :
              /\ g = <<g[1], g[2], g[3], x>>
              /\ <<g[1], g[2], g[3]>> \in DownloadChains(F, f, x)
      BY <2>2, <3>1, <3>3, DownloadFound
    <3>5. PICK m : m = Match("download_execute", f, g, "rule")
      OBVIOUS
    <3>6. m.type = "download_execute" /\ m.entity = f /\ m.evidence = g
      BY <3>5 DEF Match
    <3>7. Chosen(F, m)
      BY <3>4, <3>5, <3>6 DEF Chosen
    <3>8. Claimed(op, m)
      BY <2>1, <2>2, <3>7, DeterministicFacts DEF Reported
    <3>9. Len(g) = 4 /\ g[4] = x /\ SubSeq(g, 1, 3) = <<g[1], g[2], g[3]>>
      <4> DEFINE a == g[1]
      <4> DEFINE b == g[2]
      <4> DEFINE d == g[3]
      <4>1. g = <<a, b, d, x>>
        BY <3>4
      <4> HIDE DEF a, b, d
      <4>2. /\ Len(<<a, b, d, x>>) = 4 /\ <<a, b, d, x>>[4] = x
            /\ SubSeq(<<a, b, d, x>>, 1, 3) = <<a, b, d>>
        BY FourParts, Zenon
      <4>3. Len(g) = 4 /\ g[4] = x /\ SubSeq(g, 1, 3) = <<a, b, d>>
        BY <4>1, <4>2, Zenon
      <4> QED
        BY <4>3 DEF a, b, d
    <3>10. TerminalKey(m) = <<"download_execute", f, x>>
      BY <3>6, <3>9 DEF TerminalKey, Terminal
    <3>11. CandidateKey(m) = <<"download_execute", f, <<g[1], g[2], g[3]>> >>
      BY <3>6, <3>9 DEF CandidateKey
    <3> QED
      BY <3>2, <3>4, <3>8, <3>10, <3>11 DEF Claimed
  <2>7. CASE \E x \in Ends(F, {"egress"}) :
                 k = <<"sensitive_data_exfiltration", f, x, ExfiltrationChains(F, f, x)>>
    <3>1. PICK x \in Ends(F, {"egress"}) :
                 k = <<"sensitive_data_exfiltration", f, x, ExfiltrationChains(F, f, x)>>
      BY <2>7
    <3>2. /\ k[1] = "sensitive_data_exfiltration" /\ k[2] = f /\ k[3] = x
          /\ k[4] = ExfiltrationChains(F, f, x)
      BY <3>1
    <3>3. PICK c : c \in ExfiltrationChains(F, f, x)
      BY <2>4, <3>2
    <3>4. PICK g \in SensitiveExfiltration(F, f) :
              /\ g = <<g[1], g[2], x>>
              /\ <<g[1], g[2]>> \in ExfiltrationChains(F, f, x)
      BY <2>2, <3>1, <3>3, ExfiltrationFound
    <3>5. PICK m : m = Match("sensitive_data_exfiltration", f, g, "rule")
      OBVIOUS
    <3>6. m.type = "sensitive_data_exfiltration" /\ m.entity = f /\ m.evidence = g
      BY <3>5 DEF Match
    <3>7. Chosen(F, m)
      BY <3>4, <3>5, <3>6 DEF Chosen
    <3>8. Claimed(op, m)
      BY <2>1, <2>2, <3>7, DeterministicFacts DEF Reported
    <3>9. Len(g) = 3 /\ g[3] = x /\ SubSeq(g, 1, 2) = <<g[1], g[2]>>
      <4> DEFINE a == g[1]
      <4> DEFINE b == g[2]
      <4>1. g = <<a, b, x>>
        BY <3>4
      <4> HIDE DEF a, b
      <4>2. Len(g) = 3 /\ g[3] = x /\ SubSeq(g, 1, 2) = <<a, b>>
        BY <4>1, ThreeParts
      <4> QED
        BY <4>2 DEF a, b
    <3>10. TerminalKey(m) = <<"sensitive_data_exfiltration", f, x>>
      BY <3>6, <3>9 DEF TerminalKey, Terminal
    <3>11. CandidateKey(m) = <<"sensitive_data_exfiltration", f, <<g[1], g[2]>> >>
      BY <3>6, <3>9 DEF CandidateKey
    <3> QED
      BY <3>2, <3>4, <3>8, <3>10, <3>11 DEF Claimed
  <2> QED
    BY <2>5, <2>6, <2>7
<1> QED
  BY <1>1, BuilderInductive, PTL
=============================================================================
