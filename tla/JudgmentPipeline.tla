-------------------------- MODULE JudgmentPipeline --------------------------
(***************************************************************************)
(* Asynchronous judgment of one retained event: the fast worker (L1, L2),  *)
(* the L3 worker (worker-main.ts), the three queues between them and the   *)
(* API, and the API's application of results (DecisionResultApplyService,  *)
(* applyAsyncResult of sentry-judge.service.ts).                           *)
(*                                                                         *)
(* Nothing here depends on two events, so one is enough.  It starts where  *)
(* IngestBatch leaves it: revision 1 is durable and pending, and the fast  *)
(* job is queued.  A queue job runs from one await to the next in a step.  *)
(*                                                                         *)
(* External: BullMQ (an add is a no-op while a job with the identifier     *)
(* exists in any state, a failed run is retried up to a number of attempts, *)
(* a job of a dead worker stalls and is run again), Redis, ClickHouse (an  *)
(* insert that resolves is durable, see EventWriteQueue), PostgreSQL.      *)
(*                                                                         *)
(* Left out: the alert about a failed judgment (observeJudgmentResult), the *)
(* streaming outbox, job retention, a policy change between a batch and its *)
(* replay (it evaluates the event a second time), a lease of the ledger    *)
(* that a crash leaves behind (AlertEffects has the leases), and events of *)
(* a writer without the idempotency protocol, which are in no ledger.      *)
(***************************************************************************)
EXTENDS Integers, FiniteSets, Sequences, SequencesExt

CONSTANTS
    Attempts,           \* Attempts[q]: attempts option of the jobs of a queue
    MaxStalled,         \* external: runs of a job that may stall
    Faulty,             \* bound: places <<process, step>> that may fail
    MaxFaults           \* bound: number of failures

Workers == {"fast", "l3"}
Stages  == {"L1", "L2", "L3"}

(* A job of a worker, or a result job: its identifier ends in its stage.   *)
Jobs == Workers \cup Stages

(* The steps of the processes where a call can fail or the process can die. *)
Places == (Workers \X {"judge", "add", "publish", "cache", "report"})
              \cup ({"api"} \X {"persist", "effects", "process"})

ASSUME PipelineAssumption ==
    /\ Attempts \in [Jobs -> Nat \ {0}]
    /\ MaxStalled \in Nat
    /\ Faulty \subseteq Places
    /\ MaxFaults \in Nat

VARIABLES
    sourced,    \* the row carries the digest of the observer's payload
    job,        \* job[j]: state of a BullMQ job
    pc,         \* pc[w]: where a worker is in its job
    draft,      \* draft[w]: the result a worker is about to publish
    computed,   \* Redis anysentry:l3:computed
    result,     \* result[s]: payload of a result job
    clock,      \* time of the last completedAt
    locks,      \* resultApplyLocks: result jobs in the order they chained
    apply,      \* the result being applied, and its row
    mem,        \* storeById: the event in the hot ring
    digests,    \* committedEventRevisionDigests: revision to digest
    durable,    \* ClickHouse: the rows of the event
    effects,    \* committed incident-alert effects, by the row they are for
    overlooked, \* history variable, which no guard reads: a result took its
                \* revision while memory lacked a decision in ClickHouse
    faults      \* counter for the bound

queues  == <<job, result>>
workers == <<pc, draft, computed, clock>>
api     == <<locks, apply, mem, digests, overlooked>>
stores  == <<durable, effects>>
vars    == <<sourced, queues, workers, api, stores, faults>>

NoJob    == [state |-> "none", made |-> 0, stalled |-> 0]
NoResult == [stage |-> "none", status |-> "none", verdict |-> "none",
             awaitingL3 |-> FALSE, at |-> 0]

(* A result of a judge that returned, and of one that did not.             *)
Judged(stage, verdict, awaiting) ==
    [stage |-> stage, status |-> "succeeded", verdict |-> verdict,
     awaitingL3 |-> awaiting, at |-> 0]
Failed(stage) == [Judged(stage, "none", FALSE) EXCEPT !.status = "failed"]

NoRow   == [rev |-> 0, at |-> 0, stage |-> "none", status |-> "none",
            verdict |-> "none"]
Pending == [rev |-> 1, at |-> 0, stage |-> "none", status |-> "pending",
            verdict |-> "escalate"]

NoApply == [step |-> "idle", row |-> NoRow]

Init ==
    /\ sourced \in BOOLEAN
    /\ job = [j \in Jobs |-> IF j = "fast" THEN [NoJob EXCEPT !.state = "waiting"]
                             ELSE NoJob]
    /\ pc = [w \in Workers |-> "idle"]
    /\ draft = [w \in Workers |-> NoResult]
    /\ computed = NoResult
    /\ result = [s \in Stages |-> NoResult]
    /\ clock = 0
    /\ locks = <<>> /\ apply = NoApply
    /\ mem = Pending /\ digests = [rev \in {} |-> "none"]
    /\ durable = {Pending} /\ effects = {} /\ overlooked = FALSE
    /\ faults = 0
-----------------------------------------------------------------------------
(* BullMQ.                                                                 *)

Fault(process, step) ==
    /\ <<process, step>> \in Faulty
    /\ faults < MaxFaults
    /\ faults' = faults + 1

Take(j) ==
    /\ job[j].state = "waiting"
    /\ job' = [job EXCEPT ![j].state = "active"]

Added(jobs, j) ==
    IF jobs[j].state = "none" THEN [jobs EXCEPT ![j].state = "waiting"] ELSE jobs

(* A job that is done keeps its identifier; its counts are not read again. *)
Completed(jobs, j) == [jobs EXCEPT ![j] = [NoJob EXCEPT !.state = "done"]]

Retried(jobs, j) ==
    [jobs EXCEPT ![j].made = @ + 1,
                 ![j].state = IF jobs[j].made + 1 >= Attempts[j] THEN "failed"
                              ELSE "waiting"]

Stalled(jobs, j) ==
    [jobs EXCEPT ![j].stalled = @ + 1,
                 ![j].state = IF jobs[j].stalled >= MaxStalled THEN "failed"
                              ELSE "waiting"]

(* finalAttempt.                                                           *)
FinalAttempt(w) == job[w].made + 1 >= Attempts[w]
-----------------------------------------------------------------------------
(* The workers.                                                            *)

TakeJob(w) ==
    /\ Take(w)
    /\ pc' = [pc EXCEPT ![w] = "judge"]
    /\ UNCHANGED <<sourced, result, draft, computed, clock, api, stores, faults>>

(* fastJudge up to a decision: L1 is final, L2 is final, L2 escalates and  *)
(* there is no L3, or L2 escalates to L3.                                  *)
FastOutcomes ==
    {Judged("L1", v, FALSE) : v \in {"allow", "block"}}
        \cup {Judged("L2", v, FALSE) : v \in {"allow", "block", "escalate"}}
        \cup {Judged("L2", "escalate", TRUE)}

FastJudge(outcome) ==
    /\ pc["fast"] = "judge"
    /\ draft' = [draft EXCEPT !["fast"] = outcome]
    /\ pc' = [pc EXCEPT !["fast"] = IF outcome.awaitingL3 THEN "add" ELSE "publish"]
    /\ UNCHANGED <<sourced, queues, computed, clock, api, stores, faults>>

AddL3 ==
    /\ pc["fast"] = "add"
    /\ job' = Added(job, "l3")
    /\ pc' = [pc EXCEPT !["fast"] = "publish"]
    /\ UNCHANGED <<sourced, result, draft, computed, clock, api, stores, faults>>

(* l3Judge finds the result an earlier attempt computed.                   *)
L3Cached ==
    /\ pc["l3"] = "judge" /\ computed # NoResult
    /\ draft' = [draft EXCEPT !["l3"] = computed]
    /\ pc' = [pc EXCEPT !["l3"] = "publish"]
    /\ UNCHANGED <<sourced, queues, computed, clock, api, stores, faults>>

(* l3Judge runs the agent; completedAt is read when it answers.            *)
L3Judge(verdict) ==
    /\ pc["l3"] = "judge" /\ computed = NoResult
    /\ clock' = clock + 1
    /\ draft' = [draft EXCEPT !["l3"] =
           [Judged("L3", verdict, FALSE) EXCEPT !.at = clock + 1]]
    /\ pc' = [pc EXCEPT !["l3"] = "cache"]
    /\ UNCHANGED <<sourced, queues, computed, api, stores, faults>>

L3Cache ==
    /\ pc["l3"] = "cache"
    /\ computed' = draft["l3"]
    /\ pc' = [pc EXCEPT !["l3"] = "publish"]
    /\ UNCHANGED <<sourced, queues, draft, clock, api, stores, faults>>

(* completedAt of a fast result is read in the call of publishResult.      *)
Stamped(w) == IF w = "fast" THEN [draft[w] EXCEPT !.at = clock + 1] ELSE draft[w]
Tick(w)    == clock' = IF w = "fast" THEN clock + 1 ELSE clock

(* The result job comes into being, unless one of its stage exists.        *)
Enqueued(r) ==
    IF job[r.stage].state = "none" THEN [result EXCEPT ![r.stage] = r] ELSE result

Leave(w) ==
    /\ pc' = [pc EXCEPT ![w] = "idle"]
    /\ draft' = [draft EXCEPT ![w] = NoResult]

PublishResult(w) ==
    /\ pc[w] = "publish"
    /\ Tick(w)
    /\ result' = Enqueued(Stamped(w))
    /\ job' = Completed(Added(job, draft[w].stage), w)
    /\ Leave(w)
    /\ UNCHANGED <<sourced, computed, api, stores, faults>>

(* Mutant: the last attempt ends without a result.                         *)
ThrowSilently(w, jobs) ==
    /\ job' = IF FinalAttempt(w) THEN Completed(jobs, w) ELSE Retried(jobs, w)
    /\ Leave(w)

(* The catch block: the last attempt goes on to report the failure.        *)
Throw(w, jobs) ==
    IF FinalAttempt(w)
    THEN /\ pc' = [pc EXCEPT ![w] = "report"]
         /\ draft' = [draft EXCEPT ![w] = NoResult]
         /\ job' = jobs
    ELSE /\ job' = Retried(jobs, w)
         /\ Leave(w)

(* A judge, a queue or Redis call fails; an add may have arrived or not.   *)
CallFails(w) ==
    /\ pc[w] \in {"judge", "add", "publish", "cache"}
    /\ Fault(w, pc[w])
    /\ \/ Throw(w, job) /\ UNCHANGED <<result, clock>>
       \/ pc[w] = "add" /\ Throw(w, Added(job, "l3")) /\ UNCHANGED <<result, clock>>
       \/ /\ pc[w] = "publish"
          /\ Tick(w)
          /\ result' = Enqueued(Stamped(w))
          /\ Throw(w, Added(job, draft[w].stage))
    /\ UNCHANGED <<sourced, computed, api, stores>>

Failure(w) == [Failed(IF w = "fast" THEN "L2" ELSE "L3") EXCEPT !.at = clock + 1]

(* The last attempt publishes the failure and the job counts as complete.  *)
ReportFailure(w) ==
    /\ pc[w] = "report"
    /\ clock' = clock + 1
    /\ result' = Enqueued(Failure(w))
    /\ job' = Completed(Added(job, Failure(w).stage), w)
    /\ Leave(w)
    /\ UNCHANGED <<sourced, computed, api, stores, faults>>

ReportFails(w) ==
    /\ pc[w] = "report"
    /\ Fault(w, "report")
    /\ job' = Retried(job, w)
    /\ Leave(w)
    /\ UNCHANGED <<sourced, result, computed, clock, api, stores>>

(* The worker process dies at any of its awaits.                           *)
WorkerDies(w) ==
    /\ pc[w] # "idle"
    /\ Fault(w, pc[w])
    /\ job' = Stalled(job, w)
    /\ Leave(w)
    /\ UNCHANGED <<sourced, result, computed, clock, api, stores>>
-----------------------------------------------------------------------------
(* The API: applyAsyncResult, one result of the event at a time.           *)

HasLock(s) == locks # <<>> /\ Head(locks) = s

TakeResult(s) ==
    /\ Take(s)
    /\ locks' = Append(locks, s)
    /\ UNCHANGED <<sourced, result, workers, apply, mem, digests, overlooked, stores,
                   faults>>

(* Mutant: the order of results is not looked at.                          *)
NeverStale(r) == r.stage = "none"

(* The event already has the decision of this result or of a later one.    *)
Stale(r) == mem # NoRow /\ mem.rev > 1 /\ mem.at >= r.at

(* Mutant: the revision of the payload, not of the event in memory.        *)
RevisionOfPayload(r) == Pending.rev + 1

MemRevision == IF mem # NoRow THEN mem.rev ELSE Pending.rev
Revision(r) == MemRevision + 1

(* The revision it takes is that of a decision, or an earlier one.  Memory *)
(* lacks the decision: evicted, not hydrated, or a replay put the pending  *)
(* event in its place.                                                     *)
Behind == \E row \in durable : row.rev > MemRevision

(* A failure keeps the verdict the event has.                              *)
NextRow(r) ==
    [rev |-> Revision(r), at |-> r.at, stage |-> r.stage,
     status |-> IF r.awaitingL3 THEN "pending" ELSE r.status,
     verdict |-> IF r.status = "succeeded" THEN r.verdict
                 ELSE IF mem # NoRow THEN mem.verdict ELSE Pending.verdict]

EndApply(s) ==
    /\ locks' = Tail(locks)
    /\ apply' = NoApply

Apply(s) ==
    /\ HasLock(s) /\ apply = NoApply
    /\ IF Stale(result[s])
       THEN EndApply(s) /\ job' = Completed(job, s) /\ UNCHANGED overlooked
       ELSE /\ apply' = [step |-> "persist", row |-> NextRow(result[s])]
            /\ overlooked' = (overlooked \/ Behind)
            /\ UNCHANGED <<locks, job>>
    /\ UNCHANGED <<sourced, result, workers, mem, digests, stores, faults>>

(* eventRevisionDigest: the payload's digest stands for the whole row.     *)
Digest(row) == IF sourced THEN "source" ELSE row

(* assertEventRevisionConsistency, and what insertManyNow filters out.     *)
Committed(row)  == row.rev \in DOMAIN digests /\ digests[row.rev] = Digest(row)
Conflicts(row)  == row.rev \in DOMAIN digests /\ digests[row.rev] # Digest(row)
Inserted(row)   == IF Committed(row) THEN durable ELSE durable \cup {row}
Remembered(row) == [rev \in DOMAIN digests \cup {row.rev} |->
                        IF rev = row.rev THEN Digest(row) ELSE digests[rev]]

(* upsertMemory: isNewerEventRevision.                                     *)
Upsert(row) == IF mem = NoRow \/ row.rev > mem.rev THEN row ELSE mem

(* upsertDurableMemory: the result asks for incidents and alerts.          *)
HasEffects(row) == row.status = "succeeded" /\ row.verdict # "allow"

(* The revision is durable; what follows up to the ledger has no await.    *)
Persist(s) ==
    /\ HasLock(s) /\ apply.step = "persist"
    /\ ~Conflicts(apply.row)
    /\ durable' = Inserted(apply.row)
    /\ digests' = Remembered(apply.row)
    /\ mem' = Upsert(apply.row)
    /\ IF mem' # mem /\ HasEffects(apply.row)
       THEN apply' = [apply EXCEPT !.step = "effects"] /\ UNCHANGED <<locks, job>>
       ELSE EndApply(s) /\ job' = Completed(job, s)
    /\ UNCHANGED <<sourced, result, workers, overlooked, effects, faults>>

(* Mutant: the error is logged and the result job completes.               *)
PersistFailsSwallowed(s) ==
    /\ HasLock(s) /\ apply.step = "persist"
    /\ Fault("api", "persist")
    /\ job' = Completed(job, s)
    /\ EndApply(s)
    /\ UNCHANGED <<sourced, result, workers, mem, digests, overlooked, stores>>

PersistFails(s) ==
    /\ HasLock(s) /\ apply.step = "persist"
    /\ \/ Conflicts(apply.row) /\ UNCHANGED faults
       \/ Fault("api", "persist")
    /\ job' = Retried(job, s)
    /\ EndApply(s)
    /\ UNCHANGED <<sourced, result, workers, mem, digests, overlooked, stores>>

(* The ledger has one entry per revision of the event, with the identity   *)
(* (eventRevisionIdentity) of the row it was applied for.                  *)
InLedger(row) == \E e \in effects : e.rev = row.rev
Refused(row)  == \E e \in effects : e.rev = row.rev /\ Digest(e) # Digest(row)
Applied(row)  == IF InLedger(row) THEN effects ELSE effects \cup {row}

(* applyDurableBusinessEffects.                                            *)
CommitEffects(s) ==
    /\ HasLock(s) /\ apply.step = "effects"
    /\ ~Refused(apply.row)
    /\ effects' = Applied(apply.row)
    /\ job' = Completed(job, s)
    /\ EndApply(s)
    /\ UNCHANGED <<sourced, result, workers, mem, digests, overlooked, durable, faults>>

EffectsFail(s) ==
    /\ HasLock(s) /\ apply.step = "effects"
    /\ \/ Refused(apply.row) /\ UNCHANGED faults
       \/ Fault("api", "effects")
    /\ job' = Retried(job, s)
    /\ EndApply(s)
    /\ UNCHANGED <<sourced, result, workers, mem, digests, overlooked, stores>>

(* ClickHouse's argMax over (decisionRevision, decisionUpdatedAt).         *)
IsLatest(row) ==
    /\ row \in durable
    /\ \A other \in durable :
           other.rev < row.rev \/ (other.rev = row.rev /\ other.at <= row.at)

(* hydrate takes the latest revision, if the event is in the warm slice of *)
(* the latest events.                                                      *)
Hydrate ==
    \E row \in durable' : IsLatest(row)' /\ mem' \in {row, NoRow}

(* The API restarts.  What it was writing may have arrived.                *)
Restart ==
    /\ Fault("api", "process")
    /\ \/ UNCHANGED stores
       \/ /\ apply.step = "persist" /\ ~Conflicts(apply.row)
          /\ durable' = Inserted(apply.row) /\ UNCHANGED effects
       \/ /\ apply.step = "effects" /\ ~Refused(apply.row)
          /\ effects' = Applied(apply.row) /\ UNCHANGED durable
    /\ Hydrate
    /\ job' = [j \in Jobs |-> IF j \in Range(locks) THEN Stalled(job, j)[j] ELSE job[j]]
    /\ locks' = <<>> /\ apply' = NoApply
    /\ digests' = [rev \in {} |-> "none"]
    /\ UNCHANGED <<sourced, result, workers, overlooked>>

(* hotEvictionIndices picks the event, whatever its revision: decided and  *)
(* allowed ones first, the others beyond the protected reserve.            *)
Evict ==
    /\ mem # NoRow
    /\ mem' = NoRow
    /\ UNCHANGED <<sourced, queues, workers, locks, apply, digests, overlooked, stores,
                   faults>>

(* The digest cache is full of other events' revisions.                    *)
Forget ==
    /\ \E rev \in DOMAIN digests : digests' = Restrict(digests, DOMAIN digests \ {rev})
    /\ UNCHANGED <<sourced, queues, workers, locks, apply, mem, overlooked, stores, faults>>

(* A forwarder sends the batch again: commitPreparedBatch passes over an   *)
(* event it has, enqueueFastBatch over a job that exists.                  *)
Replay ==
    /\ mem = NoRow
    /\ mem' = Pending
    /\ UNCHANGED <<sourced, queues, workers, locks, apply, digests, overlooked, stores,
                   faults>>
-----------------------------------------------------------------------------
Work(w) ==
    \/ TakeJob(w)
    \/ PublishResult(w)
    \/ ReportFailure(w)
    \/ /\ w = "fast"
       /\ (\E outcome \in FastOutcomes : FastJudge(outcome)) \/ AddL3
    \/ /\ w = "l3"
       /\ L3Cached \/ (\E v \in {"allow", "block"} : L3Judge(v)) \/ L3Cache

ApplyStep(s) ==
    \/ TakeResult(s)
    \/ Apply(s)
    \/ Persist(s)
    \/ CommitEffects(s)
    \/ PersistFails(s)
    \/ EffectsFail(s)

Next ==
    \/ \E w \in Workers : Work(w) \/ CallFails(w) \/ ReportFails(w) \/ WorkerDies(w)
    \/ \E s \in Stages : ApplyStep(s)
    \/ Restart \/ Evict \/ Forget \/ Replay

Spec == Init /\ [][Next]_vars

(* The workers and the API run the jobs they take to the end.              *)
Fairness ==
    /\ \A w \in Workers : WF_vars(Work(w))
    /\ \A s \in Stages : WF_vars(ApplyStep(s))

FairSpec == Spec /\ Fairness
-----------------------------------------------------------------------------
(* Type invariant, with the attempts and the stalls each queue grants.     *)
TypeOK ==
    /\ sourced \in BOOLEAN
    /\ \A j \in Jobs :
           /\ job[j].state \in {"none", "waiting", "active", "done", "failed"}
           /\ job[j].made \in 0 .. Attempts[j]
           /\ job[j].stalled \in 0 .. MaxStalled + 1
           /\ job[j].made = Attempts[j] => job[j].state = "failed"
    /\ \A w \in Workers :
           /\ pc[w] \in {"idle", "judge", "add", "publish", "cache", "report"}
           /\ (pc[w] = "idle") = (job[w].state # "active")
    /\ \A s \in Stages : (job[s].state = "none") = (result[s] = NoResult)
    /\ {s \in Stages : job[s].state = "active"} = Range(locks)
    /\ apply.step \in {"idle", "persist", "effects"}
    /\ locks = <<>> => apply = NoApply
    /\ overlooked \in BOOLEAN

(* "The revision is strictly monotonic within one eventId"                 *)
(* (data-lifecycle-phase2.md): no two decisions share a revision.          *)
RevisionsAreDistinct ==
    \A a, b \in durable : a.rev = b.rev => a = b

(* They do only if a result took its revision while the event's decision   *)
(* had left memory: no other order of results, evictions, replays, retries *)
(* and restarts makes the API give a revision away twice.                  *)
SharedOnlyIfOverlooked == ~overlooked => RevisionsAreDistinct

(* A result job completes only when its decision, or one computed later,   *)
(* is in ClickHouse: retries, stale results and skipped rows lose none.    *)
ResultsAreDurable ==
    \A s \in Stages :
        job[s].state = "done" => \E row \in durable : row.at >= result[s].at

(* That is so, the hot ring shows no decision that a restart would take    *)
(* back, and incidents and alerts belong to what is in ClickHouse: even if *)
(* a decision was overlooked, unless the digest of the rows is that of the *)
(* observer's payload, in which the decision does not appear.              *)
AppliedIsDurable ==
    ~(sourced /\ overlooked) => /\ ResultsAreDurable
                                /\ mem # NoRow => mem \in durable
                                /\ effects \subseteq durable

(* No decision raises incidents and alerts twice, however often its job    *)
(* runs, unless it was overlooked that it had been applied.                *)
EffectsMatchDecisions ==
    ~overlooked => \A a, b \in effects : a.stage = b.stage => a = b

(* The decision that counts is replaced only by one computed after it: no  *)
(* result that is late, repeated or applied again takes it back, and L3's  *)
(* (l3Prompt: L3 is terminal) gives way only to a fast job that ends after *)
(* L3 has answered.                                                        *)
DecisionsMoveOn ==
    [][~overlooked => \A a \in durable, b \in durable' :
           IsLatest(a) /\ IsLatest(b)' => b = a \/ b.at > a.at]_vars

DecidedByL3 == \E row \in durable : IsLatest(row) /\ row.stage = "L3"

(* L3 is terminal whatever the fast job does.                              *)
L3IsTerminal == [][DecidedByL3 => DecidedByL3']_durable

Decided   == \A row \in durable : IsLatest(row) => row.status # "pending"
DeadQueue == \E j \in Jobs : job[j].state = "failed"

(* The fast job waits for an L3 that has answered.                         *)
Overtaken ==
    \E row \in durable : IsLatest(row) /\ row.stage = "L2"
                         /\ result["L3"] # NoResult /\ result["L3"].at < row.at

(* An event does not stay pending, also not awaiting an L3 that is over,   *)
(* unless a job used up its attempts and waits for an operator, a decision *)
(* was overlooked, or the fast job ended after L3 had answered.            *)
EventIsDecided == <>[](Decided \/ DeadQueue \/ overlooked \/ Overtaken)
=============================================================================
