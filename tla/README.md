# AnySentry, specified in TLA+

This directory holds the formal models of AnySentry: TLA+ modules translated from the
source, the TLC configurations that check them on small instances, and theorems that
TLAPS proves for every instance. `PROJECT.json` lists components, runs, mutants, findings,
hazards and theorems, and maps every definition to the lines it stands for.

Paths below are relative to the repository. `ssm/` is short for
`apps/api/src/security-monitoring/`.

## 1. The system

An event is seen by a kernel collector and goes through these parts:

```
collector stdout
  -> observer-forward.js ..... filter, attribute, enqueue ------- DurableSpool (file)
       |  POST ingest/batch, answered item by item
       v
     API: ingestBatch ......... prepare, persist, commit, publish, answer
       |        |         |                 \
       |    ClickHouse   PostgreSQL          Redis / BullMQ, Kafka
       |    (events,     (business            |            |
       |     journal)     effect ledger)      v            v
       |        |                        fast worker    Flink job, stream worker
       |        v                          |  \
       |   fact cache -> dashboards        |   L3 worker
       |                                   v   v
       +--------<-- applyAsyncResult <-- decision-results queue
```

### Inventory

| Part | State it keeps | Operations | What makes it correct |
|---|---|---|---|
| Durable spool (`scripts/observer-durable-spool.js`) | append-only file, live records in memory, queue of asynchronous writes, fsync in flight, byte counters | put, acknowledge, dead-letter, fsync, compact, load, close | a reported put is recoverable until settled; counters exact; a restart fits the capacity |
| Forwarder delivery (`scripts/observer-forward.js`) | priority queue, retry tasks, requests on the wire, gauges, paused flag | admit, evict, dispatch, retry, replay, split, pause and resume, drain, abort | nothing owed is dropped; gauges exact; the protected reserve holds; input resumes |
| Forwarder preparation (`scripts/observer-*`) | dedup tables, file aggregates, rule sets | filter, attribute, aggregate | counts are conserved; protected events pass |
| Ingest (`ssm/security-monitoring.controller.ts`) | per-request state, cache of batch answers | `ingestBatch` | acknowledge only what is durable; nothing visible before durability |
| Judge service (`ssm/sentry-judge.service.ts`) | hot ring, per-event locks, effect tail | persist, commit, apply results, hydrate | memory shows durable decisions; a decision gives way only to a later one; revisions distinct (they are not: finding 2) |
| Effect ledger (`ssm/relational-business-store.service.ts`) | row per effect with a lease | acquire, commit | each effect once, none left behind |
| Event writer (`ssm/clickhouse-store.ts`) | buffer, sealed batches with tokens and waiters, one drain, timers | enqueue, insert and wait, retry, block, close | resolved means durable; stored once; in order; every caller answered |
| Judgment queues and workers (`ssm/worker-main.ts`, `ssm/judgment-queue.service.ts`) | BullMQ jobs, L3 result cache | fast job, L3 job, publish result | every event decided; L3 terminal |
| Fact cache (`ssm/commit-aware-fact-cache.ts`) | cached buckets and weights, journal cursor, chain of reads | read | an answer includes what was committed; budget respected |
| L3 agent pool (`ssm/worker-main.ts`, `ssm/l3-agent-pool.ts`) | the managed pool, the one being started, leases and waiters; inside a pool its sessions | lease, start, share, retire, discard, close | a job has a living pool of the current model; no pool is left behind |
| Streams (`ssm/stream-worker-main.ts`) | outbox, consumer offsets, rate slots in Redis, judge jobs, rows of findings | publish, pass over, decide, reserve, queue, judge, record | a committed episode has a finding and its job; model calls are metered; a judged episode is never shown as pending again |
| Flink job (`streaming/flink`) | keyed state, timers, checkpoints | correlate facts into episodes | one episode per terminal fact; no chain falls to another chain's bound |
| Rules and profiles (`ssm/filter-rule-*`, `ssm/infrastructure-rule*`, `scripts/observer-*-control.js`, `scripts/observer-filter-rule-publisher.js`) | drafts, versions, compiled releases, last known good, the published snapshot and its activation | propose, approve, compile, publish, acknowledge, report, accept | a node drops only what a rule in force and a current acceptance allow |
| Alerting, notification, maintenance (`ssm/alerting.service.ts`, `ssm/notification.service.ts`) | alerts in the memory of each replica and in PostgreSQL, held changes, timers | raise, merge, resolve, prepare, commit, roll back, save, refresh, notify | each effect changes the alert once; what is announced is committed; replicas agree in the end |
| Identity and assets (`ssm/observed-asset-*`, `ssm/agent-*`, `ssm/process-*`) | bindings, leases, presence | observe, expire, bind, review | one live binding; no stale identity |
| Dashboards, management, console | read side, settings | query, edit | - |

### What is hard

JavaScript runs each callback to its end, so the races of this system are between awaits:
two requests for the same batch after a client timeout, a compaction between two
asynchronous writes, a second caller that joins a batch in flight, a result that is applied
while an earlier one is being persisted. Around them processes die, answers get lost,
ClickHouse may apply an insert that was given up, BullMQ runs a job again, and materialized
views write the journal late. `PROJECT.json` "hazards" lists each place with its line and
the property that watches over it; those without a property say why.

Hazards beside that list, which later modules should take up or the models exclude by name:
a failed acknowledgement puts its record at the end of the spool's Map, out of observation
order (`observer-durable-spool.js:317`); a permanent status dead-letters every event of a
batch (`observer-forward.js:2616`); a capacity rejection comes after the sealing and joining
(`clickhouse-store.ts:2510`); worker clocks
differ (`worker-main.ts:247`); revision 2 of a failed publication is written outside the
event's lock (`sentry-judge.service.ts:1559`); an empty journal counts as continuous
(`commit-aware-fact-cache.ts:109`); more journal rows than a page within the replay window
cannot be passed (`clickhouse-store.ts:3293`); a spool error while nothing is in flight pauses
the forwarder's input and only a later settlement resumes it (`observer-forward.js:396`); the
disposal of an L3 session is waited for five seconds (`l3-agent-pool.ts:161`); an L3 job that
fails in its last attempt publishes an error result while a stalled twin may still run
(`worker-main.ts:377`); a consumer that stops leaves the process up
(`stream-worker-main.ts:185`), and a message it cannot parse is read again for ever, with the
partition behind it; the deduplication table is cleared as a whole (`observer-event-dedup.js:36`); an
HTTP error status of a webhook counts as delivered (`notification.service.ts:357`).

## 2. The modules

| Module | Lines of code it stands for | Composition |
|---|---|---|
| `DurableSpool` | the whole class | root of the delivery path |
| `EventDelivery` | abstract: what forwarder and API promise together | implemented by `ForwarderDelivery` |
| `ForwarderDelivery` | event delivery of the forwarder | sees the spool through the contract `DurableSpool` establishes (`disk` is what a restart loads; a put is in it before its callback) |
| `IngestBatch` | `ingestBatch` and what it calls | sends like `ForwarderDelivery`, stores as `EventWriteQueue` promises |
| `EventWriteQueue` | buffered and direct event batches | supplies "a resolved insert is durable" to the others |
| `JudgmentPipeline` | workers, queues, `applyAsyncResult` | starts where `IngestBatch` ends: revision 1 durable and pending, job queued |
| `FactCache` | cache, budget, journal queries | reads what the writer committed |
| `EpisodeJudgment` | the episode consumer and the composite judge | starts where `TemporalEpisode` ends: an episode in the topic, perhaps twice |
| `TemporalMatcher` | the six rules as operators on a set of facts, with a reference definition of a chain | used by `TemporalEpisode` |
| `TemporalEpisode` | the Flink operator around the matcher | EXTENDS `TemporalMatcher` |
| `AlertEffects` | an alert at several replicas, its effects, PostgreSQL | the detail of the effect step of `IngestBatch`, whose ledger is the same |
| `L3Pool` | which pool an L3 job leases | under the L3 worker of `JudgmentPipeline` |
| `CaptureActivation` | publisher, reporter and policy refresh of the forwarder, Central's side of the report | beside the delivery path: it decides what the Collector sends at all |
| `MC*` | the instances TLC checks | |
| `DurableSpool_proofs`, `ForwarderDelivery_proofs`, `IngestBatch_proofs`, `AlertEffects_proofs`, `CaptureActivation_proofs` | theorems about the module of that name | EXTENDS it and `TLAPS` |
| `Judge_proofs` | theorems about `JudgmentPipeline` and `L3Pool`, which pool its L3 jobs use; this is why `L3Pool` has names of its own (`PoolSpec`, `PoolTypeOK`, `Slots`) | EXTENDS both and `TLAPS` |
| `ClickHouse_proofs` | theorems about `EventWriteQueue` and `FactCache`, the two clients of ClickHouse; this is why the names of `FactCache` (`CacheSpec`, `CacheTypeOK`) differ from those of the other modules | EXTENDS both and `TLAPS` |
| `Episode_proofs` | theorems about `EpisodeJudgment` and `TemporalEpisode`, the two ends of the topic of episodes; for the same reason the builder has names of its own (`BuilderSpec`, `BuilderTypeOK`, `clock`, `MaxClock`, `TimePasses`) | EXTENDS both and `TLAPS` |

The components are linked by contracts instead of one product: what one module proves or
checks about its interface is what the next assumes of its environment.

### How state and actions correspond to the code

**DurableSpool.** An operation in the file is three fragments (an unparsable beginning, the
rest of the text, the newline), which is all `load()` can tell apart; a short write or a
crash leaves a prefix. `records` is the live Map, `asyncOperations` the write queue,
`asyncSync` the prefix a running `fsync` will report, `synced` what it has reported.
`PutAsync`, `AckAsync`, `DeadLetter`, `SyncAsync`, `Close` are the methods; `AsyncWrite`,
`FinishPut`, `FinishAck`, `FinishError`, `SyncDone` are the callbacks; compaction is part of
the callback that triggers it. `ProcessExit`, `HostCrash` and `Restart` are the environment.

**ForwarderDelivery.** The forwarder's memory is the record `fwd`. An action is one callback
with everything it calls, so `FinishBatch`, `Pump`, `Admit`, `MakeQueueRoom`, `Settle` are
functions on that record, named after the code's functions. `Due` chooses which retry tasks
have reached their time and their deadline; a request knows which part of a split batch is
on the wire.

**IngestBatch.** One record per request with its program counter; a step runs from one
`await` to the next. `Prepare` also consults the result cache, `Classify` asks ClickHouse
about durable replays, `PersistFacts`, `Persist`, `Commit`, `AcquireEffect`, `ApplyEffect`,
`PublishJobs`, `PublishCanonical`, `Reply` follow. Every failure of a store has its own
action with the answer the code gives for it.

**EventWriteQueue.** The writer's memory is the record `w`: `buf`, `batches` (rows, token,
waiters, cooling), the phase of the one drain, the timer, the permanent block, the rows it
knows to be committed. `InsertManyNow` seals, joins, or appends. ClickHouse applies a block
once per token, at once or `late`.

**JudgmentPipeline.** One event; a BullMQ job per worker and per result stage with the
attempts it has made and its stalls; `pc` of the two workers; `apply` and `locks` of the API;
the rows of the event that ClickHouse has (`durable`), the hot ring's row (`mem`), the digests
the writer remembers, and the effects in the ledger. The event may leave the hot ring at any
time, decided or not (`Evict`; `hotEvictionIndices` does not look at the revision), a restart
may hydrate it or not (`Hydrate`), a replayed batch puts the pending event in its place
(`Replay`), and the cache of digests may drop any of them (`Forget`). A result that comes then
takes its revision from what memory has, which may be a revision that exists. The history
variable `overlooked` records that this has happened (a result took its revision while
ClickHouse had a higher one than memory); no guard reads it, and properties that do not survive
it name it.

**FactCache.** `table[b]` counts the commits of a bucket, `transit` and `journal` hold the
rows the materialized view still has to write and has written, `refresh` is the running read,
`chain` those queued behind it.

**EpisodeJudgment.** `cursor`, `offset` and `handler` are the consumer, `nextAt` is Redis,
`job` BullMQ, and `row` what the latest `judgedAt` has left of each key in the
ReplacingMergeTree. A step of the handler runs to its next call: `Drop`, `Decide`,
`StoreDecision`, `Catch`, `StoreFailure`, `ToJudge`, `ReserveSlot`, `AddJob`, `StampPending`,
`StorePending`, `Commit`. `Take`, `ModelAnswers`, `StoreJudgment` are the composite worker;
`DecisionFails`, `HandlerFails`, `ConsumerRestarts`, `StoreJudgmentFails`, `WorkerDies` the
faults.

**TemporalMatcher, TemporalEpisode.** A fact is its index in `Signal`, which is the order of
event time and id that the matcher sorts by; so "the latest fact before" is a maximum.
`Deterministic(F)` and `Ambiguous(F)` are what the matcher returns for the stored facts. `op`
is the keyed state with both kinds of timers and the position in the input; `Ignore` and
`Keep` are `processElement`, `SettleAmbiguous` and `ExpireFacts` the two kinds of `onTimer`;
`Checkpoint` saves `op` and flushes the sink, `Restart` goes back to it and reads again.

**AlertEffects.** Per replica: `mem` is the alert in memory, `work` the effect under way with
what it holds back, `timer`, `asked` and `saving` the persistence, `fetched` the refresh;
`row`, `copy` and `ledger` are the tables. `Prepare`, `Commit`, `Refused`, `CommitFails`,
`Settle` follow an effect through lease, transaction, rollback; `Observe` and `Update` are the
older protocol and the operator; `Fire`/`Save` and `Load`/`Merge` are persistence and refresh,
split at their `await`s so that each may overtake the other.

**L3Pool.** `managed`, `starting` and `startedFor` are the three module variables of
`worker-main.ts`; `Begin`, `Install`, `Discard`, `StartFails` and `Finish` are `acquireL3Pool`
between its awaits and the `finally` of a job; `Change` and `Stop` call `retireL3Pool`.

**CaptureActivation.** `p` is the `FilterRulePublisher`, its methods are functions of that
record (`Observed`, `Removed`, `Synchronized`, `Degraded`, `Pruned`, `Safe`, `Consumed`,
`Granted`), and an action is one timer, call or answer of the forwarder with the `Flush` it
ends in. `file` and `ack` are the two files it shares with the Collector, `post` and `waiting`
the `CaptureProfileReporter`, `pol` the policy registry, `rules` and `reports` Central's side.
`RuleEvent`, `AgentEvent` and `OtherEvent` are the events of a cgroup. Every publication has
its own epoch; versions that are never published are not counted. The loop that means to stage
later expiries during a synchronization (`observer-filter-rule-publisher.js:635`) is not in the
model because it never stages: the entry it compares has a `ttlMs`, the decision has none yet.
The Collector is external.

## 3. The runs

| Run | Question | Bounds and why they are enough |
|---|---|---|
| `spool_safety` | does a reported put survive; do capacity, counters and fsync promises hold? | 3 puts with room for 1 record, so capacity, settling and reuse of room happen; compaction from 2 operations on; 1 failed or short write, 1 crash of either kind; both fsync modes. States behind a torn operation are cut (`Undamaged`), `MCDurableSpoolTorn` is about them |
| `forwarder` | does the forwarder implement `EventDelivery`, with exact gauges, the reserve, and live input? | 3 events of 3 priorities for 2 slots, 1 of them reserved, so eviction, refusal and parking happen; batches of 2, so partial answers and splitting happen; 2 bad answers (a retry and its expiry), 1 spool error, 1 shutdown or crash |
| `ingest` | is nothing acknowledged or shown before it is durable, and is everything settled? | 2 requests at a time over 2 events, the pairs (fact, alert) and (alert, asynchronous); any 2 failures of 5 kinds |
| `writer` | resolved means durable, stored once, in order, settled? | 2 calls with overlapping batches, one row also buffered, a buffer of 2 rows; 2 failed inserts, 1 restart, a shutdown at any time |
| `judgment` | is what a result job completes durable, with effects once; does a decision only give way to a later one; what makes revisions repeat; is the event decided in the end? | 1 event (nothing relates two), 2 attempts per job, 1 stall, 3 failures, so that the last attempt reports and the report is lost; they may strike at any await but the cache call of L3 (a failure of its judge) and `publishResult` of the fast worker; `l3Queue.add` may fail after it has arrived, so the fast job is repeated behind L3; API restarts among them; eviction, replay and forgotten digests at any time and without bound |
| `fact_cache` | does an answer include what was committed, is the budget exact? | 2 readers, a range of 5 buckets and its inside of 3; commits in 2 buckets, so that three gaps merge into an envelope; pages of 1 row, 2 pages per read; replay window of 1 tick; 2 commits, 1 failed query |
| `episodes` | does a committed episode have its finding and its job; are model calls metered; is every episode settled? | 5 messages of 2 agents, 4 episodes over all four routes, 1 of them published twice, so slots collide and jobs are added again; messages go stale after 1 tick, slots are 1 tick apart, 1 job at a time, 1 stall, 2 faults, 2 ticks |
| `episode_kept` | does a pending finding never replace a conclusion? (it does) | the same topic, no fault |
| `temporal` | do kept chains have a claim, is a terminal reported once, is every candidate settled? | 5 sessions that use the six rules in 37 orders of arrival, 1 repeated fact, each bound of the operator 1 below what a session needs, lateness and settling 1, window 4, 1 restart from any earlier checkpoint |
| `alerts` | is an effect applied once, is only the committed announced, do replicas agree in the end? | 2 replicas, an effect of the durable protocol that both may be given and one of the older protocol that one is given (the replicas are alike, so which one does not matter); one upset: an operator's change, a failed, lost or late transaction, a failed save, an expired lease, a restart |
| `l3pool` | does a job always have a living pool of the current model, is every pool closed? | 3 jobs (one leases, one waits, one comes later), 4 pools, 2 versions and no model; starts that fail; shutdown |
| `capture` | is what a node drops authorised, and is every rule enforced in the end? | 2 cgroups, because one grant covers the node and a change of either takes it back; a clock of 4 ticks with leases of 3, refreshed 1 before their end, and a last known good of 3; 2 reports kept; one incident of any kind: a rule changed, an agent seen, a call lost, an outage, a restart of either process |

Eleven further configurations are counterexamples to run by hand
(`tlc -config <cfg> <module>`); each ends in the violation of the property named:
`MCDurableSpoolTorn` (`AlwaysReplayable`), `MCCaptureActivationEvent` and
`MCCaptureActivationRestart` (`RefreshIsGranted`),
`MCIngestBatchPublished` (`AckedIsPublished`), `MCIngestBatchEffects`
(`PendingEffectRecovered`), `MCEventWriteQueueRerouted` (`ResolvedIsDurable`),
`MCJudgmentPipelineShared` (`RevisionsAreDistinct`), `MCJudgmentPipelineRetried`
(`L3IsTerminal`), `MCJudgmentPipelineEvicted` (`ResultsAreDurable`), `MCTemporalEpisodeOrder` (`OutOfOrderIsMatched`),
`MCAlertEffectsLate` (`AppliedIsEvidence`). Section 5 says what they show.
`MCCaptureActivationTwo` (one cgroup, two incidents) and `MCCaptureActivationOutage` (a clock of
5 ticks, decisions that outlive their TTL during an outage) check the properties of `capture`
on instances that take three to four minutes each; both hold. So do the safety properties of
`judgment` under `MCJudgmentPipelinePlaces`, with two failures at any place, the fast worker's
`publishResult` among them.

All runs allow the system to come to rest (the bounds end it), so deadlock is not checked.
Every property has a mutant: a plausible bug in one mapped definition which makes TLC
report that property.

### Assumptions of the runs

- *Fairness* is weak and per callback: timers that were armed fire, promises of local work
  settle, the supervisor restarts a dead forwarder. External services fail at most
  `MaxFaults` times and answer afterwards; nothing is assumed of callers. In
  `ForwarderDelivery` `WF_vars(A)` is written out with an explicit enabling condition. In
  `EventWriteQueue` nobody has to call or to close. In `JudgmentPipeline` BullMQ hands a
  waiting job to a living worker; a job may use up its attempts, and `EventIsDecided`
  says so by `DeadQueue`. It also names the two cases in which the event may stay pending
  with all jobs done: a decision was overlooked, or the fast job was repeated and ended after
  L3 (`Overtaken`).
- *Fairness of the stream modules.* In `EpisodeJudgment` the consumer goes on with its
  messages, BullMQ hands out due jobs and their workers go on, time passes. In
  `TemporalEpisode` the input is read on, due timers fire and time passes; nothing is assumed
  of checkpoints. In
  `AlertEffects` one fairness per replica covers all work it has begun (what it has begun is
  finite and each step ends a part of it), another its periodic refresh.
- *Fairness of the capture profile*: timers fire, calls end, the Collector reads the file.
  `WF_vars(PolicyLoaded)` is written out. A tick of the clock stands for much more time than
  a poll, a call, a flush or the Collector's reading takes; that it comes while the Collector
  has not read the file is an incident, and so is an outage of Central, however long.
- *No order of the two workers* is assumed: L3 may answer before the fast worker has published
  what it was asked for, and L2's result is then stamped after L3's.
- *CoarseExpiry*: the journal (seven days) does not drop rows within one refresh, inside the
  replay window, before they are visible, nor all of them. Rows become visible within the replay
  window, which is what the window is for.
- *Two reports* (`MaxReports >= 2`; Central keeps 200, `infrastructure-rule.service.ts:61`). The
  acknowledgement of the enforcing file, read after a revocation and before its flush, may be
  reported again. With room for one report it would push out the one the grant rests on, and
  TLC finds `DropIsAuthorised` violated.
- The rename of a compaction is durable once it returned; ClickHouse remembers a token for
  as long as it is retried; worker and API clocks are one clock.
- A rule of the temporal matcher is given facts whose process scope is known; the keyed
  state's time-to-live of thirty minutes is longer than a run. The events of one alert are
  equally severe, which is what the default threshold lets through.

## 4. What is proved

`DurableSpool_proofs` proves for every number of records, all sizes and capacities, both
fsync modes and any number of failures and crashes, from `SpoolAssumption` alone:

- `TypeCorrect`: `Spec => []TypeOK`. The part that matters is that an `fsync` in flight never
  reports more of the file than a compaction left of it, which holds because compaction is
  deferred while a sync is active; without that test the theorem fails.
- `NoPutIsLost`: `Spec => []NoPutLost`. `NoPutLost` is not inductive: it speaks of the file,
  while a compaction rewrites the file from memory and an acknowledgement still in the queue
  will settle a record later. The invariant `IInv` adds that, as long as nothing was appended
  behind a torn operation, the file is intact and holds the put of every owed record
  (`OwedWritten`), with fsync 'always' inside its synced prefix (`OwedSynced`); that once the
  text of the queue's head is out it is in the file, and no operation behind the head has
  begun (`HeadWritten`); that acknowledgements in the file or the queue name settled records
  only (`AcksSettled`); and that an owed record is in memory, so that compaction rewrites it
  (`OwedInMemory`). `InvariantInit`, `StepInv` and `InvariantImplies` are the three facts;
  `StepInv` has one step per action.
- `PromiseIsSynced`: `Spec => []PromisedIsSynced`, from the same invariant.
- `CapacityIsKept`: `Spec => []CapacityHolds`. What a restart would recover is not what memory
  holds: the file lags behind by the operations in the queue, and a host crash cuts it off at any
  unsynced fragment. The invariant `CInv` therefore bounds it at every point in between
  (`RoomInv`): for every prefix the file may be cut to (`FileFits`), and after each operation of
  the queue, the last of which leaves just memory and the pending puts (`QueueFits`). A put fits
  because it was admitted against memory and pending puts, and everything queued before it is
  behind those numbers already; a settling only takes away. `QueueInv` keeps an identifier from
  being put twice, which is what lets an operation move from queue to file, and the file be
  rewritten by a compaction, without changing the sums. `BytesInv` says the counters are exact.
  The bytes of a set of records are a fold; they are shown to be the number of pairs of a record
  and one of its bytes (`SumIsCount`), so that the theorems on cardinalities apply.

`ForwarderDelivery_proofs`, for any number of events, priorities, limits, batches, bad answers,
spool errors and crashes, from the assumptions of the module: `TypeCorrect`,
`ReserveAlwaysHolds`, and `Implements`, the refinement of `EventDelivery` step by step. A callback
of the forwarder passes through states in which an event is in no queue at all; `Sound(m, X)`
says the gauges are exact for a memory `m` with the events `X` in hand, and each function of the
code (`Settle`, `Admit`, `MakeQueueRoom`, `Pump`, `Exhaust` and so on) has a lemma that says
how it changes `X`. `Queue` keeps the operations of the spool apart, `Known` says that what
exists was observed, and `Owing` that an acknowledgement under way names only events the API or
the dead-letter file has; `Implements` follows from the last. What a helper may do besides is
stated by two relations that compose: `Carries` (nothing leaves the spool) and `Drains`
(something does, and it was delivered).

`ClickHouse_proofs`, on the event writer, for any rows, callers, keys, limits, failures and restarts, from
`WriterAssumption`: `TypeCorrect`, `OnceInOrder`, and `ResolvedDurable` as long as a key always
carries the same rows (`StableKeys`, the contract in the comment of `insertManyNow`;
`MCEventWriteQueueRerouted` is the counterexample otherwise). `Drain` says who will look at the
head of the batches next; `Queue` that a row is in one place and `rows` counts them; `Once` that
what ClickHouse has stored is committed or is the head's, and that a late request is of the head
or of a token that is spent; `Told` that a token stands for its rows, so a block ClickHouse
drops as a duplicate is durable, and that a caller waits for every row of its own that is not.

`ClickHouse_proofs`, on the fact cache, for any buckets, ranges, readers, page sizes, replay
windows and budgets, from `FactCacheAssumption`: `CacheTypeCorrect`, and as long as the journal's
TTL is coarse (`CoarseExpiry`), `FreshReads` and `StaleTraced`. `CacheBase` holds without that
assumption: the budget weighs what is cached (sums of weights are numbers of units, as in
`DurableSpool_proofs`), and what a refresh is going to load covers what its range misses, which
needs that every missing bucket lies in one of the runs `loadMissing` lists, also when more than
two are read as one envelope (`ReadsCover`). `Traced` says that every commit a cached bucket
misses, not only the last, is announced by a row in the window that is read again, or that the
cursor is older than all the journal has (`Lost`), which the next refresh finds out before it
reads anything. It survives the cursor's advance because what a full page leaves over is not before
its last row (`PageIsEarliest`, from the number of rows before a row), and because a row that is
not visible yet is younger than the replay window. `Floored` follows: a bucket that misses
what was known when the first load was over has that row in the window, so the second reading
drops it, and the second load brings it back whole.

`IngestBatch_proofs`, for any number of events and requests, any mixes and any failures, from
`IngestAssumption`: `TypeCorrect`, `NothingIsBeforeStored` and `AcknowledgedIsAlwaysDone`. The
invariant says of each request, step by step, what it has already done (`RequestOK`), and of a
cached answer that it is still true (`CacheOK`); both survive the steps of all other requests
because no step takes back what is durable or published (`Grow`). `ClientInv` keeps the
forwarder from waiting for two answers about the same event. That a request takes the ledger's
events in order (`MinFacts`) rests on the well-founded order of the natural numbers.

`Judge_proofs`, on the pipeline, for any attempts, stalls and failures at any place, whatever
leaves memory or the cache of digests and whichever worker is faster, from `PipelineAssumption`
alone: `TypeCorrect`, `RevisionsAreOverlooked` (`SharedOnlyIfOverlooked`),
`AppliedStaysDurable`, `EffectsStayMatched` and the action property `DecisionsOnlyMoveOn`
(`DecisionsMoveOn`). The invariant has three parts. `RowInv`: whatever the API holds or has
written is the pending row or the decision of a result. `OrderInv`, as long as no decision was
overlooked: of two durable rows the one with the higher revision is the later one, memory shows
the last row or no decision at all, digests are of durable rows, and the row being applied comes
after all there are; so it collides with no digest and no revision (`RowWritten`). It is here
that the history variable is needed: with no decision in memory a result passes the test for
stale ones, and only `~Behind` says that there was nothing to be overtaken. `StoredInv`: what is
applied is durable, which survives an overlooked decision when the digest is of the whole row,
since a row with a remembered digest is then that very row. The worker actions share one lemma
(`WorkerStep`): they only add result jobs (`OnlyAdds`), which leaves everything the API did as
it was (`WorkersLeaveApi`). `DecisionsOnlyMoveOn` follows from the order of the rows and from
`RowsStay`: no step takes a row away, and none that writes one chooses its revision.

`Judge_proofs`, on the pools, for any number of slots, pools and versions, from
`SlotsAssumption` and `NoneAssumption`: `PoolTypeCorrect`, `LeaseIsAlwaysLive`, `NoPoolIsForgotten` and the action
property `LeaseIsOfCurrentModel`. `NoPoolLeaks` speaks of pools nobody can reach any more; it
becomes inductive when `active` is known to be the number of leases of the pool (which rests
on the cardinality of the set of jobs that lease it) and a pool in `starting` is known to have
a waiter. `LeaseIsLive` needs that an open pool which is not managed is retired, since only
then does the last `Finish` close it.

`AlertEffects_proofs`, for any number of replicas and effects, upsets and clock:
`TypeCorrect`, `EffectIsAppliedOnce` and `WhatIsToldIsCommitted`. The two properties compare
what a replica does with a ledger that other replicas write. The invariant says, per replica,
what its memory and timers may be (`ProcessInv`), what the tables hold (`StoreInv`), and what
an effect under way relies on (`WorkInv`): while a replica holds an effect its persist timer is
off, and once its transaction has answered the ledger has the effect, which no expired lease
and no other replica takes back.

`Episode_proofs`, on the episode consumer, for any topic, agents, faults and restarts:
`CommittedIsAlwaysRecorded` and `CallsAreAlwaysMetered`. The first needs to follow the handler:
`StepInv` says at each step what it has already done for its message (job, row), so that
`Commit` finds it done. The second needs that a waiting job has been called no more often than
workers have died over it (`JobInv`), and that the slots of an agent's jobs, that of the
message under way included, end before the one Redis remembers (`SlotInv`), also when a message
is consumed again and reserves a slot for a job that exists.

`TypeCorrect` of the same module bounds the consumer, which is never more than one message ahead
of its committed offset, and the table of findings, no row of which is stamped in the future.

`Episode_proofs`, on the builder, for any facts, input, bounds, timers and restarts, from
`SignalAssumption` and `BuilderAssumption`: `BuilderTypeCorrect`, `OneEpisodePerTerminalHolds`
and `KeptChainIsAlwaysClaimed`. Two facts about the six rules carry the proof. The chain a rule
finds for a last event is unique, since every earlier event of it is the latest that fits
(`OnePerRule`): so no two episodes share a key. And taking away the oldest facts gives no last
event a chain it did not have, only fewer (`Deterministic` of what is left is a subset): so
pruning, the bound of the state and expiry never call for a second episode. The invariant
(`BuilderInv`) says, of the state at work and of the last checkpoint alike, that what is
remembered as emitted are the keys of what was emitted, that no two episodes share one and that
nothing waits for a terminal that is over (`Ledger`), and that every complete chain of the facts
kept shares its candidate or its terminal with an emitted one (`Reported`). The greedy searches
find a chain whenever there is one (`DownloadFound`, `ExfiltrationFound`), from which
`KeptChainIsClaimed` follows for the reference definition of a chain. What the state at work has
emitted is published or with the sink, and what the checkpoint has emitted is published: so a
restart, which drops what the sink holds and goes back to the checkpoint, never remembers a
terminal nobody has heard of.

`CaptureActivation_proofs`, for any cgroups and their order in the inventory, times to live,
incidents and restarts, from `InventoryAssumption`, `TimeAssumption` and `BoundAssumption`:
`CaptureTypeCorrect` and `DropIsAuthorisedHolds`. `DropIsAuthorised` compares the Collector's
file with what Central was told, and between the two lie the publisher, two files and a report
under way, any of which may be old. Each function of the publisher has a lemma: it keeps
`PubOK`, by which a rule's decision never outlives the last known good policy, and it is a
`Moves`: a grant ends, or it stays with the very assignment of decisions it was given for. For
the fold of a synchronization over the inventory the first cgroup at which this fails is taken
(`SynchronizedIn`). The invariant (`CaptureInv`) then has a part per actor. `PublisherInv`: the
published file is what the publisher was when it last flushed (`FileOK`), and a publisher with
nothing to flush still means what it says. `AckInv` and `ReportInv`: every acknowledgement is of
a file and a Collector's process that there have been, one of the newest file by the present
process says that it was applied, and reports are ordered by file and process; nothing under way
is older than the newest report. `GrantInv`: until the enforcing file is acknowledged the newest
report backs the grant, and while it is enforced one of the two newest does. That two suffice is
what the order is for: after the grant only the acknowledgement of the enforcing file itself can
be reported, since the Collector acknowledges nothing else before it reads the next file, which
ends the enforcement. With one report kept this fails, hence `MaxReports >= 2`.

The type invariants of `DurableSpool`, `IngestBatch`, `JudgmentPipeline`, `L3Pool`,
`AlertEffects` and `EpisodeJudgment` are proved and therefore in no run; those of
`ForwarderDelivery`, `EventWriteQueue`, `FactCache` and `TemporalEpisode`, which hold the
accounting, and of `CaptureActivation` are in both. Every safety invariant, action property and
refinement that a run expects to hold is the statement of a theorem.

TLAPS cannot use an induction theorem over data here. Where a fold or a loop has to be followed,
the proofs take the least counterexample instead, which the well-founded order of the natural
numbers, or of the subsets of a finite set by inclusion, provides as a plain fact.

Only model-checked: liveness and anything with ENABLED, which TLAPS does not support here
(`EveryEventDelivered`, `InputResumes`, `EveryEventSettled`,
`EveryCallSettles`, `EventIsDecided`, `EveryReadEnds`, `RuleIsEnforced`, `EveryEpisodeSettles`,
`EveryCandidateSettles`, `ReplicasConverge`).

## 5. Findings

Checked as a run:

1. `episode_kept`: the consumer queues the judge job before it writes the pending finding. A
   judge that is faster, or a message consumed again, has its verdict replaced by the pending
   row, whose `judgedAt` is later, though `scripts/verify-streaming-phase2.mjs:238` says that
   "a pending revision must not replace the last completed conclusion".

Counterexamples of the configurations to run by hand:

2. `MCJudgmentPipelineShared`: the hot ring loses an event that has a decision already, by eviction
   (`ssm/sentry-judge.service.ts:198`) or a restart that hydrates a slice (`:565`). The next
   result continues from the revision of its payload (`:1681`) and takes revision 2 again. If the
   digest of the first is gone as well, with the restart or from the cache of 20,000, both are
   stored, though `docs/data-lifecycle-phase2.md:39` says that "the revision is strictly
   monotonic within one `eventId`". The latest view still takes the later of the two, by its
   timestamp. `SharedOnlyIfOverlooked` says that this is the only way it happens.
3. `MCDurableSpoolTorn`: `load()` ignores a torn last line and then appends to it. The next
   operation is glued to the torn text: it is lost, or the whole spool is refused as corrupt
   at the following start.
4. `MCIngestBatchPublished`: an event whose publication failed and which comes back as a
   durable replay is accepted without its judgment job and canonical record.
5. `MCIngestBatchEffects`: after a crash between acquiring and committing an effect, hydrate
   puts the event into memory and the replay passes over it, so the lease is never taken up.
6. `MCEventWriteQueueRerouted`: the deduplication token comes from the caller's key alone; when
   routing changes between two attempts, a new row travels under a token ClickHouse has seen,
   and the caller is told it is durable.
7. `MCJudgmentPipelineRetried`: a fast job that fails after `l3Queue.add` is repeated; its
   result is stamped after L3's and makes the event pending again. `DecisionsMoveOn` allows it,
   since the fast result is the later one; the comment of `l3Prompt` calls L3 terminal.
8. `MCJudgmentPipelineEvicted`: when the hot ring has lost a decided event whose rows have the
   digest of the observer's payload, L3's decision takes a revision that exists; the writer
   takes it for the committed row and resolves without writing it, and if the first decision
   raised effects the ledger calls L3's a duplicate. `AppliedIsDurable` says that this takes
   both, an overlooked decision and such a digest.
9. `MCTemporalEpisodeOrder`: a fact that arrives before the download it belongs to is not
   admitted, though the job promises to wait for late facts.
10. `MCAlertEffectsLate`: an alert is stamped with its event's time, so PostgreSQL refuses the
   row of a late event while the ledger entry in the same transaction says it is applied.
11. `MCCaptureActivationEvent`: an event of a cgroup that arrives shortly before its decision
   runs out refreshes it with the action of the wire, `sample`, instead of the rule's, `drop`
   (`observer-filter-rule-publisher.js:438`, `observer-capture-profile-control.js:261`). Central
   refuses the report (`infrastructure-rule.service.ts:1277`), so the rule is not enforced until
   a later synchronization refreshes the decision; the comment at
   `observer-filter-rule-publisher.js:194` has the refresh end in a grant.
12. `MCCaptureActivationRestart`: the published file leaves `policyAction` out, and a restarted
   publisher takes the action of the wire for it (`:344`), with the same effect for every
   decision it restores.

Seen while modelling and not made into a run: a result whose business effects fail after its
decision was stored is retried, found stale (`sentry-judge.service.ts:1679`) and completes
without them; a drain under way saves an alert that is held
and not committed (`alerting.service.ts:1718` against the comment at `:608`); a refresh or a
webhook's completion during a hold replaces the alert object, so a rollback leaves the
uncommitted change and a commit drops its notification (`:658`); a late event reopens an
alert an operator resolved, announces it, and the next refresh takes that back; a save that
PostgreSQL refused is not repeated before the next change; the cooldown of webhooks is never
consulted; the second waiter of an initialization retires the pool the first has just
installed, so that pool serves these jobs only (`worker-main.ts:90`); a temporal timer that
fires after a restart in another order than before can publish two episodes for one terminal;
a rule that looks at the process scope after it has taken the latest fact misses an earlier
chain of the same session; after a revocation that is not yet flushed, an acknowledgement of
the enforcing file is taken for one of a preview; a cgroup in which agent and rule alternate
takes the node's grant back each time and its shared decision never runs out; a decision that
runs out is pruned together with the later expiry staged for it
(`observer-filter-rule-publisher.js:745`).

## 6. What is not modelled, and the plan

Byte limits have the shape of the count limits everywhere and are left out. Heartbeats,
metrics, logging, redaction and formatting change nothing the properties speak of. The read
side (aggregation, dashboards apart from the fact cache, console) is pure. Judges are
external: they answer or throw.

The map covers a small share of the repository, because most of its lines are the console,
the verification scripts, the query side (`aggregation.service.ts`, most of
`clickhouse-store.ts`), type declarations and pure mappings from one record to another; what
has state that several callbacks, processes or messages change is listed here and above.

In order of importance:

1. The sessions inside a pool (`ssm/l3-agent-pool.ts`): disposal that outlives its five
   seconds, close during `createSession`. Property: no session is left open.
2. The immediate receipt lane of the writer, as a second queue beside `EventWriteQueue`.
3. The remaining Flink functions: `EpisodeBuilderFunction`, `RiskCorrelationFunction` and the
   enrichment with supply-chain context.
4. Catalogs of rules with their releases; the observer supervisor; asset lifecycle; supply
   chain.
5. Pure operators against reference definitions: `takeWeighted`, deduplication, file
   aggregation.
