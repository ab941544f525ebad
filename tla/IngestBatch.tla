---------------------------- MODULE IngestBatch ----------------------------
(***************************************************************************)
(* POST ingest/batch of the API (security-monitoring.controller.ts,        *)
(* ingestBatch) with the part of SentryJudgeService and of the business    *)
(* effect ledger it drives: prepare, answer from the result cache, classify *)
(* a spool replay, persist, commit to memory with incidents and alerts,    *)
(* publish judgment and canonical jobs, acknowledge item by item.          *)
(*                                                                         *)
(* A request runs from one await to the next in one step.  Requests overlap *)
(* because a forwarder that timed out sends again while the first request  *)
(* still runs.  The forwarder is ForwarderDelivery seen from here: it sends *)
(* any of its unsettled events together; a batch is a durable replay when  *)
(* an item of it was parked in, or recovered from, the spool, which may    *)
(* happen to any unsettled event at any time.                              *)
(*                                                                         *)
(* Events are numbered in batch order.  The batch identity is a digest of  *)
(* its events, so the set of events stands for it.  The forwarder sends    *)
(* the same body again, so a revision conflict does not arise here.        *)
(* External stores: ClickHouse (`stored', one atomic block per write),     *)
(* PostgreSQL (`effect'), Redis (`jobs', `canonical').                     *)
(***************************************************************************)
EXTENDS Integers, FiniteSets, FiniteSetsExt

CONSTANTS
    MaxEvents,      \* bound: number of events
    Mixes,          \* bound: the mixes of kinds of events that are sent
    Requests,       \* identities of overlapping requests
    Faulty,         \* bound: what may fail: "client" (a timeout), "process"
                    \* (a restart of the API), "clickhouse", "ledger", "redis"
    MaxFaults       \* bound: number of failures

Events == 1 .. MaxEvents

(* "async" waits for a judgment job; "alerting" is judged at once and      *)
(* raises an incident and alerts; "plain" is judged at once and does not;  *)
(* "structural" becomes a lifecycle fact; "terminal" is discarded or       *)
(* rejected.                                                               *)
Kinds == {"async", "alerting", "plain", "structural", "terminal"}

ASSUME IngestAssumption ==
    /\ MaxEvents \in Nat
    /\ Mixes \subseteq [Events -> Kinds]
    /\ Faulty \subseteq {"client", "process", "clickhouse", "ledger", "redis"}
    /\ MaxFaults \in Nat

VARIABLES
    kind,       \* kind[e]: what prepareAcceptWithDisposition makes of an event
    request,    \* request[r]: progress of a request inside the API
    stored,     \* events with a durable ClickHouse revision
    facts,      \* events with a durable lifecycle fact
    memory,     \* storeById
    effect,     \* effect[e]: row of the business effect ledger
    jobs,       \* events with a fast-judge job
    canonical,  \* events with a canonical streaming job
    assets,     \* events whose asset and runtime were materialized
    cache,      \* observerBatchResults: answers by batch identity
    accepted,   \* client: events acknowledged as processed
    replayed,   \* client: events acknowledged as durable replay duplicates
    faults      \* counter for the bound

stores   == <<stored, facts, effect, jobs, canonical>>
process  == <<memory, assets, cache>>
client   == <<accepted, replayed>>
vars     == <<kind, request, stores, process, client, faults>>

Of(k)      == {e \in Events : kind[e] = k}
Retained   == Of("async") \cup Of("alerting") \cup Of("plain")
Structural == Of("structural")

Idle == [pc |-> "idle", events |-> {}, replay |-> FALSE, awaited |-> FALSE,
         dup |-> {}, left |-> {}, ok |-> {}]

(* Events the client has not seen settled.                                 *)
Unsettled == Events \ (accepted \cup replayed)
OnTheWire == UNION {request[r].events : r \in {q \in Requests : request[q].awaited}}

(* retainedForPersistence.                                                 *)
New(q) == (q.events \cap Retained) \ q.dup

Init ==
    /\ kind \in Mixes
    /\ request = [r \in Requests |-> Idle]
    /\ stored = {} /\ facts = {}
    /\ effect = [e \in Of("alerting") |-> "none"]
    /\ jobs = {} /\ canonical = {}
    /\ memory = {} /\ assets = {} /\ cache = {}
    /\ accepted = {} /\ replayed = {}
    /\ faults = 0
-----------------------------------------------------------------------------
Fault(part) ==
    /\ part \in Faulty
    /\ faults < MaxFaults
    /\ faults' = faults + 1

(* The client.                                                             *)

Send(r, S, replay) ==
    /\ request[r] = Idle
    /\ S # {}
    /\ S \subseteq Unsettled \ OnTheWire
    /\ request' = [request EXCEPT ![r] =
           [Idle EXCEPT !.pc = "prepare", !.events = S, !.awaited = TRUE,
                        !.replay = replay]]
    /\ UNCHANGED <<stores, process, client, faults>>

(* The request timed out or its connection broke; the API goes on with it. *)
Abandon(r) ==
    /\ request[r].awaited
    /\ Fault("client")
    /\ request' = [request EXCEPT ![r] =
           IF @.pc = "answer" THEN Idle ELSE [@ EXCEPT !.awaited = FALSE]]
    /\ UNCHANGED <<stores, process, client>>

(* validateBatchAck and finishBatch: accepted items leave the spool.       *)
Receive(r) ==
    LET q == request[r] IN
    /\ q.pc = "answer"
    /\ accepted' = accepted \cup (q.ok \ q.dup)
    /\ replayed' = replayed \cup (q.ok \cap q.dup)
    /\ request' = [request EXCEPT ![r] = Idle]
    /\ UNCHANGED <<stores, process, faults>>
-----------------------------------------------------------------------------
(* The API: steps of a request.                                            *)

Goto(r, pc) == request' = [request EXCEPT ![r].pc = pc]

(* The request ends with `ok' accepted, `dup' of it as duplicates, and     *)
(* everything else retryable; a status 500 accepts nothing.  Nobody hears  *)
(* the answer to an abandoned request, and one that accepts nothing leaves *)
(* the client as it was.                                                   *)
Reply(r, ok, dup) ==
    request' = [request EXCEPT ![r] =
        IF @.awaited /\ ok # {} THEN [@ EXCEPT !.pc = "answer", !.ok = ok,
                                                !.dup = dup, !.left = {}]
                                  ELSE Idle]

Finish(r, ok) == Reply(r, ok, request[r].dup)

(* The step a request takes up once its facts are dealt with.              *)
PersistOr(q) == IF New(q) = {} THEN "commit" ELSE "persist"

FactsOr(q) == IF q.events \cap Structural = {} THEN PersistOr(q) ELSE "facts"

(* cachedObserverBatchResult: an answer of this batch without retryable    *)
(* items, with the items it had found to be duplicates.                    *)
Prepare(r) ==
    LET q   == request[r]
        hit == {c \in cache : c.events = q.events}
    IN
    /\ q.pc = "prepare"
    /\ IF hit # {}
       THEN \E c \in hit :
            Reply(r, q.events, c.dup)
       ELSE Goto(r, IF q.replay /\ New(q) # {} THEN "classify" ELSE FactsOr(q))
    /\ UNCHANGED <<stores, process, client, faults>>

(* classifyDurableReplayEvents.                                            *)
Classify(r) ==
    LET q     == request[r]
        after == [q EXCEPT !.dup = New(q) \cap stored]
    IN
    /\ q.pc = "classify"
    /\ request' = [request EXCEPT ![r] = [after EXCEPT !.pc = FactsOr(after)]]
    /\ UNCHANGED <<stores, process, client, faults>>

(* persistPreparedProcessLifecycleFacts.                                   *)
PersistFacts(r) ==
    LET q == request[r] IN
    /\ q.pc = "facts"
    /\ facts' = facts \cup (q.events \cap Structural)
    /\ Goto(r, PersistOr(q))
    /\ UNCHANGED <<stored, effect, jobs, canonical, process, client, faults>>

(* persistPreparedBatch: one block, all or nothing.                        *)
Persist(r) ==
    LET q == request[r] IN
    /\ q.pc = "persist"
    /\ stored' = stored \cup New(q)
    /\ request' = [request EXCEPT ![r].pc = "commit", ![r].left = New(q)]
    /\ UNCHANGED <<facts, effect, jobs, canonical, process, client, faults>>

StoreFailsGoesOn(r) ==
    LET q == request[r] IN
    /\ Fault("clickhouse")
    /\ q.pc = "persist"
    /\ request' = [request EXCEPT ![r].pc = "commit", ![r].left = New(q)]
    /\ UNCHANGED <<stores, process, client>>

(* A read or a write is refused or fails.  A failed ClickHouse write may   *)
(* nevertheless have been applied.                                         *)
StoreFails(r) ==
    LET q == request[r] IN
    /\ Fault("clickhouse")
    /\ \/ q.pc = "classify" /\ UNCHANGED <<stored, facts>>
       \/ /\ q.pc = "facts"
          /\ facts' \in {facts, facts \cup (q.events \cap Structural)}
          /\ UNCHANGED stored
       \/ /\ q.pc = "persist"
          /\ stored' \in {stored, stored \cup New(q)}
          /\ UNCHANGED facts
    /\ Finish(r, {})
    /\ UNCHANGED <<effect, jobs, canonical, process, client>>

(* The result, remembered because nothing in it is retryable.              *)
Remember(q) ==
    {c \in cache : c.events # q.events} \cup {[events |-> q.events, dup |-> q.dup]}

(* The event commitPreparedBatch has reached.                              *)
Current(q) == Min(q.left)

(* commitPreparedBatch, as far as the next event that needs the ledger:    *)
(* what memory already has is passed over, the rest enters memory before   *)
(* its effects are applied (upsertDurableMemory).  After the last one the  *)
(* assets are materialized.                                                *)
Commit(r) ==
    LET q     == request[r]
        fresh == q.left \ memory
        due   == fresh \cap Of("alerting")
    IN
    /\ q.pc = "commit"
    /\ memory' = memory \cup {e \in fresh : \A d \in due : e <= d}
    /\ IF due # {}
       THEN /\ request' = [request EXCEPT ![r].pc = "acquire",
                                          ![r].left = {e \in @ : e >= Min(due)}]
            /\ UNCHANGED <<assets, cache>>
       ELSE /\ assets' = assets \cup New(q) \cup (q.events \cap Structural)
            /\ IF New(q) = {}
               THEN Finish(r, q.events) /\ cache' = Remember(q)
               ELSE /\ request' = [request EXCEPT ![r].pc = "jobs", ![r].left = {}]
                    /\ UNCHANGED cache
    /\ UNCHANGED <<stores, client, faults>>

(* businessEffectApplyTail: one effect at a time.                          *)
LedgerFreeForNobody == \A r \in Requests : request[r].pc \notin {"acquire", "apply"}

LedgerFree == \A r \in Requests : request[r].pc # "apply"

(* acquireBusinessEffect: acquired, duplicate or busy.  A busy ledger      *)
(* fails the request.                                                      *)
AcquireEffect(r) ==
    LET q == request[r]
        e == Current(q)
    IN
    /\ q.pc = "acquire"
    /\ LedgerFree
    /\ \/ /\ effect[e] \in {"none", "expired"}
          /\ effect' = [effect EXCEPT ![e] = "pending"]
          /\ Goto(r, "apply")
       \/ /\ effect[e] = "applied"
          /\ request' = [request EXCEPT ![r].pc = "commit", ![r].left = @ \ {e}]
          /\ UNCHANGED effect
       \/ /\ effect[e] = "pending"
          /\ Finish(r, {})
          /\ UNCHANGED effect
    /\ UNCHANGED <<stored, facts, jobs, canonical, process, client, faults>>

(* commitBusinessEffect: incident, alerts and ledger row in one            *)
(* transaction, if this process still owns the pending row.                *)
ApplyEffect(r) ==
    LET q == request[r]
        e == Current(q)
    IN
    /\ q.pc = "apply"
    /\ effect[e] \in {"pending", "expired"}
    /\ effect' = [effect EXCEPT ![e] = "applied"]
    /\ request' = [request EXCEPT ![r].pc = "commit", ![r].left = @ \ {e}]
    /\ UNCHANGED <<stored, facts, jobs, canonical, process, client, faults>>

(* The ledger is unavailable or the transaction fails, possibly after it   *)
(* took effect.                                                            *)
EffectFails(r) ==
    LET q == request[r]
        e == Current(q)
    IN
    /\ Fault("ledger")
    /\ \/ /\ q.pc = "acquire" /\ LedgerFree
          /\ \/ UNCHANGED effect
             \/ /\ effect[e] \in {"none", "expired"}
                /\ effect' = [effect EXCEPT ![e] = "pending"]
       \/ /\ q.pc = "apply"
          /\ effect' \in {effect, [effect EXCEPT ![e] = "applied"]}
    /\ Finish(r, {})
    /\ UNCHANGED <<stored, facts, jobs, canonical, process, client>>

LeaseExpires(e) ==
    /\ e \in Of("alerting")
    /\ effect[e] = "pending"
    /\ effect' = [effect EXCEPT ![e] = "expired"]
    /\ UNCHANGED <<request, stored, facts, jobs, canonical, process, client, faults>>

(* enqueuePreparedFastJobs: one atomic addBulk, idempotent by job id.      *)
PublishJobs(r) ==
    LET q == request[r] IN
    /\ q.pc = "jobs"
    /\ jobs' = jobs \cup (New(q) \cap Of("async"))
    /\ Goto(r, "canonical")
    /\ UNCHANGED <<stored, facts, effect, canonical, process, client, faults>>

(* enqueueCanonicalBatchMany, then the answer.                             *)
PublishCanonical(r) ==
    LET q == request[r] IN
    /\ q.pc = "canonical"
    /\ canonical' = canonical \cup New(q)
    /\ Finish(r, q.events)
    /\ cache' = Remember(q)
    /\ UNCHANGED <<stored, facts, effect, jobs, memory, assets, client, faults>>

PublishFailsOffByOne(r) ==
    LET q == request[r] IN
    /\ Fault("redis")
    /\ q.pc \in {"jobs", "canonical"}
    /\ Finish(r, {e \in q.events : \A n \in New(q) : e <= n})
    /\ UNCHANGED <<stores, process, client>>

(* Publication failed: the items before the first retained one are         *)
(* answered, that one and all after it are retryable.                      *)
PublishFails(r) ==
    LET q == request[r] IN
    /\ Fault("redis")
    /\ \/ /\ q.pc = "jobs"
          /\ jobs' \in {jobs, jobs \cup (New(q) \cap Of("async"))}
          /\ UNCHANGED canonical
       \/ /\ q.pc = "canonical"
          /\ \E done \in SUBSET New(q) : canonical' = canonical \cup done
          /\ UNCHANGED jobs
    /\ Finish(r, {e \in q.events : \A n \in New(q) : e < n})
    /\ UNCHANGED <<stored, facts, effect, process, client>>

(* The API process dies and comes back; hydrate restores a recent part of  *)
(* the history.  Assets have a store of their own.                         *)
RestartApi ==
    /\ Fault("process")
    /\ request' = [r \in Requests |-> Idle]
    /\ memory' \in SUBSET stored
    /\ cache' = {}
    /\ UNCHANGED <<stores, assets, client>>
-----------------------------------------------------------------------------
Step(r) ==
    \/ Prepare(r) \/ Classify(r) \/ PersistFacts(r) \/ Persist(r) \/ Commit(r)
    \/ AcquireEffect(r) \/ ApplyEffect(r)
    \/ PublishJobs(r) \/ PublishCanonical(r)
    \/ Receive(r)

SendAny ==
    \E r \in Requests, S \in SUBSET Events, replay \in BOOLEAN : Send(r, S, replay)

SomeStep ==
    \/ \E r \in Requests :
         \/ Step(r)
         \/ Abandon(r) \/ StoreFails(r) \/ EffectFails(r) \/ PublishFails(r)
    \/ SendAny
    \/ \E e \in Events : LeaseExpires(e)
    \/ RestartApi

Next == SomeStep /\ UNCHANGED kind

Spec == Init /\ [][Next]_vars

(* Handlers run on, leases run out, and the forwarder keeps sending what   *)
(* is unsettled; the bound on faults says the stores recover.              *)
Fairness ==
    /\ \A r \in Requests : WF_vars(Step(r) /\ UNCHANGED kind)
    /\ \A e \in Events : WF_vars(LeaseExpires(e) /\ UNCHANGED kind)
    /\ WF_vars(SendAny /\ UNCHANGED kind)

FairSpec == Spec /\ Fairness
-----------------------------------------------------------------------------
(* Properties.                                                             *)

(* "Publish only facts/events that crossed their ClickHouse durability     *)
(* fence": there is no memory entry, asset, job, canonical record,         *)
(* incident or alert for an event that is not durable.                     *)
NothingBeforeStored ==
    /\ memory \cup jobs \cup canonical \subseteq stored
    /\ assets \subseteq stored \cup facts
    /\ \A e \in DOMAIN effect : effect[e] # "none" => e \in stored

Pcs == {"idle", "prepare", "classify", "facts", "persist", "commit", "acquire",
        "apply", "jobs", "canonical", "answer"}

TypeOK ==
    /\ kind \in Mixes
    /\ \A r \in Requests :
          LET q == request[r] IN
          /\ q.pc \in Pcs
          /\ {q.replay, q.awaited} \subseteq BOOLEAN
          /\ q.dup \subseteq q.events /\ q.ok \subseteq q.events
          /\ q.left \subseteq New(q)
          /\ q.pc \in {"acquire", "apply"} => kind[Current(q)] = "alerting"
          /\ q.pc = "idle" <=> q.events = {}
    /\ stored \subseteq Retained /\ facts \subseteq Structural
    /\ effect \in [Of("alerting") -> {"none", "pending", "expired", "applied"}]
    /\ accepted \cap replayed = {}
    /\ faults \in 0 .. MaxFaults

Acknowledged == accepted \cup replayed

(* Whatever the forwarder may now delete from its spool is durable at the  *)
(* API, across timeouts, overlapping retries, half-failed writes, cached   *)
(* answers and restarts; and an event acknowledged as processed, in the    *)
(* same answer or from the cache, has its jobs published.                  *)
AcknowledgedIsDone ==
    /\ Acknowledged \cap Retained \subseteq stored
    /\ Acknowledged \cap Structural \subseteq facts
    /\ accepted \cap Of("async") \subseteq jobs
    /\ accepted \cap Retained \subseteq canonical

(* The same of every acknowledgement: "Post-commit delivery failure is     *)
(* explicit and retryable rather than silently accepted"                   *)
(* (docs/file-filter-pipeline-v1.md).  It fails for durable replays.       *)
AckedIsPublished ==
    /\ Acknowledged \cap Of("async") \subseteq jobs
    /\ Acknowledged \cap Retained \subseteq canonical

(* "A short lease lets a replay recover work left pending by a crashed     *)
(* process" (acquireBusinessEffect): once an event is acknowledged, and so *)
(* not replayed any more, its ledger row is pending only while a request   *)
(* works on it.  It fails: the event is hydrated into memory, and a retry  *)
(* passes over what memory has.                                            *)
PendingEffectRecovered ==
    \A e \in accepted \cap Of("alerting") :
        effect[e] \in {"pending", "expired"} =>
            \E r \in Requests : /\ request[r].pc \in {"acquire", "apply"}
                                /\ e \in request[r].left

(* Every event is settled once the stores recover: no answer, cached or    *)
(* computed, and no lease keeps the forwarder retrying for ever.           *)
EveryEventSettled == <>(Events \subseteq Acknowledged)
=============================================================================
