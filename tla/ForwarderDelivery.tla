------------------------- MODULE ForwarderDelivery -------------------------
(***************************************************************************)
(* Event delivery of scripts/observer-forward.js: from the moment an       *)
(* observed event is handed to the durable spool until the ingest API has  *)
(* taken it or the dead-letter file holds it.                              *)
(*                                                                         *)
(* The spool is DurableSpool seen through its contract: a put is           *)
(* recoverable (`disk') from some moment before its callback, an           *)
(* acknowledgement takes the record out of memory at once and off the disk *)
(* later, both in one queue.  The API is seen through its answers; what it *)
(* does behind them is IngestBatch.                                        *)
(*                                                                         *)
(* JavaScript runs a callback to its end, so each action is one callback   *)
(* with everything it calls; the operators above the actions are those     *)
(* calls, as functions of the forwarder's memory.  Time is abstracted:     *)
(* `due' lists, for the retry tasks whose delay has elapsed, whether the   *)
(* retry deadline has passed too.  Byte limits have the shape of the       *)
(* event limits and are left out, as are heartbeats, which are not spooled.*)
(***************************************************************************)
EXTENDS Integers, Sequences, FiniteSets, SequencesExt

CONSTANTS
    MaxEvents,          \* bound: number of observed events
    Priority,           \* Priority[id] in 0..5 (queuePriority)
    ProtectedPriority,  \* PROTECTED_PRIORITY
    MaxOutstanding,     \* MAX_OUTSTANDING_EVENTS
    ProtectedReserve,   \* PROTECTED_RESERVE_EVENTS
    BatchSize,          \* BATCH_SIZE
    MaxInflight,        \* MAX_INFLIGHT
    ReplayBatch,        \* SPOOL_REPLAY_BATCH_SIZE
    MaxWalPending,      \* WAL_PENDING_MAX_EVENTS
    SpoolCapacity,      \* FORWARD_SPOOL_MAX_RECORDS
    MaxFaults,          \* bound: number of failed or incomplete answers
    MaxSpoolErrors,     \* bound: number of failed spool operations
    MaxRestarts         \* bound: number of shutdowns and crashes

Ids == 1 .. MaxEvents

ASSUME ForwarderAssumption ==
    /\ MaxEvents \in Nat
    /\ Priority \in [Ids -> 0 .. 5]
    /\ ProtectedPriority \in 0 .. 5
    /\ MaxOutstanding \in Nat \ {0}
    /\ ProtectedReserve \in 0 .. MaxOutstanding - 1
    /\ BatchSize \in Nat \ {0}
    /\ MaxInflight \in Nat \ {0}
    /\ ReplayBatch \in Nat \ {0}
    /\ MaxWalPending \in Nat \ {0}
    /\ SpoolCapacity \in Nat \ {0}
    /\ {MaxFaults, MaxSpoolErrors, MaxRestarts} \subseteq Nat

VARIABLES
    fwd,        \* the forwarder's memory, see Fresh
    disk,       \* ids a restart would find live in the spool file
    dlq,        \* ids in the dead-letter file
    consumed,   \* ids the API has stored, or has decided not to keep
    next,       \* the next event of the observer
    promised,   \* history: ids whose put callback reported success
    faults, spoolErrors, restarts  \* counters for the bounds

counters == <<faults, spoolErrors, restarts>>
vars     == <<fwd, disk, dlq, consumed, next, promised, counters>>

-----------------------------------------------------------------------------
(* Sequences of ids.  A record enters the spool file in the order of its   *)
(* id.                                                                     *)
Keep(s, S) ==
    LET at == {i \in DOMAIN s : s[i] \in S} IN
    [k \in 1 .. Cardinality(at) |->
        s[CHOOSE i \in at : Cardinality({j \in at : j <= i}) = k]]

Minus(s, S)  == Keep(s, Ids \ S)
Meet(s, S)   == Keep(s, S)
InOrder(S)   == Keep([id \in Ids |-> id], S)
FirstN(s, n) == SubSeq(s, 1, IF n < Len(s) THEN n ELSE Len(s))

(* The memory of a forwarder whose spool holds the records `ids'.          *)
Fresh(stage, ids) ==
    [stage            |-> stage,  \* "up", "closing", "aborted" or "down"
     lane             |-> InOrder(ids),  \* live spool records
     ops              |-> <<>>,   \* spool.asyncOperations
     walPending       |-> 0,      \* walPendingEvents
     pending          |-> <<>>,   \* pending, in the order takeWeighted takes
     requests         |-> {},     \* batches being delivered
     retries          |-> <<>>,   \* retryTasks, by dueAt
     retryOwned       |-> {},     \* items with retryOwned set
     active           |-> {},     \* activeSpoolIds
     outstanding      |-> 0,      \* outstandingEvents
     retryOutstanding |-> 0,      \* retryOutstandingEvents
     paused           |-> FALSE]  \* rl is paused

Off == Fresh("down", {})

(* Highest priority first, first come first served within a priority.      *)
Class(p) == {id \in Ids : Priority[id] = p}

ByPriority(s) ==
    Meet(s, Class(5)) \o Meet(s, Class(4)) \o Meet(s, Class(3))
        \o Meet(s, Class(2)) \o Meet(s, Class(1)) \o Meet(s, Class(0))

(* updateInputFlow, inputAtCapacity, spool.atCapacity.                     *)
PutsPending(m) ==
    Cardinality({i \in DOMAIN m.ops : m.ops[i].kind = "put"})

AtCapacity(m) ==
    \/ m.walPending >= MaxWalPending
    \/ Len(m.lane) + PutsPending(m) >= SpoolCapacity

FlowOnlyPauses(m) ==
    IF m.stage = "up" /\ AtCapacity(m) THEN [m EXCEPT !.paused = TRUE] ELSE m

Flow(m) == IF m.stage = "up" THEN [m EXCEPT !.paused = AtCapacity(m)] ELSE m

(* trackOutstanding and settleOutstanding.                                 *)
Track(m, id) ==
    [m EXCEPT !.active = @ \cup {id}, !.outstanding = @ + 1]

SettleKeepsRetryOwned(m, S) ==
    LET T == S \cap m.active IN
    [m EXCEPT !.active = @ \ T,
              !.outstanding = @ - Cardinality(T)]

Settle(m, S) ==
    LET T == S \cap m.active IN
    [m EXCEPT !.active = @ \ T,
              !.outstanding = @ - Cardinality(T),
              !.retryOutstanding = @ - Cardinality(T \cap m.retryOwned),
              !.retryOwned = @ \ T]

(* recordRetryExhausted: the items are parked in the spool, behind the     *)
(* other records of their priority (spool.defer).                          *)
ExhaustStillActive(m, items) ==
    [m EXCEPT !.lane = Minus(@, ToSet(items)) \o Meet(items, ToSet(@))]

Exhaust(m, items) ==
    [Settle(m, ToSet(items)) EXCEPT
        !.lane = Minus(@, ToSet(items)) \o Meet(items, ToSet(@))]

(* dispatchEventBatch, and deliverEventBatch up to the first request.      *)
Dispatch(m, batch, retry) ==
    [m EXCEPT !.requests = @ \cup
        {[batch |-> batch, retry |-> retry, parts |-> <<batch>>,
          acc |-> {}, rej |-> {}, again |-> <<>>]}]

(* takePendingBatch.                                                       *)
AdaptiveBatchSize(n) ==
    CASE n >= 8 * BatchSize -> 4 * BatchSize
      [] n >= 2 * BatchSize /\ n < 8 * BatchSize -> 2 * BatchSize
      [] OTHER -> BatchSize

TakePendingBatch(m) == FirstN(m.pending, AdaptiveBatchSize(Len(m.pending)))

(* One turn of the loop in pumpEventWork: a due retry, else pending work.  *)
PumpStep(st) ==
    LET m == st.m IN
    IF Cardinality(m.requests) >= MaxInflight THEN st
    ELSE IF st.due # <<>>
    THEN LET task == Head(m.retries)
             rest == [m EXCEPT !.retries = Tail(@)]
         IN  [m   |-> IF Head(st.due) THEN Exhaust(rest, task)
                      ELSE Dispatch(rest, task, TRUE),
              due |-> Tail(st.due)]
    ELSE IF m.pending # <<>>
    THEN LET batch == TakePendingBatch(m) IN
         [m   |-> Dispatch([m EXCEPT !.pending = Minus(@, ToSet(batch))], batch, FALSE),
          due |-> <<>>]
    ELSE st

Pump(m, due) ==
    IF m.stage \notin {"up", "closing"} THEN m
    ELSE LET turns == Len(due) + MaxInflight
             last  == FoldLeft(LAMBDA st, i : PumpStep(st),
                               [m |-> m, due |-> due], [i \in 1 .. turns |-> i])
         IN  Flow(last.m)

(* The retry tasks that are due form a prefix of retryTasks.               *)
Due(m) == UNION {[1 .. k -> BOOLEAN] : k \in 0 .. Len(m.retries)}

(* makeQueueRoom: evict strictly lower priorities until the event fits.    *)
LimitWithoutReserve(id) == MaxOutstanding

Limit(id) ==
    IF Priority[id] >= ProtectedPriority
    THEN MaxOutstanding
    ELSE MaxOutstanding - ProtectedReserve

Exceeds(m, id) == m.outstanding + 1 > Limit(id)

DropLowest(m) ==
    LET lowest == Priority[Last(m.pending)]
        victim == Head(Meet(m.pending, Class(lowest)))
    IN  Settle([m EXCEPT !.pending = Minus(@, {victim})], {victim})

RoomStep(m, id) ==
    IF /\ Exceeds(m, id) /\ m.pending # <<>>
       /\ Priority[id] > Priority[Last(m.pending)]
    THEN DropLowest(m) ELSE m

MakeQueueRoom(m, id) == FoldLeft(LAMBDA st, i : RoomStep(st, id), m, m.pending)

(* pending.push: behind the items of its priority.                         *)
Push(s, id) ==
    InsertAt(s, Cardinality({i \in DOMAIN s : Priority[s[i]] >= Priority[id]}) + 1, id)

(* admitDurableEvent.                                                      *)
Admit(m, id, due) ==
    LET room   == MakeQueueRoom(m, id)
        queued == Track([room EXCEPT !.pending = Push(@, id)], id)
    IN  IF Exceeds(room, id) THEN room
        ELSE IF Len(queued.pending) >= BatchSize THEN Flow(Pump(queued, due))
        ELSE Flow(queued)

(* pumpDurableSpool: replay records that are not outstanding.              *)
Available(m, n) == FirstN(ByPriority(Minus(m.lane, m.active)), n)

ReplaySlots(m) ==
    LET free == MaxOutstanding - m.outstanding
    IN  IF free < ReplayBatch THEN free ELSE ReplayBatch

MayReplay(m) ==
    /\ m.stage = "up"
    /\ Len(m.lane) > Cardinality(m.active)
    /\ m.outstanding < MaxOutstanding

ReplayStep(st, id) ==
    IF st.stop THEN st
    ELSE [m    |-> Admit(st.m, id, st.due),
          stop |-> Exceeds(MakeQueueRoom(st.m, id), id),
          due  |-> <<>>]

Replayed(m, due) ==
    LET last == FoldLeft(ReplayStep, [m |-> m, stop |-> FALSE, due |-> due],
                         Available(m, ReplaySlots(m)))
    IN  Pump(last.m, last.due)

(* scheduleRetryItems: the task is inserted behind the due ones.           *)
MarkRetryOwned(m, items) ==
    LET fresh == ToSet(items) \ m.retryOwned IN
    [m EXCEPT !.retryOwned = @ \cup fresh,
              !.retryOutstanding = @ + Cardinality(fresh)]

ScheduleRetry(m, items, at, expired) ==
    LET owned == MarkRetryOwned(m, items) IN
    IF items = <<>> THEN m
    ELSE IF m.stage = "aborted" \/ expired THEN Exhaust(owned, items)
    ELSE [owned EXCEPT !.retries = InsertAt(@, at, items)]

(* finishBatch.  acceptedItems leave the spool's memory at once            *)
(* (spool.ackAsync), rejectedItems were dead-lettered, the rest of the     *)
(* terminal items stay in the spool.                                       *)
AckedAnyTerminal(r) == ToSet(r.batch) \ (r.rej \cup ToSet(r.again))
Acked(r) == r.acc

FinishBatch(m, r, due, at, expired) ==
    LET acked    == Meet(m.lane, Acked(r))
        spooled  == [m EXCEPT
                        !.requests = @ \ {r},
                        !.lane = Minus(@, ToSet(acked) \cup r.rej),
                        !.ops = IF acked = <<>> THEN @
                                ELSE Append(@, [kind |-> "ack", ids |-> ToSet(acked),
                                                written |-> FALSE])]
        terminal == Settle(spooled, ToSet(r.batch) \ ToSet(r.again))
        retried  == ScheduleRetry(terminal, r.again, at, expired)
    IN  Flow(Pump(retried, due))
-----------------------------------------------------------------------------
Init ==
    /\ fwd = Fresh("up", {})
    /\ disk = {} /\ dlq = {} /\ consumed = {}
    /\ next = 1
    /\ promised = {}
    /\ faults = 0 /\ spoolErrors = 0 /\ restarts = 0

(* enqueue: write ahead, or drop when the log is at its limits.            *)
Observe ==
    /\ fwd.stage = "up"
    /\ next <= MaxEvents
    /\ next' = next + 1
    /\ fwd' = IF fwd.walPending + 1 > MaxWalPending \/ AtCapacity(fwd)
              THEN Flow(fwd)
              ELSE Flow([fwd EXCEPT
                     !.walPending = @ + 1,
                     !.ops = Append(@, [kind |-> "put", ids |-> {next},
                                        written |-> FALSE])])
    /\ UNCHANGED <<disk, dlq, consumed, promised, counters>>

(* The spool appends its oldest operation ...                              *)
SpoolWrite ==
    /\ fwd.stage # "down"
    /\ fwd.ops # <<>> /\ ~Head(fwd.ops).written
    /\ fwd' = [fwd EXCEPT !.ops[1].written = TRUE]
    /\ LET op == Head(fwd.ops) IN
       disk' = IF op.kind = "put" THEN disk \cup op.ids ELSE disk \ op.ids
    /\ UNCHANGED <<dlq, consumed, next, promised, counters>>

(* ... and calls back; a durable event is admitted for delivery.           *)
PutDone(due) ==
    /\ fwd.stage # "down"
    /\ fwd.ops # <<>> /\ Head(fwd.ops).written /\ Head(fwd.ops).kind = "put"
    /\ LET ids == Head(fwd.ops).ids
           id  == CHOOSE i \in ids : TRUE
           m   == [fwd EXCEPT !.ops = Tail(@), !.walPending = @ - 1,
                              !.lane = Append(@, id)]
       IN  /\ fwd' = Flow(Admit(m, id, due))
           /\ promised' = promised \cup ids
    /\ UNCHANGED <<disk, dlq, consumed, next, counters>>

AckDone ==
    /\ fwd.stage # "down"
    /\ fwd.ops # <<>> /\ Head(fwd.ops).written /\ Head(fwd.ops).kind = "ack"
    /\ fwd' = [fwd EXCEPT !.ops = Tail(@)]
    /\ UNCHANGED <<disk, dlq, consumed, next, promised, counters>>

(* A spool operation fails, before or after it reached the file; a failed  *)
(* acknowledgement returns its records to memory, and onAsyncError pauses  *)
(* the input after the callback has run.                                   *)
SpoolError ==
    /\ fwd.stage # "down"
    /\ fwd.ops # <<>>
    /\ spoolErrors < MaxSpoolErrors
    /\ spoolErrors' = spoolErrors + 1
    /\ LET op == Head(fwd.ops)
           m  == [fwd EXCEPT !.ops = Tail(@), !.paused = TRUE]
       IN  fwd' = IF op.kind = "put"
                  THEN [m EXCEPT !.walPending = @ - 1]
                  ELSE [m EXCEPT !.lane = @ \o InOrder(op.ids)]
    /\ UNCHANGED <<disk, dlq, consumed, next, promised, faults, restarts>>

(* The batch and retry timers, and the 50 ms tick of a shutdown.           *)
PumpTimer(due) ==
    /\ fwd.stage \in {"up", "closing"}
    /\ fwd.pending # <<>> \/ due # <<>>
    /\ fwd' = Pump(fwd, due)
    /\ UNCHANGED <<disk, dlq, consumed, next, promised, counters>>

Replay(due) ==
    /\ MayReplay(fwd)
    /\ fwd' = Replayed(fwd, due)
    /\ UNCHANGED <<disk, dlq, consumed, next, promised, counters>>

(* The first part of r has been answered: r2 is r with the outcome added.  *)
(* deliverEventBatch goes on with the next part or finishBatch runs;       *)
(* rejected items reach the dead-letter file and leave the disk at once.   *)
Answered(r, r2, due, at, expired) ==
    LET rest == [r2 EXCEPT !.parts = Tail(@)] IN
    IF rest.parts # <<>>
    THEN /\ fwd' = [fwd EXCEPT !.requests = (@ \ {r}) \cup {rest}]
         /\ UNCHANGED <<dlq, disk>>
    ELSE /\ fwd' = FinishBatch([fwd EXCEPT !.requests = (@ \ {r}) \cup {rest}],
                               rest, due, at, expired)
         /\ dlq' = dlq \cup rest.rej
         /\ disk' = disk \ rest.rej

(* Where a new retry task lands among those that are not due.              *)
Places(due) == Len(due) + 1 .. Len(fwd.retries) + 1

(* A complete item-by-item acknowledgement: n items are settled, the rest  *)
(* is a retryable suffix, which the API may nevertheless have stored.      *)
Reply(r, n, rejected, stored, due, at) ==
    LET part   == Head(r.parts)
        prefix == SubSeq(part, 1, n)
        suffix == SubSeq(part, n + 1, Len(part))
        acc    == ToSet(prefix) \ rejected
    IN  /\ rejected \subseteq ToSet(prefix)
        /\ n < Len(part) => faults < MaxFaults
        /\ faults' = IF n < Len(part) THEN faults + 1 ELSE faults
        /\ consumed' = consumed \cup acc \cup (IF stored THEN ToSet(suffix) ELSE {})
        /\ Answered(r, [r EXCEPT !.acc = @ \cup acc, !.rej = @ \cup rejected,
                                 !.again = @ \o suffix], due, at, FALSE)
        /\ UNCHANGED <<next, promised, spoolErrors, restarts>>

(* No usable answer: transport error, timeout, 5xx, 408, 425 or 429.  The  *)
(* API may or may not have stored the events.                              *)
Lost(r, stored, due, at, expired) ==
    LET part == Head(r.parts) IN
    /\ faults < MaxFaults
    /\ faults' = faults + 1
    /\ expired => r.retry
    /\ consumed' = IF stored THEN consumed \cup ToSet(part) ELSE consumed
    /\ Answered(r, [r EXCEPT !.again = @ \o part], due, at, expired)
    /\ UNCHANGED <<next, promised, spoolErrors, restarts>>

(* An unusable acknowledgement, or the deadline of a retry has passed      *)
(* before the request was sent: the part is neither settled nor retried.   *)
Dropped(r, stored, due, at) ==
    /\ faults < MaxFaults
    /\ faults' = faults + 1
    /\ consumed' = IF stored THEN consumed \cup ToSet(Head(r.parts)) ELSE consumed
    /\ Answered(r, r, due, at, FALSE)
    /\ UNCHANGED <<next, promised, spoolErrors, restarts>>

(* Any other 4xx, or 413 for a single event.                               *)
Refused(r, due, at) ==
    /\ Answered(r, [r EXCEPT !.rej = @ \cup ToSet(Head(r.parts))], due, at, FALSE)
    /\ UNCHANGED <<consumed, next, promised, counters>>

(* 413: halve the part and deliver the left half first.                    *)
TooLarge(r) ==
    LET part   == Head(r.parts)
        middle == (Len(part) + 1) \div 2
        halves == <<SubSeq(part, 1, middle), SubSeq(part, middle + 1, Len(part))>>
    IN  /\ Len(part) > 1
        /\ fwd' = [fwd EXCEPT !.requests =
                     (@ \ {r}) \cup {[r EXCEPT !.parts = halves \o Tail(@)]}]
        /\ UNCHANGED <<disk, dlq, consumed, next, promised, counters>>

(* flushAndClose.                                                          *)
Shutdown(due) ==
    /\ fwd.stage = "up"
    /\ restarts < MaxRestarts
    /\ restarts' = restarts + 1
    /\ fwd' = Pump([fwd EXCEPT !.stage = "closing"], due)
    /\ UNCHANGED <<disk, dlq, consumed, next, promised, faults, spoolErrors>>

HasEventWork(m) ==
    \/ m.requests # {} \/ m.pending # <<>> \/ m.retries # <<>>
    \/ m.ops # <<>>

(* The drain deadline: every request is finished with what was answered so *)
(* far, pending work leaves the gauges, retries are parked in the spool.   *)
AbortStep(m, r) ==
    LET rest == [r EXCEPT !.again = @ \o Head(r.parts)] IN
    FinishBatch([m EXCEPT !.requests = (@ \ {r}) \cup {rest}], rest, <<>>, 1, FALSE)

AbortRequests(m) == FoldLeft(AbortStep, m, SetToSeq(m.requests))

AbandonPending(m) == Settle([m EXCEPT !.pending = <<>>], ToSet(m.pending))

AbandonRetries(m) == FoldLeft(Exhaust, [m EXCEPT !.retries = <<>>], m.retries)

Aborted(m) ==
    AbandonRetries(AbandonPending(AbortRequests([m EXCEPT !.stage = "aborted"])))

AbortEventWork ==
    /\ fwd.stage = "closing"
    /\ HasEventWork(fwd)
    /\ fwd' = Aborted(fwd)
    /\ LET rejected == UNION {r.rej : r \in fwd.requests} IN
       /\ dlq' = dlq \cup rejected
       /\ disk' = disk \ rejected
    /\ UNCHANGED <<consumed, next, promised, counters>>

Exit ==
    /\ \/ fwd.stage = "closing" /\ ~HasEventWork(fwd)
       \/ fwd.stage = "aborted"
    /\ fwd' = Off
    /\ UNCHANGED <<disk, dlq, consumed, next, promised, counters>>

(* The process dies; the API may have taken what was on the wire.          *)
Crash(taken) ==
    /\ fwd.stage # "down"
    /\ restarts < MaxRestarts
    /\ restarts' = restarts + 1
    /\ taken \in SUBSET fwd.requests
    /\ consumed' = consumed \cup UNION {ToSet(Head(r.parts)) : r \in taken}
    /\ fwd' = Off
    /\ UNCHANGED <<disk, dlq, next, promised, faults, spoolErrors>>

Restart ==
    /\ fwd.stage = "down"
    /\ fwd' = Fresh("up", disk)
    /\ UNCHANGED <<disk, dlq, consumed, next, promised, counters>>

Answer ==
    \E r \in fwd.requests, due \in Due(fwd) : \E at \in Places(due) :
        \/ \E n \in 0 .. Len(Head(r.parts)), stored \in BOOLEAN :
             \E rejected \in SUBSET ToSet(Head(r.parts)) :
                Reply(r, n, rejected, stored, due, at)
        \/ \E stored, expired \in BOOLEAN : Lost(r, stored, due, at, expired)
        \/ \E stored \in BOOLEAN : Dropped(r, stored, due, at)
        \/ Refused(r, due, at)

Next ==
    \/ Observe
    \/ SpoolWrite
    \/ \E due \in Due(fwd) : PutDone(due)
    \/ AckDone
    \/ SpoolError
    \/ \E due \in Due(fwd) : PumpTimer(due)
    \/ \E due \in Due(fwd) : Replay(due)
    \/ Answer
    \/ \E r \in fwd.requests : TooLarge(r)
    \/ \E due \in Due(fwd) : Shutdown(due)
    \/ AbortEventWork
    \/ Exit
    \/ \E taken \in SUBSET fwd.requests : Crash(taken)
    \/ Restart

Spec == Init /\ [][Next]_vars

(* Weak fairness.  The timers of a running forwarder fire, the spool makes *)
(* progress, the supervisor restarts a forwarder that stopped, and an API  *)
(* that has failed MaxFaults times answers every request completely.       *)
(* WF_vars(A) is written []<>~Can \/ []<><<A>>_vars where Can says that A   *)
(* has a step that changes something: TLC's ENABLED would re-evaluate the  *)
(* nested calls once per use.                                              *)
CanPutDone ==
    /\ fwd.stage # "down"
    /\ fwd.ops # <<>> /\ Head(fwd.ops).written /\ Head(fwd.ops).kind = "put"
AnyPutDone == \E due \in Due(fwd) : PutDone(due)

CanPump ==
    /\ fwd.stage \in {"up", "closing"}
    /\ fwd.pending # <<>> \/ fwd.retries # <<>>
    /\ \/ Cardinality(fwd.requests) < MaxInflight
       \/ fwd.stage = "up" /\ fwd.paused # AtCapacity(fwd)
AnyPump == \E due \in Due(fwd) : PumpTimer(due)

CanReplay == MayReplay(fwd) /\ \E due \in Due(fwd) : Replayed(fwd, due) # fwd
AnyReplay == \E due \in Due(fwd) : Replay(due)

FullReply ==
    \E r \in fwd.requests, due \in Due(fwd) : \E at \in Places(due) :
        \E rejected \in SUBSET ToSet(Head(r.parts)) :
            Reply(r, Len(Head(r.parts)), rejected, FALSE, due, at)

CanAbort == fwd.stage = "closing" /\ HasEventWork(fwd)

Fairness ==
    /\ WF_vars(SpoolWrite)
    /\ []<>~CanPutDone \/ []<><<AnyPutDone>>_vars
    /\ WF_vars(AckDone)
    /\ []<>~CanPump \/ []<><<AnyPump>>_vars
    /\ []<>~CanReplay \/ []<><<AnyReplay>>_vars
    /\ []<>(fwd.requests = {}) \/ []<><<FullReply>>_vars
    /\ []<>~CanAbort \/ []<><<AbortEventWork>>_vars
    /\ WF_vars(Exit)
    /\ WF_vars(Restart)

FairSpec == Spec /\ Fairness
-----------------------------------------------------------------------------
(* Properties.                                                             *)

(* Everything the forwarder keeps in memory for an event: queued, waiting  *)
(* for a retry or on the wire; and that it keeps an event once only.       *)
Waiting(m) == UNION {ToSet(m.retries[i]) : i \in DOMAIN m.retries}
OnWire(m)  == UNION {ToSet(r.batch) : r \in m.requests}
Held(m)    == ToSet(m.pending) \cup Waiting(m) \cup OnWire(m)

HeldOnce(m) ==
    /\ IsInjective(m.pending)
    /\ \A i \in DOMAIN m.retries :
          /\ IsInjective(m.retries[i])
          /\ ToSet(m.retries[i]) \cap ToSet(m.pending) = {}
          /\ \A j \in DOMAIN m.retries \ {i} :
                ToSet(m.retries[i]) \cap ToSet(m.retries[j]) = {}
    /\ \A r \in m.requests :
          /\ IsInjective(r.batch)
          /\ ToSet(r.batch) \cap ToSet(m.pending) = {}
          /\ \A i \in DOMAIN m.retries : ToSet(r.batch) \cap ToSet(m.retries[i]) = {}
          /\ \A q \in m.requests \ {r} : ToSet(r.batch) \cap ToSet(q.batch) = {}

Batches == Seq(Ids)

(* The gauges admission relies on are exact: every event is outstanding at *)
(* most once, outstandingEvents and retryOutstandingEvents count the items *)
(* in the queue, on the wire and waiting for a retry, and activeSpoolIds   *)
(* names exactly those (trackOutstanding, settleOutstanding).              *)
OutstandingExact ==
    /\ HeldOnce(fwd)
    /\ fwd.active = Held(fwd)
    /\ fwd.outstanding = Cardinality(fwd.active)
    /\ fwd.retryOutstanding = Cardinality(fwd.retryOwned)
    /\ \A i \in DOMAIN fwd.retries : ToSet(fwd.retries[i]) \subseteq fwd.retryOwned

(* What is outstanding is still in the spool, so comparing the number of   *)
(* records with the number of active ids (pumpDurableSpool) really tells   *)
(* whether something is left to replay.                                    *)
OutstandingIsSpooled == fwd.active \subseteq ToSet(fwd.lane)

(* Type invariant.                                                         *)
TypeOK ==
    /\ fwd.stage \in {"up", "closing", "aborted", "down"}
    /\ fwd.lane \in Batches /\ fwd.pending \in Batches
    /\ \A i \in DOMAIN fwd.ops :
         fwd.ops[i] \in [kind : {"put", "ack"}, ids : SUBSET Ids, written : BOOLEAN]
    /\ \A i \in DOMAIN fwd.retries : fwd.retries[i] \in Batches \ {<<>>}
    /\ \A r \in fwd.requests :
         /\ r.batch \in Batches \ {<<>>}
         /\ r.parts # <<>>
         /\ \A i \in DOMAIN r.parts : r.parts[i] \in Batches \ {<<>>}
    /\ fwd.retryOwned \subseteq fwd.active /\ fwd.active \subseteq Ids
    /\ fwd.walPending = PutsPending(fwd)
    /\ disk \subseteq Ids /\ dlq \subseteq Ids /\ consumed \subseteq Ids
    /\ promised \subseteq Ids
    /\ OutstandingExact /\ OutstandingIsSpooled

(* The forwarder implements EventDelivery: an event whose put was reported *)
(* durable leaves the spool file only when the API has taken it or the     *)
(* dead-letter file holds it, whatever is lost, retried, split, refused,   *)
(* evicted, parked, aborted or interrupted by a crash on the way.          *)
Delivery == INSTANCE EventDelivery WITH
    Events    <- Ids,
    promised  <- promised,
    owed      <- promised \cap disk,
    delivered <- consumed \cup dlq

OwedUntilDelivered == Delivery!Spec

(* The outstanding limit holds through replay, retries and eviction, and   *)
(* the slots reserved for protected traffic are never taken by the rest.   *)
ReserveHolds ==
    /\ fwd.outstanding <= MaxOutstanding
    /\ Cardinality({id \in fwd.active : Priority[id] < ProtectedPriority})
         <= MaxOutstanding - ProtectedReserve

(* Every event reported durable reaches the API or the dead-letter file:   *)
(* what was evicted, parked or dropped is replayed.                        *)
EveryEventDelivered ==
    \A id \in Ids : id \in promised ~> id \in consumed \cup dlq

(* Input that was paused for capacity is resumed (observer-forward.js:2692 *)
(* "so that path cannot leave readline paused"), unless a spool operation   *)
(* fails: that pauses it until other event work comes along.               *)
InputResumes == fwd.paused ~> (~fwd.paused \/ spoolErrors > 0)
=============================================================================
