-------------------------- MODULE EventWriteQueue --------------------------
(***************************************************************************)
(* The event writer of the API (clickhouse-store.ts): events enter a       *)
(* buffer (enqueue) or come with a caller that waits for durability        *)
(* (insertManyNow); both end up in one FIFO of sealed batches, of which    *)
(* one drain at a time inserts the head, retrying the same rows under the  *)
(* same deduplication token until ClickHouse answers.                      *)
(*                                                                         *)
(* The writer's memory is the record `w'; JavaScript runs from one await   *)
(* to the next in one step, so the operators above the actions are calls   *)
(* made inside such a step.  Time is abstracted: a batch whose retry cycle *)
(* failed is `cooling' until its timer fires.  A row stands for one event  *)
(* revision; its digest never changes here, so revision conflicts do not   *)
(* arise.  ClickHouse is external: a block is applied once per token, and  *)
(* a request whose answer never came may be applied later or never         *)
(* (`late').  Its window of 1000 tokens is taken to be long enough.  Byte  *)
(* limits have the shape of the row limits and are left out.               *)
(***************************************************************************)
EXTENDS Integers, Sequences, FiniteSets, SequencesExt

CONSTANTS
    Rows,           \* event revisions
    Buffered,       \* rows that also come through enqueue
    Calls,          \* calls of insertManyNow
    Keys,           \* idempotency keys of the callers
    Retained,       \* Retained[k]: the row sets a caller may bring with k
    BatchRows,      \* EVENT_WRITE_BATCH_ROWS
    MaxRows,        \* EVENT_WRITE_MAX_BUFFERED_ROWS
    MaxFaults,      \* bound: failed inserts
    MaxCrashes      \* bound: API restarts

ASSUME WriterAssumption ==
    /\ Buffered \subseteq Rows
    /\ Retained \in [Keys -> SUBSET ((SUBSET Rows) \ {{}})]
    /\ BatchRows \in Nat \ {0}
    /\ \A k \in Keys : \A S \in Retained[k] : IsFiniteSet(S) /\ Cardinality(S) <= BatchRows
    /\ {MaxRows, MaxFaults, MaxCrashes} \subseteq Nat

(* "Callers must not mutate a batch while retaining its key"              *)
(* (insertManyNow).                                                        *)
StableKeys == \A k \in Keys : \A S1, S2 \in Retained[k] : S1 = S2

VARIABLES
    w,          \* the writer's memory, see Fresh
    call,       \* call[c]: what became of a call
    applied,    \* applied[row]: how often ClickHouse stored it
    tokens,     \* deduplication tokens ClickHouse has seen
    late,       \* batches whose insert was given up and may yet be applied
    faults, crashes   \* counters for the bounds

vars == <<w, call, applied, tokens, late, faults, crashes>>

Fresh ==
    [phase     |-> "open",  \* "open", "closing" or "closed"
     buf       |-> <<>>,
     rows      |-> 0,       \* eventWriteRows: in buf and in batches
     batches   |-> <<>>,    \* eventWriteBatches
     known     |-> {},      \* eventRevisionDigests
     committed |-> {},      \* committedEventRevisionDigests
     drain     |-> "idle",  \* "idle", "insert", "backoff" or "ended"
     timer     |-> FALSE,   \* eventWriteRetryWakeTimer is set
     blocked   |-> FALSE]   \* eventWritePermanentError is set

NewCall == [state |-> "new", rows |-> {}]

Init ==
    /\ w = Fresh
    /\ call = [c \in Calls |-> NewCall]
    /\ applied = [r \in Rows |-> 0]
    /\ tokens = {} /\ late = {}
    /\ faults = 0 /\ crashes = 0

Durable == {r \in Rows : applied[r] > 0}

(* Tokens: of an upstream key, or a random one of this process.            *)
KeyToken(k)      == [key |-> k, rows |-> {}, epoch |-> 0]
RandomToken(S)   == [key |-> "random", rows |-> S, epoch |-> crashes]

Batch(source, token, S, waiters) ==
    [source |-> source, token |-> token, rows |-> S, waiters |-> waiters,
     cooling |-> FALSE]

QueuedRows(m) == UNION {m.batches[i].rows : i \in DOMAIN m.batches}

(* assertEventWriteBatchCapacity.                                          *)
HasRoom(n) == w.rows + n <= MaxRows

(* Calls that wait for a batch.                                            *)
Waiting(m) == UNION {m.batches[i].waiters : i \in DOMAIN m.batches}

(* sealBufferedEventBatches: a full chunk, or the tail if forced.  Every   *)
(* row that fills a chunk seals it at once, so buf never holds more than   *)
(* one and the loop of the code turns at most once.                        *)
Chunk(m) ==
    LET S == ToSet(m.buf) IN
    [m EXCEPT !.buf = <<>>,
              !.batches = Append(@, Batch("buffered", RandomToken(S), S, {}))]

Seal(m, forced) ==
    IF Len(m.buf) >= BatchRows \/ (forced /\ m.buf # <<>>) THEN Chunk(m) ELSE m

(* One turn of the loop in drainEventWrites, up to its next await: the     *)
(* drain ends or the head is on the wire.                                  *)
Loop(m) ==
    IF m.batches = <<>> \/ m.blocked THEN [m EXCEPT !.drain = "ended"]
    ELSE IF m.phase = "open" /\ Head(m.batches).cooling
         THEN [m EXCEPT !.drain = "ended", !.timer = TRUE]
         ELSE [m EXCEPT !.drain = "insert"]

(* ensureEventWriteDrain: one drain at a time.                             *)
StartDrain(m) == IF m.drain = "idle" THEN Loop(m) ELSE m

FinalizerClears(m) == [m EXCEPT !.drain = "idle"]

(* Its finalizer: look at the queue again.                                 *)
Finalizer(m) ==
    LET idle == [m EXCEPT !.drain = "idle"] IN
    IF /\ m.batches # <<>> /\ ~m.blocked
       /\ \/ m.phase = "closing"
          \/ m.phase = "open" /\ ~Head(m.batches).cooling
    THEN Loop(idle) ELSE idle
-----------------------------------------------------------------------------
(* The callers.                                                            *)

(* enqueue: a revision already remembered is not buffered again; a full    *)
(* buffer throws.                                                          *)
Enqueue(r) ==
    LET taken  == [w EXCEPT !.known = @ \cup {r}, !.buf = Append(@, r), !.rows = @ + 1]
        sealed == Seal(taken, FALSE)
    IN
    /\ r \in Buffered
    /\ w.phase = "open" /\ ~w.blocked
    /\ r \notin w.known
    /\ HasRoom(1)
    /\ w' = IF sealed.buf = <<>> THEN StartDrain(sealed) ELSE sealed
    /\ UNCHANGED <<call, applied, tokens, late, faults, crashes>>

(* insertManyNow: seal the buffer, leave out what is committed, join what  *)
(* is queued, append the rest as one batch under the caller's token.  A    *)
(* full buffer rejects the call after it sealed and joined.                *)
Joined(b, c, open) ==
    IF b.rows \cap open # {} THEN [b EXCEPT !.waiters = @ \cup {c}] ELSE b

Join(m, c, open) ==
    [m EXCEPT !.batches = [i \in DOMAIN @ |-> Joined(@[i], c, open)]]

InsertManyNow(c, k, S) ==
    LET sealed == Seal(w, TRUE)
        open   == S \ w.committed
        fresh  == open \ QueuedRows(sealed)
        joined == Join(sealed, c, open)
        queued == [joined EXCEPT
                     !.known = @ \cup fresh,
                     !.rows = @ + Cardinality(fresh),
                     !.batches = Append(@, Batch("direct", KeyToken(k), fresh, {c}))]
        full   == ~HasRoom(Cardinality(fresh))
    IN
    /\ w.phase = "open" /\ ~w.blocked
    /\ call[c].state = "new"
    /\ S \in Retained[k]
    /\ w' = IF fresh = {} THEN StartDrain(joined)
            ELSE IF full THEN joined
            ELSE StartDrain(queued)
    /\ call' = [call EXCEPT ![c] =
                  [state |-> CASE open = {} -> "resolved"
                               [] fresh # {} /\ full -> "rejected"
                               [] OTHER -> "waiting",
                   rows |-> S]]
    /\ UNCHANGED <<applied, tokens, late, faults, crashes>>
-----------------------------------------------------------------------------
(* The drain.                                                              *)

Request(b) == [token |-> b.token, rows |-> b.rows]

(* The insert in flight, if any.                                           *)
Flying == IF w.drain = "insert" THEN {Request(Head(w.batches))} ELSE {}

(* ClickHouse takes a block unless it has seen its token.                  *)
Apply(b) ==
    /\ tokens' = tokens \cup {b.token}
    /\ applied' = IF b.token \in tokens THEN applied
                  ELSE [r \in Rows |-> applied[r] + IF r \in b.rows THEN 1 ELSE 0]

ResolvedByOne(waiters, m) ==
    [c \in Calls |->
        IF c \in waiters /\ call[c].state = "waiting"
        THEN [call[c] EXCEPT !.state = "resolved"] ELSE call[c]]

(* Resolve or reject the waiters of a batch; Promise.all resolves a call   *)
(* when no other batch holds it and rejects it at once.                    *)
Resolved(waiters, m) ==
    [c \in Calls |->
        IF c \in waiters \ Waiting(m) /\ call[c].state = "waiting"
        THEN [call[c] EXCEPT !.state = "resolved"] ELSE call[c]]

Rejected(waiters) ==
    [c \in Calls |->
        IF c \in waiters /\ call[c].state = "waiting"
        THEN [call[c] EXCEPT !.state = "rejected"] ELSE call[c]]

(* The insert is acknowledged.                                             *)
InsertSucceeds ==
    LET b    == Head(w.batches)
        done == [w EXCEPT !.committed = @ \cup b.rows, !.batches = Tail(@),
                          !.rows = @ - Cardinality(b.rows)]
    IN
    /\ w.drain = "insert"
    /\ Apply(b)
    /\ w' = Loop(done)
    /\ call' = Resolved(b.waiters, done)
    /\ UNCHANGED <<late, faults, crashes>>

CoolHeadRotates(m) ==
    [m EXCEPT !.batches = Append(Tail(@), Head(@)), !.drain = "ended"]

CoolHead(m) ==
    [m EXCEPT !.batches[1].cooling = (m.phase = "open"),
              !.timer = (m.phase = "open"),
              !.drain = "ended"]

(* A retryable failure: the block was applied, or was not, or may yet be.  *)
(* The cycle backs off and tries again, or has reached its deadline.       *)
InsertFails ==
    LET b == Head(w.batches) IN
    /\ w.drain = "insert"
    /\ faults < MaxFaults
    /\ faults' = faults + 1
    /\ \/ Apply(b) /\ UNCHANGED late
       \/ late' = late \cup {Request(b)} /\ UNCHANGED <<applied, tokens>>
       \/ UNCHANGED <<applied, tokens, late>>
    /\ w' \in {[w EXCEPT !.drain = "backoff"], CoolHead(w)}
    /\ UNCHANGED <<call, crashes>>

(* sleepBeforeEventWriteRetry is over: another attempt, or the deadline.   *)
BackoffEnds ==
    /\ w.drain = "backoff"
    /\ w' \in {[w EXCEPT !.drain = "insert"], CoolHead(w)}
    /\ UNCHANGED <<call, applied, tokens, late, faults, crashes>>

(* A permanent or unknown failure: the batch is retained, the writer is    *)
(* blocked, only the head's waiters are told.                              *)
InsertBlocked ==
    LET b == Head(w.batches) IN
    /\ w.drain = "insert"
    /\ faults < MaxFaults
    /\ faults' = faults + 1
    /\ w' = [w EXCEPT !.blocked = TRUE, !.drain = "ended", !.batches[1].waiters = {}]
    /\ call' = Rejected(b.waiters)
    /\ UNCHANGED <<applied, tokens, late, crashes>>

DrainEnds ==
    /\ w.drain = "ended"
    /\ w' = Finalizer(w)
    /\ UNCHANGED <<call, applied, tokens, late, faults, crashes>>

(* scheduleEventWriteRetry: the cooldown is over.                          *)
RetryTimer ==
    /\ w.timer
    /\ w.phase = "open"
    /\ LET m == [w EXCEPT !.timer = FALSE] IN
       w' = StartDrain(IF m.batches = <<>> THEN m
                       ELSE [m EXCEPT !.batches[1].cooling = FALSE])
    /\ UNCHANGED <<call, applied, tokens, late, faults, crashes>>

(* The flush timer: seal the tail and drain.                               *)
FlushTimer ==
    LET sealed == Seal(w, TRUE) IN
    /\ w.phase = "open"
    /\ sealed.batches # <<>>
    /\ w' = StartDrain(sealed)
    /\ UNCHANGED <<call, applied, tokens, late, faults, crashes>>

(* A request given up on reaches ClickHouse after all.                     *)
LateApply(b) ==
    /\ b \in late
    /\ late' = late \ {b}
    /\ Apply(b)
    /\ UNCHANGED <<w, call, faults, crashes>>
-----------------------------------------------------------------------------
(* close: no new work, the tail sealed, cooldowns waived.                  *)
Close ==
    LET sealed == Seal(w, TRUE)
        awake  == [sealed EXCEPT !.phase = "closing", !.timer = FALSE,
                     !.batches = [i \in DOMAIN @ |-> [@[i] EXCEPT !.cooling = FALSE]]]
    IN
    /\ w.phase = "open"
    /\ w' = IF awake.batches # <<>> THEN StartDrain(awake) ELSE awake
    /\ UNCHANGED <<call, applied, tokens, late, faults, crashes>>

FinishCloseForgets ==
    /\ w.phase = "closing"
    /\ w' = [Fresh EXCEPT !.phase = "closed"]
    /\ UNCHANGED <<call, applied, tokens, late, faults, crashes>>

(* finishClose: drained, blocked or out of time; the waiters left are      *)
(* rejected and an insert in flight is aborted.                            *)
FinishClose ==
    /\ w.phase = "closing"
    /\ late' \in {late, late \cup Flying}
    /\ call' = Rejected(Waiting(w))
    /\ w' = [Fresh EXCEPT !.phase = "closed"]
    /\ UNCHANGED <<applied, tokens, faults, crashes>>

(* The process dies, closed or not, and another one starts; its callers    *)
(* hear nothing.                                                           *)
Restart ==
    /\ crashes < MaxCrashes
    /\ crashes' = crashes + 1
    /\ late' \in {late, late \cup Flying}
    /\ w' = Fresh
    /\ call' = [c \in Calls |-> IF call[c].state = "waiting"
                                THEN [call[c] EXCEPT !.state = "lost"] ELSE call[c]]
    /\ UNCHANGED <<applied, tokens, faults>>
-----------------------------------------------------------------------------
Next ==
    \/ \E r \in Buffered : Enqueue(r)
    \/ \E c \in Calls, k \in Keys : \E S \in Retained[k] : InsertManyNow(c, k, S)
    \/ InsertSucceeds \/ InsertFails \/ InsertBlocked \/ BackoffEnds
    \/ DrainEnds \/ RetryTimer \/ FlushTimer
    \/ \E b \in late : LateApply(b)
    \/ Close \/ FinishClose \/ Restart

Spec == Init /\ [][Next]_vars

(* Timers fire and promises settle; ClickHouse answers after MaxFaults     *)
(* failures.  Nothing says that a caller calls or that the API closes.     *)
Fairness ==
    /\ WF_vars(InsertSucceeds)
    /\ WF_vars(BackoffEnds)
    /\ WF_vars(DrainEnds)
    /\ WF_vars(RetryTimer)
    /\ WF_vars(FlushTimer)
    /\ WF_vars(FinishClose)

FairSpec == Spec /\ Fairness
-----------------------------------------------------------------------------
(* Properties.                                                             *)

(* "the newly queued head cannot remain stranded until the periodic timer" *)
(* (ensureEventWriteDrain): a head with a caller waiting for it is being   *)
(* drained or its retry timer is set.                                      *)
NoStrandedHead ==
    (w.batches # <<>> /\ ~w.blocked /\ Head(w.batches).source = "direct")
        => (w.drain # "idle" \/ w.timer)

(* Type invariant.                                                         *)
TypeOK ==
    /\ w.phase \in {"open", "closing", "closed"}
    /\ w.drain \in {"idle", "insert", "backoff", "ended"}
    /\ w.drain \in {"insert", "backoff"} => (w.batches # <<>> /\ ~w.blocked)
    /\ {w.timer, w.blocked} \subseteq BOOLEAN
    /\ w.buf \in Seq(Rows) /\ Len(w.buf) < BatchRows
    /\ \A i \in DOMAIN w.batches :
          LET b == w.batches[i] IN
          /\ b.rows # {} /\ b.rows \subseteq w.known
          /\ b.waiters \subseteq Calls
          /\ b.cooling => (i = 1 /\ w.timer)
    /\ \A c \in Calls : call[c].state \in {"new", "waiting", "resolved", "rejected", "lost"}
    /\ \A r \in Rows : applied[r] \in Nat
    /\ w.rows = Len(w.buf) + Cardinality(QueuedRows(w)) /\ w.rows <= MaxRows
    /\ NoStrandedHead

(* A caller told that its revisions are durable can rely on it: through    *)
(* joined batches, the committed cache, retries under one token, blocks    *)
(* that ClickHouse drops as duplicates, shutdown and restart.              *)
ResolvedIsDurable ==
    \A c \in Calls : call[c].state = "resolved" => call[c].rows \subseteq Durable

(* Within one process a revision is stored at most once, whatever mixture  *)
(* of enqueue, insertManyNow, retries and late requests carried it; and    *)
(* first in, first durable: while the head is being retried nothing behind *)
(* it is stored, so a later revision never overtakes an earlier one.       *)
StoredOnceInOrder ==
    crashes = 0 =>
        /\ \A r \in Rows : applied[r] <= 1
        /\ \A i \in DOMAIN w.batches \ {1} : w.batches[i].rows \cap Durable = {}
        /\ ToSet(w.buf) \cap Durable = {}

(* Every call is settled: joined or appended, behind any number of         *)
(* retries, and across a shutdown, unless a permanent failure has blocked  *)
(* the writer (which leaves the calls behind the head waiting for close).  *)
EveryCallSettles ==
    \A c \in Calls :
        call[c].state = "waiting" ~> (call[c].state # "waiting" \/ w.blocked)
=============================================================================
