---------------------------- MODULE DurableSpool ----------------------------
(***************************************************************************)
(* The forwarder's write-ahead log: class DurableSpool of                  *)
(* scripts/observer-durable-spool.js.                                      *)
(*                                                                         *)
(* A record handed to putAsync is appended to a file and only then becomes *)
(* visible in `records'; ackAsync removes it from memory first and appends *)
(* the acknowledgement behind it; deadLetter writes the dead-letter file   *)
(* and then acknowledges synchronously.  A restart rebuilds `records' from *)
(* the file.                                                               *)
(*                                                                         *)
(* Abstraction of the file.  One operation is one line, JSON text and a    *)
(* newline.  Three fragments stand for it: 1 an unparsable beginning of    *)
(* the text, 2 the rest of the text, 3 the newline.  A short write or a    *)
(* crash leaves a prefix of them, which is every case that load() can tell *)
(* apart.  Bytes are counted in fragments (walBytes) and in Size           *)
(* (logicalBytes).                                                         *)
(*                                                                         *)
(* Record ids are 1..MaxPuts in observation order: the forwarder derives a *)
(* fresh id per event (sourceEventId), so an id is put once and its number *)
(* orders it like its queuedAt.                                            *)
(***************************************************************************)
EXTENDS Integers, Sequences, FiniteSets, FiniteSetsExt

CONSTANTS
    MaxPuts,         \* bound: number of records ever put
    Size,            \* Size[id]: bytes of a record's body
    MaxRecords,      \* this.maxRecords
    MaxBytes,        \* this.maxBytes
    CompactMin,      \* this.compactMinBytes, in fragments
    CompactMaxLive,  \* this.compactMaxLiveRecords
    MaxErrors,       \* bound: number of failed or short writes
    MaxCrashes       \* bound: number of process or host crashes

Ids == 1 .. MaxPuts

ASSUME SpoolAssumption ==
    /\ MaxPuts \in Nat
    /\ Size \in [Ids -> Nat]
    /\ MaxRecords \in Nat
    /\ MaxBytes \in Nat
    /\ CompactMin \in Nat
    /\ CompactMaxLive \in Nat
    /\ MaxErrors \in Nat
    /\ MaxCrashes \in Nat

VARIABLES
    proc,            \* "up", "closed" (spool.close() returned) or "down"
    wal,             \* the file: a sequence of fragments
    synced,          \* length of the prefix a host crash cannot lose
    dlq,             \* ids written to the dead-letter file (always fsynced)
    records,         \* this.records: live id |-> Map insertion tick
    logicalBytes,    \* this.logicalBytes
    pendingPutIds,   \* this.pendingPutIds
    pendingPutBytes, \* this.pendingPutBytes
    asyncOperations, \* this.asyncOperations: entries [op, offset]
    asyncSync,       \* -1, or the file length when the running fsync began
    walBytes,        \* this.walBytes
    fsyncAlways,     \* this.fsyncMode = 'always' (otherwise 'periodic')
    nextId,          \* the next record the caller will put
    promised,        \* history: ids whose put callback reported success
    acked,           \* history: ids the caller acknowledged
    damaged,         \* history: an operation was appended behind a torn one
    errors, crashes  \* counters for the bounds

disk     == <<wal, synced, dlq, damaged>>
memory   == <<records, logicalBytes, pendingPutIds, pendingPutBytes,
              asyncOperations, asyncSync, walBytes>>
caller   == <<nextId, promised, acked>>
counters == <<errors, crashes>>
vars     == <<proc, fsyncAlways, disk, memory, caller, counters>>

-----------------------------------------------------------------------------
(* Operations and the fragments of their lines.                            *)

PutOp(id)       == [kind |-> "put", ids |-> {id}]
AckOp(S)        == [kind |-> "ack", ids |-> S]
Operations      == {PutOp(id) : id \in Ids} \cup {AckOp(S) : S \in SUBSET Ids}
Fragment(op, p) == [op |-> op, part |-> p]
Fragments       == [op : Operations, part : 1 .. 3]
Entries         == [op : Operations, offset : 0 .. 3]

(* The fragments of op from number `from' to number `to'.                  *)
Text(op, from, to) == [i \in 1 .. (to - from + 1) |-> Fragment(op, from + i - 1)]

(* n is the end of a text that load() parses and applies: a whole line, or *)
(* a complete last operation without its newline.                          *)
Applied(w, n) ==
    /\ n \in 2 .. Len(w)
    /\ w[n].part = 2
    /\ w[n - 1] = Fragment(w[n].op, 1)
    /\ n > 2 => w[n - 2].part = 3
    /\ n < Len(w) => w[n + 1].part = 3

(* load() throws: some newline-terminated, non-empty line does not parse.  *)
Corrupt(w) ==
    \E n \in 1 .. Len(w) :
        /\ w[n].part = 3
        /\ n > 1 /\ w[n - 1].part # 3
        /\ ~Applied(w, n - 1)

(* No operation is appended behind a torn one: every fragment              *)
(* continues the one before it.                                            *)
Intact(w) ==
    \A i \in 1 .. Len(w) :
        IF w[i].part = 1
        THEN i > 1 => w[i - 1].part = 3
        ELSE i > 1 /\ w[i - 1] = Fragment(w[i].op, w[i].part - 1)

PutAt(w, id, n) == Applied(w, n) /\ w[n].op = PutOp(id)
AckAt(w, id, n) == Applied(w, n) /\ w[n].op.kind = "ack" /\ id \in w[n].op.ids

(* What load() leaves in this.records: the last operation on the id is a   *)
(* put.                                                                    *)
Live(w) ==
    {id \in Ids : \E n \in 2 .. Len(w) :
        /\ PutAt(w, id, n)
        /\ \A m \in n + 1 .. Len(w) : ~AckAt(w, id, m)}

PositionOf(w, id) == CHOOSE n \in 2 .. Len(w) : PutAt(w, id, n)

BytesOf(S) == SumFunctionOnSet(Size, S)

-----------------------------------------------------------------------------
(* The Map this.records.                                                   *)

EmptyMap == [id \in {} |-> 0]
LiveIds  == DOMAIN records
LastTick == IF LiveIds = {} THEN 0 ELSE Max({records[id] : id \in LiveIds})

Without(map, S) == [id \in DOMAIN map \ S |-> map[id]]

(* Map.set of the ids of S that are absent, in order.                      *)
Restored(S) ==
    [id \in LiveIds \cup S |->
        IF id \in LiveIds THEN records[id]
        ELSE LastTick + Cardinality({j \in S \ LiveIds : j <= id})]

(* The snapshot lines compaction writes: one put per live record in Map    *)
(* order.                                                                  *)
MapOrders(map) ==
    {s \in [1 .. Cardinality(DOMAIN map) -> DOMAIN map] :
        /\ {s[i] : i \in DOMAIN s} = DOMAIN map
        /\ \A i, j \in DOMAIN s : i < j => map[s[i]] < map[s[j]]}

Snapshot(s) ==
    [k \in 1 .. 3 * Len(s) |->
        Fragment(PutOp(s[((k - 1) \div 3) + 1]), ((k - 1) % 3) + 1)]

-----------------------------------------------------------------------------
NoteDamage == damaged' = (damaged \/ ~Intact(wal'))

Init ==
    /\ proc = "up"
    /\ fsyncAlways \in BOOLEAN
    /\ wal = <<>> /\ synced = 0 /\ dlq = {}
    /\ records = EmptyMap
    /\ logicalBytes = 0
    /\ pendingPutIds = {} /\ pendingPutBytes = 0
    /\ asyncOperations = <<>>
    /\ asyncSync = -1
    /\ walBytes = 0
    /\ nextId = 1 /\ promised = {} /\ acked = {}
    /\ errors = 0 /\ crashes = 0
    /\ damaged = FALSE

(* putAsync: reserve capacity and queue the append, or refuse.             *)
HasRoomIgnoringPending(id) ==
    /\ Cardinality(LiveIds) + 1 <= MaxRecords
    /\ logicalBytes + Size[id] <= MaxBytes

HasRoomFor(id) ==
    /\ Cardinality(LiveIds) + Cardinality(pendingPutIds) + 1 <= MaxRecords
    /\ logicalBytes + pendingPutBytes + Size[id] <= MaxBytes

PutAsync ==
    /\ proc # "down"
    /\ nextId <= MaxPuts
    /\ nextId' = nextId + 1
    /\ IF proc = "up" /\ HasRoomFor(nextId)
       THEN /\ pendingPutIds' = pendingPutIds \cup {nextId}
            /\ pendingPutBytes' = pendingPutBytes + Size[nextId]
            /\ asyncOperations' =
                 Append(asyncOperations, [op |-> PutOp(nextId), offset |-> 0])
       ELSE UNCHANGED <<pendingPutIds, pendingPutBytes, asyncOperations>>
    /\ UNCHANGED <<proc, disk, records, logicalBytes, asyncSync, walBytes,
                   promised, acked, counters>>

(* ackAsync: forget the records, then queue the acknowledgement.           *)
AckAsync(S) ==
    /\ proc = "up"
    /\ S # {} /\ S \subseteq LiveIds
    /\ records' = Without(records, S)
    /\ logicalBytes' = logicalBytes - BytesOf(S)
    /\ asyncOperations' = Append(asyncOperations, [op |-> AckOp(S), offset |-> 0])
    /\ acked' = acked \cup S
    /\ UNCHANGED <<proc, disk, pendingPutIds, pendingPutBytes, asyncSync,
                   walBytes, nextId, promised, counters>>

(* writeRemaining: the kernel takes a prefix of what is left of the head   *)
(* operation.                                                              *)
AsyncWrite(n) ==
    /\ proc = "up"
    /\ asyncOperations # <<>>
    /\ LET entry == Head(asyncOperations) IN
       /\ n \in 1 .. 3 - entry.offset
       /\ wal' = wal \o Text(entry.op, entry.offset + 1, entry.offset + n)
       /\ asyncOperations' =
            [asyncOperations EXCEPT ![1].offset = entry.offset + n]
    /\ NoteDamage
    /\ UNCHANGED <<proc, synced, dlq, records, logicalBytes, pendingPutIds,
                   pendingPutBytes, asyncSync, walBytes, caller, counters>>

(* compactIfNeeded, given the state the calling callback has left behind:  *)
(* the file is long, mostly dead, and no asynchronous work is outstanding. *)
MayCompactWhileWriting(map, bytes, queue) ==
    /\ bytes >= CompactMin
    /\ bytes >= 2 * (3 * Cardinality(DOMAIN map))
    /\ Cardinality(DOMAIN map) <= CompactMaxLive
    /\ asyncSync = -1

MayCompact(map, bytes, queue) ==
    /\ bytes >= CompactMin
    /\ bytes >= 2 * (3 * Cardinality(DOMAIN map))
    /\ Cardinality(DOMAIN map) <= CompactMaxLive
    /\ queue = <<>>
    /\ asyncSync = -1

CompactIfNeeded(map, file, bytes, queue) ==
    IF MayCompact(map, bytes, queue)
    THEN \E s \in MapOrders(map) :
            /\ wal' = Snapshot(s)
            /\ synced' = 3 * Len(s)
            /\ walBytes' = 3 * Len(s)
    ELSE /\ wal' = file
         /\ walBytes' = bytes

(* fsync 'always' syncs the file before an append reports success.         *)
SyncedNotAwaited(file) == synced
SyncedAfter(file) == IF fsyncAlways THEN Len(file) ELSE synced

(* finish(): the head operation is completely written (and synced when     *)
(* fsync is 'always'), its callback runs and the queue advances.           *)
FinishPut ==
    /\ proc = "up"
    /\ asyncOperations # <<>>
    /\ Head(asyncOperations).offset = 3
    /\ Head(asyncOperations).op.kind = "put"
    /\ LET ids == Head(asyncOperations).op.ids IN
       /\ records' = Restored(ids)
       /\ logicalBytes' = logicalBytes + BytesOf(ids)
       /\ pendingPutIds' = pendingPutIds \ ids
       /\ pendingPutBytes' = pendingPutBytes - BytesOf(ids)
       /\ promised' = promised \cup ids
    /\ asyncOperations' = Tail(asyncOperations)
    /\ walBytes' = walBytes + 3
    /\ synced' = SyncedAfter(wal)
    /\ UNCHANGED <<proc, wal, dlq, damaged, asyncSync, nextId, acked, counters>>

FinishAck ==
    /\ proc = "up"
    /\ asyncOperations # <<>>
    /\ Head(asyncOperations).offset = 3
    /\ Head(asyncOperations).op.kind = "ack"
    /\ asyncOperations' = Tail(asyncOperations)
    /\ CompactIfNeeded(records, wal, walBytes + 3, Tail(asyncOperations))
    /\ ~MayCompact(records, walBytes + 3, Tail(asyncOperations)) =>
         synced' = SyncedAfter(wal)
    /\ NoteDamage
    /\ UNCHANGED <<proc, dlq, records, logicalBytes, pendingPutIds,
                   pendingPutBytes, asyncSync, caller, counters>>

(* finish(error): a write or an 'always' fsync failed.  What was already   *)
(* written stays in the file; a put is refused, an ack is undone in        *)
(* memory.                                                                 *)
FinishError ==
    /\ proc = "up"
    /\ asyncOperations # <<>>
    /\ errors < MaxErrors
    /\ errors' = errors + 1
    /\ LET entry == Head(asyncOperations)
           ids   == entry.op.ids IN
       /\ entry.offset < 3 \/ fsyncAlways
       /\ IF entry.op.kind = "put"
          THEN /\ pendingPutIds' = pendingPutIds \ ids
               /\ pendingPutBytes' = pendingPutBytes - BytesOf(ids)
               /\ UNCHANGED <<records, logicalBytes>>
          ELSE /\ records' = Restored(ids)
               /\ logicalBytes' = logicalBytes + BytesOf(ids \ LiveIds)
               /\ UNCHANGED <<pendingPutIds, pendingPutBytes>>
    /\ asyncOperations' = Tail(asyncOperations)
    /\ UNCHANGED <<proc, disk, asyncSync, walBytes, caller, crashes>>

(* deadLetter: the dead-letter file is written and synced, then ack()      *)
(* appends synchronously.  fs.writeSync may throw before writing (n = 0),  *)
(* and its result is not checked, so a short write (n < 3) passes.         *)
DeadLetter(S, n) ==
    /\ proc # "down"
    /\ S # {} /\ S \subseteq LiveIds
    /\ proc = "closed" => n = 3
    /\ n < 3 => errors < MaxErrors
    /\ errors' = IF n < 3 THEN errors + 1 ELSE errors
    /\ dlq' = dlq \cup S
    /\ IF proc = "closed" \/ n = 0
       THEN UNCHANGED <<wal, synced, records, logicalBytes, walBytes>>
       ELSE /\ records' = Without(records, S)
            /\ logicalBytes' = logicalBytes - BytesOf(S)
            /\ LET file  == wal \o Text(AckOp(S), 1, n)
                   bytes == walBytes + 3
                   map   == Without(records, S) IN
               /\ CompactIfNeeded(map, file, bytes, asyncOperations)
               /\ ~MayCompact(map, bytes, asyncOperations) =>
                    synced' = SyncedAfter(file)
    /\ NoteDamage
    /\ UNCHANGED <<proc, pendingPutIds, pendingPutBytes, asyncOperations,
                   asyncSync, caller, crashes>>

(* The periodic timer's fsync covers what was in the file when it began.   *)
SyncAsync ==
    /\ proc = "up" /\ ~fsyncAlways
    /\ asyncSync = -1
    /\ asyncSync' = Len(wal)
    /\ UNCHANGED <<proc, disk, records, logicalBytes, pendingPutIds,
                   pendingPutBytes, asyncOperations, walBytes, caller, counters>>

SyncDone(ok) ==
    /\ proc = "up"
    /\ asyncSync # -1
    /\ ~ok => errors < MaxErrors
    /\ errors' = IF ok THEN errors ELSE errors + 1
    /\ synced' = IF ok /\ asyncSync > synced THEN asyncSync ELSE synced
    /\ asyncSync' = -1
    /\ UNCHANGED <<proc, wal, dlq, damaged, records, logicalBytes, pendingPutIds,
                   pendingPutBytes, asyncOperations, walBytes, caller, crashes>>

(* close() throws while asynchronous work is outstanding.                  *)
Close ==
    /\ proc = "up"
    /\ asyncOperations = <<>> /\ asyncSync = -1
    /\ proc' = "closed"
    /\ synced' = Len(wal)
    /\ UNCHANGED <<wal, dlq, damaged, memory, caller, counters>>

(* The process dies: memory is gone, the page cache survives.              *)
Stop ==
    /\ proc' = "down"
    /\ records' = EmptyMap /\ logicalBytes' = 0
    /\ pendingPutIds' = {} /\ pendingPutBytes' = 0
    /\ asyncOperations' = <<>> /\ asyncSync' = -1 /\ walBytes' = 0

ProcessExit ==
    /\ proc # "down"
    /\ crashes < MaxCrashes
    /\ crashes' = crashes + 1
    /\ Stop
    /\ UNCHANGED <<disk, caller, errors>>

(* The records whose put is inside the synced prefix.                      *)
Flushed == {id \in Ids : \E n \in 2 .. synced : PutAt(SubSeq(wal, 1, synced), id, n)}

(* The host dies: any part of the file behind the synced prefix is gone,   *)
(* and with it the promises made since the last fsync.                     *)
HostCrash(n) ==
    /\ crashes < MaxCrashes
    /\ n \in synced .. Len(wal)
    /\ crashes' = crashes + 1
    /\ Stop
    /\ wal' = SubSeq(wal, 1, n)
    /\ promised' = promised \cap Flushed
    /\ NoteDamage
    /\ UNCHANGED <<synced, dlq, nextId, acked, errors>>

(* The constructor: load(), which throws on a corrupt line, then open for  *)
(* append.  A torn last line is skipped but stays in the file.             *)
Restart ==
    /\ proc = "down"
    /\ ~Corrupt(wal)
    /\ proc' = "up"
    /\ records' = [id \in Live(wal) |-> PositionOf(wal, id)]
    /\ logicalBytes' = BytesOf(Live(wal))
    /\ walBytes' = Len(wal)
    /\ UNCHANGED <<disk, pendingPutIds, pendingPutBytes, asyncOperations,
                   asyncSync, caller, counters>>

Step ==
    \/ PutAsync
    \/ \E S \in SUBSET LiveIds : AckAsync(S)
    \/ \E n \in 1 .. 3 : AsyncWrite(n)
    \/ FinishPut
    \/ FinishAck
    \/ FinishError
    \/ \E S \in SUBSET LiveIds, n \in 0 .. 3 : DeadLetter(S, n)
    \/ SyncAsync
    \/ \E ok \in BOOLEAN : SyncDone(ok)
    \/ Close
    \/ ProcessExit
    \/ \E n \in 0 .. Len(wal) : HostCrash(n)
    \/ Restart

(* The configuration outlives the process.                                 *)
Next == Step /\ UNCHANGED fsyncAlways

Spec == Init /\ [][Next]_vars
-----------------------------------------------------------------------------
(* Properties.                                                             *)

(* Type invariant; in particular the synced prefix and the prefix a        *)
(* running fsync will report never outgrow a file that compaction rewrote. *)
(* (What the two byte counters hold is CapacityHolds.)                     *)
TypeOK ==
    /\ proc \in {"up", "closed", "down"}
    /\ fsyncAlways \in BOOLEAN
    /\ wal \in Seq(Fragments)
    /\ synced \in 0 .. Len(wal)
    /\ dlq \in SUBSET Ids
    /\ DOMAIN records \in SUBSET Ids
    /\ pendingPutIds \in SUBSET Ids
    /\ asyncOperations \in Seq(Entries)
    /\ asyncSync \in -1 .. Len(wal)
    /\ walBytes \in Nat
    /\ nextId \in 1 .. MaxPuts + 1
    /\ promised \in SUBSET Ids
    /\ acked \in SUBSET Ids
    /\ damaged \in BOOLEAN
    /\ errors \in 0 .. MaxErrors
    /\ crashes \in 0 .. MaxCrashes

Owed == promised \ (acked \cup dlq)

(* A put that was reported durable can be replayed until it is             *)
(* acknowledged or dead-lettered, through any crash, failed write,         *)
(* compaction and interleaving of asynchronous and synchronous appends, as *)
(* long as nothing was appended behind a torn operation                    *)
(* (observer-durable-spool.js:283 "It can never lose the put").            *)
NoPutLost == ~damaged => ~Corrupt(wal) /\ Owed \subseteq Live(wal)

(* With fsync 'always' a put is only reported once it is inside the synced *)
(* prefix, so even a host crash cannot take it back.                       *)
PromisedIsSynced == fsyncAlways /\ ~damaged => Owed \subseteq Flushed

(* The byte counters that drive back-pressure equal the bytes of the       *)
(* records they stand for after any mix of failures and restarts, so that  *)
(* the capacity limit also bounds what a restart recovers:                 *)
(* acknowledgements and the puts admitted in their place reach the file in *)
(* that order.                                                             *)
CapacityHolds ==
    /\ proc # "down" =>
          /\ logicalBytes = BytesOf(LiveIds)
          /\ pendingPutBytes = BytesOf(pendingPutIds)
    /\ errors = 0 /\ ~damaged =>
          /\ Cardinality(Live(wal)) <= MaxRecords
          /\ BytesOf(Live(wal)) <= MaxBytes

(* observer-durable-spool.js:124-129: a crash tears only the final append, *)
(* so the log stays a "safe replay boundary" and load() never meets a      *)
(* corrupt line.                                                           *)
AlwaysReplayable == ~Corrupt(wal)
=============================================================================
