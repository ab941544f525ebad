------------------------ MODULE DurableSpool_proofs ------------------------
(***************************************************************************)
(* Proofs about DurableSpool: the type invariant, that no put reported     *)
(* durable is lost, and that the capacity limits also bound what a restart *)
(* recovers, for every number and size of records, every capacity, both    *)
(* fsync modes and any number of failures and crashes.                     *)
(***************************************************************************)
EXTENDS DurableSpool, FiniteSetTheorems, SequenceTheorems, WellFoundedInduction, TLAPS

(* The fragments of one operation form a typed sequence.                   *)
LEMMA TextType ==
    ASSUME NEW op \in Operations, NEW from \in 1 .. 3, NEW to \in from .. 3
    PROVE  /\ Text(op, from, to) \in Seq(Fragments)
           /\ Len(Text(op, from, to)) = to - from + 1
           /\ \A i \in 1 .. to - from + 1 :
                Text(op, from, to)[i] = Fragment(op, from + i - 1)
<1>1. \A i \in 1 .. (to - from + 1) : Fragment(op, from + i - 1) \in Fragments
  BY DEF Fragment, Fragments
<1>2. to - from + 1 \in Nat
  OBVIOUS
<1> QED
  BY <1>1, <1>2 DEF Text

(* A compaction snapshot is a typed file that contains the put of every    *)
(* live record and nothing else.                                           *)
LEMMA SnapshotType ==
    ASSUME NEW map, DOMAIN map \in SUBSET Ids,
           NEW s \in MapOrders(map)
    PROVE  /\ Snapshot(s) \in Seq(Fragments)
           /\ Len(s) \in Nat
           /\ Len(Snapshot(s)) = 3 * Len(s)
           /\ \A k \in 1 .. 3 * Len(s) : Snapshot(s)[k].op.kind = "put"
           /\ \A id \in DOMAIN map : \E k \in 1 .. 3 * Len(s) :
                Snapshot(s)[k] = Fragment(PutOp(id), 2)
           /\ \A k \in 1 .. 3 * Len(s) : \E id \in DOMAIN map :
                Snapshot(s)[k].op = PutOp(id)
<1> DEFINE c == Cardinality(DOMAIN map)
           F(k) == Fragment(PutOp(s[((k - 1) \div 3) + 1]), ((k - 1) % 3) + 1)
<1>1. s \in [1 .. c -> DOMAIN map] /\ {s[i] : i \in DOMAIN s} = DOMAIN map
  BY DEF MapOrders
<1>2. c \in Nat
  <2>1. IsFiniteSet(Ids)
    BY SpoolAssumption, FS_Interval DEF Ids
  <2> QED
    BY <2>1, FS_Subset, FS_CardinalityType
<1> HIDE DEF c
<1>3. s \in Seq(Ids) /\ Len(s) = c
  BY <1>1, <1>2
<1>4. \A k \in 1 .. 3 * c : ((k - 1) \div 3) + 1 \in 1 .. c
                            /\ ((k - 1) % 3) + 1 \in 1 .. 3
  BY <1>2
<1>5. \A k \in 1 .. 3 * c : s[((k - 1) \div 3) + 1] \in Ids
  BY <1>3, <1>4
<1>6. \A k \in 1 .. 3 * c : F(k) \in Fragments /\ F(k).op.kind = "put"
  BY <1>4, <1>5 DEF Fragment, Fragments, Operations, PutOp
<1>7. Snapshot(s) = [k \in 1 .. 3 * c |-> F(k)]
  BY <1>3 DEF Snapshot
<1>8. 3 * c \in Nat
  BY <1>2
<1>9. /\ Snapshot(s) \in Seq(Fragments)
      /\ Len(Snapshot(s)) = 3 * c
      /\ \A k \in 1 .. 3 * c : Snapshot(s)[k] = F(k)
  <2> HIDE DEF F
  <2> QED BY <1>6, <1>7, <1>8
<1>10. ASSUME NEW id \in DOMAIN map
       PROVE  \E k \in 1 .. 3 * c : Snapshot(s)[k] = Fragment(PutOp(id), 2)
  <2>1. PICK i \in 1 .. c : s[i] = id
    BY <1>1
  <2>2. 3 * i - 1 \in 1 .. 3 * c
    BY <1>2
  <2>3. ((3 * i - 1 - 1) \div 3) + 1 = i /\ ((3 * i - 1 - 1) % 3) + 1 = 2
    OBVIOUS
  <2>4. F(3 * i - 1) = Fragment(PutOp(id), 2)
    BY <2>1, <2>3
  <2> QED
    BY <1>9, <2>2, <2>4
<1>11. ASSUME NEW k \in 1 .. 3 * c
       PROVE  \E id \in DOMAIN map : Snapshot(s)[k].op = PutOp(id)
  <2>1. s[((k - 1) \div 3) + 1] \in DOMAIN map
    BY <1>1, <1>4
  <2>2. F(k).op = PutOp(s[((k - 1) \div 3) + 1])
    BY DEF Fragment
  <2> QED
    BY <1>9, <2>1, <2>2
<1> QED
  BY <1>2, <1>3, <1>6, <1>9, <1>10, <1>11
-----------------------------------------------------------------------------
(* The type invariant.                                                     *)

(* What compactIfNeeded leaves of the typed variables.                     *)
LEMMA CompactType ==
    ASSUME NEW map, DOMAIN map \in SUBSET Ids,
           NEW file \in Seq(Fragments), NEW bytes \in Nat, NEW queue,
           synced \in 0 .. Len(file),
           asyncSync \in -1 .. Len(file),
           CompactIfNeeded(map, file, bytes, queue),
           ~MayCompact(map, bytes, queue) => synced' = SyncedAfter(file)
    PROVE  /\ wal' \in Seq(Fragments)
           /\ synced' \in 0 .. Len(wal')
           /\ walBytes' \in Nat
           /\ asyncSync \in -1 .. Len(wal')
<1>1. CASE MayCompact(map, bytes, queue)
  <2>1. PICK s \in MapOrders(map) :
          wal' = Snapshot(s) /\ synced' = 3 * Len(s) /\ walBytes' = 3 * Len(s)
    BY <1>1 DEF CompactIfNeeded
  <2>2. Snapshot(s) \in Seq(Fragments) /\ Len(s) \in Nat
        /\ Len(Snapshot(s)) = 3 * Len(s)
    BY SnapshotType
  <2>3. asyncSync = -1
    BY <1>1 DEF MayCompact
  <2> QED
    BY <2>1, <2>2, <2>3
<1>2. CASE ~MayCompact(map, bytes, queue)
  BY <1>2 DEF CompactIfNeeded, SyncedAfter
<1> QED
  BY <1>1, <1>2

(* Appending typed fragments grows the file.                               *)
LEMMA AppendType ==
    ASSUME NEW w \in Seq(Fragments), NEW op \in Operations,
           NEW from \in 1 .. 3, NEW to \in from .. 3
    PROVE  /\ w \o Text(op, from, to) \in Seq(Fragments)
           /\ Len(w \o Text(op, from, to)) = Len(w) + (to - from + 1)
           /\ \A i \in 1 .. Len(w) : (w \o Text(op, from, to))[i] = w[i]
           /\ \A i \in 1 .. to - from + 1 :
                (w \o Text(op, from, to))[Len(w) + i] = Fragment(op, from + i - 1)
<1> DEFINE t == Text(op, from, to)
<1>1. t \in Seq(Fragments) /\ Len(t) = to - from + 1
      /\ \A i \in 1 .. to - from + 1 : t[i] = Fragment(op, from + i - 1)
  BY TextType
<1> HIDE DEF t
<1>2. /\ w \o t \in Seq(Fragments)
      /\ Len(w \o t) = Len(w) + Len(t)
      /\ \A i \in 1 .. Len(w) + Len(t) :
           (w \o t)[i] = IF i <= Len(w) THEN w[i] ELSE t[i - Len(w)]
  BY <1>1, ConcatProperties
<1>3. Len(w) \in Nat /\ Len(t) \in Nat
  BY <1>1
<1>4. \A i \in 1 .. Len(w) : (w \o t)[i] = w[i]
  BY <1>2, <1>3
<1>5. \A i \in 1 .. Len(t) : (w \o t)[Len(w) + i] = t[i]
  <2> TAKE i \in 1 .. Len(t)
  <2>1. Len(w) + i \in 1 .. Len(w) + Len(t) /\ ~(Len(w) + i <= Len(w))
        /\ (Len(w) + i) - Len(w) = i
    BY <1>3
  <2> QED
    BY <1>2, <2>1
<1> QED
  BY <1>1, <1>2, <1>4, <1>5 DEF t

(* The maps a callback leaves in this.records have ids as keys.            *)
LEMMA MapDomains ==
    ASSUME DOMAIN records \in SUBSET Ids, NEW S \in SUBSET Ids
    PROVE  /\ DOMAIN Without(records, S) = DOMAIN records \ S
           /\ DOMAIN Restored(S) = DOMAIN records \cup S
BY DEF Without, Restored, LiveIds

(* The head of the queue of appends.                                       *)
LEMMA HeadEntry ==
    ASSUME asyncOperations \in Seq(Entries), asyncOperations # <<>>
    PROVE  /\ Head(asyncOperations) \in Entries
           /\ Head(asyncOperations) = asyncOperations[1]
           /\ 1 \in 1 .. Len(asyncOperations)
           /\ Head(asyncOperations).op.ids \in SUBSET Ids
           /\ Tail(asyncOperations) \in Seq(Entries)
           /\ Len(Tail(asyncOperations)) = Len(asyncOperations) - 1
           /\ \A i \in 1 .. Len(Tail(asyncOperations)) :
                Tail(asyncOperations)[i] = asyncOperations[i + 1]
<1>1. /\ Head(asyncOperations) \in Entries
      /\ Tail(asyncOperations) \in Seq(Entries)
      /\ Len(Tail(asyncOperations)) = Len(asyncOperations) - 1
      /\ \A i \in 1 .. Len(Tail(asyncOperations)) :
           Tail(asyncOperations)[i] = asyncOperations[i + 1]
  BY HeadTailProperties
<1>2. Head(asyncOperations) = asyncOperations[1] /\ 1 \in 1 .. Len(asyncOperations)
  OBVIOUS
<1>3. \A e \in Entries : e.op.ids \in SUBSET Ids
  BY DEF Entries, Operations, PutOp, AckOp
<1> QED
  BY <1>1, <1>2, <1>3

(* A replay never invents a record.                                        *)
LEMMA LiveIsIds == ASSUME NEW w PROVE Live(w) \in SUBSET Ids
BY DEF Live

(* The type invariant: initially, and over every step.                     *)
THEOREM InitType == Init => TypeOK
<1> SUFFICES ASSUME Init PROVE TypeOK
  OBVIOUS
<1>1. wal = <<>> /\ asyncOperations = <<>> /\ DOMAIN records = {}
  BY DEF Init, EmptyMap
<1>2. wal \in Seq(Fragments) /\ asyncOperations \in Seq(Entries) /\ Len(wal) = 0
  BY <1>1, EmptySeq
<1>3. /\ synced \in 0 .. Len(wal) /\ asyncSync \in -1 .. Len(wal)
      /\ nextId \in 1 .. MaxPuts + 1
      /\ errors \in 0 .. MaxErrors /\ crashes \in 0 .. MaxCrashes
      /\ walBytes \in Nat
  BY <1>2, SpoolAssumption DEF Init
<1>4. /\ dlq = {} /\ pendingPutIds = {} /\ promised = {} /\ acked = {}
      /\ proc = "up" /\ damaged = FALSE
  BY DEF Init
<1> QED
  BY <1>1, <1>2, <1>3, <1>4 DEF TypeOK, Init

(* One step per action; a compaction waits for the running fsync.          *)
LEMMA StepType == TypeOK /\ [Next]_vars => TypeOK'
<1> SUFFICES ASSUME TypeOK, [Next]_vars PROVE TypeOK'
  OBVIOUS
<1> USE DEF TypeOK
<1>f. fsyncAlways' = fsyncAlways
  BY DEF vars, Next
<1> USE <1>f
<1>0. CASE UNCHANGED vars
  BY <1>0 DEF vars, disk, memory, caller, counters
<1>a. CASE Next
  <2> USE <1>a
  <2>0. damaged' \in BOOLEAN
    BY DEF Next, Step, NoteDamage, Intact, PutAsync, AckAsync, AsyncWrite, FinishPut,
       FinishAck, FinishError, DeadLetter, SyncAsync, SyncDone, Close,
       ProcessExit, HostCrash, Restart, disk
  <2>1. CASE PutAsync
    <3>1. nextId <= MaxPuts => PutOp(nextId) \in Operations /\ nextId \in Ids
      BY SpoolAssumption DEF Operations, Ids
    <3>2. nextId <= MaxPuts => [op |-> PutOp(nextId), offset |-> 0] \in Entries
      BY <3>1 DEF Entries
    <3>3. asyncOperations' \in Seq(Entries) /\ pendingPutIds' \in SUBSET Ids
      <4>1. CASE UNCHANGED <<pendingPutIds, pendingPutBytes, asyncOperations>>
        BY <4>1
      <4>2. CASE /\ pendingPutIds' = pendingPutIds \cup {nextId}
                 /\ asyncOperations' =
                      Append(asyncOperations, [op |-> PutOp(nextId), offset |-> 0])
        <5>1. nextId \in Ids /\ [op |-> PutOp(nextId), offset |-> 0] \in Entries
          BY <2>1, <3>1, <3>2 DEF PutAsync
        <5> HIDE DEF TypeOK
        <5>2. asyncOperations \in Seq(Entries) /\ pendingPutIds \in SUBSET Ids
          BY DEF TypeOK
        <5> QED
          BY <4>2, <5>1, <5>2
      <4> QED
        BY <2>1, <4>1, <4>2 DEF PutAsync
    <3>4. nextId' \in 1 .. MaxPuts + 1
      BY <2>1, SpoolAssumption DEF PutAsync
    <3> QED
      BY <2>0, <2>1, <3>3, <3>4 DEF PutAsync, disk, counters
  <2>2. ASSUME NEW S \in SUBSET LiveIds, AckAsync(S) PROVE TypeOK'
    <3>1. S \in SUBSET Ids
      BY DEF LiveIds
    <3>2. [op |-> AckOp(S), offset |-> 0] \in Entries
      BY <3>1 DEF Operations, Entries
    <3>3. asyncOperations' \in Seq(Entries)
      BY <2>2, <3>2 DEF AckAsync
    <3>4. DOMAIN records' \in SUBSET Ids /\ acked' \in SUBSET Ids
      BY <2>2, <3>1, MapDomains DEF AckAsync
    <3> QED
      BY <2>0, <2>2, <3>3, <3>4 DEF AckAsync, disk, counters
  <2>3. ASSUME NEW n \in 1 .. 3, AsyncWrite(n) PROVE TypeOK'
    <3> DEFINE e == Head(asyncOperations)
    <3>1. /\ e \in Entries /\ e = asyncOperations[1]
          /\ 1 \in 1 .. Len(asyncOperations)
          /\ e.offset \in 0 .. 3 /\ e.op \in Operations
      BY <2>3, HeadEntry DEF AsyncWrite, Entries
    <3>2. n \in 1 .. 3 - e.offset
          /\ wal' = wal \o Text(e.op, e.offset + 1, e.offset + n)
          /\ asyncOperations' = [asyncOperations EXCEPT ![1].offset = e.offset + n]
      BY <2>3 DEF AsyncWrite
    <3>3. e.offset + 1 \in 1 .. 3 /\ e.offset + n \in e.offset + 1 .. 3
      <4>1. PICK o \in 0 .. 3 : o = e.offset
        BY <3>1
      <4>2. n \in 1 .. 3 - o
        BY <3>2, <4>1
      <4> HIDE DEF TypeOK
      <4>3. o + 1 \in 1 .. 3 /\ o + n \in o + 1 .. 3
        BY <4>2
      <4> QED
        BY <4>1, <4>3
    <3>4. wal' \in Seq(Fragments) /\ Len(wal') >= Len(wal)
      <4> DEFINE from == e.offset + 1
                 to   == e.offset + n
      <4>1. from \in 1 .. 3 /\ to \in from .. 3 /\ wal' = wal \o Text(e.op, from, to)
        BY <3>2, <3>3
      <4> HIDE DEF from, to
      <4>2. wal' \in Seq(Fragments) /\ Len(wal') = Len(wal) + (to - from + 1)
        BY <3>1, <4>1, AppendType
      <4> QED
        BY <4>1, <4>2
    <3>5. asyncOperations' \in Seq(Entries)
      <4>1. [e EXCEPT !.offset = e.offset + n] \in Entries
        BY SMTT(30), <3>1, <3>3 DEF Entries
      <4>2. asyncOperations' =
              [asyncOperations EXCEPT ![1] = [e EXCEPT !.offset = e.offset + n]]
        BY <3>1, <3>2
      <4> QED
        BY <3>1, <4>1, <4>2, ExceptSeq
    <3> QED
      BY <2>0, <2>3, <3>4, <3>5 DEF AsyncWrite, caller, counters
  <2>4. CASE FinishPut
    <3>1. Tail(asyncOperations) \in Seq(Entries)
      BY <2>4, HeadEntry DEF FinishPut
    <3>2. Head(asyncOperations).op.ids \in SUBSET Ids
      BY <2>4, HeadEntry DEF FinishPut
    <3>3. DOMAIN records' \in SUBSET Ids
      BY <2>4, <3>2, MapDomains DEF FinishPut
    <3>4. pendingPutIds' \in SUBSET Ids /\ promised' \in SUBSET Ids
      BY <2>4, <3>2 DEF FinishPut
    <3>5. synced' \in 0 .. Len(wal')
      BY <2>4 DEF FinishPut, SyncedAfter
    <3>6. walBytes' \in Nat /\ asyncSync' \in -1 .. Len(wal')
      BY <2>4 DEF FinishPut
    <3> QED
      BY <2>0, <2>4, <3>1, <3>3, <3>4, <3>5, <3>6 DEF FinishPut, counters
  <2>5. CASE FinishAck
    <3>1. Tail(asyncOperations) \in Seq(Entries)
      BY <2>5, HeadEntry DEF FinishAck
    <3>2. /\ wal' \in Seq(Fragments)
          /\ synced' \in 0 .. Len(wal')
          /\ walBytes' \in Nat
          /\ asyncSync \in -1 .. Len(wal')
      <4>1. walBytes + 3 \in Nat
        OBVIOUS
      <4> QED
        BY <2>5, <4>1, CompactType DEF FinishAck
    <3> QED
      BY <2>0, <2>5, <3>1, <3>2 DEF FinishAck, caller, counters
  <2>6. CASE FinishError
    <3>1. Tail(asyncOperations) \in Seq(Entries)
      BY <2>6, HeadEntry DEF FinishError
    <3>2. Head(asyncOperations).op.ids \in SUBSET Ids
      BY <2>6, HeadEntry DEF FinishError
    <3>3. DOMAIN records' \in SUBSET Ids /\ pendingPutIds' \in SUBSET Ids
      BY <2>6, <3>2, MapDomains DEF FinishError
    <3>4. errors' \in 0 .. MaxErrors
      BY <2>6, SpoolAssumption DEF FinishError
    <3> QED
      BY <2>0, <2>6, <3>1, <3>3, <3>4 DEF FinishError, disk, caller
  <2>7. ASSUME NEW S \in SUBSET LiveIds, NEW n \in 0 .. 3, DeadLetter(S, n)
        PROVE  TypeOK'
    <3>1. S \in SUBSET Ids
      BY DEF LiveIds
    <3>2. errors' \in 0 .. MaxErrors /\ dlq' \in SUBSET Ids
      BY <2>7, <3>1, SpoolAssumption DEF DeadLetter
    <3>3. CASE proc = "closed" \/ n = 0
      BY <2>0, <2>7, <3>2, <3>3 DEF DeadLetter, caller
    <3>4. CASE ~(proc = "closed" \/ n = 0)
      <4> DEFINE file == wal \o Text(AckOp(S), 1, n)
      <4>1. AckOp(S) \in Operations
        BY <3>1 DEF Operations
      <4>2. n \in 1 .. 3
        BY <3>4
      <4>3. file \in Seq(Fragments) /\ Len(file) = Len(wal) + n
        <5>1. 1 \in 1 .. 3 /\ n \in 1 .. 3 /\ n - 1 + 1 = n
          BY <4>2
        <5>2. file \in Seq(Fragments) /\ Len(file) = Len(wal) + (n - 1 + 1)
          BY <4>1, <5>1, AppendType
        <5> QED
          BY <5>1, <5>2
      <4>4. /\ DOMAIN Without(records, S) \in SUBSET Ids
            /\ walBytes + 3 \in Nat
            /\ synced \in 0 .. Len(file)
            /\ asyncSync \in -1 .. Len(file)
        <5> HIDE DEF file
        <5>1. Len(file) >= Len(wal)
          BY <4>2, <4>3
        <5>2. DOMAIN Without(records, S) \in SUBSET Ids
          BY <3>1, MapDomains
        <5>3. Len(file) \in Nat /\ Len(wal) \in Nat
          BY <4>3
        <5> QED
          BY <5>1, <5>2, <5>3
      <4>5. /\ records' = Without(records, S)
            /\ CompactIfNeeded(Without(records, S), file, walBytes + 3,
                               asyncOperations)
            /\ ~MayCompact(Without(records, S), walBytes + 3, asyncOperations)
                 => synced' = SyncedAfter(file)
        BY <2>7, <3>4 DEF DeadLetter
      <4>6. /\ wal' \in Seq(Fragments)
            /\ synced' \in 0 .. Len(wal')
            /\ walBytes' \in Nat
            /\ asyncSync \in -1 .. Len(wal')
        <5> HIDE DEF file
        <5> QED BY <4>3, <4>4, <4>5, CompactType
      <4> QED
        BY <2>0, <2>7, <3>2, <4>4, <4>5, <4>6 DEF DeadLetter, caller
    <3> QED
      BY <3>3, <3>4
  <2>8. CASE SyncAsync
    BY <2>0, <2>8 DEF SyncAsync, disk, caller, counters
  <2>9. ASSUME NEW ok \in BOOLEAN, SyncDone(ok) PROVE TypeOK'
    BY <2>0, <2>9, SpoolAssumption DEF SyncDone, caller
  <2>10. CASE Close
    BY <2>0, <2>10 DEF Close, memory, caller, counters
  <2>11. CASE ProcessExit
    BY <2>0, <2>11, SpoolAssumption DEF ProcessExit, Stop, EmptyMap, disk, caller
  <2>12. ASSUME NEW n \in 0 .. Len(wal), HostCrash(n) PROVE TypeOK'
    <3>1. wal' \in Seq(Fragments) /\ Len(wal') = n
      BY <2>12 DEF HostCrash
    <3>2. synced' \in 0 .. Len(wal') /\ asyncSync' \in -1 .. Len(wal')
      BY <2>12, <3>1 DEF HostCrash, Stop
    <3> QED
      BY <2>0, <2>12, <3>1, <3>2, SpoolAssumption DEF HostCrash, Stop, EmptyMap
  <2>13. CASE Restart
    BY <2>0, <2>13, LiveIsIds DEF Restart, disk, caller, counters
  <2> QED
    BY <2>0, <2>1, <2>2, <2>3, <2>4, <2>5, <2>6, <2>7, <2>8, <2>9, <2>10,
       <2>11, <2>12, <2>13 DEF Next, Step
<1> QED
  BY <1>0, <1>a

(* Every reachable state is well typed; in particular a sync in flight     *)
(* never reports more of the file than a concurrent compaction left.       *)
THEOREM TypeCorrect == Spec => []TypeOK
<1> QED
  BY InitType, StepType, PTL DEF Spec
-----------------------------------------------------------------------------
(* No put that was reported durable is lost.                               *)
(*                                                                         *)
(* NoPutLost is not inductive: the next write may extend the file, the     *)
(* next compaction replaces it, the next crash cuts it.  The strengthening *)
(* says where the evidence is: the text of every owed put is in the file   *)
(* (OwedWritten) and, under fsync 'always', in its synced part             *)
(* (OwedSynced); the operation about to finish is in the file              *)
(* (HeadWritten); no acknowledgement in the file or on its way to it names *)
(* an id that nobody settled (AcksSettled); and memory, the source of a    *)
(* compaction, holds every owed record (OwedInMemory).                     *)

Has(w, op) == \E n \in 1 .. Len(w) : w[n] = Fragment(op, 2)
Settled    == acked \cup dlq

OwedWritten ==
    ~damaged => Intact(wal) /\ \A id \in Owed : Has(wal, PutOp(id))

OwedSynced ==
    fsyncAlways /\ ~damaged =>
        \A id \in Owed : \E n \in 1 .. synced : wal[n] = Fragment(PutOp(id), 2)

HeadWritten ==
    /\ \A j \in 2 .. Len(asyncOperations) : asyncOperations[j].offset = 0
    /\ ~damaged /\ asyncOperations # <<>> /\ asyncOperations[1].offset >= 2
          => Has(wal, asyncOperations[1].op)

AcksSettled ==
    /\ \A i \in 1 .. Len(wal) :
          wal[i].op.kind = "ack" => wal[i].op.ids \subseteq Settled
    /\ \A j \in 1 .. Len(asyncOperations) :
          asyncOperations[j].op.kind = "ack"
            => asyncOperations[j].op.ids \subseteq Settled

OwedInMemory == ~damaged /\ proc # "down" => Owed \subseteq LiveIds

IInv ==
    /\ OwedWritten
    /\ OwedSynced
    /\ HeadWritten
    /\ AcksSettled
    /\ OwedInMemory

(* In an intact file every complete text is one that load() applies.       *)
LEMMA IntactApplied ==
    ASSUME NEW w \in Seq(Fragments), Intact(w),
           NEW n \in 1 .. Len(w), w[n].part = 2
    PROVE  Applied(w, n)
<1>1. n > 1 /\ w[n - 1] = Fragment(w[n].op, 1)
  BY DEF Intact
<1>2. n > 2 => w[n - 2].part = 3
  <2> SUFFICES ASSUME n > 2 PROVE w[n - 2].part = 3
    OBVIOUS
  <2>1. n - 1 \in 1 .. Len(w) /\ n - 1 > 1 /\ (n - 1) - 1 = n - 2
    OBVIOUS
  <2>2. w[n - 1].part = 1
    BY <1>1 DEF Fragment
  <2> QED
    BY <2>1, <2>2 DEF Intact
<1>3. n < Len(w) => w[n + 1].part = 3
  <2> SUFFICES ASSUME n < Len(w) PROVE w[n + 1].part = 3
    OBVIOUS
  <2>1. n + 1 \in 1 .. Len(w) /\ n + 1 > 1 /\ (n + 1) - 1 = n
    OBVIOUS
  <2>2. w[n + 1].part # 1
    BY <2>1 DEF Intact
  <2>3. w[n] = Fragment(w[n + 1].op, w[n + 1].part - 1)
    BY <2>1, <2>2 DEF Intact
  <2>4. w[n + 1].part - 1 = 2 /\ w[n + 1].part \in 1 .. 3
    BY <2>1, <2>3 DEF Fragment, Fragments
  <2> QED
    BY <2>4
<1> QED
  BY <1>1, <1>2, <1>3 DEF Applied

(* load() accepts an intact file.                                          *)
LEMMA IntactLoads ==
    ASSUME NEW w \in Seq(Fragments), Intact(w)
    PROVE  ~Corrupt(w)
<1> SUFFICES ASSUME NEW n \in 1 .. Len(w), w[n].part = 3, n > 1,
                    ~Applied(w, n - 1)
             PROVE  FALSE
  BY DEF Corrupt
<1>1. w[n - 1] = Fragment(w[n].op, 2)
  BY DEF Intact
<1>2. n - 1 \in 1 .. Len(w) /\ w[n - 1].part = 2
  BY <1>1 DEF Fragment
<1> QED
  BY <1>2, IntactApplied

(* A put in an intact file is replayed unless an acknowledgement names it. *)
LEMMA HasIsLive ==
    ASSUME NEW w \in Seq(Fragments), Intact(w), NEW id \in Ids,
           Has(w, PutOp(id)),
           \A i \in 1 .. Len(w) : w[i].op.kind = "ack" => id \notin w[i].op.ids
    PROVE  id \in Live(w)
<1>1. PICK n \in 1 .. Len(w) : w[n] = Fragment(PutOp(id), 2)
  BY DEF Has
<1>2. w[n].part = 2 /\ w[n].op = PutOp(id)
  BY <1>1 DEF Fragment
<1>3. Applied(w, n)
  BY <1>2, IntactApplied
<1>4. n \in 2 .. Len(w)
  BY <1>3 DEF Applied
<1>5. \A m \in n + 1 .. Len(w) : ~AckAt(w, id, m)
  BY DEF AckAt
<1> QED
  BY <1>2, <1>3, <1>4, <1>5 DEF Live, PutAt

(* The strengthening implies the property.                                 *)
LEMMA OwedIsLive ==
    ASSUME TypeOK, IInv, ~damaged
    PROVE  Intact(wal) /\ Owed \subseteq Live(wal)
<1> SUFFICES ASSUME NEW id \in Owed PROVE id \in Live(wal)
  BY DEF IInv, OwedWritten
<1>1. wal \in Seq(Fragments) /\ Intact(wal) /\ Has(wal, PutOp(id))
  BY DEF TypeOK, IInv, OwedWritten
<1>2. id \in Ids /\ id \notin Settled
  BY DEF TypeOK, Owed, Settled
<1>3. \A i \in 1 .. Len(wal) : wal[i].op.kind = "ack" => id \notin wal[i].op.ids
  BY <1>2 DEF IInv, AcksSettled
<1> QED
  BY <1>1, <1>2, <1>3, HasIsLive

(* NoPutLost is the part OwedWritten of the invariant.                     *)
THEOREM InvariantImplies == TypeOK /\ IInv => NoPutLost
BY OwedIsLive, IntactLoads DEF TypeOK, NoPutLost

(* The invariant holds initially,                                          *)
THEOREM InvariantInit == Init => IInv
<1> SUFFICES ASSUME Init PROVE IInv
  OBVIOUS
<1>1. wal = <<>> /\ asyncOperations = <<>> /\ promised = {} /\ Owed = {}
  BY DEF Init, Owed
<1>2. Len(wal) = 0 /\ Len(asyncOperations) = 0
  BY <1>1, EmptySeq
<1> QED
  BY <1>1, <1>2 DEF IInv, OwedWritten, OwedSynced, HeadWritten, AcksSettled,
     OwedInMemory, Intact

(* A file that only grew still holds every text it held.                   *)
LEMMA GrowHas ==
    ASSUME NEW w \in Seq(Fragments), NEW v \in Seq(Fragments), Len(v) >= Len(w),
           \A i \in 1 .. Len(w) : v[i] = w[i],
           NEW op, Has(w, op)
    PROVE  Has(v, op)
BY DEF Has

(* What compactIfNeeded means for the strengthening: either the file was   *)
(* replaced by one that holds a put per record of the map, all of it       *)
(* synced, or it is the one the caller had.                                *)
LEMMA CompactCases ==
    ASSUME NEW map, DOMAIN map \in SUBSET Ids,
           NEW file, NEW bytes, NEW queue,
           CompactIfNeeded(map, file, bytes, queue),
           ~MayCompact(map, bytes, queue) => synced' = SyncedAfter(file)
    PROVE  \/ /\ queue = <<>>
              /\ synced' = Len(wal') /\ Len(wal') \in Nat
              /\ \A k \in 1 .. Len(wal') : wal'[k].op.kind = "put"
              /\ \A id \in DOMAIN map : \E k \in 1 .. Len(wal') :
                   wal'[k] = Fragment(PutOp(id), 2)
              /\ \A k \in 1 .. Len(wal') : \E id \in DOMAIN map :
                   wal'[k].op = PutOp(id)
           \/ wal' = file /\ synced' = SyncedAfter(file)
<1>1. CASE MayCompact(map, bytes, queue)
  <2>1. PICK s \in MapOrders(map) :
          wal' = Snapshot(s) /\ synced' = 3 * Len(s) /\ walBytes' = 3 * Len(s)
    BY <1>1 DEF CompactIfNeeded
  <2>2. /\ Len(s) \in Nat
        /\ Len(Snapshot(s)) = 3 * Len(s)
        /\ \A k \in 1 .. 3 * Len(s) : Snapshot(s)[k].op.kind = "put"
        /\ \A id \in DOMAIN map : \E k \in 1 .. 3 * Len(s) :
             Snapshot(s)[k] = Fragment(PutOp(id), 2)
        /\ \A k \in 1 .. 3 * Len(s) : \E id \in DOMAIN map :
             Snapshot(s)[k].op = PutOp(id)
    BY SnapshotType
  <2>3. queue = <<>>
    BY <1>1 DEF MayCompact
  <2>4. synced' = Len(wal') /\ Len(wal') = 3 * Len(s) /\ Len(wal') \in Nat
    BY <2>1, <2>2
  <2> QED
    BY <2>1, <2>2, <2>3, <2>4
<1>2. CASE ~MayCompact(map, bytes, queue)
  BY <1>2 DEF CompactIfNeeded
<1> QED
  BY <1>1, <1>2

(* After a compaction the strengthening holds of the new file.             *)
LEMMA Rebuilt ==
    ASSUME TypeOK', asyncOperations' = <<>>,
           synced' = Len(wal'),
           \A k \in 1 .. Len(wal') : wal'[k].op.kind = "put",
           ~damaged' => Intact(wal'),
           ~damaged' => \A id \in Owed' : \E k \in 1 .. Len(wal') :
                           wal'[k] = Fragment(PutOp(id), 2),
           OwedInMemory'
    PROVE  IInv'
<1>1. OwedWritten' /\ OwedSynced'
  BY DEF OwedWritten, OwedSynced, Has
<1>2. HeadWritten'
  <2>1. Len(asyncOperations') = 0
    BY EmptySeq
  <2> QED
    BY <2>1 DEF HeadWritten
<1>3. AcksSettled'
  <2>1. Len(asyncOperations') = 0
    BY EmptySeq
  <2>2. "put" # "ack"
    OBVIOUS
  <2> QED
    BY <2>1, <2>2 DEF AcksSettled
<1> QED
  BY <1>1, <1>2, <1>3 DEF IInv

(* Dropping the head of the queue leaves entries nobody has begun.         *)
LEMMA TailInv ==
    ASSUME TypeOK, IInv, asyncOperations # <<>>,
           asyncOperations' = Tail(asyncOperations)
    PROVE  /\ HeadWritten'
           /\ \A j \in 1 .. Len(asyncOperations') :
                asyncOperations'[j].op.kind = "ack"
                  => asyncOperations'[j].op.ids \subseteq Settled
<1> DEFINE q == asyncOperations
<1>1. /\ q' \in Seq(Entries) /\ Len(q') = Len(q) - 1 /\ 1 \in 1 .. Len(q)
      /\ \A j \in 1 .. Len(q') : q'[j] = q[j + 1]
  BY HeadEntry DEF TypeOK
<1>2. \A j \in 1 .. Len(q') : j + 1 \in 2 .. Len(q)
  BY <1>1
<1>3. \A j \in 1 .. Len(q') : q'[j].offset = 0
  BY <1>1, <1>2 DEF IInv, HeadWritten
<1>4. q' # <<>> => 1 \in 1 .. Len(q')
  BY <1>1
<1> QED
  BY <1>1, <1>2, <1>3, <1>4 DEF IInv, HeadWritten, AcksSettled

(* The process is gone: the queue and the memory with it.                  *)
LEMMA Stopped ==
    ASSUME Stop, ~damaged' => ~damaged
    PROVE  /\ HeadWritten' /\ OwedInMemory'
           /\ Len(asyncOperations') = 0
<1>1. asyncOperations' = <<>> /\ proc' = "down"
  BY DEF Stop
<1>2. Len(asyncOperations') = 0
  BY <1>1, EmptySeq
<1> QED
  BY <1>1, <1>2 DEF HeadWritten, OwedInMemory

(* and every step preserves it.                                            *)
LEMMA StepInv ==
    ASSUME TypeOK, IInv, [Next]_vars
    PROVE  IInv'
<1> DEFINE q == asyncOperations
<1>t. TypeOK'
  BY StepType
<1>f. fsyncAlways' = fsyncAlways
  BY DEF vars, Next
<1> USE <1>f
<1>0. CASE UNCHANGED vars
  BY <1>0 DEF IInv, OwedWritten, OwedSynced, HeadWritten, AcksSettled,
     OwedInMemory, Owed, Settled, LiveIds, Has, Intact, vars, disk, memory,
     caller, counters
<1>a. CASE Next
  <2>0. ~damaged' => ~damaged /\ Intact(wal')
    <3>1. NoteDamage \/ (damaged' = damaged /\ wal' = wal)
      BY <1>a DEF Next, Step, PutAsync, AckAsync, AsyncWrite, FinishPut, FinishAck,
         FinishError, DeadLetter, SyncAsync, SyncDone, Close, ProcessExit,
         HostCrash, Restart, disk
    <3>2. CASE NoteDamage
      BY <3>2 DEF NoteDamage
    <3>3. CASE damaged' = damaged /\ wal' = wal
      BY <3>3 DEF IInv, OwedWritten, Intact
    <3> QED
      BY <3>1, <3>2, <3>3
  <2>1. CASE PutAsync
    <3>1. UNCHANGED <<wal, synced, dlq, records, promised, acked, proc>>
      BY <2>1 DEF PutAsync, disk, caller
    <3>2. OwedWritten' /\ OwedSynced' /\ OwedInMemory'
      BY <2>0, <3>1 DEF IInv, OwedWritten, OwedSynced, OwedInMemory, Owed, LiveIds, Has
    <3>3. CASE q' = q
      <4>1. HeadWritten' /\ AcksSettled'
        BY <2>0, <3>1, <3>3 DEF IInv, HeadWritten, AcksSettled, Settled, Has
      <4> QED
        BY <3>2, <4>1 DEF IInv
    <3>4. CASE q' = Append(q, [op |-> PutOp(nextId), offset |-> 0])
      <4> DEFINE e == [op |-> PutOp(nextId), offset |-> 0]
      <4>1. q \in Seq(Entries) /\ q' \in Seq(Entries)
        BY <1>t DEF TypeOK
      <4>2. /\ Len(q') = Len(q) + 1 /\ Len(q) \in Nat
            /\ \A j \in 1 .. Len(q) : q'[j] = q[j]
            /\ q'[Len(q) + 1] = e
        BY <3>4, <4>1
      <4>3. HeadWritten'
        <5>1. q = <<>> => q'[1].offset = 0
          BY <4>2
        <5>2. q # <<>> => q'[1] = q[1]
          BY <4>1, <4>2
        <5>3. \A j \in 2 .. Len(q') : q'[j].offset = 0
          BY <4>2 DEF IInv, HeadWritten
        <5> QED
          BY <2>0, <3>1, <5>1, <5>2, <5>3 DEF IInv, HeadWritten, Has
      <4>4. AcksSettled'
        <5>1. e.op.kind # "ack"
          BY DEF PutOp
        <5> QED
          BY <3>1, <4>2, <5>1 DEF IInv, AcksSettled, Settled
      <4> QED
        BY <3>2, <4>3, <4>4 DEF IInv
    <3> QED
      BY <2>1, <3>3, <3>4 DEF PutAsync
  <2>2. ASSUME NEW S \in SUBSET LiveIds, AckAsync(S) PROVE IInv'
    <3> DEFINE e == [op |-> AckOp(S), offset |-> 0]
    <3>1. /\ UNCHANGED <<wal, synced, dlq, promised, proc>>
          /\ acked' = acked \cup S /\ q' = Append(q, e)
          /\ records' = Without(records, S)
      BY <2>2 DEF AckAsync, disk
    <3>2. S \in SUBSET Ids /\ LiveIds' = LiveIds \ S
      BY <3>1, MapDomains DEF TypeOK, LiveIds
    <3>3. Owed' = Owed \ S /\ Settled' = Settled \cup S
      BY <3>1 DEF Owed, Settled
    <3>4. OwedWritten' /\ OwedSynced' /\ OwedInMemory'
      BY <2>0, <3>1, <3>2, <3>3
      DEF IInv, OwedWritten, OwedSynced, OwedInMemory, Has
    <3>5. q \in Seq(Entries) /\ q' \in Seq(Entries)
      BY <1>t DEF TypeOK
    <3>6. /\ Len(q') = Len(q) + 1 /\ Len(q) \in Nat
          /\ \A j \in 1 .. Len(q) : q'[j] = q[j]
          /\ q'[Len(q) + 1] = e
      BY <3>1, <3>5
    <3>7. HeadWritten'
      <4>1. q = <<>> => q'[1].offset = 0
        BY <3>6
      <4>2. q # <<>> => q'[1] = q[1]
        BY <3>5, <3>6
      <4>3. \A j \in 2 .. Len(q') : q'[j].offset = 0
        BY <3>6 DEF IInv, HeadWritten
      <4> QED
        BY <2>0, <3>1, <4>1, <4>2, <4>3 DEF IInv, HeadWritten, Has
    <3>8. AcksSettled'
      <4>1. e.op.ids = S
        BY DEF AckOp
      <4> QED
        BY <3>1, <3>3, <3>6, <4>1 DEF IInv, AcksSettled
    <3> QED
      BY <3>4, <3>7, <3>8 DEF IInv
  <2>3. ASSUME NEW n \in 1 .. 3, AsyncWrite(n) PROVE IInv'
    <3> DEFINE e    == Head(q)
               from == e.offset + 1
               to   == e.offset + n
    <3>1. /\ e \in Entries /\ e = q[1] /\ 1 \in 1 .. Len(q)
          /\ e.offset \in 0 .. 3 /\ e.op \in Operations
          /\ q \in Seq(Entries) /\ q # <<>>
      BY <2>3, HeadEntry DEF AsyncWrite, Entries, TypeOK
    <3>2. /\ from \in 1 .. 3 /\ to \in from .. 3
          /\ wal' = wal \o Text(e.op, from, to)
          /\ q' = [q EXCEPT ![1].offset = to]
          /\ UNCHANGED <<proc, synced, dlq, records, promised, acked>>
      BY <2>3, <3>1 DEF AsyncWrite, caller
    <3>3. /\ wal \in Seq(Fragments) /\ wal' \in Seq(Fragments)
          /\ Len(wal') = Len(wal) + n
          /\ \A i \in 1 .. Len(wal) : wal'[i] = wal[i]
          /\ \A i \in 1 .. n : wal'[Len(wal) + i] = Fragment(e.op, e.offset + i)
      <4>1. wal \in Seq(Fragments)
        BY DEF TypeOK
      <4>2. /\ wal' \in Seq(Fragments)
            /\ Len(wal') = Len(wal) + (to - from + 1)
            /\ \A i \in 1 .. Len(wal) : wal'[i] = wal[i]
            /\ \A i \in 1 .. to - from + 1 :
                 wal'[Len(wal) + i] = Fragment(e.op, from + i - 1)
        <5> HIDE DEF from, to
        <5> QED
          BY <3>1, <3>2, <4>1, AppendType
      <4>3. to - from + 1 = n /\ \A i \in 1 .. n : from + i - 1 = e.offset + i
        BY <3>1
      <4> QED
        BY <4>1, <4>2, <4>3
    <3>4. /\ Len(q') = Len(q) /\ q'[1].op = e.op /\ q'[1].offset = to
          /\ \A j \in 2 .. Len(q) : q'[j] = q[j]
      BY <3>1, <3>2
    <3>5. Len(wal) \in Nat /\ Len(wal') >= Len(wal)
      BY <3>2, <3>3
    <3>6. \A op : Has(wal, op) => Has(wal', op)
      BY <3>3, <3>5 DEF Has
    <3>7. OwedWritten'
      BY <2>0, <3>2, <3>6 DEF IInv, OwedWritten, Owed
    <3>8. OwedSynced'
      <4>1. synced \in 0 .. Len(wal)
        BY DEF TypeOK
      <4> QED
        BY <2>0, <3>2, <3>3, <3>5, <4>1 DEF IInv, OwedSynced, Owed
    <3>9. HeadWritten'
      <4>1. ASSUME to >= 2, ~damaged PROVE Has(wal', e.op)
        <5>1. CASE e.offset >= 2
          BY <3>1, <3>6, <4>1, <5>1 DEF IInv, HeadWritten
        <5>2. CASE e.offset < 2
          <6> DEFINE k == 2 - e.offset
          <6>1. k \in 1 .. n /\ e.offset + k = 2
            BY <3>1, <4>1, <5>2
          <6> HIDE DEF k, e
          <6>2. wal'[Len(wal) + k] = Fragment(e.op, 2)
            BY <3>3, <6>1
          <6>3. Len(wal) + k \in 1 .. Len(wal')
            BY <3>3, <3>5, <6>1
          <6> QED
            BY <6>2, <6>3 DEF Has
        <5> QED
          BY <3>1, <5>1, <5>2
      <4> QED
        BY <2>0, <3>4, <4>1 DEF IInv, HeadWritten
    <3>10. AcksSettled'
      <4>1. Settled' = Settled
        BY <3>2 DEF Settled
      <4>2. e.op.kind = "ack" => e.op.ids \subseteq Settled
        BY <3>1 DEF IInv, AcksSettled
      <4>3. ASSUME NEW i \in 1 .. Len(wal'), wal'[i].op.kind = "ack"
            PROVE  wal'[i].op.ids \subseteq Settled
        <5>1. CASE i <= Len(wal)
          BY <3>3, <3>5, <4>3, <5>1 DEF IInv, AcksSettled
        <5>2. CASE i > Len(wal)
          <6> DEFINE k == i - Len(wal)
          <6>1. k \in 1 .. n /\ Len(wal) + k = i
            BY <3>3, <3>5, <5>2
          <6> HIDE DEF k, e
          <6>2. wal'[i] = Fragment(e.op, e.offset + k)
            BY <3>3, <6>1
          <6>3. wal'[i].op = e.op
            BY <6>2 DEF Fragment
          <6> QED
            BY <4>2, <4>3, <6>3
        <5> QED
          BY <3>5, <5>1, <5>2
      <4>4. \A j \in 1 .. Len(q') : q'[j].op = q[j].op
        BY <3>1, <3>4
      <4> QED
        BY <3>4, <4>1, <4>3, <4>4 DEF IInv, AcksSettled
    <3>11. OwedInMemory'
      BY <2>0, <3>2 DEF IInv, OwedInMemory, Owed, LiveIds
    <3> QED
      BY <3>7, <3>8, <3>9, <3>10, <3>11 DEF IInv
  <2>4. CASE FinishPut
    <3> DEFINE e == Head(q)
    <3>1. /\ e = q[1] /\ 1 \in 1 .. Len(q) /\ q # <<>>
          /\ e.op \in Operations /\ e.op.ids \in SUBSET Ids
          /\ q' \in Seq(Entries) /\ Len(q') = Len(q) - 1
          /\ \A j \in 1 .. Len(q') : q'[j] = q[j + 1]
      BY <2>4, HeadEntry DEF FinishPut, Entries, TypeOK
    <3>2. /\ e.offset = 3 /\ e.op.kind = "put"
          /\ UNCHANGED <<proc, wal, dlq, acked>>
          /\ promised' = promised \cup e.op.ids
          /\ records' = Restored(e.op.ids)
          /\ synced' = SyncedAfter(wal)
      BY <2>4 DEF FinishPut
    <3>3. PICK id \in Ids : e.op = PutOp(id) /\ e.op.ids = {id}
      <4>1. \A S : AckOp(S).kind = "ack"
        BY DEF AckOp
      <4>2. \A id \in Ids : PutOp(id).ids = {id}
        BY DEF PutOp
      <4>3. \A o \in Operations : o.kind = "put" => \E id \in Ids : o = PutOp(id)
        BY <4>1 DEF Operations
      <4> QED
        BY <3>1, <3>2, <4>2, <4>3
    <3>4. LiveIds' = LiveIds \cup {id} /\ Owed' \subseteq Owed \cup {id}
          /\ Settled' = Settled
      BY <3>1, <3>2, <3>3, MapDomains DEF TypeOK, LiveIds, Owed, Settled
    <3>5. ~damaged => Has(wal, PutOp(id))
      BY <3>1, <3>2, <3>3 DEF IInv, HeadWritten
    <3>6. OwedWritten'
      BY <2>0, <3>2, <3>4, <3>5 DEF IInv, OwedWritten, Has
    <3>7. OwedSynced'
      <4> SUFFICES ASSUME fsyncAlways, ~damaged', NEW x \in Owed'
                   PROVE  \E n \in 1 .. synced' : wal'[n] = Fragment(PutOp(x), 2)
        BY DEF OwedSynced
      <4>1. synced' = Len(wal)
        BY <3>2 DEF SyncedAfter
      <4>2. Has(wal, PutOp(x))
        BY <2>0, <3>4, <3>5 DEF IInv, OwedWritten
      <4> QED
        BY <3>2, <4>1, <4>2 DEF Has
    <3>9. q # <<>> /\ q' = Tail(q)
      BY <2>4 DEF FinishPut
    <3>10. HeadWritten' /\ AcksSettled'
      BY <3>2, <3>4, <3>9, TailInv DEF IInv, AcksSettled
    <3>11. OwedInMemory'
      BY <2>0, <3>2, <3>4 DEF IInv, OwedInMemory
    <3> QED
      BY <3>6, <3>7, <3>10, <3>11 DEF IInv
  <2>5. CASE FinishAck
    <3>1. /\ q # <<>> /\ q' = Tail(q)
          /\ UNCHANGED <<proc, dlq, records, promised, acked>>
          /\ CompactIfNeeded(records, wal, walBytes + 3, Tail(q))
          /\ ~MayCompact(records, walBytes + 3, Tail(q))
               => synced' = SyncedAfter(wal)
      BY <2>5 DEF FinishAck, caller
    <3>2. Owed' = Owed /\ Settled' = Settled /\ LiveIds' = LiveIds
      BY <3>1 DEF Owed, Settled, LiveIds
    <3>3. OwedInMemory'
      BY <2>0, <3>1, <3>2 DEF IInv, OwedInMemory
    <3>4. CASE wal' = wal /\ synced' = SyncedAfter(wal)
      <4>1. HeadWritten' /\ AcksSettled'
        BY <3>1, <3>2, <3>4, TailInv DEF IInv, AcksSettled
      <4>2. OwedWritten'
        BY <2>0, <3>2, <3>4 DEF IInv, OwedWritten, Has
      <4>3. OwedSynced'
        BY <2>0, <3>2, <3>4 DEF IInv, OwedSynced, OwedWritten, Has, SyncedAfter
      <4> QED
        BY <3>3, <4>1, <4>2, <4>3 DEF IInv
    <3>5. CASE /\ Tail(q) = <<>>
               /\ synced' = Len(wal')
               /\ \A k \in 1 .. Len(wal') : wal'[k].op.kind = "put"
               /\ \A id \in DOMAIN records : \E k \in 1 .. Len(wal') :
                    wal'[k] = Fragment(PutOp(id), 2)
      <4>1. ~damaged' => \A id \in Owed' : \E k \in 1 .. Len(wal') :
                           wal'[k] = Fragment(PutOp(id), 2)
        BY <2>0, <2>5, <3>2, <3>5 DEF IInv, OwedInMemory, LiveIds, FinishAck
      <4> QED
        BY <1>t, <2>0, <3>1, <3>3, <3>5, <4>1, Rebuilt
    <3>6. DOMAIN records \in SUBSET Ids
      BY DEF TypeOK
    <3> QED
      BY <3>1, <3>4, <3>5, <3>6, CompactCases
  <2>6. CASE FinishError
    <3> DEFINE e == Head(q)
    <3>1. /\ q # <<>> /\ q' = Tail(q)
          /\ UNCHANGED <<proc, wal, synced, dlq, promised, acked>>
          /\ \/ records' = records
             \/ records' = Restored(e.op.ids)
      BY <2>6 DEF FinishError, disk, caller
    <3>2. e.op.ids \in SUBSET Ids
      BY <3>1, HeadEntry DEF TypeOK
    <3>3. LiveIds \subseteq LiveIds'
      BY <3>1, <3>2, MapDomains DEF TypeOK, LiveIds
    <3>4. Owed' = Owed /\ Settled' = Settled
      BY <3>1 DEF Owed, Settled
    <3>5. HeadWritten' /\ AcksSettled'
      BY <3>1, <3>4, TailInv DEF IInv, AcksSettled
    <3>6. OwedWritten' /\ OwedSynced'
      BY <2>0, <3>1, <3>4 DEF IInv, OwedWritten, OwedSynced, Has
    <3>7. OwedInMemory'
      BY <2>0, <3>1, <3>3, <3>4 DEF IInv, OwedInMemory
    <3> QED
      BY <3>5, <3>6, <3>7 DEF IInv
  <2>7. ASSUME NEW S \in SUBSET LiveIds, NEW n \in 0 .. 3, DeadLetter(S, n)
        PROVE  IInv'
    <3>1. /\ dlq' = dlq \cup S /\ proc # "down"
          /\ UNCHANGED <<proc, q, promised, acked>>
      BY <2>7 DEF DeadLetter, caller
    <3>2. S \in SUBSET Ids
      BY DEF LiveIds, TypeOK
    <3>3. Owed' = Owed \ S /\ Settled' = Settled \cup S
      BY <3>1 DEF Owed, Settled
    <3>4. CASE proc = "closed" \/ n = 0
      <4>1. UNCHANGED <<wal, synced, records>>
        BY <2>7, <3>4 DEF DeadLetter
      <4>2. OwedWritten' /\ OwedSynced' /\ OwedInMemory'
        BY <2>0, <3>1, <3>3, <4>1
        DEF IInv, OwedWritten, OwedSynced, OwedInMemory, Has, LiveIds
      <4>3. HeadWritten' /\ AcksSettled'
        BY <2>0, <3>1, <3>3, <4>1 DEF IInv, HeadWritten, AcksSettled, Has
      <4> QED
        BY <4>2, <4>3 DEF IInv
    <3>5. CASE ~(proc = "closed" \/ n = 0)
      <4> DEFINE file == wal \o Text(AckOp(S), 1, n)
                 map  == Without(records, S)
      <4>1. /\ records' = map
            /\ CompactIfNeeded(map, file, walBytes + 3, q)
            /\ ~MayCompact(map, walBytes + 3, q) => synced' = SyncedAfter(file)
        BY <2>7, <3>5 DEF DeadLetter
      <4>2. LiveIds' = LiveIds \ S /\ DOMAIN map = LiveIds \ S
            /\ DOMAIN map \in SUBSET Ids
        BY <3>2, <4>1, MapDomains DEF TypeOK, LiveIds
      <4>3. OwedInMemory'
        BY <2>0, <3>1, <3>3, <4>2 DEF IInv, OwedInMemory
      <4>4. /\ wal \in Seq(Fragments) /\ file \in Seq(Fragments)
            /\ Len(file) = Len(wal) + n /\ Len(wal) \in Nat
            /\ \A i \in 1 .. Len(wal) : file[i] = wal[i]
            /\ \A i \in 1 .. n : file[Len(wal) + i] = Fragment(AckOp(S), i)
        <5>1. AckOp(S) \in Operations /\ wal \in Seq(Fragments)
          BY <3>2 DEF Operations, TypeOK
        <5>2. 1 \in 1 .. 3 /\ n \in 1 .. 3 /\ n - 1 + 1 = n
          BY <3>5
        <5>3. /\ file \in Seq(Fragments)
              /\ Len(file) = Len(wal) + (n - 1 + 1)
              /\ \A i \in 1 .. Len(wal) : file[i] = wal[i]
              /\ \A i \in 1 .. n - 1 + 1 :
                   file[Len(wal) + i] = Fragment(AckOp(S), 1 + i - 1)
          BY <5>1, <5>2, AppendType
        <5>4. \A i \in 1 .. n : 1 + i - 1 = i
          OBVIOUS
        <5> HIDE DEF file
        <5> QED
          BY <5>1, <5>2, <5>3, <5>4
      <4> HIDE DEF file, map
      <4>5. CASE wal' = file /\ synced' = SyncedAfter(file)
        <5>1. \A op : Has(wal, op) => Has(wal', op)
          BY <4>4, <4>5 DEF Has
        <5>2. OwedWritten'
          BY <2>0, <3>3, <5>1 DEF IInv, OwedWritten
        <5>3. OwedSynced'
          <6> SUFFICES ASSUME fsyncAlways, ~damaged', NEW x \in Owed'
                       PROVE  \E k \in 1 .. synced' :
                                wal'[k] = Fragment(PutOp(x), 2)
            BY DEF OwedSynced
          <6>1. synced' = Len(wal')
            BY <4>5 DEF SyncedAfter
          <6>2. Has(wal', PutOp(x))
            BY <5>2 DEF OwedWritten
          <6> QED
            BY <6>1, <6>2 DEF Has
        <5>4. HeadWritten'
          BY <2>0, <3>1, <5>1 DEF IInv, HeadWritten
        <5>5. AcksSettled'
          <6>1. ASSUME NEW i \in 1 .. Len(wal'), wal'[i].op.kind = "ack"
                PROVE  wal'[i].op.ids \subseteq Settled'
            <7>1. CASE i <= Len(wal)
              BY <3>3, <4>4, <4>5, <6>1, <7>1 DEF IInv, AcksSettled
            <7>2. CASE i > Len(wal)
              <8> DEFINE k == i - Len(wal)
              <8>1. k \in 1 .. n /\ Len(wal) + k = i
                BY <4>4, <4>5, <7>2
              <8> HIDE DEF k
              <8>2. wal'[i] = Fragment(AckOp(S), k)
                BY <4>4, <4>5, <8>1
              <8>3. wal'[i].op.ids = S
                BY <8>2 DEF Fragment, AckOp
              <8> QED
                BY <3>3, <8>3
            <7> QED
              BY <4>4, <7>1, <7>2
          <6> QED
            BY <3>1, <3>3, <6>1 DEF IInv, AcksSettled
        <5> QED
          BY <4>3, <5>2, <5>3, <5>4, <5>5 DEF IInv
      <4>6. CASE /\ q = <<>>
                 /\ synced' = Len(wal')
                 /\ \A k \in 1 .. Len(wal') : wal'[k].op.kind = "put"
                 /\ \A id \in DOMAIN map : \E k \in 1 .. Len(wal') :
                      wal'[k] = Fragment(PutOp(id), 2)
        <5>1. ~damaged' => \A id \in Owed' : \E k \in 1 .. Len(wal') :
                             wal'[k] = Fragment(PutOp(id), 2)
          BY <2>0, <3>1, <3>3, <4>2, <4>6 DEF IInv, OwedInMemory
        <5>2. q' = <<>>
          BY <3>1, <4>6
        <5> QED
          BY <1>t, <2>0, <4>3, <4>6, <5>1, <5>2, Rebuilt
      <4> QED
        BY <4>1, <4>2, <4>5, <4>6, CompactCases
    <3> QED
      BY <3>4, <3>5
  <2>8. ASSUME \/ SyncAsync
               \/ \E ok \in BOOLEAN : SyncDone(ok)
               \/ Close
        PROVE  IInv'
    <3>1. /\ UNCHANGED <<wal, dlq, records, q, promised, acked>>
          /\ synced' \in {synced, Len(wal), asyncSync}
          /\ synced' = asyncSync => asyncSync >= synced \/ synced' = synced
          /\ proc' = "down" <=> proc = "down"
      BY <2>8 DEF SyncAsync, SyncDone, Close, disk, memory, caller, TypeOK
    <3>2. synced' >= synced
      BY <3>1 DEF TypeOK
    <3>3. Owed' = Owed /\ Settled' = Settled /\ LiveIds' = LiveIds
      BY <3>1 DEF Owed, Settled, LiveIds
    <3>4. OwedWritten' /\ HeadWritten' /\ AcksSettled' /\ OwedInMemory'
      BY <2>0, <3>1, <3>3
      DEF IInv, OwedWritten, HeadWritten, AcksSettled, OwedInMemory, Has
    <3>5. OwedSynced'
      <4>1. synced \in Nat /\ synced' \in Nat
        BY <1>t DEF TypeOK
      <4> QED
        BY <2>0, <3>1, <3>2, <3>3, <4>1 DEF IInv, OwedSynced
    <3> QED
      BY <3>4, <3>5 DEF IInv
  <2>9. CASE ProcessExit
    <3>1. Stop /\ UNCHANGED <<wal, synced, dlq, promised, acked>>
      BY <2>9 DEF ProcessExit, disk, caller
    <3>2. Owed' = Owed /\ Settled' = Settled
      BY <3>1 DEF Owed, Settled
    <3>3. HeadWritten' /\ OwedInMemory' /\ Len(q') = 0
      BY <2>0, <3>1, Stopped
    <3>4. OwedWritten' /\ OwedSynced' /\ AcksSettled'
      BY <2>0, <3>1, <3>2, <3>3
      DEF IInv, OwedWritten, OwedSynced, AcksSettled, Has
    <3> QED
      BY <3>3, <3>4 DEF IInv
  <2>10. ASSUME NEW n \in 0 .. Len(wal), HostCrash(n) PROVE IInv'
    <3>1. /\ Stop /\ n \in synced .. Len(wal)
          /\ wal' = SubSeq(wal, 1, n)
          /\ promised' = promised \cap Flushed
          /\ UNCHANGED <<synced, dlq, acked>>
      BY <2>10 DEF HostCrash
    <3>2. wal \in Seq(Fragments) /\ synced \in 0 .. Len(wal)
      BY DEF TypeOK
    <3>3. /\ Len(wal') = n
          /\ \A i \in 1 .. n : wal'[i] = wal[i]
          /\ \A i \in 1 .. synced : SubSeq(wal, 1, synced)[i] = wal[i]
      BY <3>1, <3>2
    <3>4. Settled' = Settled /\ Owed' \subseteq Owed \cap Flushed
      BY <3>1 DEF Settled, Owed
    <3>5. HeadWritten' /\ OwedInMemory' /\ Len(q') = 0
      BY <2>0, <3>1, Stopped
    <3>6. ASSUME NEW id \in Owed'
          PROVE  \E m \in 1 .. synced : wal'[m] = Fragment(PutOp(id), 2)
      <4>1. PICK m \in 2 .. synced : PutAt(SubSeq(wal, 1, synced), id, m)
        BY <3>4 DEF Flushed
      <4>2. m \in 1 .. synced /\ m \in 1 .. n /\ m \in 1 .. Len(wal)
        BY <3>1, <3>2
      <4>3. wal[m].op = PutOp(id) /\ wal[m].part = 2
        BY <3>3, <4>1, <4>2 DEF PutAt, Applied
      <4>4. wal[m] = Fragment(PutOp(id), 2)
        <5>1. wal[m] \in Fragments
          BY <3>2, <4>2
        <5> QED
          BY <4>3, <5>1 DEF Fragments, Fragment
      <4> QED
        BY <3>3, <4>2, <4>4
    <3>7. OwedWritten' /\ OwedSynced'
      <4>1. \A m \in 1 .. synced : m \in 1 .. Len(wal')
        BY <3>1, <3>2, <3>3
      <4> QED
        BY <2>0, <3>1, <3>6, <4>1 DEF OwedWritten, OwedSynced, Has
    <3>8. AcksSettled'
      BY <3>1, <3>3, <3>4, <3>5 DEF IInv, AcksSettled
    <3> QED
      BY <3>5, <3>7, <3>8 DEF IInv
  <2>11. CASE Restart
    <3>1. /\ UNCHANGED <<wal, synced, dlq, q, promised, acked>>
          /\ LiveIds' = Live(wal)
      BY <2>11 DEF Restart, disk, caller, LiveIds
    <3>2. Owed' = Owed /\ Settled' = Settled
      BY <3>1 DEF Owed, Settled
    <3>3. OwedWritten' /\ OwedSynced' /\ HeadWritten' /\ AcksSettled'
      BY <2>0, <3>1, <3>2
      DEF IInv, OwedWritten, OwedSynced, HeadWritten, AcksSettled, Has
    <3>4. OwedInMemory'
      BY <2>0, <3>1, <3>2, OwedIsLive DEF OwedInMemory
    <3> QED
      BY <3>3, <3>4 DEF IInv
  <2> QED
    BY <1>a, <2>1, <2>2, <2>3, <2>4, <2>5, <2>6, <2>7, <2>8, <2>9, <2>10,
       <2>11 DEF Next, Step
<1> QED
  BY <1>0, <1>a

(* The strengthening holds in every reachable state.                       *)
THEOREM Inductive == Spec => [](TypeOK /\ IInv)
<1>1. Init => TypeOK /\ IInv
  BY InitType, InvariantInit
<1>2. (TypeOK /\ IInv) /\ [Next]_vars => (TypeOK /\ IInv)'
  BY StepType, StepInv
<1> QED
  BY <1>1, <1>2, PTL DEF Spec

(* A put that was reported durable stays replayable until it is settled,   *)
(* unless an operation was appended behind a torn one.                     *)
THEOREM NoPutIsLost == Spec => []NoPutLost
<1>1. TypeOK /\ IInv => NoPutLost
  BY InvariantImplies
<1> QED
  BY <1>1, Inductive, PTL

(* Under fsync 'always' a reported put is beyond the reach of a host crash.*)
THEOREM PromiseIsSynced == Spec => []PromisedIsSynced
<1>1. TypeOK /\ IInv => PromisedIsSynced
  <2> SUFFICES ASSUME TypeOK, IInv, fsyncAlways, ~damaged, NEW id \in Owed
               PROVE  id \in Flushed
    BY DEF PromisedIsSynced
  <2> DEFINE w == SubSeq(wal, 1, synced)
  <2>1. wal \in Seq(Fragments) /\ synced \in 0 .. Len(wal) /\ Intact(wal)
        /\ id \in Ids
    BY DEF TypeOK, IInv, OwedWritten, Owed
  <2>2. /\ w \in Seq(Fragments) /\ Len(w) = synced
        /\ \A i \in 1 .. synced : w[i] = wal[i]
    BY <2>1
  <2>3. Intact(w)
    <3> HIDE DEF w
    <3>1. \A i \in 1 .. synced : i \in 1 .. Len(wal) /\ (i > 1 => i - 1 \in 1 .. synced)
      BY <2>1
    <3> QED
      BY <2>1, <2>2, <3>1 DEF Intact
  <2>4. PICK n \in 1 .. synced : w[n] = Fragment(PutOp(id), 2)
    BY <2>2 DEF IInv, OwedSynced
  <2> HIDE DEF w
  <2>5. w[n].part = 2 /\ w[n].op = PutOp(id)
    BY <2>4 DEF Fragment
  <2>6. Applied(w, n)
    BY <2>2, <2>3, <2>5, IntactApplied
  <2>7. n \in 2 .. synced
    BY <2>6 DEF Applied
  <2> QED
    BY <2>1, <2>5, <2>6, <2>7 DEF Flushed, PutAt, w
<1> QED
  BY <1>1, Inductive, PTL
-----------------------------------------------------------------------------
(* The bytes of a set of records.                                          *)

(* There are finitely many records,                                        *)
LEMMA IdsAreFinite == ASSUME NEW S \in SUBSET Ids PROVE IsFiniteSet(S)
<1>1. IsFiniteSet(Ids)
  BY SpoolAssumption, FS_Interval DEF Ids
<1> QED
  BY <1>1, FS_Subset

(* Every byte of the records of S, one by one.                             *)
Bodies(S) == UNION {{id} \X (1 .. Size[id]) : id \in S}

(* and finitely many bytes in them.                                        *)
LEMMA BodiesFinite == ASSUME NEW S \in SUBSET Ids PROVE IsFiniteSet(Bodies(S))
<1> DEFINE T == {{id} \X (1 .. Size[id]) : id \in S}
           f == [id \in S |-> {id} \X (1 .. Size[id])]
<1>1. f \in Surjection(S, T)
  BY DEF Surjection
<1>2. IsFiniteSet(T)
  <2> HIDE DEF f, T
  <2> QED
    BY <1>1, IdsAreFinite, FS_Surjection
<1>3. ASSUME NEW t \in T PROVE IsFiniteSet(t)
  <2>1. PICK id \in S : t = {id} \X (1 .. Size[id])
    OBVIOUS
  <2>2. Size[id] \in Int
    BY SpoolAssumption
  <2> DEFINE I == 1 .. Size[id]
  <2>3. IsFiniteSet({id}) /\ IsFiniteSet(I)
    <3>1. IsFiniteSet({id})
      BY FS_Singleton
    <3>2. IsFiniteSet(I)
      BY <2>2, FS_Interval
    <3> QED
      BY <3>1, <3>2
  <2> HIDE DEF I
  <2>4. IsFiniteSet({id} \X I)
    BY <2>3, FS_Product
  <2> QED
    BY <2>1, <2>4 DEF I
<1> QED
  BY <1>2, <1>3, FS_UNION DEF Bodies

(* A record has as many bytes as its size says.                            *)
LEMMA BodiesOfOne ==
    ASSUME NEW id \in Ids
    PROVE  Size[id] \in Nat /\ Cardinality(Bodies({id})) = Size[id]
<1>1. Size[id] \in Nat
  BY SpoolAssumption
<1> DEFINE I == 1 .. Size[id]
           B == {id} \X I
<1>2. Bodies({id}) = B
  <2> HIDE DEF B
  <2>1. UNION {B} = B
    OBVIOUS
  <2>2. Bodies({id}) = UNION {B}
    BY DEF Bodies, B
  <2> QED
    BY <2>1, <2>2
<1>3. /\ IsFiniteSet({id}) /\ Cardinality({id}) = 1
      /\ IsFiniteSet(I) /\ Cardinality(I) = Size[id]
  <2>1. IsFiniteSet({id}) /\ Cardinality({id}) = 1
    BY FS_Singleton
  <2>2. IsFiniteSet(I) /\ Cardinality(I) = IF 1 > Size[id] THEN 0 ELSE Size[id] - 1 + 1
    BY <1>1, FS_Interval
  <2> QED
    BY <1>1, <2>1, <2>2
<1> HIDE DEF I
<1>4. Cardinality(B) = 1 * Size[id]
  BY <1>3, FS_Product
<1> HIDE DEF B
<1> QED
  BY <1>1, <1>2, <1>4

(* Disjoint sets of records have disjoint bytes.                           *)
LEMMA BodiesSplit ==
    ASSUME NEW S \in SUBSET Ids, NEW T \in SUBSET Ids, S \cap T = {}
    PROVE  /\ Cardinality(Bodies(S)) \in Nat
           /\ Cardinality(Bodies(S \cup T)) = Cardinality(Bodies(S)) + Cardinality(Bodies(T))
<1>1. Bodies(S \cup T) = Bodies(S) \cup Bodies(T) /\ Bodies(S) \cap Bodies(T) = {}
  <2>1. \A R, b : b \in Bodies(R) <=> \E id \in R : b \in {id} \X (1 .. Size[id])
    BY Zenon DEF Bodies
  <2>2. \A id, b : b \in {id} \X (1 .. Size[id]) => b[1] = id
    OBVIOUS
  <2> QED
    BY <2>1, <2>2
<1>2. IsFiniteSet(Bodies(S)) /\ IsFiniteSet(Bodies(T))
  BY BodiesFinite
<1>3. Cardinality(Bodies(S)) \in Nat /\ Cardinality(Bodies(T)) \in Nat
  BY <1>2, FS_CardinalityType
<1>4. Cardinality(Bodies(S) \cup Bodies(T))
         = Cardinality(Bodies(S)) + Cardinality(Bodies(T)) - Cardinality({})
  BY <1>1, <1>2, FS_Union
<1>5. Cardinality({}) = 0
  BY FS_EmptySet
<1>6. Cardinality(Bodies(S \cup T)) = Cardinality(Bodies(S)) + Cardinality(Bodies(T)) - 0
  BY <1>1, <1>4, <1>5, Zenon
<1>7. \A m, n \in Nat : m + n - 0 = m + n
  OBVIOUS
<1> QED
  BY <1>3, <1>6, <1>7, Zenon

(* The recursion of SumFunctionOnSet over the subsets of S.                *)
Sums(h, S) ==
    h = [s \in SUBSET S |->
           IF s = {} THEN 0
           ELSE Size[CHOOSE x \in s : TRUE] + h[s \ {CHOOSE x \in s : TRUE}]]

(* It counts the bytes: the count solves the recursion, and no subset is   *)
(* the first at which two solutions part.                                  *)
LEMMA SumIsCount == ASSUME NEW S \in SUBSET Ids PROVE BytesOf(S) = Cardinality(Bodies(S))
<1> DEFINE count == [s \in SUBSET S |-> Cardinality(Bodies(s))]
           first(s) == CHOOSE x \in s : TRUE
           iter == CHOOSE h : h = [s \in SUBSET S |->
                      IF s = {} THEN 0
                      ELSE Size[CHOOSE x \in s : TRUE] + h[s \ {CHOOSE x \in s : TRUE}]]
<1>1. ASSUME NEW s \in SUBSET S, s # {}
      PROVE  first(s) \in s /\ s \ {first(s)} \in SUBSET S
             /\ count[s] = Size[first(s)] + count[s \ {first(s)}]
  <2> DEFINE x == first(s)
  <2>1. x \in s /\ x \in Ids
    BY <1>1
  <2> HIDE DEF x
  <2>2. /\ {x} \in SUBSET Ids /\ s \ {x} \in SUBSET Ids
        /\ {x} \cap (s \ {x}) = {} /\ {x} \cup (s \ {x}) = s
    BY <2>1
  <2>3. Cardinality(Bodies({x} \cup (s \ {x})))
           = Cardinality(Bodies({x})) + Cardinality(Bodies(s \ {x}))
    BY <2>2, BodiesSplit
  <2>4. Cardinality(Bodies(s)) = Size[x] + Cardinality(Bodies(s \ {x}))
    BY <2>1, <2>2, <2>3, BodiesOfOne
  <2> QED
    BY <2>1, <2>4 DEF x
<1>2. count[{}] = 0
  BY FS_EmptySet DEF Bodies
<1>3. Sums(count, S)
  <2>1. \A s \in SUBSET S : count[s] = IF s = {} THEN 0 ELSE Size[first(s)] + count[s \ {first(s)}]
    BY <1>1, <1>2
  <2> HIDE DEF first
  <2>2. count = [s \in SUBSET S |->
                   IF s = {} THEN 0 ELSE Size[first(s)] + count[s \ {first(s)}]]
    <3>1. count = [s \in SUBSET S |-> count[s]]
      OBVIOUS
    <3> HIDE DEF count
    <3> QED
      BY <2>1, <3>1
  <2> QED
    BY <2>2 DEF Sums, first
<1>4. Sums(iter, S)
  <2> HIDE DEF count
  <2> QED
    BY <1>3 DEF Sums
<1>5. BytesOf(S) = iter[S]
  BY DEF BytesOf, SumFunctionOnSet, FoldFunctionOnSet, MapThenFoldSet
<1> HIDE DEF iter
<1>6. \A s \in SUBSET S : iter[s] = count[s]
  <2> DEFINE D == {s \in SUBSET S : iter[s] # count[s]}
  <2> SUFFICES ASSUME D # {} PROVE FALSE
    OBVIOUS
  <2> HIDE DEF count
  <2>1. D \subseteq FiniteSubsetsOf(S)
    BY IdsAreFinite DEF FiniteSubsetsOf
  <2>2. PICK s \in D : \A t \in D : ~(<<t, s>> \in StrictSubsetOrdering(S))
    BY <2>1, FS_StrictSubsetOrderingWellFounded, WFMin
  <2>3. s # {}
    BY <1>2, <1>4 DEF Sums
  <2> DEFINE t == s \ {first(s)}
  <2>4. /\ t \in SUBSET S /\ t \subseteq s /\ t # s
        /\ count[s] = Size[first(s)] + count[t]
    BY <1>1, <2>3
  <2>5. iter[s] = Size[first(s)] + iter[t]
    BY <1>4, <2>3 DEF Sums
  <2>6. t \in D
    BY <2>2, <2>4, <2>5
  <2>7. <<t, s>> \in StrictSubsetOrdering(S)
    BY <2>4 DEF StrictSubsetOrdering
  <2> QED
    BY <2>2, <2>6, <2>7
<1> QED
  BY <1>5, <1>6

(* BytesOf adds over disjoint sets,                                        *)
LEMMA BytesFacts ==
    ASSUME NEW S \in SUBSET Ids, NEW T \in SUBSET Ids, S \cap T = {}
    PROVE  /\ BytesOf(S) \in Nat /\ BytesOf(T) \in Nat
           /\ BytesOf(S \cup T) = BytesOf(S) + BytesOf(T)
<1>1. S \cup T \in SUBSET Ids /\ T \cap S = {}
  OBVIOUS
<1> QED
  BY <1>1, SumIsCount, BodiesSplit

(* subtracts over subsets,                                                 *)
LEMMA BytesLess ==
    ASSUME NEW T \in SUBSET Ids, NEW S \in SUBSET T
    PROVE  BytesOf(T \ S) = BytesOf(T) - BytesOf(S)
<1>1. T \ S \in SUBSET Ids /\ S \in SUBSET Ids /\ (T \ S) \cap S = {} /\ (T \ S) \cup S = T
  OBVIOUS
<1>2. /\ BytesOf(T \ S) \in Nat /\ BytesOf(S) \in Nat
      /\ BytesOf((T \ S) \cup S) = BytesOf(T \ S) + BytesOf(S)
  BY <1>1, BytesFacts
<1>3. BytesOf(T) = BytesOf(T \ S) + BytesOf(S)
  BY <1>1, <1>2
<1> QED
  BY <1>2, <1>3

(* and is the size of a single record.                                     *)
LEMMA BytesOfOne ==
    /\ BytesOf({}) = 0
    /\ \A id \in Ids : Size[id] \in Nat /\ BytesOf({id}) = Size[id]
<1>1. BytesOf({}) = Cardinality(Bodies({})) /\ Bodies({}) = {}
  BY SumIsCount DEF Bodies
<1>2. \A id \in Ids : {id} \in SUBSET Ids
  OBVIOUS
<1> QED
  BY <1>1, <1>2, SumIsCount, BodiesOfOne, FS_EmptySet

(* Both limits at once, of any set of records.                             *)
Fits(S) == Cardinality(S) <= MaxRecords /\ BytesOf(S) <= MaxBytes

(* What fits still fits when records leave.                                *)
LEMMA FitsLess ==
    ASSUME NEW S \in SUBSET Ids, NEW T \in SUBSET S, Fits(S)
    PROVE  Fits(T)
<1>1. T \in SUBSET Ids /\ S \ T \in SUBSET Ids /\ T \cap (S \ T) = {} /\ T \cup (S \ T) = S
  OBVIOUS
<1>2. /\ BytesOf(T) \in Nat /\ BytesOf(S \ T) \in Nat
      /\ BytesOf(T \cup (S \ T)) = BytesOf(T) + BytesOf(S \ T)
  BY <1>1, BytesFacts
<1>3. BytesOf(S) = BytesOf(T) + BytesOf(S \ T)
  BY <1>1, <1>2
<1>4. BytesOf(T) <= BytesOf(S)
  BY <1>2, <1>3
<1>5. /\ IsFiniteSet(S) /\ Cardinality(T) <= Cardinality(S)
      /\ Cardinality(T) \in Nat /\ Cardinality(S) \in Nat
  BY IdsAreFinite, FS_Subset, FS_CardinalityType
<1>6. MaxRecords \in Nat /\ MaxBytes \in Nat /\ BytesOf(S) \in Nat
  BY <1>2, <1>3, SpoolAssumption
<1> QED
  BY <1>2, <1>4, <1>5, <1>6 DEF Fits

-----------------------------------------------------------------------------
(* The capacity.  With no failed write, what a restart would recover now,  *)
(* and after each operation on its way to the file, stays within the       *)
(* limits; at the end of the queue it is what memory counts.               *)

Acks(op, id) == op.kind = "ack" /\ id \in op.ids
Done(L, op)  == IF op.kind = "put" THEN L \cup op.ids ELSE L \ op.ids

(* The live records of the first n fragments of an intact file.            *)
LiveAt(w, n) ==
    {id \in Ids : \E k \in 1 .. n :
        /\ w[k] = Fragment(PutOp(id), 2)
        /\ \A m \in k + 1 .. n : w[m].part = 2 => ~Acks(w[m].op, id)}

(* What L becomes by the first i operations of the queue.                  *)
Ahead(L, q, i) ==
    {id \in Ids : \/ id \in L /\ \A m \in 1 .. i : ~Acks(q[m].op, id)
                  \/ \E k \in 1 .. i : q[k].op = PutOp(id)}

LiveNow == LiveAt(wal, Len(wal))

(* A pending put is on the queue, once, and no acknowledgement there names *)
(* it.                                                                     *)
QueueOnce ==
    /\ \A i \in 1 .. Len(asyncOperations) : \A id \in asyncOperations[i].op.ids :
          /\ id < nextId
          /\ asyncOperations[i].op.kind = "put" => id \in pendingPutIds
          /\ asyncOperations[i].op.kind = "ack" => id \notin pendingPutIds
    /\ \A i, k \in 1 .. Len(asyncOperations) :
          asyncOperations[i].op.kind = "put" /\ asyncOperations[k].op = asyncOperations[i].op
             => k = i
    /\ \A id \in pendingPutIds :
          id < nextId /\ \E i \in 1 .. Len(asyncOperations) : asyncOperations[i].op = PutOp(id)

(* No record in memory is pending, and none, there or in the file, has an  *)
(* id yet to be given.                                                     *)
MemoryIds == \A id \in LiveIds : id < nextId /\ id \notin pendingPutIds
FileIds   == \A k \in 1 .. Len(wal) :
                wal[k].op.kind = "put" => \A id \in wal[k].op.ids : id < nextId
DownEmpty == proc = "down" => asyncOperations = <<>> /\ LiveIds = {}

QueueInv == QueueOnce /\ MemoryIds /\ FileIds /\ DownEmpty

BytesInv == logicalBytes = BytesOf(LiveIds) /\ pendingPutBytes = BytesOf(pendingPutIds)

FileFits == \A n \in synced .. Len(wal) : Fits(LiveAt(wal, n))

QueueFits ==
    proc # "down" =>
        /\ \A i \in 0 .. Len(asyncOperations) : Fits(Ahead(LiveNow, asyncOperations, i))
        /\ Ahead(LiveNow, asyncOperations, Len(asyncOperations)) = LiveIds \cup pendingPutIds

(* The file already counts the head operation once its text is complete.   *)
HeadCounts ==
    asyncOperations # <<>> /\ asyncOperations[1].offset >= 2 =>
        Done(LiveNow, asyncOperations[1].op) = LiveNow

RoomInv == errors = 0 /\ ~damaged => FileFits /\ QueueFits /\ HeadCounts

CInv == QueueInv /\ BytesInv /\ RoomInv

(* An operation is a put of one record or the settling of a set.           *)
LEMMA OperationFacts ==
    /\ \A op \in Operations : \/ \E id \in Ids : op = PutOp(id)
                              \/ \E S \in SUBSET Ids : op = AckOp(S)
    /\ \A id \in Ids : PutOp(id).kind = "put" /\ PutOp(id).ids = {id} /\ PutOp(id) \in Operations
    /\ \A S \in SUBSET Ids : AckOp(S).kind = "ack" /\ AckOp(S).ids = S /\ AckOp(S) \in Operations
    /\ \A op \in Operations : op.ids \in SUBSET Ids /\ op.kind \in {"put", "ack"}
    /\ \A op \in Operations : \A id \in Ids : op = PutOp(id) <=> op.kind = "put" /\ id \in op.ids
<1>1. /\ \A id : PutOp(id).kind = "put" /\ PutOp(id).ids = {id}
      /\ \A S : AckOp(S).kind = "ack" /\ AckOp(S).ids = S
  BY DEF PutOp, AckOp
<1>2. \A op \in Operations : \/ \E id \in Ids : op = PutOp(id)
                             \/ \E S \in SUBSET Ids : op = AckOp(S)
  BY DEF Operations
<1>3. /\ \A id \in Ids : PutOp(id) \in Operations
      /\ \A S \in SUBSET Ids : AckOp(S) \in Operations
  BY DEF Operations
<1>4. \A id \in Ids : {id} \in SUBSET Ids
  OBVIOUS
<1>5. \A op \in Operations : op.ids \in SUBSET Ids /\ op.kind \in {"put", "ack"}
  BY <1>1, <1>2, <1>4
<1>6. ASSUME NEW op \in Operations, NEW id \in Ids
      PROVE  op = PutOp(id) <=> op.kind = "put" /\ id \in op.ids
  <2>1. op = PutOp(id) => op.kind = "put" /\ id \in op.ids
    BY <1>1
  <2>2. ASSUME op.kind = "put", id \in op.ids PROVE op = PutOp(id)
    <3>1. PICK x \in Ids : op = PutOp(x)
      BY <1>1, <1>2, <2>2
    <3>2. op.ids = {x}
      BY <1>1, <3>1
    <3> QED
      BY <2>2, <3>1, <3>2
  <2> QED
    BY <2>1, <2>2
<1> QED
  BY <1>1, <1>2, <1>3, <1>5, <1>6

(* LiveAt is a set of records that depends on the prefix only,             *)
LEMMA LiveAtIsIds == ASSUME NEW w, NEW n PROVE LiveAt(w, n) \in SUBSET Ids
BY DEF LiveAt

(* so files with the same prefix recover the same,                         *)
LEMMA LiveAtSame ==
    ASSUME NEW w, NEW v, NEW n \in Nat, \A i \in 1 .. n : v[i] = w[i]
    PROVE  LiveAt(v, n) = LiveAt(w, n)
BY DEF LiveAt

(* and one more fragment counts its operation if it is the text.           *)
LEMMA LiveAtNext ==
    ASSUME NEW w \in Seq(Fragments), NEW n \in Nat, n + 1 <= Len(w)
    PROVE  LiveAt(w, n + 1) = IF w[n + 1].part = 2 THEN Done(LiveAt(w, n), w[n + 1].op)
                              ELSE LiveAt(w, n)
<1> DEFINE f == w[n + 1]
<1>1. f \in Fragments /\ f.op \in Operations /\ f = Fragment(f.op, f.part)
  <2>1. \A g \in Fragments : g.op \in Operations /\ g = Fragment(g.op, g.part)
    BY DEF Fragments, Fragment
  <2>2. n + 1 \in 1 .. Len(w)
    OBVIOUS
  <2> QED
    BY <2>1, <2>2
<1>2. \A id \in Ids : id \in LiveAt(w, n + 1) <=>
         \/ f = Fragment(PutOp(id), 2)
         \/ id \in LiveAt(w, n) /\ (f.part = 2 => ~Acks(f.op, id))
  <2> SUFFICES ASSUME NEW id \in Ids
               PROVE  id \in LiveAt(w, n + 1) <=>
                         \/ f = Fragment(PutOp(id), 2)
                         \/ id \in LiveAt(w, n) /\ (f.part = 2 => ~Acks(f.op, id))
    OBVIOUS
  <2> DEFINE P(k) == w[k] = Fragment(PutOp(id), 2)
             A(m) == w[m].part = 2 => ~Acks(w[m].op, id)
  <2>1. id \in LiveAt(w, n + 1) <=> \E k \in 1 .. n + 1 : P(k) /\ \A m \in k + 1 .. n + 1 : A(m)
    BY DEF LiveAt
  <2>2. id \in LiveAt(w, n) <=> \E k \in 1 .. n : P(k) /\ \A m \in k + 1 .. n : A(m)
    BY DEF LiveAt
  <2>3. f = Fragment(PutOp(id), 2) <=> P(n + 1)
    OBVIOUS
  <2>4. (f.part = 2 => ~Acks(f.op, id)) <=> A(n + 1)
    OBVIOUS
  <2> HIDE DEF P, A, f
  <2>5. (\E k \in 1 .. n + 1 : P(k) /\ \A m \in k + 1 .. n + 1 : A(m))
           <=> P(n + 1) \/ (A(n + 1) /\ \E k \in 1 .. n : P(k) /\ \A m \in k + 1 .. n : A(m))
    OBVIOUS
  <2> QED
    BY <2>1, <2>2, <2>3, <2>4, <2>5
<1>3. \A id \in Ids : f = Fragment(PutOp(id), 2) <=> f.part = 2 /\ f.op = PutOp(id)
  BY <1>1 DEF Fragment
<1>4. LiveAt(w, n) \in SUBSET Ids /\ LiveAt(w, n + 1) \in SUBSET Ids
  BY LiveAtIsIds
<1> HIDE DEF f
<1>5. CASE f.part # 2
  BY <1>2, <1>3, <1>4, <1>5 DEF f
<1>6. CASE f.part = 2
  <2>1. \A id \in Ids : f.op = PutOp(id) <=> f.op.kind = "put" /\ id \in f.op.ids
    BY <1>1, OperationFacts
  <2>2. f.op.kind \in {"put", "ack"} /\ f.op.ids \in SUBSET Ids
    BY <1>1, OperationFacts
  <2>3. \A id \in Ids : id \in LiveAt(w, n + 1) <=> id \in Done(LiveAt(w, n), f.op)
    BY <1>2, <1>3, <1>6, <2>1, <2>2 DEF Done, Acks
  <2>4. Done(LiveAt(w, n), f.op) \in SUBSET Ids
    BY <1>4, <2>2 DEF Done
  <2> QED
    BY <1>4, <1>6, <2>3, <2>4 DEF f
<1> QED
  BY <1>5, <1>6

(* load() finds just these.                                                *)
LEMMA LiveIsLiveAt ==
    ASSUME NEW w \in Seq(Fragments), Intact(w)
    PROVE  Live(w) = LiveAt(w, Len(w))
<1>1. \A n \in 1 .. Len(w) : Applied(w, n) <=> w[n].part = 2
  BY IntactApplied DEF Applied
<1>2. \A n \in 1 .. Len(w) : w[n].part = 2 => n \in 2 .. Len(w)
  BY <1>1 DEF Applied
<1>3. \A n \in 1 .. Len(w) : w[n] \in Fragments
  OBVIOUS
<1>4. \A id \in Ids, n \in 1 .. Len(w) :
         /\ w[n] = Fragment(PutOp(id), 2) <=> PutAt(w, id, n)
         /\ (w[n].part = 2 => ~Acks(w[n].op, id)) <=> ~AckAt(w, id, n)
  BY <1>1, <1>3 DEF PutAt, AckAt, Acks, Fragment, Fragments
<1>5. \A k \in 1 .. Len(w) : \A m \in k + 1 .. Len(w) : m \in 1 .. Len(w)
  OBVIOUS
<1>6. \A id \in Ids : \A k \in 1 .. Len(w) : PutAt(w, id, k) => k \in 2 .. Len(w)
  BY <1>1, <1>2 DEF PutAt
<1> QED
  BY <1>4, <1>5, <1>6 DEF Live, LiveAt

(* Replaying an operation twice is replaying it once.                      *)
LEMMA DoneTwice == \A L, op : Done(Done(L, op), op) = Done(L, op)
BY DEF Done

(* v is w with the fragments o + 1 .. o + k of an operation behind it.     *)
Appended(w, v, op, o, k) ==
    /\ Len(v) = Len(w) + k
    /\ \A i \in 1 .. Len(w) : v[i] = w[i]
    /\ \A i \in 1 .. k : v[Len(w) + i] = Fragment(op, o + i)

(* A write of k fragments of op, of which o are out already,               *)
LEMMA AppendPart ==
    ASSUME NEW w \in Seq(Fragments), NEW op \in Operations,
           NEW o \in 0 .. 2, NEW k \in 1 .. 3 - o
    PROVE  /\ w \o Text(op, o + 1, o + k) \in Seq(Fragments)
           /\ Appended(w, w \o Text(op, o + 1, o + k), op, o, k)
<1> DEFINE from == o + 1
           to   == o + k
<1>1. from \in 1 .. 3 /\ to \in from .. 3
  OBVIOUS
<1>2. to - from + 1 = k /\ \A i \in 1 .. k : from + i - 1 = o + i
  OBVIOUS
<1> HIDE DEF from, to
<1>3. /\ w \o Text(op, from, to) \in Seq(Fragments)
      /\ Len(w \o Text(op, from, to)) = Len(w) + (to - from + 1)
      /\ \A i \in 1 .. Len(w) : (w \o Text(op, from, to))[i] = w[i]
      /\ \A i \in 1 .. to - from + 1 :
           (w \o Text(op, from, to))[Len(w) + i] = Fragment(op, from + i - 1)
  BY <1>1, AppendType
<1> PICK v : v = w \o Text(op, from, to)
  OBVIOUS
<1>4. v \in Seq(Fragments) /\ Appended(w, v, op, o, k)
  BY <1>2, <1>3 DEF Appended
<1> QED
  BY <1>4 DEF from, to

(* The operation counts from its second fragment on.                       *)
Counted(L, op, o, i) == IF o < 2 /\ o + i >= 2 THEN Done(L, op) ELSE L

(* takes effect with the second fragment and not before.                   *)
LEMMA AppendLive ==
    ASSUME NEW w \in Seq(Fragments), NEW v \in Seq(Fragments), NEW op,
           NEW o \in 0 .. 2, NEW k \in 1 .. 3 - o, Appended(w, v, op, o, k)
    PROVE  \A i \in 0 .. k : LiveAt(v, Len(w) + i) = Counted(LiveAt(w, Len(w)), op, o, i)
<1> DEFINE n == Len(w)
           L == LiveAt(w, n)
           D == Done(L, op)
<1>1. n \in Nat
  OBVIOUS
<1>0. /\ Len(v) = Len(w) + k
      /\ \A i \in 1 .. Len(w) : v[i] = w[i]
      /\ \A i \in 1 .. k : v[Len(w) + i] = Fragment(op, o + i)
  BY DEF Appended
<1>2. LiveAt(v, n) = L
  BY <1>0, <1>1, LiveAtSame
<1>3. \A i \in 1 .. k : /\ v[n + i].part = o + i /\ v[n + i].op = op
                        /\ LiveAt(v, n + i) = IF o + i = 2 THEN Done(LiveAt(v, n + i - 1), op)
                                              ELSE LiveAt(v, n + i - 1)
  <2> SUFFICES ASSUME NEW i \in 1 .. k
               PROVE  /\ v[n + i].part = o + i /\ v[n + i].op = op
                      /\ LiveAt(v, n + i) = IF o + i = 2 THEN Done(LiveAt(v, n + i - 1), op)
                                            ELSE LiveAt(v, n + i - 1)
    OBVIOUS
  <2>1. v[n + i].part = o + i /\ v[n + i].op = op
    <3>1. \A p : Fragment(op, p).part = p /\ Fragment(op, p).op = op
      BY DEF Fragment
    <3>2. v[n + i] = Fragment(op, o + i)
      BY <1>0
    <3> QED
      BY <3>1, <3>2
  <2>2. n + i - 1 \in Nat /\ (n + i - 1) + 1 = n + i /\ n + i <= Len(v)
    BY <1>0, <1>1
  <2> QED
    BY <2>1, <2>2, LiveAtNext
<1> HIDE DEF n
<1>4. LiveAt(v, n + 0) = L /\ n + 1 - 1 = n /\ n + 2 - 1 = n + 1 /\ n + 3 - 1 = n + 2
  BY <1>1, <1>2
<1> HIDE DEF L
<1>5. LiveAt(v, n + 1) = IF o = 1 THEN D ELSE L
  BY <1>2, <1>3, <1>4
<1>6. k >= 2 => LiveAt(v, n + 2) = IF o = 0 THEN D ELSE LiveAt(v, n + 1)
  BY <1>3, <1>4, <1>5
<1>7. k >= 3 => LiveAt(v, n + 3) = LiveAt(v, n + 2) /\ o = 0
  BY <1>3, <1>4
<1> HIDE DEF D
<1>8. \A i \in 0 .. k : LiveAt(v, n + i) = IF o < 2 /\ o + i >= 2 THEN D ELSE L
  <2> TAKE i \in 0 .. k
  <2>1. CASE i = 0
    BY <1>4, <2>1
  <2>2. CASE i = 1
    BY <1>5, <2>2
  <2>3. CASE i = 2
    BY <1>5, <1>6, <2>3
  <2>4. CASE i = 3
    BY <1>5, <1>6, <1>7, <2>4
  <2> QED
    BY <2>1, <2>2, <2>3, <2>4
<1> QED
  BY <1>8 DEF n, L, D, Counted

(* No acknowledgement on the queue names a put on it.                      *)
NoClash(q) ==
    \A i, k \in 1 .. Len(q) : \A id \in Ids : q[i].op = PutOp(id) => ~Acks(q[k].op, id)

(* Ahead, at the front of the queue.                                       *)
LEMMA AheadFacts ==
    ASSUME NEW q \in Seq(Entries), NEW L \in SUBSET Ids
    PROVE  /\ \A i : Ahead(L, q, i) \in SUBSET Ids
           /\ Ahead(L, q, 0) = L
           /\ q # <<>> => Ahead(L, q, 1) = Done(L, q[1].op)
           /\ q # <<>> => \A i \in 1 .. Len(q) : Ahead(Done(L, q[1].op), q, i) = Ahead(L, q, i)
<1>1. \A i : Ahead(L, q, i) \in SUBSET Ids
  BY DEF Ahead
<1>2. Ahead(L, q, 0) = L
  BY DEF Ahead
<1>3. q # <<>> => /\ 1 \in 1 .. Len(q) /\ q[1].op \in Operations
                  /\ q[1].op.kind \in {"put", "ack"} /\ q[1].op.ids \in SUBSET Ids
                  /\ \A id \in Ids : q[1].op = PutOp(id) <=>
                                        q[1].op.kind = "put" /\ id \in q[1].op.ids
  <2> SUFFICES ASSUME q # <<>>
               PROVE  1 \in 1 .. Len(q) /\ q[1].op \in Operations
    BY OperationFacts
  <2>1. 1 \in 1 .. Len(q) /\ q[1] \in Entries
    OBVIOUS
  <2> QED
    BY <2>1 DEF Entries
<1>4. ASSUME q # <<>> PROVE Ahead(L, q, 1) = Done(L, q[1].op)
  <2>1. \A id \in Ids : id \in Ahead(L, q, 1) <=>
           (id \in L /\ ~Acks(q[1].op, id)) \/ q[1].op = PutOp(id)
    BY DEF Ahead
  <2> QED
    BY <1>1, <1>3, <1>4, <2>1 DEF Done, Acks
<1>5. ASSUME q # <<>>, NEW i \in 1 .. Len(q)
      PROVE  Ahead(Done(L, q[1].op), q, i) = Ahead(L, q, i)
  <2>1. 1 \in 1 .. i
    OBVIOUS
  <2>2. \A id \in Ids : id \in Done(L, q[1].op) <=>
           (id \in L /\ ~Acks(q[1].op, id)) \/ q[1].op = PutOp(id)
    BY <1>3, <1>5 DEF Done, Acks
  <2> QED
    BY <2>1, <2>2 DEF Ahead
<1> QED
  BY <1>1, <1>2, <1>4, <1>5

(* Records gone that no operation of the queue puts.                       *)
Spares(q, S) == \A k \in 1 .. Len(q), id \in S : q[k].op # PutOp(id)

(* Records no queued operation puts can be taken out at once.              *)
LEMMA AheadMinus ==
    ASSUME NEW q, NEW L \in SUBSET Ids, NEW S \in SUBSET Ids, NEW i \in 0 .. Len(q),
           Len(q) \in Nat, Spares(q, S)
    PROVE  Ahead(L \ S, q, i) = Ahead(L, q, i) \ S
<1>1. \A k \in 1 .. i : k \in 1 .. Len(q)
  OBVIOUS
<1> QED
  BY <1>1 DEF Ahead, Spares

(* The queue v is q with op behind it, which acknowledges no put of q.     *)
Queued(q, v, op) ==
    /\ v[Len(q) + 1].op = op /\ \A i \in 1 .. Len(q) : v[i] = q[i]
    /\ op.kind = "ack" => Spares(q, op.ids)

(* An operation that joins the queue is the last to take effect.           *)
LEMMA AheadAppend ==
    ASSUME NEW q \in Seq(Entries), NEW L \in SUBSET Ids, NEW op \in Operations, NEW v,
           Queued(q, v, op)
    PROVE  /\ \A i \in 0 .. Len(q) : Ahead(L, v, i) = Ahead(L, q, i)
           /\ Ahead(L, v, Len(q) + 1) = Done(Ahead(L, q, Len(q)), op)
<1>1. /\ Len(q) \in Nat /\ \A i \in 1 .. Len(q) : v[i] = q[i]
      /\ v[Len(q) + 1].op = op
  BY DEF Queued
<1>2. ASSUME NEW i \in 0 .. Len(q) PROVE Ahead(L, v, i) = Ahead(L, q, i)
  <2>1. \A k \in 1 .. i : v[k] = q[k]
    BY <1>1
  <2> QED
    BY <2>1 DEF Ahead
<1>3. /\ op.kind \in {"put", "ack"} /\ op.ids \in SUBSET Ids
      /\ \A id \in Ids : op = PutOp(id) <=> op.kind = "put" /\ id \in op.ids
  BY OperationFacts
<1>4. \A id \in Ids : id \in Ahead(L, v, Len(q) + 1) <=>
         \/ id \in L /\ ~Acks(op, id) /\ \A m \in 1 .. Len(q) : ~Acks(q[m].op, id)
         \/ op = PutOp(id) \/ \E k \in 1 .. Len(q) : q[k].op = PutOp(id)
  <2>1. \A k : k \in 1 .. Len(q) + 1 <=> k \in 1 .. Len(q) \/ k = Len(q) + 1
    BY <1>1
  <2> QED
    BY <1>1, <2>1 DEF Ahead
<1>5. Ahead(L, v, Len(q) + 1) \in SUBSET Ids /\ Ahead(L, q, Len(q)) \in SUBSET Ids
  BY DEF Ahead
<1>6. \A id \in Ids : id \in Ahead(L, q, Len(q)) <=>
         \/ id \in L /\ \A m \in 1 .. Len(q) : ~Acks(q[m].op, id)
         \/ \E k \in 1 .. Len(q) : q[k].op = PutOp(id)
  BY DEF Ahead
<1>7. CASE op.kind = "put"
  <2>1. \A id \in Ids : id \in Ahead(L, v, Len(q) + 1) <=>
                          id \in Ahead(L, q, Len(q)) \/ id \in op.ids
    BY <1>3, <1>4, <1>6, <1>7 DEF Acks
  <2> QED
    BY <1>2, <1>3, <1>5, <1>7, <2>1 DEF Done
<1>8. CASE op.kind = "ack"
  <2>1. \A id \in Ids : id \in op.ids <=> Acks(op, id)
    BY <1>8 DEF Acks
  <2>2. \A id \in Ids : id \in Ahead(L, v, Len(q) + 1) <=>
                          id \in Ahead(L, q, Len(q)) /\ id \notin op.ids
    <3>1. \A k \in 1 .. Len(q), id \in op.ids : q[k].op # PutOp(id)
      BY <1>8 DEF Queued, Spares
    <3> QED
      BY <1>3, <1>4, <1>6, <1>8, <2>1, <3>1
  <2>3. Done(Ahead(L, q, Len(q)), op) = Ahead(L, q, Len(q)) \ op.ids
    BY <1>8 DEF Done
  <2>4. Ahead(L, v, Len(q) + 1) = Ahead(L, q, Len(q)) \ op.ids
    BY <1>5, <2>2
  <2> QED
    BY <1>2, <2>3, <2>4
<1> QED
  BY <1>3, <1>7, <1>8

(* The head may leave once it has taken effect.                            *)
LEMMA AheadTail ==
    ASSUME NEW q \in Seq(Entries), NEW L \in SUBSET Ids, NEW i \in 0 .. Len(q) - 1,
           q # <<>>, NoClash(q), Done(L, q[1].op) = L
    PROVE  Ahead(L, Tail(q), i) = Ahead(L, q, i + 1)
<1> DEFINE v == Tail(q)
<1>1. /\ Len(q) \in Nat /\ 1 \in 1 .. Len(q) /\ q[1].op \in Operations
      /\ \A k \in 1 .. i : v[k] = q[k + 1] /\ k + 1 \in 1 .. i + 1 /\ k + 1 \in 1 .. Len(q)
      /\ \A k \in 1 .. i + 1 : k \in 1 .. Len(q) /\ (k = 1 \/ (k - 1 \in 1 .. i /\ v[k - 1] = q[k]))
  <2>1. \A k \in 1 .. Len(q) : q[k] \in Entries
    OBVIOUS
  <2>2. Len(q) \in Nat /\ 1 \in 1 .. Len(q) /\ \A k \in 1 .. Len(q) - 1 : v[k] = q[k + 1]
    OBVIOUS
  <2>3. q[1].op \in Operations
    BY <2>1, <2>2 DEF Entries
  <2> HIDE DEF v
  <2> PICK n \in Nat : n = Len(q)
    BY <2>2
  <2>4. \A k \in 1 .. i : k \in 1 .. n - 1 /\ k + 1 \in 1 .. i + 1 /\ k + 1 \in 1 .. n
    OBVIOUS
  <2>5. \A k \in 1 .. i + 1 :
           /\ k \in 1 .. n
           /\ k = 1 \/ (k - 1 \in 1 .. i /\ k - 1 \in 1 .. n - 1 /\ k - 1 + 1 = k)
    OBVIOUS
  <2> QED
    BY <2>2, <2>3, <2>4, <2>5
<1> HIDE DEF v
<1>2. \A id \in Ids : id \in L => ~Acks(q[1].op, id)
  BY DEF Done, Acks
<1>3. \A id \in Ids : q[1].op = PutOp(id) => id \in L
  BY OperationFacts DEF Done
<1>4. \A id \in Ids : id \in Ahead(L, v, i) => id \in Ahead(L, q, i + 1)
  <2> SUFFICES ASSUME NEW id \in Ids, id \in Ahead(L, v, i) PROVE id \in Ahead(L, q, i + 1)
    OBVIOUS
  <2>1. CASE id \in L /\ \A m \in 1 .. i : ~Acks(v[m].op, id)
    <3>1. \A m \in 1 .. i + 1 : ~Acks(q[m].op, id)
      BY <1>1, <1>2, <2>1
    <3> QED
      BY <2>1, <3>1 DEF Ahead
  <2>2. CASE \E k \in 1 .. i : v[k].op = PutOp(id)
    BY <1>1, <2>2 DEF Ahead
  <2> QED
    BY <2>1, <2>2 DEF Ahead
<1>5. \A id \in Ids : id \in Ahead(L, q, i + 1) => id \in Ahead(L, v, i)
  <2> SUFFICES ASSUME NEW id \in Ids, id \in Ahead(L, q, i + 1) PROVE id \in Ahead(L, v, i)
    OBVIOUS
  <2>1. CASE id \in L /\ \A m \in 1 .. i + 1 : ~Acks(q[m].op, id)
    <3>1. \A m \in 1 .. i : ~Acks(v[m].op, id)
      BY <1>1, <2>1
    <3> QED
      BY <2>1, <3>1 DEF Ahead
  <2>2. ASSUME NEW k \in 1 .. i + 1, q[k].op = PutOp(id) PROVE id \in Ahead(L, v, i)
    <3>1. CASE k = 1
      <4>1. id \in L
        BY <1>3, <2>2, <3>1
      <4>2. \A m \in 1 .. i : ~Acks(v[m].op, id)
        BY <1>1, <2>2 DEF NoClash
      <4> QED
        BY <4>1, <4>2 DEF Ahead
    <3>2. CASE k # 1
      <4>1. k - 1 \in 1 .. i /\ v[k - 1].op = PutOp(id)
        BY <1>1, <2>2, <3>2
      <4> QED
        BY <4>1 DEF Ahead
    <3> QED
      BY <3>1, <3>2
  <2> QED
    BY <2>1, <2>2 DEF Ahead
<1>6. Ahead(L, v, i) \in SUBSET Ids /\ Ahead(L, q, i + 1) \in SUBSET Ids
  BY DEF Ahead
<1> QED
  BY <1>4, <1>5, <1>6 DEF v

-----------------------------------------------------------------------------
(* Every action keeps the capacity invariant.                              *)

(* What a step may do to the history variables, and how far it reaches.    *)
Noted == /\ ~damaged' => ~damaged /\ Intact(wal')
         /\ errors' = 0 => errors = 0

(* What is undamaged was so before, and errors are never forgotten.        *)
LEMMA StepNotes ==
    ASSUME TypeOK, IInv, Step
    PROVE  Noted
<1>1. ~damaged' => ~damaged /\ Intact(wal')
  <2>1. NoteDamage \/ (damaged' = damaged /\ wal' = wal)
    BY DEF Step, PutAsync, AckAsync, AsyncWrite, FinishPut, FinishAck,
       FinishError, DeadLetter, SyncAsync, SyncDone, Close, ProcessExit,
       HostCrash, Restart, disk
  <2>2. CASE NoteDamage
    BY <2>2 DEF NoteDamage
  <2>3. CASE damaged' = damaged /\ wal' = wal
    BY <2>3 DEF IInv, OwedWritten, Intact
  <2> QED
    BY <2>1, <2>2, <2>3
<1>2. errors \in Nat
  BY SpoolAssumption DEF TypeOK
<1>3. errors' = errors \/ errors' = errors + 1
  BY DEF Step, PutAsync, AckAsync, AsyncWrite, FinishPut, FinishAck,
     FinishError, DeadLetter, SyncAsync, SyncDone, Close, ProcessExit,
     HostCrash, Restart, counters
<1> QED
  BY <1>1, <1>2, <1>3 DEF Noted

(* What the queue holds,                                                   *)
LEMMA QueueTypes ==
    ASSUME TypeOK
    PROVE  /\ asyncOperations \in Seq(Entries)
           /\ Len(asyncOperations) \in Nat
           /\ \A i \in 1 .. Len(asyncOperations) :
                 /\ asyncOperations[i] \in Entries
                 /\ asyncOperations[i].op \in Operations
                 /\ asyncOperations[i].op.ids \in SUBSET Ids
<1>1. asyncOperations \in Seq(Entries)
  BY DEF TypeOK
<1>2. \A i \in 1 .. Len(asyncOperations) : asyncOperations[i] \in Entries
  BY <1>1
<1>3. \A e \in Entries : e.op \in Operations
  BY DEF Entries
<1> QED
  BY <1>1, <1>2, <1>3, OperationFacts

(* what the file holds,                                                    *)
LEMMA FileTypes ==
    ASSUME NEW w \in Seq(Fragments)
    PROVE  \A k \in 1 .. Len(w) : w[k].op \in Operations /\ w[k].op.ids \in SUBSET Ids
<1>1. \A f \in Fragments : f.op \in Operations
  BY DEF Fragments
<1>2. \A k \in 1 .. Len(w) : w[k] \in Fragments
  OBVIOUS
<1> QED
  BY <1>1, <1>2, OperationFacts

(* and that no queued settling is of a record the queue puts.              *)
LEMMA QueueNoClash ==
    ASSUME TypeOK, QueueOnce
    PROVE  NoClash(asyncOperations)
BY OperationFacts DEF QueueOnce, NoClash, Acks

(* Dropping the head of the queue, together with its pending put.          *)
LEMMA QueueTail ==
    ASSUME TypeOK, QueueOnce, asyncOperations # <<>>,
           asyncOperations' = Tail(asyncOperations), nextId' = nextId,
           pendingPutIds' = IF asyncOperations[1].op.kind = "put"
                            THEN pendingPutIds \ asyncOperations[1].op.ids
                            ELSE pendingPutIds
    PROVE  QueueOnce'
<1> DEFINE q == asyncOperations
<1>1. /\ Len(q) \in Nat /\ Len(q') = Len(q) - 1 /\ 1 \in 1 .. Len(q)
      /\ \A j \in 1 .. Len(q') : q'[j] = q[j + 1]
      /\ \A j \in 1 .. Len(q) : q[j].op \in Operations
  BY HeadEntry, QueueTypes DEF TypeOK
<1>2. /\ \A j \in 1 .. Len(q') : j + 1 \in 1 .. Len(q) /\ j + 1 # 1
      /\ \A j \in 1 .. Len(q) : j # 1 => j - 1 \in 1 .. Len(q') /\ q'[j - 1] = q[j]
  BY <1>1
<1>3. pendingPutIds \in SUBSET Ids
  BY DEF TypeOK
<1>4. \A j \in 1 .. Len(q) : \A id \in q[j].op.ids : id \in Ids
  BY QueueTypes
<1>5. ASSUME NEW j \in 1 .. Len(q), j # 1, NEW id \in q[j].op.ids, q[1].op.kind = "put"
      PROVE  q[j].op.kind = "put" => id \notin q[1].op.ids
  <2> SUFFICES ASSUME q[j].op.kind = "put", id \in q[1].op.ids PROVE FALSE
    OBVIOUS
  <2>1. q[j].op = PutOp(id) /\ q[1].op = PutOp(id)
    BY <1>1, <1>4, <1>5, OperationFacts
  <2> QED
    BY <1>1, <1>5, <2>1 DEF QueueOnce
<1>6. ASSUME NEW i \in 1 .. Len(q'), NEW id \in q'[i].op.ids
      PROVE  /\ id < nextId
             /\ q'[i].op.kind = "put" => id \in pendingPutIds'
             /\ q'[i].op.kind = "ack" => id \notin pendingPutIds'
  <2>1. q'[i] = q[i + 1] /\ i + 1 \in 1 .. Len(q) /\ i + 1 # 1
    BY <1>1, <1>2
  <2> QED
    BY <1>5, <1>6, <2>1 DEF QueueOnce
<1>7. ASSUME NEW i \in 1 .. Len(q'), NEW k \in 1 .. Len(q'),
             q'[i].op.kind = "put", q'[k].op = q'[i].op
      PROVE  k = i
  <2>1. k + 1 = i + 1
    BY <1>1, <1>2, <1>7 DEF QueueOnce
  <2> QED
    BY <2>1
<1>8. ASSUME NEW id \in pendingPutIds'
      PROVE  id < nextId /\ \E i \in 1 .. Len(q') : q'[i].op = PutOp(id)
  <2>1. id \in pendingPutIds /\ id \in Ids /\ (q[1].op.kind = "put" => id \notin q[1].op.ids)
    BY <1>3, <1>8
  <2>2. PICK i \in 1 .. Len(q) : q[i].op = PutOp(id)
    BY <2>1 DEF QueueOnce
  <2>3. i # 1
    BY <2>1, <2>2, OperationFacts
  <2> QED
    BY <1>2, <2>1, <2>2, <2>3 DEF QueueOnce
<1> QED
  BY <1>6, <1>7, <1>8 DEF QueueOnce

(* One more record on the queue, or an acknowledgement of records in       *)
(* memory.                                                                 *)
LEMMA QueueAppend ==
    ASSUME TypeOK, QueueOnce, NEW e \in Entries,
           asyncOperations' = Append(asyncOperations, e),
           \/ /\ e.op = PutOp(nextId) /\ nextId \in Ids
              /\ nextId' = nextId + 1 /\ pendingPutIds' = pendingPutIds \cup {nextId}
           \/ /\ e.op.kind = "ack" /\ nextId' = nextId /\ pendingPutIds' = pendingPutIds
              /\ \A id \in e.op.ids : id < nextId /\ id \notin pendingPutIds
    PROVE  QueueOnce'
<1> DEFINE q == asyncOperations
<1>1. /\ Len(q) \in Nat /\ Len(q') = Len(q) + 1
      /\ \A j \in 1 .. Len(q) : q'[j] = q[j] /\ q[j].op.ids \in SUBSET Ids
      /\ q'[Len(q) + 1] = e
  BY QueueTypes
<1>2. \A j \in 1 .. Len(q') : j \in 1 .. Len(q) \/ j = Len(q) + 1
  BY <1>1
<1>3. \A j \in 1 .. Len(q) : j \in 1 .. Len(q')
  BY <1>1
<1>4. Len(q) + 1 \in 1 .. Len(q')
  BY <1>1
<1>5. nextId \in Int
      /\ \A id \in Ids : id \in Int /\ (id < nextId => id < nextId + 1 /\ id # nextId)
  BY DEF TypeOK, Ids
<1>6. pendingPutIds \in SUBSET Ids
  BY DEF TypeOK
<1>7. CASE /\ e.op = PutOp(nextId) /\ nextId \in Ids
           /\ nextId' = nextId + 1 /\ pendingPutIds' = pendingPutIds \cup {nextId}
  <2>1. e.op.kind = "put" /\ e.op.ids = {nextId}
    BY <1>7, OperationFacts
  <2>2. \A i \in 1 .. Len(q) : \A id \in q[i].op.ids :
           /\ id < nextId + 1 /\ id # nextId
           /\ q[i].op.kind = "put" => id \in pendingPutIds'
           /\ q[i].op.kind = "ack" => id \notin pendingPutIds'
    BY <1>1, <1>5, <1>7 DEF QueueOnce
  <2>3. \A i \in 1 .. Len(q') : \A id \in q'[i].op.ids :
           /\ id < nextId'
           /\ q'[i].op.kind = "put" => id \in pendingPutIds'
           /\ q'[i].op.kind = "ack" => id \notin pendingPutIds'
    BY <1>1, <1>2, <1>5, <1>7, <2>1, <2>2
  <2>4. \A i \in 1 .. Len(q) : q[i].op # e.op
    BY <2>1, <2>2
  <2>5. \A i, k \in 1 .. Len(q') :
           q'[i].op.kind = "put" /\ q'[k].op = q'[i].op => k = i
    BY <1>1, <1>2, <2>4 DEF QueueOnce
  <2>6. \A id \in pendingPutIds' :
           id < nextId' /\ \E i \in 1 .. Len(q') : q'[i].op = PutOp(id)
    BY <1>1, <1>3, <1>4, <1>5, <1>6, <1>7 DEF QueueOnce
  <2> QED
    BY <2>3, <2>5, <2>6 DEF QueueOnce
<1>8. CASE /\ e.op.kind = "ack" /\ nextId' = nextId /\ pendingPutIds' = pendingPutIds
           /\ \A id \in e.op.ids : id < nextId /\ id \notin pendingPutIds
  <2>1. \A i \in 1 .. Len(q') : \A id \in q'[i].op.ids :
           /\ id < nextId'
           /\ q'[i].op.kind = "put" => id \in pendingPutIds'
           /\ q'[i].op.kind = "ack" => id \notin pendingPutIds'
    BY <1>1, <1>2, <1>8 DEF QueueOnce
  <2>2. \A i, k \in 1 .. Len(q') :
           q'[i].op.kind = "put" /\ q'[k].op = q'[i].op => k = i
    BY <1>1, <1>2, <1>8 DEF QueueOnce
  <2>3. \A id \in pendingPutIds' :
           id < nextId' /\ \E i \in 1 .. Len(q') : q'[i].op = PutOp(id)
    BY <1>1, <1>3, <1>8 DEF QueueOnce
  <2> QED
    BY <2>1, <2>2, <2>3 DEF QueueOnce
<1> QED
  BY <1>7, <1>8

(* The admission test leaves room for the new record.                      *)
LEMMA FitsRoom ==
    ASSUME TypeOK, MemoryIds, BytesInv, NEW x \in Ids,
           x \notin LiveIds, x \notin pendingPutIds, HasRoomFor(x)
    PROVE  Fits(LiveIds \cup pendingPutIds \cup {x})
<1> DEFINE A == LiveIds
           B == pendingPutIds
<1>1. /\ A \in SUBSET Ids /\ B \in SUBSET Ids /\ {x} \in SUBSET Ids /\ A \cup B \in SUBSET Ids
      /\ A \cap B = {} /\ (A \cup B) \cap {x} = {}
  BY DEF TypeOK, MemoryIds, LiveIds
<1> HIDE DEF A, B
<1>2. /\ BytesOf(A) \in Nat /\ BytesOf(B) \in Nat
      /\ BytesOf(A \cup B) = BytesOf(A) + BytesOf(B)
  BY <1>1, BytesFacts
<1>3. BytesOf((A \cup B) \cup {x}) = BytesOf(A \cup B) + BytesOf({x})
  BY <1>1, BytesFacts
<1>4. BytesOf({x}) = Size[x] /\ Size[x] \in Nat
  BY BytesOfOne
<1>5. IsFiniteSet(A) /\ IsFiniteSet(B) /\ IsFiniteSet({x}) /\ IsFiniteSet(A \cup B)
  BY <1>1, IdsAreFinite
<1>6. Cardinality(A) \in Nat /\ Cardinality(B) \in Nat
  BY <1>5, FS_CardinalityType
<1>7. Cardinality({}) = 0
  BY FS_EmptySet
<1>8. Cardinality({x}) = 1
  BY FS_Singleton
<1>9. Cardinality(A \cup B) = Cardinality(A) + Cardinality(B) - Cardinality(A \cap B)
  BY <1>5, FS_Union
<1>10. Cardinality((A \cup B) \cup {x})
         = Cardinality(A \cup B) + Cardinality({x}) - Cardinality((A \cup B) \cap {x})
  BY <1>5, FS_Union
<1>11. Cardinality((A \cup B) \cup {x}) = Cardinality(A) + Cardinality(B) + 1
  <2>1. Cardinality(A \cap B) = 0 /\ Cardinality((A \cup B) \cap {x}) = 0
    BY <1>1, <1>7, Zenon
  <2>2. Cardinality(A \cup B) = Cardinality(A) + Cardinality(B)
    BY <1>6, <1>9, <2>1
  <2> QED
    BY <1>6, <1>8, <1>10, <2>1, <2>2
<1>12. BytesOf((A \cup B) \cup {x}) = BytesOf(A) + BytesOf(B) + Size[x]
  BY <1>2, <1>3, <1>4
<1>13. /\ Cardinality(A) + Cardinality(B) + 1 <= MaxRecords
       /\ BytesOf(A) + BytesOf(B) + Size[x] <= MaxBytes
  BY DEF HasRoomFor, BytesInv, A, B
<1>14. Fits((A \cup B) \cup {x})
  BY <1>11, <1>12, <1>13 DEF Fits
<1> QED
  BY <1>14 DEF A, B

(* The capacity invariant holds initially.                                 *)
LEMMA InitCInv == Init => CInv
<1> SUFFICES ASSUME Init PROVE CInv
  OBVIOUS
<1>1. /\ wal = <<>> /\ asyncOperations = <<>> /\ pendingPutIds = {} /\ LiveIds = {}
      /\ Len(wal) = 0 /\ Len(asyncOperations) = 0 /\ synced = 0 /\ proc = "up"
      /\ logicalBytes = 0 /\ pendingPutBytes = 0
  BY EmptySeq DEF Init, EmptyMap, LiveIds
<1>2. Fits({})
  BY BytesOfOne, FS_EmptySet, SpoolAssumption DEF Fits
<1>3. LiveAt(wal, 0) = {} /\ LiveNow = {}
  BY <1>1 DEF LiveAt, LiveNow
<1>4. Ahead(LiveNow, asyncOperations, 0) = {}
  BY <1>3 DEF Ahead
<1>5. QueueInv
  BY <1>1 DEF QueueInv, QueueOnce, MemoryIds, FileIds, DownEmpty
<1>6. BytesInv
  BY <1>1, BytesOfOne DEF BytesInv
<1>7. FileFits /\ QueueFits /\ HeadCounts
  BY <1>1, <1>2, <1>3, <1>4 DEF FileFits, QueueFits, HeadCounts
<1> QED
  BY <1>5, <1>6, <1>7 DEF CInv, RoomInv

(* A put is admitted when memory and the pending puts leave room.          *)
LEMMA PutAsyncFits ==
    ASSUME TypeOK, TypeOK', CInv, Noted, PutAsync
    PROVE  CInv'
<1> DEFINE q == asyncOperations
           x == nextId
           e == [op |-> PutOp(x), offset |-> 0]
<1>1. /\ UNCHANGED <<wal, synced, damaged, records, logicalBytes, errors, proc>>
      /\ proc # "down" /\ x \in Ids /\ nextId' = x + 1
      /\ LiveIds' = LiveIds /\ LiveNow' = LiveNow
  <2>1. nextId \in 1 .. MaxPuts + 1 /\ MaxPuts \in Nat
    BY SpoolAssumption DEF TypeOK
  <2>2. nextId <= MaxPuts => nextId \in Ids
    BY <2>1 DEF Ids
  <2> QED
    BY <2>2 DEF PutAsync, disk, counters, LiveIds, LiveNow
<1>2. LiveIds \in SUBSET Ids /\ pendingPutIds \in SUBSET Ids
      /\ \A id \in Ids : id \in Int /\ (id < x => id < x + 1 /\ id # x)
  <2>1. LiveIds \in SUBSET Ids /\ pendingPutIds \in SUBSET Ids
    BY DEF TypeOK, LiveIds
  <2>2. \A id \in Ids : id \in Int
    BY DEF Ids
  <2> QED
    BY <1>1, <2>1, <2>2
<1>3. x \notin LiveIds /\ x \notin pendingPutIds
  BY <1>1, <1>2 DEF CInv, QueueInv, QueueOnce, MemoryIds
<1>4. FileIds' /\ DownEmpty'
  <2>1. \A k \in 1 .. Len(wal) : wal[k].op.ids \in SUBSET Ids
    BY FileTypes DEF TypeOK
  <2> QED
    BY <1>1, <1>2, <2>1 DEF CInv, QueueInv, FileIds, DownEmpty
<1>5. FileFits => FileFits'
  BY <1>1 DEF FileFits
<1>6. CASE UNCHANGED <<pendingPutIds, pendingPutBytes, asyncOperations>>
  <2>1. QueueOnce'
    BY <1>1, <1>2, <1>6, QueueTypes DEF CInv, QueueInv, QueueOnce
  <2>2. MemoryIds' /\ BytesInv'
    BY <1>1, <1>2, <1>6 DEF CInv, QueueInv, MemoryIds, BytesInv
  <2>3. RoomInv'
    BY <1>1, <1>5, <1>6 DEF CInv, RoomInv, QueueFits, HeadCounts
  <2> QED
    BY <1>4, <2>1, <2>2, <2>3 DEF CInv, QueueInv
<1>7. CASE /\ HasRoomFor(x)
           /\ pendingPutIds' = pendingPutIds \cup {x}
           /\ pendingPutBytes' = pendingPutBytes + Size[x]
           /\ q' = Append(q, e)
  <2>1. e \in Entries /\ e.op = PutOp(x) /\ e.offset = 0 /\ e.op.kind = "put" /\ e.op.ids = {x}
    BY <1>1, OperationFacts DEF Entries
  <2>2. QueueOnce'
    <3> HIDE DEF e
    <3> QED
      BY <1>1, <1>7, <2>1, QueueAppend DEF CInv, QueueInv
  <2>3. MemoryIds'
    BY <1>1, <1>2, <1>3, <1>7 DEF CInv, QueueInv, MemoryIds
  <2>4. BytesInv'
    <3>1. /\ BytesOf(pendingPutIds \cup {x}) = BytesOf(pendingPutIds) + BytesOf({x})
          /\ BytesOf({x}) = Size[x]
      BY <1>1, <1>2, <1>3, BytesFacts, BytesOfOne
    <3> QED
      BY <1>1, <1>7, <3>1 DEF CInv, BytesInv
  <2>5. ASSUME FileFits, QueueFits, HeadCounts PROVE QueueFits' /\ HeadCounts'
    <3>1. /\ q \in Seq(Entries) /\ Len(q) \in Nat /\ Len(q') = Len(q) + 1
          /\ \A i \in 1 .. Len(q) : q'[i] = q[i]
          /\ q'[Len(q) + 1] = e
      BY <1>7, QueueTypes
    <3>2. LiveNow \in SUBSET Ids
      BY LiveAtIsIds DEF LiveNow
    <3>3. /\ \A i \in 0 .. Len(q) : Ahead(LiveNow, q', i) = Ahead(LiveNow, q, i)
          /\ Ahead(LiveNow, q', Len(q) + 1) = Done(Ahead(LiveNow, q, Len(q)), e.op)
      <4>1. e.op \in Operations /\ q'[Len(q) + 1].op = e.op
        BY <1>1, <2>1, <3>1, OperationFacts
      <4>2. Queued(q, q', e.op)
        BY <2>1, <3>1, <4>1 DEF Queued
      <4> HIDE DEF e
      <4> QED
        BY <3>1, <3>2, <4>1, <4>2, AheadAppend
    <3>4. Ahead(LiveNow, q', Len(q')) = LiveIds \cup pendingPutIds \cup {x}
      BY <1>1, <2>1, <2>5, <3>1, <3>3 DEF Done, QueueFits
    <3>5. Fits(LiveIds \cup pendingPutIds \cup {x})
      BY <1>1, <1>3, <1>7, FitsRoom DEF CInv, QueueInv
    <3>6. \A i \in 0 .. Len(q') : i \in 0 .. Len(q) \/ i = Len(q')
      BY <3>1
    <3>7. QueueFits'
      BY <1>1, <1>7, <2>5, <3>1, <3>3, <3>4, <3>5, <3>6 DEF QueueFits
    <3>8. HeadCounts'
      <4>1. CASE q = <<>>
        <5>1. q'[1] = e
          BY <3>1, <4>1
        <5> QED
          BY <2>1, <5>1 DEF HeadCounts
      <4>2. CASE q # <<>>
        <5>1. q'[1] = q[1]
          BY <3>1, <4>2
        <5> QED
          BY <1>1, <2>5, <4>2, <5>1 DEF HeadCounts
      <4> QED
        BY <4>1, <4>2
    <3> QED
      BY <3>7, <3>8
  <2> QED
    BY <1>1, <1>4, <1>5, <2>2, <2>3, <2>4, <2>5 DEF CInv, QueueInv, RoomInv
<1> QED
  BY <1>6, <1>7 DEF PutAsync

(* A settling leaves memory at once and the file when its turn comes.      *)
LEMMA AckAsyncFits ==
    ASSUME TypeOK, TypeOK', CInv, Noted, NEW S \in SUBSET LiveIds, AckAsync(S)
    PROVE  CInv'
<1> DEFINE q == asyncOperations
           e == [op |-> AckOp(S), offset |-> 0]
<1>1. /\ UNCHANGED <<wal, synced, damaged, errors, proc, nextId, pendingPutIds, pendingPutBytes>>
      /\ proc = "up" /\ LiveNow' = LiveNow
      /\ q' = Append(q, e) /\ records' = Without(records, S)
      /\ logicalBytes' = logicalBytes - BytesOf(S)
  BY DEF AckAsync, disk, counters, LiveNow
<1>2. /\ S \in SUBSET Ids /\ LiveIds \in SUBSET Ids /\ pendingPutIds \in SUBSET Ids
      /\ LiveIds' = LiveIds \ S
  BY <1>1, MapDomains DEF TypeOK, LiveIds
<1>3. e \in Entries /\ e.op \in Operations /\ e.offset = 0 /\ e.op.kind = "ack" /\ e.op.ids = S
  BY <1>2, OperationFacts DEF Entries
<1>4. \A id \in S : id < nextId /\ id \notin pendingPutIds
  BY DEF CInv, QueueInv, MemoryIds
<1>5. QueueOnce'
  <2> HIDE DEF e
  <2> QED
    BY <1>1, <1>3, <1>4, QueueAppend DEF CInv, QueueInv
<1>6. MemoryIds' /\ FileIds' /\ DownEmpty'
  BY <1>1, <1>2 DEF CInv, QueueInv, MemoryIds, FileIds, DownEmpty
<1>7. BytesInv'
  <2>3. BytesOf(LiveIds \ S) = BytesOf(LiveIds) - BytesOf(S)
    BY <1>2, BytesLess
  <2> QED
    BY <1>1, <1>2, <2>3 DEF CInv, BytesInv
<1>8. FileFits => FileFits'
  BY <1>1 DEF FileFits
<1>9. ASSUME QueueFits, HeadCounts PROVE QueueFits' /\ HeadCounts'
  <2>1. /\ q \in Seq(Entries) /\ Len(q) \in Nat /\ Len(q') = Len(q) + 1
        /\ \A i \in 1 .. Len(q) : q'[i] = q[i]
        /\ q'[Len(q) + 1] = e
    BY <1>1, QueueTypes
  <2>2. LiveNow \in SUBSET Ids
    BY LiveAtIsIds DEF LiveNow
  <2>3. \A k \in 1 .. Len(q), id \in S : q[k].op # PutOp(id)
    BY <1>2, <1>4, OperationFacts DEF CInv, QueueInv, QueueOnce
  <2>4. /\ \A i \in 0 .. Len(q) : Ahead(LiveNow, q', i) = Ahead(LiveNow, q, i)
        /\ Ahead(LiveNow, q', Len(q) + 1) = Done(Ahead(LiveNow, q, Len(q)), e.op)
    <3>1. e.op \in Operations /\ q'[Len(q) + 1].op = e.op
      BY <1>3, <2>1
    <3>2. Queued(q, q', e.op)
      BY <1>3, <2>1, <2>3 DEF Queued, Spares
    <3> HIDE DEF e
    <3> QED
      BY <2>1, <2>2, <3>1, <3>2, AheadAppend
  <2>5. Ahead(LiveNow, q, Len(q)) = LiveIds \cup pendingPutIds /\ Fits(LiveIds \cup pendingPutIds)
    <3>1. Len(q) \in 0 .. Len(q) /\ proc # "down"
      BY <1>1, <2>1
    <3>2. Ahead(LiveNow, q, Len(q)) = LiveIds \cup pendingPutIds
      BY <1>9, <3>1 DEF QueueFits
    <3>3. Fits(Ahead(LiveNow, q, Len(q)))
      BY <1>9, <3>1 DEF QueueFits
    <3> QED
      BY <3>2, <3>3
  <2>6. Ahead(LiveNow, q', Len(q')) = (LiveIds \ S) \cup pendingPutIds
    <3>1. Ahead(LiveNow, q', Len(q')) = (LiveIds \cup pendingPutIds) \ S
      BY <1>3, <2>1, <2>4, <2>5 DEF Done
    <3> QED
      BY <1>4, <3>1
  <2>7. Fits((LiveIds \ S) \cup pendingPutIds)
    <3>1. /\ (LiveIds \ S) \cup pendingPutIds \in SUBSET (LiveIds \cup pendingPutIds)
          /\ LiveIds \cup pendingPutIds \in SUBSET Ids
      BY <1>2
    <3> QED
      BY <2>5, <3>1, FitsLess
  <2>8. \A i \in 0 .. Len(q') : i \in 0 .. Len(q) \/ i = Len(q')
    BY <2>1
  <2>9. QueueFits'
    BY <1>1, <1>2, <1>9, <2>1, <2>4, <2>6, <2>7, <2>8 DEF QueueFits
  <2>10. HeadCounts'
    <3>1. CASE q = <<>>
      <4>1. q'[1] = e
        BY <2>1, <3>1
      <4> QED
        BY <1>3, <4>1 DEF HeadCounts
    <3>2. CASE q # <<>>
      <4>1. q'[1] = q[1]
        BY <2>1, <3>2
      <4> QED
        BY <1>1, <1>9, <3>2, <4>1 DEF HeadCounts
    <3> QED
      BY <3>1, <3>2
  <2> QED
    BY <2>9, <2>10
<1> QED
  BY <1>1, <1>5, <1>6, <1>7, <1>8, <1>9 DEF CInv, QueueInv, RoomInv

(* Ahead looks at operations, not at how much of them is written.          *)
LEMMA AheadSame ==
    ASSUME NEW q, NEW v, NEW L, NEW n \in Nat, \A k \in 1 .. n : v[k].op = q[k].op
    PROVE  \A i \in 0 .. n : Ahead(L, v, i) = Ahead(L, q, i)
<1> TAKE i \in 0 .. n
<1>1. \A k \in 1 .. i : v[k].op = q[k].op
  OBVIOUS
<1> QED
  BY <1>1 DEF Ahead

(* A part of the head operation reaches the file: once its text is         *)
(* complete, what a restart recovers is one operation further.             *)
LEMMA AsyncWriteFits ==
    ASSUME TypeOK, TypeOK', CInv, Noted, NEW n \in 1 .. 3, AsyncWrite(n)
    PROVE  CInv'
<1> DEFINE q == asyncOperations
<1> PICK e \in Entries : e = Head(asyncOperations)
  BY HeadEntry DEF AsyncWrite, TypeOK
<1> PICK o \in 0 .. 3 : o = e.offset
  BY DEF Entries
<1> PICK op \in Operations : op = e.op
  BY DEF Entries
<1>1. /\ UNCHANGED <<proc, synced, records, logicalBytes, pendingPutIds, pendingPutBytes,
                     nextId, errors>>
      /\ proc = "up" /\ q # <<>> /\ n \in 1 .. 3 - o
      /\ wal' = wal \o Text(op, o + 1, o + n)
      /\ q' = [q EXCEPT ![1].offset = o + n]
  BY DEF AsyncWrite, caller, counters
<1>2. LiveIds' = LiveIds
  BY <1>1 DEF LiveIds
<1>3. /\ q \in Seq(Entries) /\ Len(q) \in Nat /\ 1 \in 1 .. Len(q) /\ q[1] = e
      /\ \A k \in 1 .. Len(q) : q[k].op \in Operations /\ q[k].op.ids \in SUBSET Ids
  BY <1>1, QueueTypes, HeadEntry DEF TypeOK
<1>4. /\ Len(q') = Len(q) /\ q'[1].op = op /\ q'[1].offset = o + n
      /\ \A k \in 2 .. Len(q) : q'[k] = q[k]
  BY <1>1, <1>3
<1>5. \A k \in 1 .. Len(q) : q'[k].op = q[k].op
  BY <1>3, <1>4
<1>6. o \in 0 .. 2 /\ n \in 1 .. 3 - o /\ o + 1 \in 1 .. 3 /\ o + n \in o + 1 .. 3
      /\ (o + n) - (o + 1) + 1 = n
  BY <1>1
<1>7. /\ wal \in Seq(Fragments) /\ wal' \in Seq(Fragments) /\ Len(wal) \in Nat
      /\ synced \in 0 .. Len(wal)
  BY DEF TypeOK
<1>0. Appended(wal, wal', op, o, n)
  <2> PICK v : v = wal'
    OBVIOUS
  <2>1. v = wal \o Text(op, o + 1, o + n)
    BY <1>1
  <2>2. Appended(wal, v, op, o, n)
    BY <1>6, <1>7, <2>1, AppendPart
  <2> QED
    BY <2>2
<1>8. /\ Len(wal') = Len(wal) + n
      /\ \A i \in 1 .. Len(wal) : wal'[i] = wal[i]
      /\ \A i \in 1 .. n : wal'[Len(wal) + i] = Fragment(op, o + i)
  BY <1>0 DEF Appended
<1>9. QueueOnce'
  BY <1>1, <1>4, <1>5 DEF CInv, QueueInv, QueueOnce
<1>10. MemoryIds' /\ DownEmpty' /\ BytesInv'
  BY <1>1, <1>2 DEF CInv, QueueInv, MemoryIds, DownEmpty, BytesInv
<1>11. FileIds'
  <2> SUFFICES ASSUME NEW k \in 1 .. Len(wal'), wal'[k].op.kind = "put"
               PROVE  \A id \in wal'[k].op.ids : id < nextId
    BY <1>1 DEF FileIds
  <2>1. CASE k <= Len(wal)
    BY <1>7, <1>8, <2>1 DEF CInv, QueueInv, FileIds
  <2>2. CASE k > Len(wal)
    <3> PICK i \in 1 .. n : k = Len(wal) + i
      <4>1. k - Len(wal) \in 1 .. n /\ k = Len(wal) + (k - Len(wal))
        BY <1>7, <1>8, <2>2
      <4> QED
        BY <4>1
    <3>1. wal'[k].op = op
      <4>1. \A p : Fragment(op, p).op = op
        BY DEF Fragment
      <4>2. wal'[Len(wal) + i] = Fragment(op, o + i)
        BY <1>8
      <4> QED
        BY <4>1, <4>2
    <3> QED
      BY <1>3, <3>1 DEF CInv, QueueInv, QueueOnce
  <2> QED
    BY <1>7, <2>1, <2>2
<1>12. ASSUME FileFits, QueueFits, HeadCounts PROVE FileFits' /\ QueueFits' /\ HeadCounts'
  <2> PICK L \in SUBSET Ids : L = LiveNow
    BY LiveAtIsIds DEF LiveNow
  <2>1. \A i \in 0 .. n : LiveAt(wal', Len(wal) + i) =
           IF o < 2 /\ o + i >= 2 THEN Done(L, op) ELSE L
    <3>1. n \in 1 .. 3 - o /\ o \in 0 .. 2
      BY <1>6
    <3>2. \A i \in 0 .. n : LiveAt(wal', Len(wal) + i) = Counted(L, op, o, i)
      <4> PICK v \in Seq(Fragments) : v = wal'
        BY <1>7
      <4> PICK w \in Seq(Fragments) : w = wal
        BY <1>7
      <4> PICK p \in 0 .. 2 : p = o
        BY <3>1
      <4> PICK k \in 1 .. 3 - p : k = n
        BY <3>1
      <4>1. Appended(w, v, op, p, k)
        BY <1>0
      <4>2. \A i \in 0 .. k : LiveAt(v, Len(w) + i) = Counted(LiveAt(w, Len(w)), op, p, i)
        BY <4>1, AppendLive
      <4>3. LiveAt(w, Len(w)) = L
        BY DEF LiveNow
      <4> QED
        BY <4>2, <4>3
    <3> QED
      BY <3>2 DEF Counted
  <2>2. LiveNow' = IF o < 2 /\ o + n >= 2 THEN Done(L, op) ELSE L
    BY <1>6, <1>8, <2>1 DEF LiveNow
  <2>3. /\ \A i \in 0 .. Len(q) : Fits(Ahead(L, q, i))
        /\ Ahead(L, q, Len(q)) = LiveIds \cup pendingPutIds
    BY <1>1, <1>12 DEF QueueFits
  <2>4. /\ Ahead(L, q, 0) = L /\ Ahead(L, q, 1) = Done(L, op)
        /\ \A i \in 1 .. Len(q) : Ahead(Done(L, op), q, i) = Ahead(L, q, i)
    BY <1>1, <1>3, AheadFacts
  <2>5. Done(L, op) \in SUBSET Ids
    BY OperationFacts DEF Done
  <2>6. Ahead(Done(L, op), q, 0) = Done(L, op)
    BY <1>3, <2>5, AheadFacts
  <2>7. Fits(L) /\ Fits(Done(L, op))
    BY <1>3, <2>3, <2>4
  <2>8. FileFits'
    <3> SUFFICES ASSUME NEW m \in synced .. Len(wal') PROVE Fits(LiveAt(wal', m))
      BY <1>1 DEF FileFits
    <3>1. CASE m <= Len(wal)
      <4>1. m \in Nat /\ m \in synced .. Len(wal) /\ \A i \in 1 .. m : wal'[i] = wal[i]
        BY <1>7, <1>8, <3>1
      <4>2. LiveAt(wal', m) = LiveAt(wal, m)
        BY <4>1, LiveAtSame
      <4> QED
        BY <1>12, <4>1, <4>2 DEF FileFits
    <3>2. CASE m > Len(wal)
      <4> PICK i \in 0 .. n : m = Len(wal) + i
        <5>1. m - Len(wal) \in 0 .. n /\ m = Len(wal) + (m - Len(wal))
          BY <1>7, <1>8, <3>2
        <5> QED
          BY <5>1
      <4> QED
        BY <2>1, <2>7
    <3> QED
      BY <1>7, <3>1, <3>2
  <2>9. \A M : \A i \in 0 .. Len(q) : Ahead(M, q', i) = Ahead(M, q, i)
    BY <1>3, <1>5, AheadSame
  <2>10. QueueFits'
    <3>1. LiveNow' = L \/ LiveNow' = Done(L, op)
      BY <2>2
    <3>2. \A i \in 0 .. Len(q) : Fits(Ahead(LiveNow', q, i))
      <4>1. \A i \in 0 .. Len(q) : i = 0 \/ i \in 1 .. Len(q)
        BY <1>3
      <4> QED
        BY <2>3, <2>4, <2>6, <2>7, <3>1, <4>1
    <3>3. Ahead(LiveNow', q, Len(q)) = LiveIds \cup pendingPutIds
      <4>1. Len(q) \in 1 .. Len(q)
        BY <1>3
      <4> QED
        BY <2>3, <2>4, <3>1, <4>1
    <3> QED
      <4>1. \A i \in 0 .. Len(q) : Ahead(LiveNow', q', i) = Ahead(LiveNow', q, i)
        BY <2>9
      <4>2. Len(q) \in 0 .. Len(q)
        BY <1>3
      <4>3. \A i \in 0 .. Len(q') : Fits(Ahead(LiveNow', q', i))
        BY <1>4, <3>2, <4>1
      <4>4. Ahead(LiveNow', q', Len(q')) = LiveIds' \cup pendingPutIds'
        BY <1>1, <1>2, <1>4, <3>3, <4>1, <4>2
      <4> QED
        BY <4>3, <4>4 DEF QueueFits
  <2>11. HeadCounts'
    <3> SUFFICES ASSUME o + n >= 2 PROVE Done(LiveNow', op) = LiveNow'
      BY <1>4 DEF HeadCounts
    <3>1. CASE o < 2
      BY <2>2, <3>1, DoneTwice
    <3>2. CASE o = 2
      BY <1>1, <1>3, <1>12, <2>2, <3>2 DEF HeadCounts
    <3> QED
      BY <1>6, <3>1, <3>2
  <2> QED
    BY <2>8, <2>10, <2>11
<1> QED
  BY <1>1, <1>9, <1>10, <1>11, <1>12 DEF CInv, QueueInv, RoomInv, Noted

(* The head of a counted queue is dropped: nothing ahead changes.          *)
LEMMA TailRoom ==
    ASSUME TypeOK, IInv, CInv, QueueFits, HeadCounts, proc # "down",
           asyncOperations # <<>>, asyncOperations[1].offset = 3,
           asyncOperations' = Tail(asyncOperations), wal' = wal,
           LiveIds' \cup pendingPutIds' = LiveIds \cup pendingPutIds
    PROVE  QueueFits' /\ HeadCounts'
<1> DEFINE q == asyncOperations
<1>1. /\ Len(q) \in Nat /\ Len(q') = Len(q) - 1 /\ 1 \in 1 .. Len(q)
      /\ q \in Seq(Entries) /\ NoClash(q)
  BY HeadEntry, QueueTypes, QueueNoClash DEF TypeOK, CInv, QueueInv
<1> PICK L \in SUBSET Ids : L = LiveNow
  BY LiveAtIsIds DEF LiveNow
<1>2. LiveNow' = L
  BY DEF LiveNow
<1>3. Done(L, q[1].op) = L
  BY DEF HeadCounts
<1>4. \A i \in 0 .. Len(q) - 1 : Ahead(L, q', i) = Ahead(L, q, i + 1)
  BY <1>1, <1>3, AheadTail
<1>5. /\ \A i \in 0 .. Len(q) : Fits(Ahead(L, q, i))
      /\ Ahead(L, q, Len(q)) = LiveIds \cup pendingPutIds
  BY DEF QueueFits
<1>6. \A i \in 0 .. Len(q') : i \in 0 .. Len(q) - 1 /\ i + 1 \in 0 .. Len(q)
  BY <1>1
<1>7. Len(q') \in 0 .. Len(q) - 1 /\ Len(q') + 1 = Len(q)
  BY <1>1
<1>8. \A i \in 0 .. Len(q') : Fits(Ahead(L, q', i))
  BY <1>4, <1>5, <1>6
<1>9. Ahead(L, q', Len(q')) = LiveIds' \cup pendingPutIds'
  BY <1>4, <1>5, <1>7
<1>10. QueueFits'
  BY <1>2, <1>8, <1>9 DEF QueueFits
<1>11. q' # <<>> => q'[1].offset = 0
  <2>1. q' \in Seq(Entries) /\ \A j \in 1 .. Len(q') : q'[j] = q[j + 1]
    BY HeadEntry DEF TypeOK
  <2>2. q' # <<>> => 1 \in 1 .. Len(q') /\ 2 \in 2 .. Len(q)
    BY <1>1, <2>1
  <2> QED
    BY <2>1, <2>2 DEF IInv, HeadWritten
<1>12. HeadCounts'
  BY <1>11 DEF HeadCounts
<1> QED
  BY <1>10, <1>12

(* A file of which more is synced.                                         *)
LEMMA SyncedMore ==
    ASSUME TypeOK, FileFits, wal' = wal, synced' \in Nat, synced' >= synced
    PROVE  FileFits'
<1>1. \A n \in synced' .. Len(wal) : n \in synced .. Len(wal)
  BY DEF TypeOK
<1> QED
  BY <1>1 DEF FileFits

(* After a compaction the file holds the records in memory and no more.    *)
LEMMA CompactFits ==
    ASSUME TypeOK, TypeOK', QueueOnce', asyncOperations' = <<>>,
           synced' = Len(wal'),
           \A k \in 1 .. Len(wal') : wal'[k].op.kind = "put",
           \A id \in LiveIds' : \E k \in 1 .. Len(wal') : wal'[k] = Fragment(PutOp(id), 2),
           \A k \in 1 .. Len(wal') : \E id \in LiveIds' : wal'[k].op = PutOp(id),
           Fits(LiveIds')
    PROVE  FileFits' /\ QueueFits' /\ HeadCounts'
<1>1. LiveIds' \in SUBSET Ids
  BY DEF TypeOK, LiveIds
<1>2. LiveNow' = LiveIds'
  <2>1. ASSUME NEW id \in LiveIds' PROVE id \in LiveNow'
    <3>1. PICK k \in 1 .. Len(wal') : wal'[k] = Fragment(PutOp(id), 2)
      BY <2>1
    <3>2. \A m \in 1 .. Len(wal') : ~Acks(wal'[m].op, id)
      BY DEF Acks
    <3>3. \A m \in k + 1 .. Len(wal') : m \in 1 .. Len(wal')
      OBVIOUS
    <3> QED
      BY <1>1, <2>1, <3>1, <3>2, <3>3 DEF LiveNow, LiveAt
  <2>2. ASSUME NEW id \in LiveNow' PROVE id \in LiveIds'
    <3>1. PICK k \in 1 .. Len(wal') : wal'[k] = Fragment(PutOp(id), 2)
      BY <2>2 DEF LiveNow, LiveAt
    <3>2. wal'[k].op = PutOp(id) /\ id \in Ids
      BY <2>2, <3>1 DEF Fragment, LiveNow, LiveAt
    <3>3. PICK x \in LiveIds' : wal'[k].op = PutOp(x)
      OBVIOUS
    <3>4. x = id
      <4>1. PutOp(x).ids = {x} /\ PutOp(id).ids = {id}
        BY DEF PutOp
      <4>2. PutOp(x) = PutOp(id)
        BY <3>2, <3>3
      <4> QED
        BY <4>1, <4>2
    <3> QED
      BY <3>4
  <2> QED
    BY <2>1, <2>2
<1>3. Len(wal') \in Nat /\ Len(asyncOperations') = 0
  BY EmptySeq DEF TypeOK
<1>4. FileFits'
  <2>1. \A n \in synced' .. Len(wal') : n = Len(wal')
    BY <1>3
  <2> QED
    BY <1>2, <2>1 DEF FileFits, LiveNow
<1>5. pendingPutIds' = {}
  BY <1>3 DEF QueueOnce
<1>6. Ahead(LiveNow', asyncOperations', 0) = LiveIds'
  <2> PICK L \in SUBSET Ids : L = LiveIds'
    BY <1>1
  <2>1. Ahead(L, asyncOperations', 0) = L
    BY DEF Ahead
  <2> QED
    BY <1>2, <2>1
<1>7. QueueFits' /\ HeadCounts'
  BY <1>3, <1>5, <1>6 DEF QueueFits, HeadCounts
<1> QED
  BY <1>4, <1>7

(* A written put moves from the pending bytes to those of memory.          *)
LEMMA FinishPutFits ==
    ASSUME TypeOK, TypeOK', IInv, CInv, Noted, FinishPut
    PROVE  CInv'
<1> DEFINE q == asyncOperations
<1>1. /\ q # <<>> /\ q' = Tail(q) /\ q[1] = Head(q) /\ 1 \in 1 .. Len(q)
      /\ q[1].op \in Operations /\ q[1].op.kind = "put" /\ q[1].offset = 3
      /\ UNCHANGED <<proc, wal, damaged, nextId, errors>> /\ proc = "up"
      /\ synced' = SyncedAfter(wal)
  BY HeadEntry, QueueTypes DEF FinishPut, TypeOK, counters
<1> PICK x \in Ids : q[1].op = PutOp(x) /\ q[1].op.ids = {x}
  BY <1>1, OperationFacts
<1>2. /\ records' = Restored({x}) /\ pendingPutIds' = pendingPutIds \ {x}
      /\ logicalBytes' = logicalBytes + BytesOf({x})
      /\ pendingPutBytes' = pendingPutBytes - BytesOf({x})
  BY <1>1 DEF FinishPut
<1>3. x \in pendingPutIds /\ x < nextId /\ x \notin LiveIds
  BY <1>1 DEF CInv, QueueInv, QueueOnce, MemoryIds
<1>4. /\ LiveIds' = LiveIds \cup {x} /\ LiveIds \in SUBSET Ids /\ pendingPutIds \in SUBSET Ids
      /\ {x} \in SUBSET Ids
  BY <1>2, MapDomains DEF TypeOK, LiveIds
<1>5. QueueOnce'
  BY <1>1, <1>2, QueueTail DEF CInv, QueueInv
<1>6. MemoryIds' /\ FileIds' /\ DownEmpty'
  BY <1>1, <1>2, <1>3, <1>4 DEF CInv, QueueInv, MemoryIds, FileIds, DownEmpty
<1>7. BytesInv'
  <2>1. LiveIds \cap {x} = {} /\ {x} \in SUBSET pendingPutIds
    BY <1>3
  <2>2. BytesOf(LiveIds \cup {x}) = BytesOf(LiveIds) + BytesOf({x})
    BY <1>4, <2>1, BytesFacts
  <2>3. BytesOf(pendingPutIds \ {x}) = BytesOf(pendingPutIds) - BytesOf({x})
    BY <1>4, <2>1, BytesLess
  <2> QED
    BY <1>2, <1>4, <2>2, <2>3 DEF CInv, BytesInv
<1>8. FileFits => FileFits'
  <2>1. synced' \in Nat /\ synced' >= synced
    BY <1>1 DEF SyncedAfter, TypeOK
  <2> QED
    BY <1>1, <2>1, SyncedMore
<1>9. QueueFits /\ HeadCounts => QueueFits' /\ HeadCounts'
  <2>1. LiveIds' \cup pendingPutIds' = LiveIds \cup pendingPutIds
    BY <1>2, <1>3, <1>4
  <2> QED
    BY <1>1, <2>1, TailRoom
<1> QED
  BY <1>1, <1>5, <1>6, <1>7, <1>8, <1>9 DEF CInv, QueueInv, RoomInv, Noted

(* A written settling leaves the queue.                                    *)
LEMMA FinishAckFits ==
    ASSUME TypeOK, TypeOK', IInv, CInv, Noted, FinishAck
    PROVE  CInv'
<1> DEFINE q == asyncOperations
<1>1. /\ q # <<>> /\ q' = Tail(q) /\ q[1] = Head(q) /\ 1 \in 1 .. Len(q)
      /\ q[1].op.kind = "ack" /\ q[1].offset = 3
      /\ UNCHANGED <<proc, records, logicalBytes, pendingPutIds, pendingPutBytes, nextId, errors>>
      /\ proc = "up"
      /\ CompactIfNeeded(records, wal, walBytes + 3, Tail(q))
      /\ ~MayCompact(records, walBytes + 3, Tail(q)) => synced' = SyncedAfter(wal)
  BY HeadEntry DEF FinishAck, TypeOK, caller, counters
<1>2. /\ LiveIds' = LiveIds /\ DOMAIN records = LiveIds
      /\ LiveIds \in SUBSET Ids /\ pendingPutIds \in SUBSET Ids
  BY <1>1 DEF TypeOK, LiveIds
<1>3. QueueOnce'
  BY <1>1, QueueTail DEF CInv, QueueInv
<1>4. MemoryIds' /\ DownEmpty' /\ BytesInv'
  BY <1>1, <1>2 DEF CInv, QueueInv, MemoryIds, DownEmpty, BytesInv
<1>5. CASE wal' = wal /\ synced' = SyncedAfter(wal)
  <2>1. FileIds'
    BY <1>1, <1>5 DEF CInv, QueueInv, FileIds
  <2>2. FileFits => FileFits'
    <3>1. synced' \in Nat /\ synced' >= synced
      BY <1>5 DEF SyncedAfter, TypeOK
    <3> QED
      BY <1>5, <3>1, SyncedMore
  <2>3. QueueFits /\ HeadCounts => QueueFits' /\ HeadCounts'
    BY <1>1, <1>2, <1>5, TailRoom
  <2> QED
    BY <1>1, <1>3, <1>4, <2>1, <2>2, <2>3 DEF CInv, QueueInv, RoomInv, Noted
<1>6. CASE /\ Tail(q) = <<>> /\ synced' = Len(wal')
           /\ \A k \in 1 .. Len(wal') : wal'[k].op.kind = "put"
           /\ \A id \in DOMAIN records : \E k \in 1 .. Len(wal') :
                wal'[k] = Fragment(PutOp(id), 2)
           /\ \A k \in 1 .. Len(wal') : \E id \in DOMAIN records : wal'[k].op = PutOp(id)
  <2>1. FileIds'
    <3> SUFFICES ASSUME NEW k \in 1 .. Len(wal') PROVE \A id \in wal'[k].op.ids : id < nextId
      BY <1>1 DEF FileIds
    <3>1. PICK x \in LiveIds : wal'[k].op = PutOp(x)
      BY <1>2, <1>6
    <3>2. wal'[k].op.ids = {x}
      BY <1>2, <3>1, OperationFacts
    <3> QED
      BY <3>2 DEF CInv, QueueInv, MemoryIds
  <2>2. QueueFits => FileFits' /\ QueueFits' /\ HeadCounts'
    <3> SUFFICES ASSUME QueueFits PROVE Fits(LiveIds')
      BY <1>1, <1>2, <1>3, <1>6, CompactFits
    <3>1. Fits(LiveIds \cup pendingPutIds)
      <4>1. Len(q) \in 0 .. Len(q)
        BY QueueTypes
      <4> QED
        BY <1>1, <4>1 DEF QueueFits
    <3>2. /\ LiveIds \in SUBSET (LiveIds \cup pendingPutIds)
          /\ LiveIds \cup pendingPutIds \in SUBSET Ids
      BY <1>2
    <3> QED
      BY <1>2, <3>1, <3>2, FitsLess
  <2> QED
    BY <1>1, <1>3, <1>4, <2>1, <2>2 DEF CInv, QueueInv, RoomInv, Noted
<1> QED
  BY <1>1, <1>2, <1>5, <1>6, CompactCases

(* A failed operation leaves the queue and its room is given back.         *)
LEMMA FinishErrorFits ==
    ASSUME TypeOK, TypeOK', CInv, FinishError
    PROVE  CInv'
<1> DEFINE q == asyncOperations
<1> PICK A \in SUBSET Ids : A = q[1].op.ids
  BY HeadEntry DEF FinishError, TypeOK
<1>1. /\ q # <<>> /\ q' = Tail(q) /\ q[1] = Head(q) /\ 1 \in 1 .. Len(q)
      /\ q[1].op.kind \in {"put", "ack"}
      /\ UNCHANGED <<proc, wal, nextId>> /\ proc = "up" /\ errors' = errors + 1
  BY HeadEntry, QueueTypes, OperationFacts DEF FinishError, TypeOK, disk, caller
<1>2. errors' # 0
  BY <1>1 DEF TypeOK
<1>3. LiveIds \in SUBSET Ids /\ pendingPutIds \in SUBSET Ids
  BY DEF TypeOK, LiveIds
<1>4. \A id \in A : id < nextId /\ (q[1].op.kind = "put" => id \in pendingPutIds)
                    /\ (q[1].op.kind = "ack" => id \notin pendingPutIds)
  BY <1>1 DEF CInv, QueueInv, QueueOnce
<1>5. FileIds' /\ DownEmpty'
  BY <1>1 DEF CInv, QueueInv, FileIds, DownEmpty
<1>6. CASE q[1].op.kind = "put"
  <2>1. /\ pendingPutIds' = pendingPutIds \ A /\ pendingPutBytes' = pendingPutBytes - BytesOf(A)
        /\ UNCHANGED <<records, logicalBytes>>
    BY <1>1, <1>6 DEF FinishError
  <2>2. LiveIds' = LiveIds /\ A \in SUBSET pendingPutIds
    BY <1>4, <1>6, <2>1 DEF LiveIds
  <2>3. QueueOnce'
    BY <1>1, <1>6, <2>1, QueueTail DEF CInv, QueueInv
  <2>4. MemoryIds'
    BY <1>1, <2>1, <2>2 DEF CInv, QueueInv, MemoryIds
  <2>5. BytesInv'
    BY <1>3, <2>1, <2>2, BytesLess DEF CInv, BytesInv
  <2> QED
    BY <1>2, <1>5, <2>3, <2>4, <2>5 DEF CInv, QueueInv, RoomInv
<1>7. CASE q[1].op.kind = "ack"
  <2>1. /\ records' = Restored(A) /\ logicalBytes' = logicalBytes + BytesOf(A \ LiveIds)
        /\ UNCHANGED <<pendingPutIds, pendingPutBytes>>
    BY <1>1, <1>7 DEF FinishError
  <2>2. LiveIds' = LiveIds \cup (A \ LiveIds)
    BY <2>1, MapDomains DEF TypeOK, LiveIds
  <2>3. QueueOnce'
    BY <1>1, <1>7, <2>1, QueueTail DEF CInv, QueueInv
  <2>4. MemoryIds'
    BY <1>1, <1>4, <1>7, <2>1, <2>2 DEF CInv, QueueInv, MemoryIds
  <2>5. BytesOf(LiveIds \cup (A \ LiveIds)) = BytesOf(LiveIds) + BytesOf(A \ LiveIds)
    <3>1. A \ LiveIds \in SUBSET Ids /\ LiveIds \cap (A \ LiveIds) = {}
      OBVIOUS
    <3> QED
      BY <1>3, <3>1, BytesFacts
  <2>6. BytesInv'
    BY <2>1, <2>2, <2>5 DEF CInv, BytesInv
  <2> QED
    BY <1>2, <1>5, <2>3, <2>4, <2>6 DEF CInv, QueueInv, RoomInv
<1> QED
  BY <1>1, <1>6, <1>7

(* ack() behind the dead-letter file: the records are gone from memory,    *)
(* from the file, and from everything the queue will make of it.           *)
LEMMA DeadLetterFits ==
    ASSUME TypeOK, TypeOK', CInv, Noted,
           NEW S \in SUBSET LiveIds, NEW n \in 0 .. 3, DeadLetter(S, n)
    PROVE  CInv'
<1> DEFINE q == asyncOperations
<1>1. /\ UNCHANGED <<proc, nextId, pendingPutIds, pendingPutBytes, asyncOperations>>
      /\ proc # "down" /\ (n < 3 => errors' = errors + 1)
  BY DEF DeadLetter, caller
<1>2. /\ LiveIds \in SUBSET Ids /\ pendingPutIds \in SUBSET Ids /\ S \in SUBSET Ids
      /\ S \cap pendingPutIds = {}
  BY DEF TypeOK, LiveIds, CInv, QueueInv, MemoryIds
<1>3. QueueOnce'
  BY <1>1 DEF CInv, QueueInv, QueueOnce
<1>4. n < 3 => errors' # 0
  BY <1>1 DEF TypeOK
<1>5. CASE proc = "closed" \/ n = 0
  <2>1. UNCHANGED <<wal, synced, records, logicalBytes>>
    BY <1>5 DEF DeadLetter
  <2>2. LiveIds' = LiveIds /\ LiveNow' = LiveNow
    BY <2>1 DEF LiveIds, LiveNow
  <2>3. MemoryIds' /\ FileIds' /\ DownEmpty' /\ BytesInv'
    BY <1>1, <2>1, <2>2 DEF CInv, QueueInv, MemoryIds, FileIds, DownEmpty, BytesInv
  <2>4. RoomInv'
    BY <1>1, <2>1, <2>2 DEF CInv, RoomInv, Noted, FileFits, QueueFits, HeadCounts
  <2> QED
    BY <1>3, <2>3, <2>4 DEF CInv, QueueInv
<1>6. CASE ~(proc = "closed" \/ n = 0)
  <2> PICK m \in 1 .. 3 : m = n
    BY <1>6
  <2> PICK op \in Operations : op = AckOp(S)
    BY <1>2, OperationFacts
  <2> PICK file : file = wal \o Text(op, 1, m)
    OBVIOUS
  <2> PICK map : map = Without(records, S)
    OBVIOUS
  <2>1. /\ records' = map /\ logicalBytes' = logicalBytes - BytesOf(S)
        /\ CompactIfNeeded(map, file, walBytes + 3, q)
        /\ ~MayCompact(map, walBytes + 3, q) => synced' = SyncedAfter(file)
    BY <1>6 DEF DeadLetter
  <2>2. op.kind = "ack" /\ op.ids = S
    BY <1>2, OperationFacts
  <2>3. LiveIds' = LiveIds \ S /\ DOMAIN map = LiveIds \ S
    BY <1>2, <2>1, MapDomains DEF TypeOK, LiveIds
  <2>4. MemoryIds' /\ DownEmpty'
    BY <1>1, <2>3 DEF CInv, QueueInv, MemoryIds, DownEmpty
  <2>5. BytesInv'
    BY <1>1, <1>2, <2>1, <2>3, BytesLess DEF CInv, BytesInv
  <2>6. /\ wal \in Seq(Fragments) /\ file \in Seq(Fragments) /\ Len(wal) \in Nat
        /\ synced \in 0 .. Len(wal) /\ Appended(wal, file, op, 0, m)
    <3> PICK o \in 0 .. 2 : o = 0
      OBVIOUS
    <3>1. wal \in Seq(Fragments) /\ m \in 1 .. 3 - o /\ o + 1 = 1 /\ o + m = m
      BY DEF TypeOK
    <3>2. file = wal \o Text(op, o + 1, o + m)
      BY <3>1
    <3>3. file \in Seq(Fragments) /\ Appended(wal, file, op, o, m)
      BY <3>1, <3>2, AppendPart
    <3> QED
      BY <3>3 DEF TypeOK
  <2>7. CASE wal' = file /\ synced' = SyncedAfter(file)
    <3>1. /\ Len(wal') = Len(wal) + m
          /\ \A i \in 1 .. Len(wal) : wal'[i] = wal[i]
          /\ \A i \in 1 .. m : wal'[Len(wal) + i].op = op
      <4>1. \A p : Fragment(op, p).op = op
        BY DEF Fragment
      <4> QED
        BY <2>6, <2>7, <4>1 DEF Appended
    <3>2. FileIds'
      <4> SUFFICES ASSUME NEW k \in 1 .. Len(wal'), wal'[k].op.kind = "put"
                   PROVE  \A id \in wal'[k].op.ids : id < nextId
        BY <1>1 DEF FileIds
      <4>1. CASE k <= Len(wal)
        BY <2>6, <3>1, <4>1 DEF CInv, QueueInv, FileIds
      <4>2. CASE k > Len(wal)
        <5> PICK i \in 1 .. m : k = Len(wal) + i
          <6>1. k - Len(wal) \in 1 .. m /\ k = Len(wal) + (k - Len(wal))
            BY <2>6, <3>1, <4>2
          <6> QED
            BY <6>1
        <5>1. wal'[k].op = op
          BY <3>1
        <5> QED
          BY <2>2, <5>1
      <4> QED
        BY <2>6, <4>1, <4>2
    <3>3. ASSUME m = 3, FileFits, QueueFits, HeadCounts
          PROVE  FileFits' /\ QueueFits' /\ HeadCounts'
      <4> PICK L \in SUBSET Ids : L = LiveNow
        BY LiveAtIsIds DEF LiveNow
      <4>1. Done(L, op) = L \ S
        BY <2>2 DEF Done
      <4>2. \A i \in 0 .. 3 : LiveAt(wal', Len(wal) + i) = IF i >= 2 THEN L \ S ELSE L
        <5> PICK o \in 0 .. 2 : o = 0
          OBVIOUS
        <5> PICK k \in 1 .. 3 - o : k = 3
          OBVIOUS
        <5> PICK v \in Seq(Fragments) : v = wal'
          BY <2>6, <2>7
        <5> PICK w \in Seq(Fragments) : w = wal
          BY <2>6
        <5>1. Appended(w, v, op, o, k)
          BY <2>6, <2>7, <3>3
        <5>2. \A i \in 0 .. k : LiveAt(v, Len(w) + i) = Counted(LiveAt(w, Len(w)), op, o, i)
          BY <5>1, AppendLive
        <5>3. LiveAt(w, Len(w)) = L
          BY DEF LiveNow
        <5>4. \A i \in 0 .. 3 : i \in 0 .. k /\ o + i = i /\ o < 2
          OBVIOUS
        <5>5. \A i \in 0 .. 3 : LiveAt(v, Len(w) + i) = IF i >= 2 THEN Done(L, op) ELSE L
          BY <5>2, <5>3, <5>4 DEF Counted
        <5> QED
          BY <4>1, <5>5
      <4>3. LiveNow' = L \ S
        BY <3>1, <3>3, <4>2 DEF LiveNow
      <4>4. /\ \A i \in 0 .. Len(q) : Fits(Ahead(L, q, i)) /\ Ahead(L, q, i) \in SUBSET Ids
            /\ Ahead(L, q, Len(q)) = LiveIds \cup pendingPutIds
            /\ Ahead(L, q, 0) = L
        BY <1>1, <3>3, QueueTypes, AheadFacts DEF QueueFits
      <4>5. Fits(L) /\ Fits(L \ S)
        <5>1. 0 \in 0 .. Len(q) /\ (L \ S) \in SUBSET L
          BY QueueTypes
        <5>2. Fits(L)
          BY <4>4, <5>1
        <5> QED
          BY <5>1, <5>2, FitsLess
      <4>6. FileFits'
        <5> SUFFICES ASSUME NEW j \in synced' .. Len(wal') PROVE Fits(LiveAt(wal', j))
          BY DEF FileFits
        <5>1. j \in synced .. Len(wal')
          <6>1. synced' = synced \/ synced' = Len(wal')
            BY <2>7 DEF SyncedAfter
          <6> QED
            BY <2>6, <3>1, <6>1
        <5>2. CASE j <= Len(wal)
          <6>1. j \in Nat /\ j \in synced .. Len(wal) /\ \A i \in 1 .. j : wal'[i] = wal[i]
            BY <2>6, <3>1, <5>1, <5>2
          <6>2. LiveAt(wal', j) = LiveAt(wal, j)
            BY <6>1, LiveAtSame
          <6> QED
            BY <3>3, <6>1, <6>2 DEF FileFits
        <5>3. CASE j > Len(wal)
          <6> PICK i \in 0 .. 3 : j = Len(wal) + i
            <7>1. j - Len(wal) \in 0 .. 3 /\ j = Len(wal) + (j - Len(wal))
              BY <2>6, <3>1, <3>3, <5>1, <5>3
            <7> QED
              BY <7>1
          <6> QED
            BY <4>2, <4>5
        <5> QED
          BY <2>6, <5>1, <5>2, <5>3
      <4>7. \A i \in 0 .. Len(q) : Ahead(L \ S, q, i) = Ahead(L, q, i) \ S
        <5>1. Spares(q, S)
          BY <1>2, OperationFacts DEF CInv, QueueInv, QueueOnce, Spares
        <5> TAKE i \in 0 .. Len(q)
        <5> QED
          BY <1>2, <5>1, QueueTypes, AheadMinus
      <4>8. QueueFits'
        <5>1. \A i \in 0 .. Len(q) : Fits(Ahead(L \ S, q, i))
          <6> TAKE i \in 0 .. Len(q)
          <6> PICK A \in SUBSET Ids : A = Ahead(L, q, i)
            BY <4>4
          <6>1. Fits(A) /\ (A \ S) \in SUBSET A
            BY <4>4
          <6>2. Fits(A \ S)
            BY <6>1, FitsLess
          <6> QED
            BY <4>7, <6>2
        <5>2. Ahead(L \ S, q, Len(q)) = (LiveIds \ S) \cup pendingPutIds
          <6>1. Len(q) \in 0 .. Len(q)
            BY QueueTypes
          <6>2. Ahead(L \ S, q, Len(q)) = (LiveIds \cup pendingPutIds) \ S
            BY <4>4, <4>7, <6>1
          <6> QED
            BY <1>2, <6>2
        <5> QED
          BY <1>1, <2>3, <4>3, <5>1, <5>2 DEF QueueFits
      <4>9. HeadCounts'
        <5> SUFFICES ASSUME q # <<>>, q[1].offset >= 2 PROVE Done(L \ S, q[1].op) = L \ S
          BY <1>1, <4>3 DEF HeadCounts
        <5>1. Done(L, q[1].op) = L
          BY <3>3 DEF HeadCounts
        <5>2. q[1].op.kind = "put" => q[1].op.ids \cap S = {}
          <6>1. 1 \in 1 .. Len(q)
            BY QueueTypes
          <6> QED
            BY <1>2, <6>1 DEF CInv, QueueInv, QueueOnce
        <5> QED
          BY <5>1, <5>2 DEF Done
      <4> QED
        BY <4>6, <4>8, <4>9
    <3>4. RoomInv'
      BY <1>4, <3>3 DEF CInv, RoomInv, Noted
    <3> QED
      BY <1>3, <2>4, <2>5, <3>2, <3>4 DEF CInv, QueueInv
  <2>8. CASE /\ q = <<>> /\ synced' = Len(wal')
             /\ \A k \in 1 .. Len(wal') : wal'[k].op.kind = "put"
             /\ \A id \in DOMAIN map : \E k \in 1 .. Len(wal') :
                  wal'[k] = Fragment(PutOp(id), 2)
             /\ \A k \in 1 .. Len(wal') : \E id \in DOMAIN map : wal'[k].op = PutOp(id)
    <3>1. FileIds'
      <4> SUFFICES ASSUME NEW k \in 1 .. Len(wal') PROVE \A id \in wal'[k].op.ids : id < nextId
        BY <1>1 DEF FileIds
      <4>1. PICK x \in LiveIds : wal'[k].op = PutOp(x)
        BY <2>3, <2>8
      <4>2. wal'[k].op.ids = {x}
        BY <1>2, <4>1, OperationFacts
      <4> QED
        BY <4>2 DEF CInv, QueueInv, MemoryIds
    <3>2. QueueFits => FileFits' /\ QueueFits' /\ HeadCounts'
      <4> SUFFICES ASSUME QueueFits PROVE Fits(LiveIds')
        BY <1>1, <1>3, <2>3, <2>8, CompactFits
      <4>1. Fits(LiveIds \cup pendingPutIds)
        <5>1. Len(q) \in 0 .. Len(q)
          BY QueueTypes
        <5> QED
          BY <1>1, <5>1 DEF QueueFits
      <4>2. /\ (LiveIds \ S) \in SUBSET (LiveIds \cup pendingPutIds)
            /\ LiveIds \cup pendingPutIds \in SUBSET Ids
        BY <1>2
      <4> QED
        BY <2>3, <4>1, <4>2, FitsLess
    <3> QED
      BY <1>3, <2>4, <2>5, <3>1, <3>2 DEF CInv, QueueInv, RoomInv, Noted
  <2>9. DOMAIN map \in SUBSET Ids
    BY <1>2, <2>3
  <2> QED
    BY <2>1, <2>7, <2>8, <2>9, CompactCases
<1> QED
  BY <1>5, <1>6

(* An fsync changes neither memory nor file.                               *)
LEMMA SyncFits ==
    ASSUME TypeOK, TypeOK', CInv, Noted,
           SyncAsync \/ (\E ok \in BOOLEAN : SyncDone(ok)) \/ Close
    PROVE  CInv'
<1>1. /\ UNCHANGED <<wal, damaged, records, logicalBytes, pendingPutIds, pendingPutBytes,
                     asyncOperations, nextId>>
      /\ synced' \in {synced, Len(wal), asyncSync}
      /\ synced' = asyncSync => asyncSync >= synced \/ synced' = synced
      /\ proc # "down" /\ proc' # "down"
  <2>1. CASE SyncAsync
    BY <2>1 DEF SyncAsync, disk, caller
  <2>2. ASSUME NEW ok \in BOOLEAN, SyncDone(ok)
        PROVE  /\ UNCHANGED <<wal, damaged, records, logicalBytes, pendingPutIds, pendingPutBytes,
                              asyncOperations, nextId>>
               /\ synced' \in {synced, Len(wal), asyncSync}
               /\ synced' = asyncSync => asyncSync >= synced \/ synced' = synced
               /\ proc # "down" /\ proc' # "down"
    BY <2>2 DEF SyncDone, caller, TypeOK
  <2>3. CASE Close
    BY <2>3 DEF Close, memory, caller, TypeOK
  <2> QED
    BY <2>1, <2>2, <2>3
<1>2. synced' \in Nat /\ synced' >= synced
  BY <1>1 DEF TypeOK
<1>3. LiveIds' = LiveIds /\ LiveNow' = LiveNow
  BY <1>1 DEF LiveIds, LiveNow
<1>4. QueueInv' /\ BytesInv'
  BY <1>1, <1>3 DEF CInv, QueueInv, QueueOnce, MemoryIds, FileIds, DownEmpty, BytesInv
<1>5. FileFits => FileFits'
  BY <1>1, <1>2, SyncedMore
<1> QED
  BY <1>1, <1>3, <1>4, <1>5 DEF CInv, RoomInv, Noted, QueueFits, HeadCounts

(* The process is gone, and a host crash takes a part of the file that is  *)
(* not synced: what is left is one of the files that fit.                  *)
LEMMA StopFits ==
    ASSUME TypeOK, TypeOK', CInv, Noted,
           ProcessExit \/ \E n \in 0 .. Len(wal) : HostCrash(n)
    PROVE  CInv'
<1>1. /\ Stop /\ nextId' = nextId /\ synced' = synced
      /\ \E n \in synced .. Len(wal) :
            (wal' = wal /\ n = Len(wal)) \/ wal' = SubSeq(wal, 1, n)
  BY DEF ProcessExit, HostCrash, disk, caller, TypeOK
<1> PICK n \in synced .. Len(wal) : (wal' = wal /\ n = Len(wal)) \/ wal' = SubSeq(wal, 1, n)
  BY <1>1
<1>2. /\ Len(wal') = n /\ n \in 0 .. Len(wal) /\ synced \in 0 .. Len(wal) /\ Len(wal) \in Nat
      /\ \A i \in 1 .. n : wal'[i] = wal[i]
  <2>1. wal \in Seq(Fragments) /\ synced \in 0 .. Len(wal) /\ Len(wal) \in Nat
    BY DEF TypeOK
  <2>2. n \in 0 .. Len(wal)
    BY <2>1
  <2>3. CASE wal' = wal /\ n = Len(wal)
    BY <2>1, <2>2, <2>3
  <2>4. CASE wal' = SubSeq(wal, 1, n)
    BY <2>1, <2>2, <2>4
  <2> QED
    BY <2>3, <2>4
<1>3. /\ proc' = "down" /\ LiveIds' = {} /\ pendingPutIds' = {} /\ asyncOperations' = <<>>
      /\ logicalBytes' = 0 /\ pendingPutBytes' = 0 /\ Len(asyncOperations') = 0
  BY <1>1, EmptySeq DEF Stop, EmptyMap, LiveIds
<1>4. QueueOnce' /\ MemoryIds' /\ DownEmpty'
  BY <1>3 DEF QueueOnce, MemoryIds, DownEmpty
<1>5. FileIds'
  BY <1>1, <1>2 DEF CInv, QueueInv, FileIds
<1>6. BytesInv'
  BY <1>3, BytesOfOne DEF BytesInv
<1>7. FileFits => FileFits'
  <2> SUFFICES ASSUME FileFits, NEW j \in synced .. n PROVE Fits(LiveAt(wal', j))
    BY <1>1, <1>2 DEF FileFits
  <2>1. j \in Nat /\ j \in synced .. Len(wal) /\ \A i \in 1 .. j : wal'[i] = wal[i]
    BY <1>2
  <2>2. LiveAt(wal', j) = LiveAt(wal, j)
    BY <2>1, LiveAtSame
  <2> QED
    BY <2>1, <2>2 DEF FileFits
<1>8. QueueFits' /\ HeadCounts'
  BY <1>3 DEF QueueFits, HeadCounts
<1> QED
  BY <1>4, <1>5, <1>6, <1>7, <1>8 DEF CInv, QueueInv, RoomInv, Noted

(* A restart takes into memory what the file recovers.                     *)
LEMMA RestartFits ==
    ASSUME TypeOK, TypeOK', IInv, CInv, Restart
    PROVE  CInv'
<1>1. /\ UNCHANGED <<wal, synced, damaged, pendingPutIds, pendingPutBytes, asyncOperations,
                     nextId, errors>>
      /\ LiveIds' = Live(wal) /\ logicalBytes' = BytesOf(Live(wal))
      /\ proc = "down" /\ proc' = "up"
  BY DEF Restart, disk, caller, counters, LiveIds
<1>2. asyncOperations = <<>> /\ Len(asyncOperations) = 0
  BY <1>1, EmptySeq DEF CInv, QueueInv, DownEmpty
<1>3. pendingPutIds = {}
  BY <1>2 DEF CInv, QueueInv, QueueOnce
<1>4. QueueOnce' /\ FileIds' /\ DownEmpty'
  BY <1>1, <1>2, <1>3 DEF CInv, QueueInv, QueueOnce, FileIds, DownEmpty
<1>5. MemoryIds'
  <2> SUFFICES ASSUME NEW id \in Live(wal) PROVE id < nextId
    BY <1>1, <1>3 DEF MemoryIds
  <2>1. PICK k \in 2 .. Len(wal) : PutAt(wal, id, k)
    BY DEF Live
  <2>2. k \in 1 .. Len(wal) /\ wal[k].op = PutOp(id)
    BY <2>1 DEF PutAt
  <2>3. wal[k].op.kind = "put" /\ id \in wal[k].op.ids
    BY <2>2 DEF PutOp
  <2> QED
    BY <2>2, <2>3 DEF CInv, QueueInv, FileIds
<1>6. BytesInv'
  BY <1>1 DEF CInv, BytesInv
<1>7. ASSUME ~damaged, FileFits PROVE FileFits' /\ QueueFits' /\ HeadCounts'
  <2>1. wal \in Seq(Fragments) /\ Intact(wal) /\ synced \in 0 .. Len(wal) /\ Len(wal) \in Nat
    BY <1>7 DEF TypeOK, IInv, OwedWritten
  <2>2. LiveNow' = Live(wal) /\ Live(wal) \in SUBSET Ids
    BY <1>1, <2>1, LiveIsLiveAt, LiveIsIds DEF LiveNow
  <2>3. Fits(Live(wal))
    <3>1. Len(wal) \in synced .. Len(wal)
      BY <2>1
    <3> QED
      BY <1>7, <2>1, <3>1, LiveIsLiveAt DEF FileFits
  <2> PICK L \in SUBSET Ids : L = Live(wal)
    BY <2>2
  <2>4. Ahead(L, asyncOperations, 0) = L
    BY DEF Ahead
  <2>5. QueueFits' /\ HeadCounts'
    BY <1>1, <1>2, <1>3, <2>2, <2>3, <2>4 DEF QueueFits, HeadCounts
  <2>6. FileFits'
    BY <1>1, <1>7 DEF FileFits
  <2> QED
    BY <2>5, <2>6
<1> QED
  BY <1>1, <1>4, <1>5, <1>6, <1>7 DEF CInv, QueueInv, RoomInv

(* Every step preserves the capacity invariant.                            *)
LEMMA StepCInv ==
    ASSUME TypeOK, IInv, CInv, [Next]_vars
    PROVE  CInv'
<1>1. TypeOK'
  BY StepType
<1>2. CASE UNCHANGED vars
  BY <1>2 DEF CInv, QueueInv, QueueOnce, MemoryIds, FileIds, DownEmpty, BytesInv, RoomInv,
     FileFits, QueueFits, HeadCounts, LiveNow, LiveIds, vars, disk, memory, caller, counters
<1>3. CASE Step
  <2>1. Noted
    BY <1>3, StepNotes
  <2>2. PutAsync => CInv'
    BY <1>1, <2>1, PutAsyncFits
  <2>3. (\E S \in SUBSET LiveIds : AckAsync(S)) => CInv'
    BY <1>1, <2>1, AckAsyncFits
  <2>4. (\E n \in 1 .. 3 : AsyncWrite(n)) => CInv'
    BY <1>1, <2>1, AsyncWriteFits
  <2>5. FinishPut => CInv'
    BY <1>1, <2>1, FinishPutFits
  <2>6. FinishAck => CInv'
    BY <1>1, <2>1, FinishAckFits
  <2>7. FinishError => CInv'
    BY <1>1, FinishErrorFits
  <2>8. (\E S \in SUBSET LiveIds, n \in 0 .. 3 : DeadLetter(S, n)) => CInv'
    BY <1>1, <2>1, DeadLetterFits
  <2>9. SyncAsync \/ (\E ok \in BOOLEAN : SyncDone(ok)) \/ Close => CInv'
    BY <1>1, <2>1, SyncFits
  <2>10. ProcessExit \/ (\E n \in 0 .. Len(wal) : HostCrash(n)) => CInv'
    BY <1>1, <2>1, StopFits
  <2>11. Restart => CInv'
    BY <1>1, RestartFits
  <2> QED
    BY <1>3, <2>2, <2>3, <2>4, <2>5, <2>6, <2>7, <2>8, <2>9, <2>10, <2>11 DEF Step
<1> QED
  BY <1>2, <1>3 DEF Next

(* In every reachable state the byte counters say what memory holds, and   *)
(* with no failed write and no operation behind a torn one, what a restart *)
(* would recover is within both limits.                                    *)
THEOREM CapacityIsKept == Spec => []CapacityHolds
<1>1. Init => CInv
  BY InitCInv
<1>2. (TypeOK /\ IInv) /\ CInv /\ [Next]_vars => CInv'
  BY StepCInv
<1>3. (TypeOK /\ IInv) /\ CInv => CapacityHolds
  <2> SUFFICES ASSUME TypeOK, IInv, CInv, errors = 0, ~damaged
               PROVE  Fits(Live(wal))
    BY DEF CapacityHolds, CInv, BytesInv, Fits
  <2>1. wal \in Seq(Fragments) /\ Intact(wal) /\ Len(wal) \in synced .. Len(wal)
    BY DEF TypeOK, IInv, OwedWritten
  <2> QED
    BY <2>1, LiveIsLiveAt DEF CInv, RoomInv, FileFits
<1> QED
  BY <1>1, <1>2, <1>3, Inductive, PTL DEF Spec
=============================================================================
