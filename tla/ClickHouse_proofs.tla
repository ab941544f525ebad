-------------------------- MODULE ClickHouse_proofs --------------------------
(***************************************************************************)
(* Theorems about the two clients of ClickHouse, with machine-checked      *)
(* proofs.                                                                 *)
(*                                                                         *)
(* The event writer: its type invariant with the row accounting, that a    *)
(* revision is stored once and in order within one process, and that a     *)
(* resolved call is durable when its key always carries the same rows.     *)
(* The invariant has four parts.  Drain: who will look at the head next.   *)
(* Queue: a row is in at most one place (buffer, one batch, committed) and *)
(* eventWriteRows counts them.  Once: what is stored is committed, or is   *)
(* the head's.  Told: a token stands for its rows, so that a block dropped *)
(* as a duplicate is durable, and a caller waits for every row of his that *)
(* is not.                                                                 *)
(*                                                                         *)
(* The fact cache: its type invariant with the budget, that an answer      *)
(* includes what the journal had made known, and that a stale bucket can   *)
(* be told from the journal.  CacheBase is what each step may rely on;     *)
(* Traced says that every commit a bucket misses is announced by a row     *)
(* that is still to be read, or that the cursor is known to be too old;    *)
(* Floored that what has been made known is in the journal, and after the  *)
(* second reading in the cache.                                            *)
(***************************************************************************)
EXTENDS EventWriteQueue, FactCache, FiniteSetTheorems, SequenceTheorems,
        WellFoundedInduction, TLAPS

Token == [key : Keys \cup {"random"}, rows : SUBSET Rows, epoch : Nat]

BatchType ==
    [source : {"buffered", "direct"}, token : Token, rows : SUBSET Rows,
     waiters : SUBSET Calls, cooling : BOOLEAN]

Writer ==
    [phase : {"open", "closing", "closed"}, buf : Seq(Rows), rows : Nat,
     batches : Seq(BatchType), known : SUBSET Rows, committed : SUBSET Rows,
     drain : {"idle", "insert", "backoff", "ended"},
     timer : BOOLEAN, blocked : BOOLEAN]

CallType ==
    [state : {"new", "waiting", "resolved", "rejected", "lost"}, rows : SUBSET Rows]

Types ==
    /\ w \in Writer
    /\ call \in [Calls -> CallType]
    /\ applied \in [Rows -> Nat]
    /\ tokens \subseteq Token
    /\ late \subseteq [token : Token, rows : SUBSET Rows]
    /\ faults \in Nat /\ crashes \in Nat

(* Drain.                                                                  *)
CoolOK(m) ==
    /\ m.timer => m.phase = "open"
    /\ \A i \in DOMAIN m.batches : m.batches[i].cooling => (i = 1 /\ m.timer)
    /\ m.phase = "closed" => (m.batches = <<>> /\ m.buf = <<>>)

BusyOK(m) ==
    /\ m.drain \in {"insert", "backoff"} => (m.batches # <<>> /\ ~m.blocked)
    /\ m.phase = "closed" => m.drain = "idle"

Watched(m) ==
    (m.batches # <<>> /\ ~m.blocked /\ m.batches[1].source = "direct")
        => (m.drain # "idle" \/ m.timer)

(* Queue.                                                                  *)
Apart(m) ==
    /\ \A i, j \in DOMAIN m.buf : m.buf[i] = m.buf[j] => i = j
    /\ \A i, j \in DOMAIN m.batches :
          i # j => m.batches[i].rows \cap m.batches[j].rows = {}
    /\ \A i \in DOMAIN m.batches :
          /\ m.batches[i].rows # {}
          /\ m.batches[i].rows \subseteq m.known \ (m.committed \cup ToSet(m.buf))
    /\ ToSet(m.buf) \subseteq m.known \ m.committed
    /\ m.committed \subseteq m.known

Counted(m) ==
    /\ IsFiniteSet(QueuedRows(m))
    /\ m.rows = Len(m.buf) + Cardinality(QueuedRows(m))
    /\ m.rows <= MaxRows

(* Once: D are the durable rows, T the tokens seen, L the late requests.   *)
OnHead(m, T) ==
    IF m.batches # <<>> /\ m.batches[1].token \in T THEN m.batches[1].rows ELSE {}

Once(m, D, T, L) ==
    /\ m.phase # "closed" => D \subseteq m.committed \cup OnHead(m, T)
    /\ \A b \in L : b.token \notin T =>
          /\ b.rows \cap D = {}
          /\ m.phase = "closed" \/ (m.batches # <<>> /\ b = Request(m.batches[1]))
    /\ \A b1, b2 \in L : (b1.token \notin T /\ b2.token \notin T) => b1 = b2

(* Told.                                                                   *)
Content(t) == IF t.rows # {} THEN t.rows ELSE UNION Retained[t.key]

Says(m, D) ==
    \A i \in DOMAIN m.batches :
        /\ m.batches[i].rows \subseteq Content(m.batches[i].token)
        /\ \A r \in Content(m.batches[i].token) \ m.batches[i].rows :
              r \in D \/ \E j \in 1 .. i - 1 : r \in m.batches[j].rows

Heard(m, D, cl) ==
    \A c \in Calls :
        /\ cl[c].state = "resolved" => cl[c].rows \subseteq D
        /\ cl[c].state = "waiting" =>
              \A r \in cl[c].rows :
                  r \in D \/ \E i \in DOMAIN m.batches :
                                c \in m.batches[i].waiters /\ r \in m.batches[i].rows

Drain == CoolOK(w) /\ BusyOK(w) /\ Watched(w)

Queue == Len(w.buf) < BatchRows /\ Apart(w) /\ Counted(w)

StoredOnce ==
    crashes = 0 => Once(w, Durable, tokens, late) /\ \A r \in Rows : applied[r] <= 1

Told ==
    /\ w.committed \subseteq Durable
    /\ \A t \in tokens : Content(t) \subseteq Durable
    /\ Says(w, Durable)
    /\ \A b \in late : Content(b.token) \ b.rows \subseteq Durable
    /\ Heard(w, Durable, call)

IndInv == Types /\ Drain /\ Queue /\ StoredOnce

-----------------------------------------------------------------------------
(* Steps that leave the rows where they are: m becomes n.                  *)
Keeps(m, n) ==
    /\ m.phase # "closed" /\ n.phase # "closed"
    /\ n.buf = m.buf /\ n.rows = m.rows
    /\ n.known = m.known /\ n.committed = m.committed
    /\ Len(n.batches) = Len(m.batches)
    /\ \A i \in DOMAIN m.batches : /\ n.batches[i].rows = m.batches[i].rows
                                   /\ n.batches[i].token = m.batches[i].token

KeepsWaiters(m, n) ==
    \A i \in DOMAIN m.batches : m.batches[i].waiters \subseteq n.batches[i].waiters

(* The parts of the invariant that speak of rows and tokens only.          *)
LEMMA KeepsParts ==
    ASSUME NEW m \in Writer, NEW n \in Writer, Keeps(m, n),
           NEW D, NEW T, NEW L, NEW cl
    PROVE  /\ Apart(m) => Apart(n)
           /\ Counted(m) => Counted(n)
           /\ Once(m, D, T, L) => Once(n, D, T, L)
           /\ Says(m, D) => Says(n, D)
           /\ Heard(m, D, cl) /\ KeepsWaiters(m, n) => Heard(n, D, cl)
<1>1. /\ DOMAIN n.batches = DOMAIN m.batches
      /\ \A i \in DOMAIN n.batches : i \in Nat \ {0}
      /\ n.batches = <<>> <=> m.batches = <<>>
      /\ m.batches # <<>> => 1 \in DOMAIN m.batches
  BY DEF Keeps, Writer
<1>2. Apart(m) => Apart(n)
  BY <1>1 DEF Keeps, Apart
<1>3. QueuedRows(n) = QueuedRows(m)
  BY <1>1 DEF Keeps, QueuedRows
<1>4. Counted(m) => Counted(n)
  BY <1>3 DEF Keeps, Counted
<1>5. m.batches # <<>> => Request(n.batches[1]) = Request(m.batches[1])
  BY <1>1 DEF Keeps, Request
<1>6. OnHead(n, T) = OnHead(m, T)
  BY <1>1 DEF Keeps, OnHead
<1>7. Once(m, D, T, L) => Once(n, D, T, L)
  BY <1>1, <1>5, <1>6 DEF Keeps, Once
<1>8. Says(m, D) => Says(n, D)
  <2> SUFFICES ASSUME Says(m, D), NEW i \in DOMAIN n.batches
               PROVE  /\ n.batches[i].rows \subseteq Content(n.batches[i].token)
                      /\ \A r \in Content(n.batches[i].token) \ n.batches[i].rows :
                            r \in D \/ \E j \in 1 .. i - 1 : r \in n.batches[j].rows
    BY DEF Says
  <2>1. \A j \in 1 .. i - 1 : j \in DOMAIN m.batches
    BY <1>1 DEF Writer
  <2> QED
    BY <2>1, <1>1, SMTT(30) DEF Says, Keeps
<1>9. Heard(m, D, cl) /\ KeepsWaiters(m, n) => Heard(n, D, cl)
  BY <1>1 DEF Keeps, KeepsWaiters, Heard
<1> QED
  BY <1>2, <1>4, <1>7, <1>8, <1>9

-----------------------------------------------------------------------------
(* The drain.                                                              *)

(* drainEventWrites' loop, as far as it goes without waiting.              *)
LEMMA LoopParts ==
    ASSUME NEW m \in Writer, CoolOK(m), m.phase # "closed", NEW n, n = Loop(m)
    PROVE  /\ n \in Writer /\ Keeps(m, n) /\ KeepsWaiters(m, n)
           /\ CoolOK(n) /\ BusyOK(n) /\ n.drain # "idle"
           /\ n.batches = m.batches /\ n.phase = m.phase
<1>1. /\ n \in Writer
      /\ n.phase = m.phase /\ n.buf = m.buf /\ n.rows = m.rows
      /\ n.batches = m.batches /\ n.known = m.known
      /\ n.committed = m.committed /\ n.blocked = m.blocked
      /\ n.drain \in {"ended", "insert"}
      /\ n.drain = "insert" => n.batches # <<>> /\ ~n.blocked
      /\ n.timer = m.timer \/ (n.timer /\ n.phase = "open")
  BY DEF Loop, Writer
<1>2. CoolOK(n) /\ BusyOK(n)
  BY <1>1 DEF CoolOK, BusyOK, Writer
<1> QED
  BY <1>1, <1>2 DEF Keeps, KeepsWaiters

(* Starting a drain that is not running.                                   *)
LEMMA StartDrainParts ==
    ASSUME NEW m \in Writer, CoolOK(m), BusyOK(m), m.phase # "closed",
           NEW n, n = StartDrain(m)
    PROVE  /\ n \in Writer /\ Keeps(m, n) /\ KeepsWaiters(m, n)
           /\ CoolOK(n) /\ BusyOK(n) /\ n.drain # "idle"
           /\ n.batches = m.batches /\ n.phase = m.phase
<1>1. CASE m.drain = "idle"
  BY <1>1, LoopParts DEF StartDrain
<1>2. CASE m.drain # "idle"
  BY <1>2 DEF StartDrain, Keeps, KeepsWaiters
<1> QED
  BY <1>1, <1>2

(* The drain's finally: it starts again when work is left.                 *)
LEMMA FinalizerParts ==
    ASSUME NEW m \in Writer, CoolOK(m), BusyOK(m), m.phase # "closed",
           NEW n, n = Finalizer(m)
    PROVE  /\ n \in Writer /\ Keeps(m, n) /\ KeepsWaiters(m, n)
           /\ CoolOK(n) /\ BusyOK(n) /\ Watched(n) /\ n.phase = m.phase
<1> DEFINE idle == [m EXCEPT !.drain = "idle"]
<1>1. /\ idle \in Writer /\ Keeps(m, idle) /\ KeepsWaiters(m, idle)
      /\ CoolOK(idle) /\ BusyOK(idle) /\ idle.phase = m.phase
      /\ idle.batches = m.batches /\ idle.blocked = m.blocked /\ idle.timer = m.timer
  BY DEF Writer, Keeps, KeepsWaiters, CoolOK, BusyOK
<1> DEFINE again == /\ m.batches # <<>> /\ ~m.blocked
                    /\ \/ m.phase = "closing"
                       \/ m.phase = "open" /\ ~Head(m.batches).cooling
<1>2. n = IF again THEN Loop(idle) ELSE idle
  BY DEF Finalizer
<1>3. CASE again
  <2>1. n = Loop(idle)
    BY <1>2, <1>3
  <2>2. /\ n \in Writer /\ Keeps(idle, n) /\ KeepsWaiters(idle, n)
        /\ CoolOK(n) /\ BusyOK(n) /\ n.drain # "idle" /\ n.phase = m.phase
        /\ n.batches = m.batches
    <3> HIDE DEF idle
    <3> QED
      BY <2>1, <1>1, LoopParts
  <2>3. Keeps(m, n) /\ KeepsWaiters(m, n)
    <3> HIDE DEF idle
    <3> QED
      BY <1>1, <2>2 DEF Keeps, KeepsWaiters, Writer
  <2> QED
    BY <2>2, <2>3 DEF Watched
<1>4. CASE ~again
  <2>1. n = idle
    BY <1>2, <1>4
  <2>2. Watched(idle)
    <3> SUFFICES ASSUME m.batches # <<>>, ~m.blocked
                 PROVE  m.timer
      BY <1>1 DEF Watched
    <3>1. m.phase = "open" /\ m.batches[1].cooling /\ 1 \in DOMAIN m.batches
      BY <1>4 DEF Writer
    <3> QED
      BY <3>1 DEF CoolOK
  <2> QED
    BY <2>1, <2>2, <1>1
<1> QED
  BY <1>3, <1>4

-----------------------------------------------------------------------------
(* The queue.                                                              *)

(* A buffer without duplicates has as many rows as places.                 *)
LEMMA BufferCount ==
    ASSUME NEW buf \in Seq(Rows), \A i, j \in DOMAIN buf : buf[i] = buf[j] => i = j
    PROVE  IsFiniteSet(ToSet(buf)) /\ Cardinality(ToSet(buf)) = Len(buf)
<1>1. buf \in Surjection(1 .. Len(buf), ToSet(buf))
  BY DEF ToSet, Surjection
<1>2. buf \in Injection(1 .. Len(buf), ToSet(buf))
  BY <1>1 DEF Injection, IsInjective, Surjection
<1>3. buf \in Bijection(1 .. Len(buf), ToSet(buf))
  BY <1>1, <1>2 DEF Bijection
<1>4. ExistsBijection(1 .. Len(buf), ToSet(buf))
  BY <1>3 DEF ExistsBijection
<1>5. IsFiniteSet(1 .. Len(buf)) /\ Cardinality(1 .. Len(buf)) = Len(buf)
  <2>1. Len(buf) \in Nat /\ 1 \in Int /\ Len(buf) \in Int
    OBVIOUS
  <2>2. /\ IsFiniteSet(1 .. Len(buf))
        /\ Cardinality(1 .. Len(buf)) = IF 1 > Len(buf) THEN 0 ELSE Len(buf) - 1 + 1
    BY <2>1, FS_Interval
  <2> QED
    BY <2>1, <2>2
<1> QED
  BY <1>4, <1>5, FS_Bijection

(* What appending a batch of new rows does to the queue: m becomes n.      *)
Appends(m, n, b) ==
    /\ m.phase # "closed" /\ n.phase = m.phase
    /\ b \in BatchType /\ n.batches = Append(m.batches, b)
    /\ n.buf = <<>> /\ n.committed = m.committed /\ m.known \subseteq n.known
    /\ b.rows # {} /\ IsFiniteSet(b.rows) /\ ~b.cooling
    /\ b.rows \subseteq n.known \ m.committed
    /\ b.rows \cap QueuedRows(m) = {}
    /\ n.rows = Cardinality(QueuedRows(m)) + Cardinality(b.rows)
    /\ n.rows <= MaxRows

(* A batch goes behind the others: rows stay in one place and are counted. *)
LEMMA AppendParts ==
    ASSUME NEW m \in Writer, NEW n \in Writer, NEW b, Appends(m, n, b),
           NEW D, NEW T, NEW L, NEW cl
    PROVE  /\ Apart(m) => Apart(n)
           /\ Counted(m) => Counted(n)
           /\ Once(m, D, T, L) => Once(n, D, T, L)
           /\ /\ Says(m, D)
              /\ b.rows \subseteq Content(b.token)
              /\ Content(b.token) \ b.rows \subseteq D \cup QueuedRows(m)
              => Says(n, D)
           /\ Heard(m, D, cl) => Heard(n, D, cl)
           /\ CoolOK(m) /\ n.timer = m.timer => CoolOK(n)
<1> DEFINE last == Len(m.batches) + 1
<1>1. /\ Len(n.batches) = last /\ last \in Nat \ {0}
      /\ DOMAIN m.batches = 1 .. Len(m.batches)
      /\ DOMAIN n.batches = 1 .. last
      /\ \A i \in 1 .. Len(m.batches) : n.batches[i] = m.batches[i]
      /\ n.batches[last] = b
      /\ n.batches # <<>>
  <2>1. /\ m.batches \in Seq(BatchType) /\ n.batches \in Seq(BatchType)
        /\ b \in BatchType /\ n.batches = Append(m.batches, b)
    BY DEF Appends, Writer
  <2> QED
    BY <2>1
<1>2. \A i \in 1 .. last : i = last \/ i \in 1 .. Len(m.batches)
  BY <1>1
<1>3. \A i \in 1 .. Len(m.batches) : i \in 1 .. last /\ i # last
  BY <1>1
<1>4. \A i \in 1 .. Len(m.batches) :
         m.batches[i].rows \subseteq QueuedRows(m) /\ m.batches[i].rows \cap b.rows = {}
  BY <1>1 DEF QueuedRows, Appends
<1>5. QueuedRows(n) = QueuedRows(m) \cup b.rows
  BY <1>1, <1>2, <1>3, SMTT(30) DEF QueuedRows
<1>6. ToSet(n.buf) = {}
  BY DEF Appends, ToSet
<1> HIDE DEF last
<1>7. Apart(m) => Apart(n)
  <2> SUFFICES ASSUME Apart(m) PROVE Apart(n)
    OBVIOUS
  <2>1. \A i, j \in DOMAIN n.buf : n.buf[i] = n.buf[j] => i = j
    BY DEF Appends
  <2>2. \A i, j \in DOMAIN n.batches : i # j => n.batches[i].rows \cap n.batches[j].rows = {}
    BY <1>1, <1>2, <1>4 DEF Apart
  <2>3. \A i \in DOMAIN n.batches :
          /\ n.batches[i].rows # {}
          /\ n.batches[i].rows \subseteq n.known \ (n.committed \cup ToSet(n.buf))
    BY <1>1, <1>2, <1>6 DEF Apart, Appends
  <2> QED
    BY <2>1, <2>2, <2>3, <1>6 DEF Apart, Appends
<1>8. Counted(m) => Counted(n)
  <2> SUFFICES ASSUME Counted(m) PROVE Counted(n)
    OBVIOUS
  <2>1. /\ IsFiniteSet(QueuedRows(n))
        /\ Cardinality(QueuedRows(n)) =
             Cardinality(QueuedRows(m)) + Cardinality(b.rows) - Cardinality({})
    BY <1>5, FS_Union DEF Counted, Appends
  <2>2. Cardinality(QueuedRows(m)) \in Nat /\ Cardinality(b.rows) \in Nat /\ Cardinality({}) = 0
    BY FS_CardinalityType, FS_EmptySet DEF Counted, Appends
  <2> QED
    BY <2>1, <2>2 DEF Counted, Appends
<1>9. Once(m, D, T, L) => Once(n, D, T, L)
  <2>1. m.batches # <<>> => n.batches[1] = m.batches[1]
    BY <1>1 DEF Writer
  <2>2. OnHead(m, T) \subseteq OnHead(n, T)
    BY <1>1, <2>1 DEF OnHead
  <2> QED
    BY <1>1, <2>1, <2>2 DEF Once, Appends
<1>10. ASSUME Says(m, D), b.rows \subseteq Content(b.token),
              Content(b.token) \ b.rows \subseteq D \cup QueuedRows(m)
       PROVE  Says(n, D)
  <2> SUFFICES ASSUME NEW i \in 1 .. last
               PROVE  /\ n.batches[i].rows \subseteq Content(n.batches[i].token)
                      /\ \A r \in Content(n.batches[i].token) \ n.batches[i].rows :
                            r \in D \/ \E j \in 1 .. i - 1 : r \in n.batches[j].rows
    BY <1>1 DEF Says
  <2>1. CASE i = last
    <3>1. 1 .. i - 1 = 1 .. Len(m.batches)
      BY <2>1, <1>1 DEF last, Writer
    <3>2. \A r \in QueuedRows(m) : \E j \in 1 .. i - 1 : r \in n.batches[j].rows
      BY <1>1, <3>1 DEF QueuedRows
    <3> QED
      BY <3>2, <2>1, <1>1, <1>10
  <2>2. CASE i \in 1 .. Len(m.batches)
    <3>1. \A j \in 1 .. i - 1 : j \in 1 .. Len(m.batches)
      BY <2>2, <1>1 DEF Writer
    <3> QED
      BY <3>1, <2>2, <1>1, <1>10 DEF Says
  <2> QED
    BY <2>1, <2>2, <1>2
<1>11. Heard(m, D, cl) => Heard(n, D, cl)
  BY <1>1, <1>3 DEF Heard
<1>12. CoolOK(m) /\ n.timer = m.timer => CoolOK(n)
  BY <1>1, <1>2 DEF CoolOK, Appends
<1> QED
  BY <1>7, <1>8, <1>9, <1>10, <1>11, <1>12

(* sealBufferedEventBatches.                                               *)
LEMMA SealParts ==
    ASSUME NEW m \in Writer, m.phase # "closed", crashes \in Nat,
           Len(m.buf) <= BatchRows, Apart(m), Counted(m),
           NEW forced \in BOOLEAN, NEW n, n = Seal(m, forced),
           NEW D, NEW T, NEW L, NEW cl
    PROVE  /\ n \in Writer /\ Apart(n) /\ Counted(n) /\ Len(n.buf) < BatchRows
           /\ forced => n.buf = <<>>
           /\ n.phase = m.phase /\ n.known = m.known /\ n.committed = m.committed
           /\ n.drain = m.drain /\ n.timer = m.timer /\ n.blocked = m.blocked
           /\ n.rows = m.rows
           /\ CoolOK(m) => CoolOK(n)
           /\ BusyOK(m) => BusyOK(n)
           /\ Watched(m) => Watched(n)
           /\ Once(m, D, T, L) => Once(n, D, T, L)
           /\ Says(m, D) => Says(n, D)
           /\ Heard(m, D, cl) => Heard(n, D, cl)
           /\ QueuedRows(m) \subseteq QueuedRows(n)
<1>1. CASE Len(m.buf) >= BatchRows \/ (forced /\ m.buf # <<>>)
  <2> DEFINE S == ToSet(m.buf)
             b == Batch("buffered", RandomToken(S), S, {})
  <2>1. m.buf # <<>> /\ Len(m.buf) \in Nat \ {0} /\ m.buf \in Seq(Rows)
    BY <1>1, WriterAssumption DEF Writer
  <2>2. S # {} /\ S \in SUBSET Rows /\ IsFiniteSet(S) /\ Cardinality(S) = Len(m.buf)
    <3>1. \A i, j \in DOMAIN m.buf : m.buf[i] = m.buf[j] => i = j
      BY DEF Apart
    <3>2. S # {} /\ S \in SUBSET Rows
      <4>1. 1 \in DOMAIN m.buf /\ \A i \in DOMAIN m.buf : m.buf[i] \in Rows
        BY <2>1
      <4> QED
        BY <4>1 DEF ToSet
    <3>3. IsFiniteSet(S) /\ Cardinality(S) = Len(m.buf)
      BY <2>1, <3>1, BufferCount
    <3> QED
      BY <3>2, <3>3
  <2>3. n = [m EXCEPT !.buf = <<>>, !.batches = Append(@, b)]
    BY <1>1 DEF Seal, Chunk
  <2>4. /\ b \in BatchType /\ b.rows = S /\ ~b.cooling /\ b.source = "buffered"
        /\ Content(b.token) = S
    BY <2>2 DEF BatchType, Batch, RandomToken, Token, Content
  <2>5. S \subseteq m.known \ m.committed /\ S \cap QueuedRows(m) = {}
    BY DEF Apart, QueuedRows
  <2> HIDE DEF S, b
  <2>6. /\ n \in Writer /\ n.buf = <<>> /\ n.batches = Append(m.batches, b)
        /\ n.phase = m.phase /\ n.known = m.known /\ n.committed = m.committed
        /\ n.drain = m.drain /\ n.timer = m.timer /\ n.blocked = m.blocked
        /\ n.rows = m.rows
    <3>1. /\ m.batches \in Seq(BatchType) /\ b \in BatchType /\ <<>> \in Seq(Rows)
          /\ Append(m.batches, b) \in Seq(BatchType)
      BY <2>4 DEF Writer
    <3> DEFINE grown == Append(m.batches, b)
    <3> HIDE DEF grown
    <3> QED
      BY <2>3, <3>1 DEF Writer
  <2>7. Len(m.buf) + Cardinality(QueuedRows(m)) = Cardinality(QueuedRows(m)) + Len(m.buf)
    BY <2>1, FS_CardinalityType DEF Counted
  <2>8. Appends(m, n, b)
    BY <2>2, <2>4, <2>5, <2>6, <2>7 DEF Appends, Counted
  <2>9. /\ Apart(n) /\ Counted(n)
        /\ Once(m, D, T, L) => Once(n, D, T, L)
        /\ Says(m, D) => Says(n, D)
        /\ Heard(m, D, cl) => Heard(n, D, cl)
        /\ CoolOK(m) => CoolOK(n)
    <3>1. /\ Apart(m) => Apart(n)
          /\ Counted(m) => Counted(n)
          /\ Once(m, D, T, L) => Once(n, D, T, L)
          /\ /\ Says(m, D)
             /\ b.rows \subseteq Content(b.token)
             /\ Content(b.token) \ b.rows \subseteq D \cup QueuedRows(m)
             => Says(n, D)
          /\ Heard(m, D, cl) => Heard(n, D, cl)
          /\ CoolOK(m) /\ n.timer = m.timer => CoolOK(n)
      BY <2>6, <2>8, AppendParts, Zenon
    <3>2. b.rows \subseteq Content(b.token) /\ Content(b.token) \ b.rows = {}
      BY <2>4
    <3> QED
      BY <2>6, <3>1, <3>2
  <2>10. /\ n.batches # <<>>
         /\ m.batches # <<>> => n.batches[1] = m.batches[1]
         /\ m.batches = <<>> => n.batches[1] = b
         /\ DOMAIN m.batches \subseteq DOMAIN n.batches
         /\ \A i \in DOMAIN m.batches : n.batches[i] = m.batches[i]
    BY <2>4, <2>6, SMTT(30) DEF Writer
  <2>11. (BusyOK(m) => BusyOK(n)) /\ (Watched(m) => Watched(n))
    BY <2>4, <2>6, <2>10 DEF BusyOK, Watched
  <2>12. QueuedRows(m) \subseteq QueuedRows(n)
    BY <2>10 DEF QueuedRows
  <2>13. Len(n.buf) < BatchRows
    BY <2>6, WriterAssumption
  <2> QED
    BY <2>6, <2>9, <2>11, <2>12, <2>13
<1>2. CASE ~(Len(m.buf) >= BatchRows \/ (forced /\ m.buf # <<>>))
  <2>1. n = m
    BY <1>2 DEF Seal
  <2>2. Len(m.buf) < BatchRows
    BY <1>2, WriterAssumption DEF Writer
  <2> QED
    BY <1>2, <2>1, <2>2
<1> QED
  BY <1>1, <1>2

-----------------------------------------------------------------------------
(* What is durable stays durable.                                          *)

(* What callers were told stays true when more is durable.                 *)
LEMMA ToldGrows ==
    ASSUME NEW m, NEW D, NEW E, D \subseteq E, NEW cl
    PROVE  (Says(m, D) => Says(m, E)) /\ (Heard(m, D, cl) => Heard(m, E, cl))
BY DEF Says, Heard

(* ClickHouse applies a block, or drops it as a duplicate.                 *)
LEMMA ApplyParts ==
    ASSUME Types, NEW b, b.token \in Token, b.rows \in SUBSET Rows, Apply(b)
    PROVE  /\ applied' \in [Rows -> Nat] /\ tokens' \subseteq Token
           /\ tokens' = tokens \cup {b.token}
           /\ b.token \in tokens => applied' = applied
           /\ b.token \notin tokens =>
                 \A r \in Rows : applied'[r] = IF r \in b.rows THEN applied[r] + 1 ELSE applied[r]
           /\ Durable' = IF b.token \in tokens THEN Durable ELSE Durable \cup b.rows
<1>1. /\ tokens' = tokens \cup {b.token} /\ tokens' \subseteq Token
      /\ b.token \in tokens => applied' = applied
      /\ b.token \notin tokens =>
            applied' = [r \in Rows |-> applied[r] + IF r \in b.rows THEN 1 ELSE 0]
  BY DEF Apply, Types
<1>2. applied' \in [Rows -> Nat]
  BY <1>1 DEF Types
<1>3. b.token \notin tokens =>
         \A r \in Rows : applied'[r] = IF r \in b.rows THEN applied[r] + 1 ELSE applied[r]
  BY <1>1 DEF Types
<1>4. Durable' = IF b.token \in tokens THEN Durable ELSE Durable \cup b.rows
  BY <1>1, <1>2, <1>3 DEF Durable, Types
<1> QED
  BY <1>1, <1>2, <1>3, <1>4

(* A step of the writer that ClickHouse does not see.                      *)
LEMMA QuietStep ==
    ASSUME IndInv, NEW n \in Writer, w' = n,
           CoolOK(n), BusyOK(n), Watched(n),
           Len(n.buf) < BatchRows, Apart(n), Counted(n),
           n.committed = w.committed,
           Once(w, Durable, tokens, late) => Once(n, Durable, tokens, late),
           UNCHANGED <<applied, tokens, late, crashes>>,
           faults' \in Nat, call' \in [Calls -> CallType]
    PROVE  /\ IndInv'
           /\ Told /\ Says(n, Durable) /\ Heard(n, Durable, call') => Told'
<1>1. Durable' = Durable
  BY DEF Durable
<1>2. Types' /\ Drain' /\ Queue'
  BY DEF IndInv, Types, Drain, Queue
<1>3. StoredOnce'
  BY <1>1 DEF IndInv, StoredOnce
<1>4. Told /\ Says(n, Durable) /\ Heard(n, Durable, call') => Told'
  BY <1>1 DEF Told
<1> QED
  BY <1>2, <1>3, <1>4 DEF IndInv

-----------------------------------------------------------------------------
(* The callers.                                                            *)

(* The invariant after each operation; Told needs keys that carry the same *)
(* rows every time.                                                        *)
LEMMA EnqueueStep ==
    ASSUME IndInv, NEW r \in Buffered, Enqueue(r)
    PROVE  IndInv' /\ (Told => Told')
<1> DEFINE taken  == [w EXCEPT !.known = @ \cup {r}, !.buf = Append(@, r), !.rows = @ + 1]
           sealed == Seal(taken, FALSE)
           n      == IF sealed.buf = <<>> THEN StartDrain(sealed) ELSE sealed
<1>1. /\ w.phase = "open" /\ ~w.blocked /\ r \notin w.known /\ HasRoom(1) /\ w' = n
      /\ UNCHANGED <<call, applied, tokens, late, faults, crashes>>
  BY DEF Enqueue
<1>2. /\ w \in Writer /\ r \in Rows /\ crashes \in Nat /\ faults \in Nat
      /\ Apart(w) /\ Counted(w) /\ CoolOK(w) /\ BusyOK(w) /\ Watched(w)
      /\ Len(w.buf) < BatchRows /\ w.buf \in Seq(Rows)
      /\ call \in [Calls -> CallType]
  BY WriterAssumption DEF IndInv, Types, Drain, Queue, Writer
<1>3. /\ taken \in Writer
      /\ taken.phase = w.phase /\ taken.batches = w.batches /\ taken.drain = w.drain
      /\ taken.timer = w.timer /\ taken.blocked = w.blocked
      /\ taken.committed = w.committed /\ taken.known = w.known \cup {r}
      /\ taken.buf = Append(w.buf, r) /\ taken.rows = w.rows + 1
  <2>1. Append(w.buf, r) \in Seq(Rows) /\ w.rows + 1 \in Nat
    BY <1>2 DEF Writer
  <2> DEFINE grown == Append(w.buf, r)
             more  == w.rows + 1
  <2>2. taken = [w EXCEPT !.known = @ \cup {r}, !.buf = grown, !.rows = more]
    OBVIOUS
  <2> HIDE DEF grown, more, taken
  <2>3. grown \in Seq(Rows) /\ more \in Nat
    BY <2>1 DEF grown, more
  <2>4. /\ taken \in Writer
        /\ taken.phase = w.phase /\ taken.batches = w.batches /\ taken.drain = w.drain
        /\ taken.timer = w.timer /\ taken.blocked = w.blocked
        /\ taken.committed = w.committed /\ taken.known = w.known \cup {r}
        /\ taken.buf = grown /\ taken.rows = more
    BY <1>2, <2>2, <2>3 DEF Writer
  <2> QED
    BY <2>4 DEF grown, more
<1> HIDE DEF taken
<1>4. /\ ToSet(taken.buf) = ToSet(w.buf) \cup {r}
      /\ Len(taken.buf) = Len(w.buf) + 1
      /\ \A i \in DOMAIN taken.buf : i = Len(w.buf) + 1 \/ i \in DOMAIN w.buf
      /\ \A i \in DOMAIN w.buf : taken.buf[i] = w.buf[i] /\ w.buf[i] \in ToSet(w.buf)
      /\ taken.buf[Len(w.buf) + 1] = r
  <2>1. /\ DOMAIN w.buf = 1 .. Len(w.buf) /\ Len(w.buf) \in Nat
        /\ DOMAIN taken.buf = 1 .. Len(w.buf) + 1
        /\ \A i \in DOMAIN w.buf : taken.buf[i] = w.buf[i]
        /\ taken.buf[Len(w.buf) + 1] = r
        /\ Len(taken.buf) = Len(w.buf) + 1
    BY <1>2, <1>3
  <2>2. \A i \in DOMAIN taken.buf : i = Len(w.buf) + 1 \/ i \in DOMAIN w.buf
    BY <2>1
  <2>3. DOMAIN w.buf \subseteq DOMAIN taken.buf /\ Len(w.buf) + 1 \in DOMAIN taken.buf
    BY <2>1
  <2> QED
    BY <2>1, <2>2, <2>3 DEF ToSet
<1>5. Apart(taken)
  <2>1. /\ r \notin ToSet(w.buf) /\ r \notin w.committed
        /\ \A i \in DOMAIN w.batches : r \notin w.batches[i].rows
    BY <1>1, <1>2 DEF Apart
  <2> QED
    BY <1>2, <1>3, <1>4, <2>1 DEF Apart
<1>6. Counted(taken)
  <2>1. QueuedRows(taken) = QueuedRows(w)
    BY <1>3 DEF QueuedRows
  <2>2. /\ Cardinality(QueuedRows(w)) \in Nat /\ Len(w.buf) \in Nat
        /\ MaxRows \in Nat /\ w.rows \in Nat
    BY <1>2, FS_CardinalityType, WriterAssumption DEF Counted, Writer
  <2> QED
    BY <1>1, <1>2, <1>3, <1>4, <2>1, <2>2 DEF Counted, HasRoom
<1>7. /\ CoolOK(taken) /\ BusyOK(taken) /\ Watched(taken)
      /\ Once(w, Durable, tokens, late) => Once(taken, Durable, tokens, late)
      /\ Says(w, Durable) => Says(taken, Durable)
      /\ Heard(w, Durable, call) => Heard(taken, Durable, call)
  BY <1>1, <1>2, <1>3 DEF CoolOK, BusyOK, Watched, Once, OnHead, Says, Heard
<1>8. Len(taken.buf) <= BatchRows
  BY <1>2, <1>4, WriterAssumption
<1>9. /\ sealed \in Writer /\ Apart(sealed) /\ Counted(sealed) /\ Len(sealed.buf) < BatchRows
      /\ sealed.phase = "open" /\ sealed.committed = w.committed
      /\ CoolOK(sealed) /\ BusyOK(sealed) /\ Watched(sealed)
      /\ Once(w, Durable, tokens, late) => Once(sealed, Durable, tokens, late)
      /\ Says(w, Durable) => Says(sealed, Durable)
      /\ Heard(w, Durable, call) => Heard(sealed, Durable, call)
  BY <1>1, <1>2, <1>3, <1>5, <1>6, <1>7, <1>8, SealParts
<1> HIDE DEF sealed
<1>10. /\ n \in Writer /\ Apart(n) /\ Counted(n) /\ Len(n.buf) < BatchRows
       /\ n.committed = w.committed
       /\ CoolOK(n) /\ BusyOK(n) /\ Watched(n)
       /\ Once(w, Durable, tokens, late) => Once(n, Durable, tokens, late)
       /\ Says(w, Durable) => Says(n, Durable)
       /\ Heard(w, Durable, call) => Heard(n, Durable, call)
  <2>1. CASE sealed.buf = <<>>
    <3>1. n = StartDrain(sealed)
      BY <2>1
    <3>2. /\ n \in Writer /\ Keeps(sealed, n) /\ KeepsWaiters(sealed, n)
          /\ CoolOK(n) /\ BusyOK(n) /\ n.drain # "idle"
      BY <1>9, <3>1, StartDrainParts
    <3>3. /\ Apart(n) /\ Counted(n)
          /\ Once(sealed, Durable, tokens, late) => Once(n, Durable, tokens, late)
          /\ Says(sealed, Durable) => Says(n, Durable)
          /\ Heard(sealed, Durable, call) => Heard(n, Durable, call)
      BY <1>9, <3>2, KeepsParts
    <3> QED
      BY <1>9, <3>2, <3>3 DEF Keeps, Watched
  <2>2. CASE sealed.buf # <<>>
    BY <1>9, <2>2
  <2> QED
    BY <2>1, <2>2
<1> HIDE DEF n
<1>11. /\ IndInv'
       /\ Told /\ Says(n, Durable) /\ Heard(n, Durable, call') => Told'
  BY <1>1, <1>2, <1>10, QuietStep
<1> QED
  BY <1>1, <1>10, <1>11 DEF Told

(* The caller c joins the batches of its open revisions.                   *)
LEMMA JoinParts ==
    ASSUME NEW m \in Writer, m.phase # "closed", NEW c \in Calls, NEW open,
           NEW n, n = Join(m, c, open)
    PROVE  /\ n \in Writer /\ Keeps(m, n) /\ KeepsWaiters(m, n)
           /\ CoolOK(m) => CoolOK(n)
           /\ BusyOK(m) => BusyOK(n)
           /\ Watched(m) => Watched(n)
           /\ n.phase = m.phase /\ n.timer = m.timer /\ QueuedRows(n) = QueuedRows(m)
           /\ \A i \in DOMAIN n.batches :
                 n.batches[i].rows \cap open # {} => c \in n.batches[i].waiters
<1> DEFINE bs == [i \in DOMAIN m.batches |-> Joined(m.batches[i], c, open)]
<1>1. \A x \in BatchType :
         LET y == Joined(x, c, open) IN
         /\ y \in BatchType
         /\ y.source = x.source /\ y.token = x.token /\ y.rows = x.rows
         /\ y.cooling = x.cooling /\ x.waiters \subseteq y.waiters
         /\ x.rows \cap open # {} => c \in y.waiters
  BY DEF BatchType, Joined
<1>2. m.batches \in Seq(BatchType)
  BY DEF Writer
<1>3. n = [m EXCEPT !.batches = bs]
  BY DEF Join
<1>4. /\ bs \in Seq(BatchType) /\ Len(bs) = Len(m.batches) /\ DOMAIN bs = DOMAIN m.batches
      /\ \A i \in DOMAIN m.batches :
            bs[i] = Joined(m.batches[i], c, open) /\ m.batches[i] \in BatchType
  BY <1>1, <1>2
<1> HIDE DEF bs
<1>5. /\ n \in Writer /\ n.batches = bs
      /\ n.phase = m.phase /\ n.buf = m.buf /\ n.rows = m.rows
      /\ n.known = m.known /\ n.committed = m.committed
      /\ n.drain = m.drain /\ n.timer = m.timer /\ n.blocked = m.blocked
  BY <1>3, <1>4 DEF Writer
<1>6. /\ n.batches = <<>> <=> m.batches = <<>>
      /\ m.batches # <<>> => 1 \in DOMAIN m.batches
  <2>1. n.batches \in Seq(BatchType) /\ Len(n.batches) = Len(m.batches)
    BY <1>4, <1>5
  <2> QED
    BY <1>2, <2>1
<1>7. \A i \in DOMAIN m.batches :
         /\ n.batches[i].source = m.batches[i].source
         /\ n.batches[i].token = m.batches[i].token
         /\ n.batches[i].rows = m.batches[i].rows
         /\ n.batches[i].cooling = m.batches[i].cooling
         /\ m.batches[i].waiters \subseteq n.batches[i].waiters
         /\ m.batches[i].rows \cap open # {} => c \in n.batches[i].waiters
  BY <1>1, <1>4, <1>5
<1>8. Keeps(m, n) /\ KeepsWaiters(m, n)
  BY <1>4, <1>5, <1>7 DEF Keeps, KeepsWaiters
<1>9. /\ CoolOK(m) => CoolOK(n)
      /\ BusyOK(m) => BusyOK(n)
      /\ Watched(m) => Watched(n)
  BY <1>4, <1>5, <1>6, <1>7 DEF CoolOK, BusyOK, Watched
<1>10. QueuedRows(n) = QueuedRows(m)
  BY <1>4, <1>5, <1>7 DEF QueuedRows
<1> QED
  BY <1>4, <1>5, <1>7, <1>8, <1>9, <1>10

(* A call seals, joins or appends; its rows are queued or committed.       *)
LEMMA InsertManyNowStep ==
    ASSUME IndInv, NEW c \in Calls, NEW k \in Keys, NEW S \in Retained[k],
           InsertManyNow(c, k, S)
    PROVE  IndInv' /\ (Told /\ StableKeys => Told')
<1> DEFINE sealed == Seal(w, TRUE)
           open   == S \ w.committed
           fresh  == open \ QueuedRows(sealed)
           joined == Join(sealed, c, open)
           b      == Batch("direct", KeyToken(k), fresh, {c})
           queued == [joined EXCEPT
                        !.known = @ \cup fresh,
                        !.rows = @ + Cardinality(fresh),
                        !.batches = Append(@, b)]
           full   == ~HasRoom(Cardinality(fresh))
           n      == IF fresh = {} THEN StartDrain(joined)
                     ELSE IF full THEN joined
                     ELSE StartDrain(queued)
           state  == CASE open = {} -> "resolved"
                       [] fresh # {} /\ full -> "rejected"
                       [] OTHER -> "waiting"
<1>1. /\ w.phase = "open" /\ ~w.blocked /\ w' = n
      /\ call' = [call EXCEPT ![c] = [state |-> state, rows |-> S]]
      /\ UNCHANGED <<applied, tokens, late, faults, crashes>>
  BY DEF InsertManyNow
<1>2. /\ w \in Writer /\ crashes \in Nat /\ faults \in Nat
      /\ Apart(w) /\ Counted(w) /\ CoolOK(w) /\ BusyOK(w) /\ Watched(w)
      /\ Len(w.buf) <= BatchRows
      /\ call \in [Calls -> CallType]
  BY WriterAssumption DEF IndInv, Types, Drain, Queue, Writer
<1>3. S \in SUBSET Rows /\ IsFiniteSet(S)
  BY WriterAssumption
<1>4. /\ sealed \in Writer /\ Apart(sealed) /\ Counted(sealed) /\ sealed.buf = <<>>
      /\ sealed.phase = "open" /\ sealed.committed = w.committed /\ sealed.rows = w.rows
      /\ CoolOK(sealed) /\ BusyOK(sealed) /\ Watched(sealed)
      /\ Once(w, Durable, tokens, late) => Once(sealed, Durable, tokens, late)
      /\ Says(w, Durable) => Says(sealed, Durable)
      /\ Heard(w, Durable, call) => Heard(sealed, Durable, call)
  <2>1. sealed = Seal(w, TRUE) /\ TRUE \in BOOLEAN
    OBVIOUS
  <2> HIDE DEF sealed
  <2> QED
    BY <1>1, <1>2, <2>1, SealParts
<1> HIDE DEF sealed
<1>5. /\ joined \in Writer /\ Keeps(sealed, joined) /\ KeepsWaiters(sealed, joined)
      /\ CoolOK(joined) /\ BusyOK(joined) /\ Watched(joined)
      /\ joined.phase = "open" /\ QueuedRows(joined) = QueuedRows(sealed)
      /\ \A i \in DOMAIN joined.batches :
            joined.batches[i].rows \cap open # {} => c \in joined.batches[i].waiters
  <2>1. joined = Join(sealed, c, open)
    OBVIOUS
  <2> HIDE DEF open, joined
  <2> QED
    BY <1>4, <2>1, JoinParts
<1> HIDE DEF joined
<1>6. /\ Apart(joined) /\ Counted(joined)
      /\ joined.buf = <<>> /\ joined.committed = w.committed /\ joined.rows = w.rows
      /\ Once(w, Durable, tokens, late) => Once(joined, Durable, tokens, late)
      /\ Says(w, Durable) => Says(joined, Durable)
      /\ Heard(w, Durable, call) => Heard(joined, Durable, call)
  <2>1. /\ Apart(joined) /\ Counted(joined)
        /\ Once(sealed, Durable, tokens, late) => Once(joined, Durable, tokens, late)
        /\ Says(sealed, Durable) => Says(joined, Durable)
        /\ Heard(sealed, Durable, call) => Heard(joined, Durable, call)
    BY <1>4, <1>5, KeepsParts
  <2> QED
    BY <2>1, <1>4, <1>5 DEF Keeps
<1>7. /\ fresh \in SUBSET Rows /\ IsFiniteSet(fresh) /\ Cardinality(fresh) \in Nat
      /\ fresh \cap QueuedRows(joined) = {} /\ fresh \cap w.committed = {}
      /\ open \subseteq QueuedRows(joined) \cup fresh
  BY <1>3, <1>5, FS_Subset, FS_CardinalityType
<1> HIDE DEF fresh
<1>8. ASSUME fresh # {}, ~full
      PROVE  /\ queued \in Writer /\ Appends(joined, queued, b) /\ queued.phase = "open"
             /\ b.rows = fresh /\ b.waiters = {c} /\ b.token = KeyToken(k)
             /\ queued.batches = Append(joined.batches, b)
             /\ queued.drain = joined.drain /\ queued.timer = joined.timer
             /\ queued.blocked = joined.blocked
  <2> DEFINE more  == joined.rows + Cardinality(fresh)
             grown == Append(joined.batches, b)
  <2>1. /\ b \in BatchType /\ b.rows = fresh /\ b.waiters = {c} /\ b.token = KeyToken(k)
        /\ ~b.cooling
    BY <1>7 DEF Batch, KeyToken, Token, BatchType
  <2>2. more \in Nat /\ grown \in Seq(BatchType)
    BY <1>5, <1>7, <2>1 DEF Writer
  <2>3. queued = [joined EXCEPT !.known = @ \cup fresh, !.rows = more, !.batches = grown]
    OBVIOUS
  <2> HIDE DEF queued, b
  <2>4. /\ more = Cardinality(QueuedRows(joined)) + Cardinality(fresh) /\ more <= MaxRows
    <3>1. /\ joined.rows = Len(joined.buf) + Cardinality(QueuedRows(joined)) /\ Len(joined.buf) = 0
          /\ Cardinality(QueuedRows(joined)) \in Nat /\ MaxRows \in Nat
      BY <1>6, FS_CardinalityType, WriterAssumption DEF Counted
    <3> QED
      BY <1>6, <1>7, <1>8, <3>1 DEF HasRoom
  <2> HIDE DEF more
  <2>5. grown = Append(joined.batches, b)
    OBVIOUS
  <2> HIDE DEF grown
  <2>6. /\ queued \in Writer /\ queued.phase = joined.phase /\ queued.buf = joined.buf
        /\ queued.committed = joined.committed /\ queued.known = joined.known \cup fresh
        /\ queued.rows = more /\ queued.batches = grown
        /\ queued.drain = joined.drain /\ queued.timer = joined.timer
        /\ queued.blocked = joined.blocked
    BY <1>5, <1>7, <2>2, <2>3 DEF Writer
  <2>7. Appends(joined, queued, b)
    BY <1>5, <1>6, <1>7, <1>8, <2>1, <2>4, <2>5, <2>6 DEF Appends
  <2> QED
    BY <1>5, <2>1, <2>5, <2>6, <2>7
<1>9. ASSUME fresh # {}, ~full
      PROVE  /\ CoolOK(queued) /\ BusyOK(queued) /\ Apart(queued) /\ Counted(queued)
             /\ queued.buf = <<>> /\ queued.committed = w.committed
             /\ Once(w, Durable, tokens, late) => Once(queued, Durable, tokens, late)
             /\ Told /\ StableKeys => Says(queued, Durable)
             /\ Heard(w, Durable, call) => Heard(queued, Durable, call)
  <2> HIDE DEF queued, b, full
  <2>1. /\ Apart(joined) => Apart(queued)
        /\ Counted(joined) => Counted(queued)
        /\ Once(joined, Durable, tokens, late) => Once(queued, Durable, tokens, late)
        /\ /\ Says(joined, Durable)
           /\ b.rows \subseteq Content(b.token)
           /\ Content(b.token) \ b.rows \subseteq Durable \cup QueuedRows(joined)
           => Says(queued, Durable)
        /\ Heard(joined, Durable, call) => Heard(queued, Durable, call)
        /\ CoolOK(joined) /\ queued.timer = joined.timer => CoolOK(queued)
    BY <1>5, <1>8, <1>9, AppendParts
  <2>2. queued.batches # <<>>
    BY <1>5, <1>8, <1>9 DEF Appends, Writer
  <2>3. BusyOK(queued)
    BY <1>5, <1>8, <1>9, <2>2 DEF BusyOK
  <2>4. ASSUME Told, StableKeys
        PROVE  /\ b.rows \subseteq Content(b.token)
               /\ Content(b.token) \ b.rows \subseteq Durable \cup QueuedRows(joined)
    <3>1. Content(b.token) = S
      BY <1>8, <1>9, <2>4 DEF Content, KeyToken, StableKeys
    <3>2. w.committed \subseteq Durable
      BY <2>4 DEF Told
    <3> QED
      BY <1>7, <1>8, <1>9, <3>1, <3>2 DEF fresh
  <2> QED
    BY <1>5, <1>6, <1>8, <1>9, <2>1, <2>3, <2>4 DEF Appends, Told
<1>10. /\ n \in Writer /\ Apart(n) /\ Counted(n) /\ n.buf = <<>>
       /\ n.committed = w.committed
       /\ CoolOK(n) /\ BusyOK(n) /\ Watched(n)
       /\ Once(w, Durable, tokens, late) => Once(n, Durable, tokens, late)
       /\ Told /\ StableKeys => Says(n, Durable)
       /\ Heard(w, Durable, call) => Heard(n, Durable, call)
       /\ state = "resolved" => S \subseteq w.committed
       /\ state = "waiting" =>
             \A r \in open : \E i \in DOMAIN n.batches :
                                c \in n.batches[i].waiters /\ r \in n.batches[i].rows
       /\ state \in {"resolved", "rejected", "waiting"}
  <2> HIDE DEF full
  <2>1. \A r \in QueuedRows(joined) \cap open : \E i \in DOMAIN joined.batches :
           c \in joined.batches[i].waiters /\ r \in joined.batches[i].rows
    BY <1>5 DEF QueuedRows
  <2>2. CASE fresh = {}
    <3>1. n = StartDrain(joined)
      BY <2>2
    <3> HIDE DEF n
    <3>2. /\ n \in Writer /\ Keeps(joined, n) /\ KeepsWaiters(joined, n)
          /\ CoolOK(n) /\ BusyOK(n) /\ n.drain # "idle" /\ n.batches = joined.batches
      BY <1>5, <3>1, StartDrainParts
    <3>3. /\ Apart(n) /\ Counted(n)
          /\ Once(joined, Durable, tokens, late) => Once(n, Durable, tokens, late)
          /\ Says(joined, Durable) => Says(n, Durable)
          /\ Heard(joined, Durable, call) => Heard(n, Durable, call)
      BY <1>5, <1>6, <3>2, KeepsParts
    <3>4. /\ state = "resolved" => S \subseteq w.committed
          /\ state = "waiting" =>
                \A r \in open : \E i \in DOMAIN n.batches :
                                   c \in n.batches[i].waiters /\ r \in n.batches[i].rows
          /\ state \in {"resolved", "rejected", "waiting"}
      BY <1>7, <2>1, <2>2, <3>2
    <3> QED
      BY <1>6, <3>2, <3>3, <3>4 DEF Keeps, Watched, Told
  <2>3. CASE fresh # {} /\ full
    <3>1. n = joined /\ state \in {"resolved", "rejected"} /\ (state = "resolved" => open = {})
      BY <2>3
    <3> QED
      BY <1>5, <1>6, <3>1 DEF Told
  <2>4. CASE fresh # {} /\ ~full
    <3>1. n = StartDrain(queued)
      BY <2>4
    <3> HIDE DEF n
    <3>2. /\ queued \in Writer /\ queued.phase = "open" /\ b.rows = fresh /\ b.waiters = {c}
          /\ queued.batches = Append(joined.batches, b)
          /\ CoolOK(queued) /\ BusyOK(queued) /\ Apart(queued) /\ Counted(queued)
          /\ queued.buf = <<>> /\ queued.committed = w.committed
          /\ b \in BatchType
          /\ Once(w, Durable, tokens, late) => Once(queued, Durable, tokens, late)
          /\ Told /\ StableKeys => Says(queued, Durable)
          /\ Heard(w, Durable, call) => Heard(queued, Durable, call)
      BY <1>8, <1>9, <2>4 DEF Appends
    <3>3. /\ n \in Writer /\ Keeps(queued, n) /\ KeepsWaiters(queued, n)
          /\ CoolOK(n) /\ BusyOK(n) /\ n.drain # "idle" /\ n.batches = queued.batches
      <4> HIDE DEF queued
      <4> QED
        BY <3>1, <3>2, StartDrainParts
    <3>4. /\ Apart(n) /\ Counted(n)
          /\ Once(queued, Durable, tokens, late) => Once(n, Durable, tokens, late)
          /\ Says(queued, Durable) => Says(n, Durable)
          /\ Heard(queued, Durable, call) => Heard(n, Durable, call)
      <4> HIDE DEF queued
      <4> QED
        BY <3>2, <3>3, KeepsParts
    <3>5. \A r \in open : \E i \in DOMAIN n.batches :
                             c \in n.batches[i].waiters /\ r \in n.batches[i].rows
      <4> HIDE DEF queued, b, open
      <4>1. /\ joined.batches \in Seq(BatchType) /\ n.batches = Append(joined.batches, b)
        BY <1>5, <3>2, <3>3 DEF Writer
      <4>2. /\ \A i \in DOMAIN joined.batches : /\ i \in DOMAIN n.batches
                                                /\ n.batches[i] = joined.batches[i]
            /\ Len(joined.batches) + 1 \in DOMAIN n.batches
            /\ n.batches[Len(joined.batches) + 1] = b
        BY <4>1, <3>2
      <4>3. \A r \in fresh : \E i \in DOMAIN n.batches :
                                c \in n.batches[i].waiters /\ r \in n.batches[i].rows
        BY <4>2, <3>2
      <4>4. \A r \in QueuedRows(joined) \cap open : \E i \in DOMAIN n.batches :
                                c \in n.batches[i].waiters /\ r \in n.batches[i].rows
        BY <4>2, <2>1
      <4> QED
        BY <4>3, <4>4, <1>7
    <3>6. state \in {"resolved", "waiting"} /\ (state = "resolved" => open = {})
      BY <2>4
    <3>7. state = "resolved" => S \subseteq w.committed
      BY <3>6
    <3> HIDE DEF queued, b, open, state
    <3> QED
      BY <3>2, <3>3, <3>4, <3>5, <3>6, <3>7 DEF Keeps, Watched
  <2> QED
    BY <2>2, <2>3, <2>4
<1> HIDE DEF n, state
<1>11. /\ call' \in [Calls -> CallType] /\ call'[c] = [state |-> state, rows |-> S]
       /\ \A x \in Calls \ {c} : call'[x] = call[x]
  BY <1>1, <1>2, <1>3, <1>10 DEF CallType
<1>12. IndInv' /\ (Told /\ Says(n, Durable) /\ Heard(n, Durable, call') => Told')
  <2>1. Len(n.buf) < BatchRows
    BY <1>10, WriterAssumption
  <2> QED
    BY <1>1, <1>2, <1>10, <1>11, <2>1, QuietStep
<1>13. ASSUME Told, StableKeys PROVE Heard(n, Durable, call')
  <2>1. Heard(n, Durable, call) /\ w.committed \subseteq Durable
    BY <1>10, <1>13 DEF Told
  <2>2. ASSUME NEW x \in Calls
        PROVE  /\ call'[x].state = "resolved" => call'[x].rows \subseteq Durable
               /\ call'[x].state = "waiting" =>
                     \A r \in call'[x].rows :
                         r \in Durable \/ \E i \in DOMAIN n.batches :
                                             x \in n.batches[i].waiters /\ r \in n.batches[i].rows
    <3>1. CASE x = c
      BY <1>10, <1>11, <2>1, <3>1
    <3>2. CASE x # c
      BY <1>11, <2>1, <3>2 DEF Heard
    <3> QED
      BY <3>1, <3>2
  <2> QED
    BY <2>2 DEF Heard
<1> QED
  BY <1>10, <1>12, <1>13

-----------------------------------------------------------------------------
(* The drain's steps.                                                      *)

(* Something about the head changes, its rows and its token do not.        *)
LEMMA HeadParts ==
    ASSUME NEW m \in Writer, m.batches # <<>>, m.phase # "closed",
           NEW h \in BatchType,
           h.rows = m.batches[1].rows, h.token = m.batches[1].token,
           h.source = m.batches[1].source,
           NEW n, n.batches = [m.batches EXCEPT ![1] = h],
           n.phase = m.phase, n.buf = m.buf, n.rows = m.rows,
           n.known = m.known, n.committed = m.committed
    PROVE  /\ n.batches \in Seq(BatchType) /\ n.batches # <<>>
           /\ DOMAIN n.batches = DOMAIN m.batches /\ 1 \in DOMAIN m.batches
           /\ n.batches[1] = h
           /\ \A i \in DOMAIN m.batches \ {1} : n.batches[i] = m.batches[i]
           /\ Keeps(m, n)
           /\ m.batches[1].waiters \subseteq h.waiters => KeepsWaiters(m, n)
<1>1. m.batches \in Seq(BatchType) /\ Len(m.batches) \in Nat \ {0}
  BY DEF Writer
<1>2. /\ n.batches \in Seq(BatchType) /\ Len(n.batches) = Len(m.batches)
      /\ DOMAIN n.batches = DOMAIN m.batches /\ 1 \in DOMAIN m.batches
      /\ n.batches[1] = h
      /\ \A i \in DOMAIN m.batches \ {1} : n.batches[i] = m.batches[i]
  BY <1>1
<1>3. Keeps(m, n)
  BY <1>2 DEF Keeps
<1>4. m.batches[1].waiters \subseteq h.waiters => KeepsWaiters(m, n)
  BY <1>2 DEF KeepsWaiters
<1> QED
  BY <1>1, <1>2, <1>3, <1>4

(* The head cools down after a failure.                                    *)
LEMMA CoolHeadParts ==
    ASSUME NEW m \in Writer, m.batches # <<>>, m.phase # "closed", CoolOK(m),
           NEW n, n = CoolHead(m)
    PROVE  /\ n \in Writer /\ Keeps(m, n) /\ KeepsWaiters(m, n)
           /\ CoolOK(n) /\ BusyOK(n) /\ Watched(n)
<1> DEFINE cools == (m.phase = "open")
           h  == [m.batches[1] EXCEPT !.cooling = cools]
           bs == [m.batches EXCEPT ![1] = h]
<1>1. n = [m EXCEPT !.batches = bs, !.timer = cools, !.drain = "ended"]
  BY DEF CoolHead
<1>2. m.batches[1] \in BatchType
  BY DEF Writer
<1>3. /\ h \in BatchType /\ h.rows = m.batches[1].rows /\ h.token = m.batches[1].token
      /\ h.source = m.batches[1].source /\ h.waiters = m.batches[1].waiters
      /\ h.cooling = cools /\ cools \in BOOLEAN
  BY <1>2 DEF BatchType
<1> HIDE DEF h, bs
<1>4. /\ n.batches = bs
      /\ n.phase = m.phase /\ n.buf = m.buf /\ n.rows = m.rows
      /\ n.known = m.known /\ n.committed = m.committed
      /\ n.drain = "ended" /\ n.timer = cools /\ n.blocked = m.blocked
  BY <1>1 DEF Writer
<1>5. /\ bs \in Seq(BatchType) /\ bs # <<>>
      /\ DOMAIN bs = DOMAIN m.batches /\ 1 \in DOMAIN m.batches
      /\ bs[1] = h
      /\ \A i \in DOMAIN m.batches \ {1} : bs[i] = m.batches[i]
      /\ Keeps(m, n) /\ KeepsWaiters(m, n)
  <2>1. n.batches = [m.batches EXCEPT ![1] = h]
    BY <1>4 DEF bs
  <2>2. m.batches[1].waiters \subseteq h.waiters
    BY <1>3
  <2>3. Keeps(m, n) /\ KeepsWaiters(m, n)
    BY <1>3, <1>4, <2>1, <2>2, HeadParts
  <2>4. /\ n.batches \in Seq(BatchType) /\ n.batches # <<>>
        /\ DOMAIN n.batches = DOMAIN m.batches /\ 1 \in DOMAIN m.batches
        /\ n.batches[1] = h
        /\ \A i \in DOMAIN m.batches \ {1} : n.batches[i] = m.batches[i]
    <3>1. m.batches \in Seq(BatchType) /\ Len(m.batches) \in Nat \ {0}
      BY DEF Writer
    <3> QED
      BY <1>3, <2>1, <3>1
  <2> QED
    BY <1>4, <2>3, <2>4
<1>6. n \in Writer
  BY <1>1, <1>3, <1>5 DEF Writer
<1>7. CoolOK(n)
  BY <1>3, <1>4, <1>5 DEF CoolOK
<1>8. BusyOK(n) /\ Watched(n)
  BY <1>4 DEF BusyOK, Watched
<1> QED
  BY <1>5, <1>6, <1>7, <1>8

(* The common end of a quiet step that keeps the rows.                     *)
LEMMA KeepingStep ==
    ASSUME IndInv, NEW n \in Writer, w' = n, Keeps(w, n),
           CoolOK(n), BusyOK(n), Watched(n),
           UNCHANGED <<applied, tokens, late, crashes>>,
           faults' \in Nat, call' \in [Calls -> CallType]
    PROVE  /\ IndInv'
           /\ Told /\ Heard(n, Durable, call') => Told'
           /\ Told /\ KeepsWaiters(w, n) /\ call' = call => Told'
<1>1. w \in Writer /\ Apart(w) /\ Counted(w) /\ Len(w.buf) < BatchRows
  BY DEF IndInv, Types, Queue
<1>2. /\ Apart(n) /\ Counted(n)
      /\ Once(w, Durable, tokens, late) => Once(n, Durable, tokens, late)
      /\ Says(w, Durable) => Says(n, Durable)
      /\ Heard(w, Durable, call) /\ KeepsWaiters(w, n) => Heard(n, Durable, call)
  BY <1>1, KeepsParts
<1>3. n.committed = w.committed /\ Len(n.buf) < BatchRows
  BY <1>1 DEF Keeps
<1>4. IndInv' /\ (Told /\ Says(n, Durable) /\ Heard(n, Durable, call') => Told')
  BY <1>1, <1>2, <1>3, QuietStep
<1> QED
  BY <1>2, <1>4 DEF Told

(* The pause after a failed insert is over.                                *)
LEMMA BackoffEndsStep ==
    ASSUME IndInv, BackoffEnds
    PROVE  IndInv' /\ (Told => Told')
<1>1. /\ w \in Writer /\ w.batches # <<>> /\ w.phase # "closed" /\ ~w.blocked
      /\ CoolOK(w) /\ faults \in Nat /\ call \in [Calls -> CallType]
  BY DEF BackoffEnds, IndInv, Types, Drain, BusyOK
<1>2. /\ w' \in {[w EXCEPT !.drain = "insert"], CoolHead(w)}
      /\ UNCHANGED <<call, applied, tokens, late, faults, crashes>>
  BY DEF BackoffEnds
<1>3. PICK n : w' = n
  OBVIOUS
<1>4. /\ n \in Writer /\ Keeps(w, n) /\ KeepsWaiters(w, n)
      /\ CoolOK(n) /\ BusyOK(n) /\ Watched(n)
  <2>1. CASE n = [w EXCEPT !.drain = "insert"]
    <3>1. /\ n \in Writer
          /\ n.phase = w.phase /\ n.buf = w.buf /\ n.rows = w.rows
          /\ n.batches = w.batches /\ n.known = w.known /\ n.committed = w.committed
          /\ n.drain = "insert" /\ n.timer = w.timer /\ n.blocked = w.blocked
      BY <1>1, <2>1 DEF Writer
    <3> QED
      BY <1>1, <3>1 DEF Keeps, KeepsWaiters, CoolOK, BusyOK, Watched
  <2>2. CASE n = CoolHead(w)
    BY <1>1, <2>2, CoolHeadParts
  <2> QED
    BY <1>2, <1>3, <2>1, <2>2
<1> QED
  BY <1>1, <1>2, <1>3, <1>4, KeepingStep

(* A permanent failure blocks the writer and tells every waiter.           *)
LEMMA InsertBlockedStep ==
    ASSUME IndInv, InsertBlocked
    PROVE  IndInv' /\ (Told => Told')
<1> DEFINE h  == [w.batches[1] EXCEPT !.waiters = {}]
           bs == [w.batches EXCEPT ![1] = h]
           n  == [w EXCEPT !.blocked = TRUE, !.drain = "ended", !.batches = bs]
<1>1. /\ w \in Writer /\ w.batches # <<>> /\ w.phase # "closed"
      /\ CoolOK(w) /\ faults \in Nat /\ call \in [Calls -> CallType]
  BY DEF InsertBlocked, IndInv, Types, Drain, BusyOK
<1>2. /\ w' = n /\ call' = Rejected(w.batches[1].waiters) /\ faults' = faults + 1
      /\ UNCHANGED <<applied, tokens, late, crashes>>
  BY DEF InsertBlocked
<1>3. w.batches[1] \in BatchType
  BY <1>1 DEF Writer
<1>4. /\ h \in BatchType /\ h.rows = w.batches[1].rows /\ h.token = w.batches[1].token
      /\ h.source = w.batches[1].source /\ h.waiters = {} /\ h.cooling = w.batches[1].cooling
  BY <1>3 DEF BatchType
<1> HIDE DEF h, bs
<1>5. /\ n.batches = bs
      /\ n.phase = w.phase /\ n.buf = w.buf /\ n.rows = w.rows
      /\ n.known = w.known /\ n.committed = w.committed
      /\ n.drain = "ended" /\ n.timer = w.timer /\ n.blocked
  BY <1>1 DEF Writer
<1>6. /\ bs \in Seq(BatchType) /\ bs # <<>>
      /\ DOMAIN bs = DOMAIN w.batches /\ 1 \in DOMAIN w.batches
      /\ bs[1] = h
      /\ \A i \in DOMAIN w.batches \ {1} : bs[i] = w.batches[i]
      /\ Keeps(w, n)
  <2>1. n.batches = [w.batches EXCEPT ![1] = h]
    BY <1>5 DEF bs
  <2> HIDE DEF n
  <2> QED
    BY <1>1, <1>4, <1>5, <2>1, HeadParts, ZenonT(40)
<1>7. n \in Writer
  BY <1>1, <1>6 DEF Writer
<1> HIDE DEF n
<1>8. CoolOK(n) /\ BusyOK(n) /\ Watched(n)
  BY <1>1, <1>4, <1>5, <1>6 DEF CoolOK, BusyOK, Watched
<1>9. /\ call' \in [Calls -> CallType]
      /\ \A c \in Calls : /\ call'[c].rows = call[c].rows
                          /\ call'[c].state =
                                IF c \in w.batches[1].waiters /\ call[c].state = "waiting"
                                THEN "rejected" ELSE call[c].state
  BY <1>1, <1>2 DEF Rejected, CallType
<1>10. Heard(w, Durable, call) => Heard(n, Durable, call')
  <2> SUFFICES ASSUME Heard(w, Durable, call), NEW c \in Calls
               PROVE  /\ call'[c].state = "resolved" => call'[c].rows \subseteq Durable
                      /\ call'[c].state = "waiting" =>
                           \A r \in call'[c].rows : r \in Durable \/
                              \E i \in DOMAIN bs : c \in bs[i].waiters /\ r \in bs[i].rows
    BY <1>5 DEF Heard
  <2>1. CASE call'[c].state = "waiting"
    <3>1. c \notin w.batches[1].waiters /\ call[c].state = "waiting"
      BY <1>9, <2>1
    <3> QED
      BY <1>6, <1>9, <2>1, <3>1 DEF Heard
  <2>2. CASE call'[c].state # "waiting"
    BY <1>9, <2>2 DEF Heard
  <2> QED
    BY <2>1, <2>2
<1> QED
  BY <1>1, <1>2, <1>6, <1>7, <1>8, <1>9, <1>10, KeepingStep DEF Told

(* The drain has nothing left to do.                                       *)
LEMMA DrainEndsStep ==
    ASSUME IndInv, DrainEnds
    PROVE  IndInv' /\ (Told => Told')
<1>1. /\ w \in Writer /\ w.phase # "closed" /\ CoolOK(w) /\ BusyOK(w)
      /\ faults \in Nat /\ call \in [Calls -> CallType]
  BY DEF DrainEnds, IndInv, Types, Drain, BusyOK
<1>2. w' = Finalizer(w) /\ UNCHANGED <<call, applied, tokens, late, faults, crashes>>
  BY DEF DrainEnds
<1>3. PICK n : n = Finalizer(w)
  OBVIOUS
<1>4. /\ n \in Writer /\ Keeps(w, n) /\ KeepsWaiters(w, n)
      /\ CoolOK(n) /\ BusyOK(n) /\ Watched(n)
  BY <1>1, <1>3, FinalizerParts
<1> QED
  BY <1>1, <1>2, <1>3, <1>4, KeepingStep

(* The retry timer starts the drain again.                                 *)
LEMMA RetryTimerStep ==
    ASSUME IndInv, RetryTimer
    PROVE  IndInv' /\ (Told => Told')
<1> DEFINE calm == [w EXCEPT !.timer = FALSE]
           warm == IF w.batches = <<>> THEN calm ELSE [calm EXCEPT !.batches[1].cooling = FALSE]
<1>1. /\ w \in Writer /\ w.phase = "open" /\ CoolOK(w) /\ BusyOK(w)
      /\ faults \in Nat /\ call \in [Calls -> CallType]
  BY DEF RetryTimer, IndInv, Types, Drain
<1>2. calm.batches = w.batches
  BY <1>1 DEF Writer
<1>3. /\ w' = StartDrain(warm)
      /\ UNCHANGED <<call, applied, tokens, late, faults, crashes>>
  BY <1>2 DEF RetryTimer
<1>4. /\ warm \in Writer /\ Keeps(w, warm) /\ KeepsWaiters(w, warm)
      /\ CoolOK(warm) /\ BusyOK(warm) /\ warm.phase = "open"
  <2>1. /\ calm \in Writer
        /\ calm.phase = w.phase /\ calm.buf = w.buf /\ calm.rows = w.rows
        /\ calm.batches = w.batches /\ calm.known = w.known /\ calm.committed = w.committed
        /\ calm.drain = w.drain /\ ~calm.timer /\ calm.blocked = w.blocked
    BY <1>1 DEF Writer
  <2> HIDE DEF calm
  <2>2. CASE w.batches = <<>>
    <3>1. warm = calm
      BY <2>2
    <3> QED
      BY <1>1, <2>1, <2>2, <3>1 DEF Keeps, KeepsWaiters, CoolOK, BusyOK
  <2>3. CASE w.batches # <<>>
    <3> DEFINE h  == [w.batches[1] EXCEPT !.cooling = FALSE]
               bs == [w.batches EXCEPT ![1] = h]
    <3>1. warm = [calm EXCEPT !.batches = bs]
      BY <2>1, <2>3
    <3> HIDE DEF warm
    <3>2. w.batches[1] \in BatchType
      BY <1>1, <2>3 DEF Writer
    <3>3. /\ h \in BatchType /\ h.rows = w.batches[1].rows /\ h.token = w.batches[1].token
          /\ h.source = w.batches[1].source /\ h.waiters = w.batches[1].waiters
          /\ ~h.cooling
      BY <3>2 DEF BatchType
    <3> HIDE DEF h, bs
    <3>4. /\ warm.batches = bs
          /\ warm.phase = w.phase /\ warm.buf = w.buf /\ warm.rows = w.rows
          /\ warm.known = w.known /\ warm.committed = w.committed
          /\ warm.drain = w.drain /\ ~warm.timer /\ warm.blocked = w.blocked
      BY <2>1, <3>1 DEF Writer
    <3>5. /\ bs \in Seq(BatchType) /\ bs # <<>>
          /\ DOMAIN bs = DOMAIN w.batches /\ 1 \in DOMAIN w.batches
          /\ bs[1] = h
          /\ \A i \in DOMAIN w.batches \ {1} : bs[i] = w.batches[i]
          /\ Keeps(w, warm) /\ KeepsWaiters(w, warm)
      <4>1. warm.batches = [w.batches EXCEPT ![1] = h]
        BY <3>4 DEF bs
      <4>2. w.batches[1].waiters \subseteq h.waiters
        BY <3>3
      <4>3. Keeps(w, warm) /\ KeepsWaiters(w, warm)
        BY <1>1, <2>3, <3>3, <3>4, <4>1, <4>2, HeadParts
      <4>4. w.batches \in Seq(BatchType) /\ Len(w.batches) \in Nat \ {0}
        BY <1>1, <2>3 DEF Writer
      <4>5. /\ bs \in Seq(BatchType) /\ bs # <<>>
            /\ DOMAIN bs = DOMAIN w.batches /\ 1 \in DOMAIN w.batches
            /\ bs[1] = h
            /\ \A i \in DOMAIN w.batches \ {1} : bs[i] = w.batches[i]
        BY <3>3, <4>4 DEF bs
      <4> QED
        BY <4>3, <4>5
    <3>6. warm \in Writer
      BY <2>1, <3>1, <3>5 DEF Writer
    <3>7. CoolOK(warm) /\ BusyOK(warm)
      BY <1>1, <3>3, <3>4, <3>5 DEF CoolOK, BusyOK
    <3> QED
      BY <1>1, <3>4, <3>5, <3>6, <3>7
  <2> QED
    BY <2>2, <2>3
<1> HIDE DEF warm
<1>5. PICK n : n = StartDrain(warm)
  OBVIOUS
<1>6. /\ n \in Writer /\ Keeps(warm, n) /\ KeepsWaiters(warm, n)
      /\ CoolOK(n) /\ BusyOK(n) /\ n.drain # "idle"
  BY <1>4, <1>5, StartDrainParts
<1>7. Keeps(w, n) /\ KeepsWaiters(w, n) /\ Watched(n)
  BY <1>1, <1>4, <1>6 DEF Keeps, KeepsWaiters, Watched, Writer
<1> QED
  BY <1>1, <1>3, <1>5, <1>6, <1>7, KeepingStep

(* The flush timer seals what is buffered.                                 *)
LEMMA FlushTimerStep ==
    ASSUME IndInv, FlushTimer
    PROVE  IndInv' /\ (Told => Told')
<1> DEFINE sealed == Seal(w, TRUE)
           n      == StartDrain(sealed)
<1>1. /\ w \in Writer /\ w.phase = "open" /\ Apart(w) /\ Counted(w) /\ CoolOK(w) /\ BusyOK(w)
      /\ Len(w.buf) <= BatchRows /\ crashes \in Nat /\ TRUE \in BOOLEAN
      /\ faults \in Nat /\ call \in [Calls -> CallType]
  BY WriterAssumption DEF FlushTimer, IndInv, Types, Drain, Queue, Writer
<1>2. w' = n /\ UNCHANGED <<call, applied, tokens, late, faults, crashes>>
  BY DEF FlushTimer
<1>3. /\ sealed \in Writer /\ Apart(sealed) /\ Counted(sealed) /\ Len(sealed.buf) < BatchRows
      /\ sealed.phase = "open" /\ sealed.committed = w.committed
      /\ CoolOK(sealed) /\ BusyOK(sealed)
      /\ Once(w, Durable, tokens, late) => Once(sealed, Durable, tokens, late)
      /\ Says(w, Durable) => Says(sealed, Durable)
      /\ Heard(w, Durable, call) => Heard(sealed, Durable, call)
  <2>1. sealed = Seal(w, TRUE)
    OBVIOUS
  <2> HIDE DEF sealed
  <2> QED
    BY <1>1, <2>1, SealParts
<1> HIDE DEF sealed
<1>4. /\ n \in Writer /\ Keeps(sealed, n) /\ KeepsWaiters(sealed, n)
      /\ CoolOK(n) /\ BusyOK(n) /\ n.drain # "idle"
  <2>1. n = StartDrain(sealed)
    OBVIOUS
  <2> HIDE DEF n
  <2> QED
    BY <1>3, <2>1, StartDrainParts
<1> HIDE DEF n
<1>5. /\ Apart(n) /\ Counted(n)
      /\ Once(sealed, Durable, tokens, late) => Once(n, Durable, tokens, late)
      /\ Says(sealed, Durable) => Says(n, Durable)
      /\ Heard(sealed, Durable, call) => Heard(n, Durable, call)
  BY <1>3, <1>4, KeepsParts
<1>6. Len(n.buf) < BatchRows /\ n.committed = w.committed /\ Watched(n)
  BY <1>3, <1>4 DEF Keeps, Watched
<1>7. IndInv' /\ (Told /\ Says(n, Durable) /\ Heard(n, Durable, call') => Told')
  BY <1>1, <1>2, <1>3, <1>4, <1>5, <1>6, QuietStep
<1> QED
  BY <1>2, <1>3, <1>5, <1>7 DEF Told

-----------------------------------------------------------------------------
(* Close and the ends of the process.                                      *)

(* Closing seals what is buffered and refuses new calls.                   *)
LEMMA CloseStep ==
    ASSUME IndInv, Close
    PROVE  IndInv' /\ (Told => Told')
<1> DEFINE sealed == Seal(w, TRUE)
           bs     == [i \in DOMAIN sealed.batches |-> [sealed.batches[i] EXCEPT !.cooling = FALSE]]
           awake  == [sealed EXCEPT !.phase = "closing", !.timer = FALSE, !.batches = bs]
           n      == IF awake.batches # <<>> THEN StartDrain(awake) ELSE awake
<1>1. /\ w \in Writer /\ w.phase = "open" /\ Apart(w) /\ Counted(w) /\ CoolOK(w) /\ BusyOK(w)
      /\ Len(w.buf) <= BatchRows /\ crashes \in Nat /\ TRUE \in BOOLEAN
      /\ faults \in Nat /\ call \in [Calls -> CallType]
  BY WriterAssumption DEF Close, IndInv, Types, Drain, Queue, Writer
<1>2. w' = n /\ UNCHANGED <<call, applied, tokens, late, faults, crashes>>
  BY DEF Close
<1>3. /\ sealed \in Writer /\ Apart(sealed) /\ Counted(sealed) /\ Len(sealed.buf) < BatchRows
      /\ sealed.phase = "open" /\ sealed.committed = w.committed
      /\ BusyOK(sealed)
      /\ Once(w, Durable, tokens, late) => Once(sealed, Durable, tokens, late)
      /\ Says(w, Durable) => Says(sealed, Durable)
      /\ Heard(w, Durable, call) => Heard(sealed, Durable, call)
  <2>1. sealed = Seal(w, TRUE)
    OBVIOUS
  <2> HIDE DEF sealed
  <2> QED
    BY <1>1, <2>1, SealParts
<1> HIDE DEF sealed
<1>4. /\ bs \in Seq(BatchType) /\ Len(bs) = Len(sealed.batches) /\ DOMAIN bs = DOMAIN sealed.batches
      /\ bs = <<>> <=> sealed.batches = <<>>
      /\ \A i \in DOMAIN sealed.batches :
            /\ bs[i].rows = sealed.batches[i].rows /\ bs[i].token = sealed.batches[i].token
            /\ bs[i].waiters = sealed.batches[i].waiters /\ ~bs[i].cooling
  <2>1. sealed.batches \in Seq(BatchType)
    BY <1>3 DEF Writer
  <2>2. \A i \in DOMAIN sealed.batches :
            /\ bs[i] \in BatchType
            /\ bs[i].rows = sealed.batches[i].rows /\ bs[i].token = sealed.batches[i].token
            /\ bs[i].waiters = sealed.batches[i].waiters /\ ~bs[i].cooling
    <3>1. \A i \in DOMAIN sealed.batches :
             sealed.batches[i] \in BatchType /\ bs[i] = [sealed.batches[i] EXCEPT !.cooling = FALSE]
      BY <2>1
    <3> HIDE DEF bs
    <3> QED
      BY <3>1, ZenonT(40) DEF BatchType
  <2>3. bs \in Seq(BatchType) /\ Len(bs) = Len(sealed.batches) /\ DOMAIN bs = DOMAIN sealed.batches
    <3>1. \A x \in BatchType : [x EXCEPT !.cooling = FALSE] \in BatchType
      BY DEF BatchType
    <3> QED
      BY <2>1, <3>1
  <2> QED
    BY <2>1, <2>2, <2>3
<1> HIDE DEF bs
<1>5. /\ awake \in Writer
      /\ awake.phase = "closing" /\ awake.buf = sealed.buf /\ awake.rows = sealed.rows
      /\ awake.batches = bs /\ awake.known = sealed.known
      /\ awake.committed = sealed.committed /\ awake.drain = sealed.drain
      /\ ~awake.timer /\ awake.blocked = sealed.blocked
  BY <1>3, <1>4 DEF Writer
<1> HIDE DEF awake
<1>6. /\ Keeps(sealed, awake) /\ KeepsWaiters(sealed, awake)
      /\ CoolOK(awake) /\ BusyOK(awake)
  BY <1>3, <1>4, <1>5 DEF Keeps, KeepsWaiters, CoolOK, BusyOK
<1>7. /\ n \in Writer /\ Keeps(awake, n) /\ KeepsWaiters(awake, n)
      /\ CoolOK(n) /\ BusyOK(n) /\ Watched(n)
  <2>1. CASE awake.batches = <<>>
    BY <1>5, <1>6, <2>1 DEF Keeps, KeepsWaiters, Watched
  <2>2. CASE awake.batches # <<>>
    <3>1. n = StartDrain(awake)
      BY <2>2
    <3> HIDE DEF n
    <3>2. /\ n \in Writer /\ Keeps(awake, n) /\ KeepsWaiters(awake, n)
          /\ CoolOK(n) /\ BusyOK(n) /\ n.drain # "idle"
      BY <1>5, <1>6, <3>1, StartDrainParts
    <3> QED
      BY <3>2 DEF Watched
  <2> QED
    BY <2>1, <2>2
<1> HIDE DEF n
<1>8. Keeps(sealed, n) /\ KeepsWaiters(sealed, n)
  BY <1>3, <1>5, <1>6, <1>7 DEF Keeps, KeepsWaiters, Writer
<1>9. /\ Apart(n) /\ Counted(n)
      /\ Once(sealed, Durable, tokens, late) => Once(n, Durable, tokens, late)
      /\ Says(sealed, Durable) => Says(n, Durable)
      /\ Heard(sealed, Durable, call) => Heard(n, Durable, call)
  BY <1>3, <1>7, <1>8, KeepsParts
<1>10. Len(n.buf) < BatchRows /\ n.committed = w.committed
  BY <1>3, <1>8 DEF Keeps
<1>11. IndInv' /\ (Told /\ Says(n, Durable) /\ Heard(n, Durable, call') => Told')
  BY <1>1, <1>2, <1>3, <1>7, <1>9, <1>10, QuietStep
<1> QED
  BY <1>2, <1>3, <1>9, <1>11 DEF Told

(* The insert in flight.                                                   *)
LEMMA FlyingParts ==
    ASSUME IndInv
    PROVE  \A b \in Flying :
              /\ w.batches # <<>> /\ b = Request(w.batches[1]) /\ w.phase # "closed"
              /\ b \in [token : Token, rows : SUBSET Rows]
              /\ b.token = w.batches[1].token /\ b.rows = w.batches[1].rows
              /\ Told => Content(b.token) \ b.rows \subseteq Durable
<1> SUFFICES ASSUME NEW b \in Flying
             PROVE  /\ w.batches # <<>> /\ b = Request(w.batches[1]) /\ w.phase # "closed"
                    /\ b \in [token : Token, rows : SUBSET Rows]
                    /\ b.token = w.batches[1].token /\ b.rows = w.batches[1].rows
                    /\ Told => Content(b.token) \ b.rows \subseteq Durable
  OBVIOUS
<1>1. w \in Writer /\ w.batches # <<>> /\ b = Request(w.batches[1]) /\ w.phase # "closed"
  BY DEF Flying, IndInv, Types, Drain, BusyOK
<1>2. w.batches[1] \in BatchType /\ 1 \in DOMAIN w.batches
  BY <1>1 DEF Writer
<1>3. /\ b \in [token : Token, rows : SUBSET Rows]
      /\ b.token = w.batches[1].token /\ b.rows = w.batches[1].rows
  BY <1>1, <1>2 DEF Request, BatchType
<1>4. Told => Content(b.token) \ b.rows \subseteq Durable
  BY <1>2, <1>3 DEF Told, Says
<1> QED
  BY <1>1, <1>3, <1>4

(* It joins the requests that may yet be applied.                          *)
LEMMA LateParts ==
    ASSUME IndInv, NEW L, L \in {late, late \cup Flying}
    PROVE  /\ L \subseteq [token : Token, rows : SUBSET Rows]
           /\ crashes = 0 => Once(w, Durable, tokens, L)
           /\ Told => \A b \in L : Content(b.token) \ b.rows \subseteq Durable
<1>1. /\ L \subseteq [token : Token, rows : SUBSET Rows]
      /\ Told => \A b \in L : Content(b.token) \ b.rows \subseteq Durable
  BY FlyingParts DEF IndInv, Types, Told
<1>2. ASSUME crashes = 0 PROVE Once(w, Durable, tokens, L)
  <2>1. Once(w, Durable, tokens, late) /\ w \in Writer /\ Apart(w)
    BY <1>2 DEF IndInv, StoredOnce, Types, Queue
  <2>2. ASSUME NEW b \in Flying, b.token \notin tokens
        PROVE  b.rows \cap Durable = {}
    <3>1. /\ w.batches # <<>> /\ b.token = w.batches[1].token /\ b.rows = w.batches[1].rows
          /\ w.phase # "closed" /\ 1 \in DOMAIN w.batches
      BY <2>1, FlyingParts DEF Writer
    <3>2. Durable \subseteq w.committed
      BY <2>1, <2>2, <3>1 DEF Once, OnHead
    <3> QED
      BY <2>1, <3>1, <3>2 DEF Apart
  <2> QED
    BY <2>1, <2>2, FlyingParts DEF Once
<1> QED
  BY <1>1, <1>2

(* A new process starts with an empty writer.                              *)
LEMMA FreshType ==
    ASSUME NEW ph \in {"open", "closing", "closed"},
           NEW buf \in Seq(Rows), NEW batches \in Seq(BatchType)
    PROVE  [phase |-> ph, buf |-> buf, rows |-> 0, batches |-> batches, known |-> {},
            committed |-> {}, drain |-> "idle", timer |-> FALSE, blocked |-> FALSE] \in Writer
BY DEF Writer

(* A writer without rows satisfies every part,                             *)
LEMMA FreshFields ==
    ASSUME NEW n \in Writer, n.buf = <<>>, n.rows = 0, n.batches = <<>>,
           n.known = {}, n.committed = {}, n.drain = "idle", ~n.timer
    PROVE  /\ CoolOK(n) /\ BusyOK(n) /\ Watched(n)
           /\ Len(n.buf) < BatchRows /\ Apart(n) /\ Counted(n)
           /\ \A D : Says(n, D)
<1>1. DOMAIN n.buf = {} /\ DOMAIN n.batches = {} /\ Len(n.buf) = 0
  OBVIOUS
<1>2. QueuedRows(n) = {} /\ ToSet(n.buf) = {}
  BY <1>1 DEF QueuedRows, ToSet
<1>3. MaxRows \in Nat /\ BatchRows \in Nat \ {0}
  BY WriterAssumption
<1>4. Len(n.buf) < BatchRows /\ Counted(n)
  BY <1>1, <1>2, <1>3, FS_EmptySet DEF Counted
<1>5. CoolOK(n) /\ BusyOK(n) /\ Watched(n)
  BY <1>1 DEF CoolOK, BusyOK, Watched
<1>6. Apart(n)
  BY <1>1, <1>2 DEF Apart
<1>7. \A D : Says(n, D)
  BY <1>1 DEF Says
<1> QED
  BY <1>4, <1>5, <1>6, <1>7

(* and that is what a new process starts with.                             *)
LEMMA FreshParts ==
    ASSUME NEW ph \in {"open", "closing", "closed"}
    PROVE  LET n == [Fresh EXCEPT !.phase = ph] IN
           /\ n \in Writer /\ n.phase = ph /\ n.committed = {} /\ n.batches = <<>>
           /\ CoolOK(n) /\ BusyOK(n) /\ Watched(n)
           /\ Len(n.buf) < BatchRows /\ Apart(n) /\ Counted(n)
           /\ \A D : Says(n, D)
<1> DEFINE n == [Fresh EXCEPT !.phase = ph]
<1>1. Fresh \in Writer
  <2>1. <<>> \in Seq(Rows) /\ <<>> \in Seq(BatchType) /\ "open" \in {"open", "closing", "closed"}
    OBVIOUS
  <2> QED
    BY <2>1, FreshType DEF Fresh
<1>2. /\ Fresh.buf = <<>> /\ Fresh.rows = 0 /\ Fresh.batches = <<>>
      /\ Fresh.known = {} /\ Fresh.committed = {} /\ Fresh.drain = "idle" /\ ~Fresh.timer
  BY DEF Fresh
<1>3. /\ n \in Writer /\ n.phase = ph /\ n.buf = <<>> /\ n.rows = 0 /\ n.batches = <<>>
      /\ n.known = {} /\ n.committed = {} /\ n.drain = "idle" /\ ~n.timer
  BY <1>1, <1>2 DEF Writer
<1> HIDE DEF n
<1>4. /\ CoolOK(n) /\ BusyOK(n) /\ Watched(n)
      /\ Len(n.buf) < BatchRows /\ Apart(n) /\ Counted(n)
      /\ \A D : Says(n, D)
  BY <1>3, FreshFields
<1> QED
  BY <1>3, <1>4 DEF n

(* The last batch of a closing writer has gone.                            *)
LEMMA FinishCloseStep ==
    ASSUME IndInv, FinishClose
    PROVE  IndInv' /\ (Told => Told')
<1>1. /\ w \in Writer /\ w.phase = "closing" /\ call \in [Calls -> CallType]
      /\ late' \in {late, late \cup Flying}
      /\ call' = Rejected(Waiting(w))
      /\ UNCHANGED <<applied, tokens, faults, crashes>>
  BY DEF FinishClose, IndInv, Types
<1>2. PICK n : n = [Fresh EXCEPT !.phase = "closed"]
  OBVIOUS
<1>3. /\ w' = n /\ n \in Writer /\ n.phase = "closed" /\ n.committed = {} /\ n.batches = <<>>
      /\ CoolOK(n) /\ BusyOK(n) /\ Watched(n)
      /\ Len(n.buf) < BatchRows /\ Apart(n) /\ Counted(n)
      /\ \A D : Says(n, D)
  BY <1>2, FreshParts DEF FinishClose
<1>4. Durable' = Durable
  BY <1>1 DEF Durable
<1>5. /\ call' \in [Calls -> CallType]
      /\ \A c \in Calls : /\ call'[c].rows = call[c].rows
                          /\ call'[c].state = IF c \in Waiting(w) /\ call[c].state = "waiting"
                                              THEN "rejected" ELSE call[c].state
  BY <1>1 DEF Rejected, CallType
<1>6. /\ late' \subseteq [token : Token, rows : SUBSET Rows]
      /\ crashes = 0 => Once(w, Durable, tokens, late')
      /\ Told => \A b \in late' : Content(b.token) \ b.rows \subseteq Durable
  BY <1>1, LateParts
<1>7. Types' /\ Drain' /\ Queue'
  BY <1>1, <1>3, <1>5, <1>6 DEF IndInv, Types, Drain, Queue
<1>8. StoredOnce'
  BY <1>1, <1>3, <1>4, <1>6 DEF IndInv, StoredOnce, Once
<1>9. Told => Told'
  <2> SUFFICES ASSUME Told PROVE Told'
    OBVIOUS
  <2>1. ASSUME NEW c \in Calls, call'[c].state = "waiting"
        PROVE  call'[c].rows \subseteq Durable
    <3>1. call[c].state = "waiting" /\ c \notin Waiting(w) /\ call'[c].rows = call[c].rows
      BY <1>5, <2>1
    <3> QED
      BY <3>1 DEF Told, Heard, Waiting
  <2>2. Heard(n, Durable, call')
    BY <1>5, <2>1 DEF Told, Heard
  <2> QED
    BY <1>1, <1>3, <1>4, <1>6, <2>2 DEF Told
<1> QED
  BY <1>7, <1>8, <1>9 DEF IndInv

(* A restart forgets the queue and everyone who waits.                     *)
LEMMA RestartStep ==
    ASSUME IndInv, Restart
    PROVE  IndInv' /\ (Told => Told')
<1>1. /\ call \in [Calls -> CallType] /\ crashes \in Nat
      /\ late' \in {late, late \cup Flying}
      /\ call' = [c \in Calls |-> IF call[c].state = "waiting"
                                  THEN [call[c] EXCEPT !.state = "lost"] ELSE call[c]]
      /\ crashes' = crashes + 1
      /\ UNCHANGED <<applied, tokens, faults>>
  BY DEF Restart, IndInv, Types
<1>2. PICK n : n = [Fresh EXCEPT !.phase = "open"]
  OBVIOUS
<1>3. n = Fresh
  BY <1>2 DEF Fresh
<1>4. /\ w' = n /\ n \in Writer /\ n.committed = {}
      /\ CoolOK(n) /\ BusyOK(n) /\ Watched(n)
      /\ Len(n.buf) < BatchRows /\ Apart(n) /\ Counted(n)
      /\ \A D : Says(n, D)
  BY <1>2, <1>3, FreshParts DEF Restart
<1>5. Durable' = Durable
  BY <1>1 DEF Durable
<1>6. /\ call' \in [Calls -> CallType]
      /\ \A c \in Calls : /\ call'[c].rows = call[c].rows
                          /\ call'[c].state = IF call[c].state = "waiting"
                                              THEN "lost" ELSE call[c].state
  BY <1>1 DEF CallType
<1>7. /\ late' \subseteq [token : Token, rows : SUBSET Rows]
      /\ Told => \A b \in late' : Content(b.token) \ b.rows \subseteq Durable
  BY <1>1, LateParts
<1>8. Types' /\ Drain' /\ Queue'
  BY <1>1, <1>4, <1>6, <1>7 DEF IndInv, Types, Drain, Queue
<1>9. StoredOnce'
  BY <1>1 DEF StoredOnce
<1>10. Told => Told'
  <2> SUFFICES ASSUME Told PROVE Told'
    OBVIOUS
  <2>1. Heard(n, Durable, call')
    BY <1>6 DEF Told, Heard
  <2> QED
    BY <1>1, <1>4, <1>5, <1>7, <2>1 DEF Told
<1> QED
  BY <1>8, <1>9, <1>10 DEF IndInv

-----------------------------------------------------------------------------
(* ClickHouse's answers.                                                   *)

(* Steps that show ClickHouse another block and leave the queue's batches  *)
(* alone.                                                                  *)
LEMMA SeenStep ==
    ASSUME IndInv, NEW n \in Writer, w' = n,
           CoolOK(n), BusyOK(n), Watched(n), Len(n.buf) < BatchRows, Apart(n), Counted(n),
           applied' \in [Rows -> Nat], tokens' \subseteq Token, late' \subseteq late,
           faults' \in Nat, crashes' = crashes, call' \in [Calls -> CallType],
           crashes = 0 => /\ Once(n, Durable', tokens', late)
                          /\ \A r \in Rows : applied'[r] <= 1
    PROVE  IndInv'
<1>1. Types' /\ Drain' /\ Queue'
  BY DEF IndInv, Types, Drain, Queue
<1>2. StoredOnce'
  BY DEF StoredOnce, Once
<1> QED
  BY <1>1, <1>2 DEF IndInv

(* The head's block reaches ClickHouse.                                    *)
LEMMA ApplyHeadParts ==
    ASSUME IndInv, w.drain = "insert", Apply(w.batches[1])
    PROVE  /\ applied' \in [Rows -> Nat] /\ tokens' \subseteq Token
           /\ Durable \subseteq Durable'
           /\ crashes = 0 =>
                 /\ Once(w, Durable', tokens', late)
                 /\ \A r \in Rows : applied'[r] <= 1
                 /\ Durable' \subseteq w.committed \cup w.batches[1].rows
                 /\ \A b \in late : b.token \in tokens'
           /\ Told => /\ w.batches[1].rows \subseteq Durable'
                      /\ \A t \in tokens' : Content(t) \subseteq Durable'
<1> DEFINE b == w.batches[1]
<1>1. /\ w \in Writer /\ w.batches # <<>> /\ w.phase # "closed" /\ Apart(w)
      /\ b \in BatchType /\ 1 \in DOMAIN w.batches
  BY DEF IndInv, Types, Drain, Queue, BusyOK, Writer
<1>2. b.token \in Token /\ b.rows \in SUBSET Rows
  BY <1>1 DEF BatchType
<1> HIDE DEF b
<1>3. /\ applied' \in [Rows -> Nat] /\ tokens' \subseteq Token
      /\ tokens' = tokens \cup {b.token}
      /\ b.token \in tokens => applied' = applied
      /\ b.token \notin tokens =>
            \A r \in Rows : applied'[r] = IF r \in b.rows THEN applied[r] + 1 ELSE applied[r]
      /\ Durable' = IF b.token \in tokens THEN Durable ELSE Durable \cup b.rows
  <2>1. Types /\ Apply(b)
    BY DEF IndInv, b
  <2> QED
    BY <1>2, <2>1, ApplyParts
<1>4. ASSUME crashes = 0
      PROVE  /\ Once(w, Durable', tokens', late)
             /\ \A r \in Rows : applied'[r] <= 1
             /\ Durable' \subseteq w.committed \cup b.rows
             /\ \A x \in late : x.token \in tokens'
  <2>1. Once(w, Durable, tokens, late) /\ \A r \in Rows : applied[r] <= 1
    BY <1>4 DEF IndInv, StoredOnce
  <2>2. \A x \in late : x.token \in tokens'
    <3>1. \A x \in late : x.token \notin tokens => x.token = b.token
      BY <1>1, <2>1 DEF Once, Request, b
    <3> QED
      BY <1>3, <3>1
  <2>3. OnHead(w, tokens') = b.rows
    BY <1>1, <1>3 DEF OnHead, b
  <2>4. /\ Durable \subseteq w.committed \cup b.rows
        /\ b.token \notin tokens => Durable \subseteq w.committed
    BY <1>1, <2>1 DEF Once, OnHead, b
  <2>5. Durable' \subseteq w.committed \cup b.rows
    BY <1>3, <2>4
  <2>6. Once(w, Durable', tokens', late)
    BY <2>2, <2>3, <2>5 DEF Once
  <2>7. \A r \in Rows : applied'[r] <= 1
    <3>1. CASE b.token \in tokens
      BY <1>3, <2>1, <3>1
    <3>2. CASE b.token \notin tokens
      <4>1. b.rows \cap w.committed = {}
        BY <1>1 DEF Apart, b
      <4>2. \A r \in b.rows : applied[r] = 0
        BY <1>2, <2>4, <3>2, <4>1 DEF Durable, IndInv, Types
      <4> QED
        BY <1>3, <2>1, <3>2, <4>2 DEF IndInv, Types
    <3> QED
      BY <3>1, <3>2
  <2> QED
    BY <2>2, <2>5, <2>6, <2>7
<1>5. ASSUME Told
      PROVE  b.rows \subseteq Durable' /\ \A t \in tokens' : Content(t) \subseteq Durable'
  <2>1. /\ b.rows \subseteq Content(b.token)
        /\ Content(b.token) \ b.rows \subseteq Durable
        /\ \A t \in tokens : Content(t) \subseteq Durable
    BY <1>1, <1>5 DEF Told, Says, b
  <2> QED
    BY <1>3, <2>1
<1>6. Durable \subseteq Durable'
  BY <1>3
<1> QED
  BY <1>3, <1>4, <1>5, <1>6 DEF b

(* An insert that fails may have been applied, or may be later.            *)
LEMMA InsertFailsStep ==
    ASSUME IndInv, InsertFails
    PROVE  IndInv' /\ (Told => Told')
<1>1. /\ w \in Writer /\ w.drain = "insert" /\ w.batches # <<>> /\ w.phase # "closed"
      /\ ~w.blocked /\ Apart(w) /\ Counted(w) /\ Len(w.buf) < BatchRows
      /\ CoolOK(w) /\ faults \in Nat /\ crashes \in Nat /\ call \in [Calls -> CallType]
      /\ Head(w.batches) = w.batches[1]
  BY DEF InsertFails, IndInv, Types, Drain, Queue, BusyOK
<1>2. /\ w' \in {[w EXCEPT !.drain = "backoff"], CoolHead(w)}
      /\ faults' = faults + 1 /\ UNCHANGED <<call, crashes>>
  BY DEF InsertFails
<1>3. PICK n : w' = n
  OBVIOUS
<1>4. /\ n \in Writer /\ Keeps(w, n) /\ KeepsWaiters(w, n)
      /\ CoolOK(n) /\ BusyOK(n) /\ Watched(n)
  <2>1. CASE n = [w EXCEPT !.drain = "backoff"]
    <3>1. /\ n \in Writer
          /\ n.phase = w.phase /\ n.buf = w.buf /\ n.rows = w.rows
          /\ n.batches = w.batches /\ n.known = w.known /\ n.committed = w.committed
          /\ n.drain = "backoff" /\ n.timer = w.timer /\ n.blocked = w.blocked
      BY <1>1, <2>1 DEF Writer
    <3> QED
      BY <1>1, <3>1 DEF Keeps, KeepsWaiters, CoolOK, BusyOK, Watched
  <2>2. CASE n = CoolHead(w)
    BY <1>1, <2>2, CoolHeadParts
  <2> QED
    BY <1>2, <1>3, <2>1, <2>2
<1>5. /\ Apart(n) /\ Counted(n) /\ Len(n.buf) < BatchRows /\ n.committed = w.committed
      /\ \A D, T, L : Once(w, D, T, L) => Once(n, D, T, L)
      /\ \A D : Says(w, D) => Says(n, D)
      /\ \A D : Heard(w, D, call) => Heard(n, D, call)
  <2>1. n.committed = w.committed /\ Len(n.buf) < BatchRows
    BY <1>1, <1>4 DEF Keeps
  <2> QED
    BY <1>1, <1>4, <2>1, KeepsParts
<1>6. CASE Apply(Head(w.batches)) /\ UNCHANGED late
  <2>1. /\ applied' \in [Rows -> Nat] /\ tokens' \subseteq Token
        /\ Durable \subseteq Durable'
        /\ crashes = 0 =>
              /\ Once(w, Durable', tokens', late)
              /\ \A r \in Rows : applied'[r] <= 1
        /\ Told => \A t \in tokens' : Content(t) \subseteq Durable'
    BY <1>1, <1>6, ApplyHeadParts
  <2>2. IndInv'
    BY <1>1, <1>2, <1>3, <1>4, <1>5, <1>6, <2>1, SeenStep
  <2>3. ASSUME Told PROVE Told'
    <3>1. Says(n, Durable') /\ Heard(n, Durable', call)
      BY <1>5, <2>1, <2>3, ToldGrows DEF Told
    <3> QED
      BY <1>2, <1>3, <1>5, <1>6, <2>1, <2>3, <3>1 DEF Told
  <2> QED
    BY <2>2, <2>3
<1>7. CASE UNCHANGED <<applied, tokens>> /\ late' \in {late, late \cup {Request(Head(w.batches))}}
  <2>1. late' \in {late, late \cup Flying}
    BY <1>1, <1>7 DEF Flying
  <2>2. /\ late' \subseteq [token : Token, rows : SUBSET Rows]
        /\ crashes = 0 => Once(w, Durable, tokens, late')
        /\ Told => \A b \in late' : Content(b.token) \ b.rows \subseteq Durable
    BY <2>1, LateParts
  <2>3. Durable' = Durable
    BY <1>7 DEF Durable
  <2>4. Types' /\ Drain' /\ Queue'
    BY <1>1, <1>2, <1>3, <1>4, <1>5, <1>7, <2>2 DEF IndInv, Types, Drain, Queue
  <2>5. StoredOnce'
    BY <1>2, <1>3, <1>5, <1>7, <2>2, <2>3 DEF IndInv, StoredOnce
  <2>6. Told => Told'
    BY <1>2, <1>3, <1>4, <1>5, <1>7, <2>2, <2>3 DEF Told
  <2> QED
    BY <2>4, <2>5, <2>6 DEF IndInv
<1> QED
  BY <1>6, <1>7 DEF InsertFails

(* ClickHouse applies a block it was given earlier.                        *)
LEMMA LateApplyStep ==
    ASSUME IndInv, NEW b \in late, LateApply(b)
    PROVE  IndInv' /\ (Told => Told')
<1>1. /\ w \in Writer /\ Apart(w) /\ Counted(w) /\ Len(w.buf) < BatchRows
      /\ CoolOK(w) /\ BusyOK(w) /\ Watched(w)
      /\ faults \in Nat /\ call \in [Calls -> CallType] /\ Types
      /\ b.token \in Token /\ b.rows \in SUBSET Rows
  BY DEF IndInv, Types, Drain, Queue
<1>2. late' = late \ {b} /\ Apply(b) /\ UNCHANGED <<w, call, faults, crashes>>
  BY DEF LateApply
<1>3. /\ applied' \in [Rows -> Nat] /\ tokens' \subseteq Token
      /\ tokens' = tokens \cup {b.token}
      /\ b.token \in tokens => applied' = applied
      /\ b.token \notin tokens =>
            \A r \in Rows : applied'[r] = IF r \in b.rows THEN applied[r] + 1 ELSE applied[r]
      /\ Durable' = IF b.token \in tokens THEN Durable ELSE Durable \cup b.rows
  BY <1>1, <1>2, ApplyParts
<1>4. ASSUME crashes = 0
      PROVE  Once(w, Durable', tokens', late) /\ \A r \in Rows : applied'[r] <= 1
  <2>1. Once(w, Durable, tokens, late) /\ \A r \in Rows : applied[r] <= 1
    BY <1>4 DEF IndInv, StoredOnce
  <2>2. CASE b.token \in tokens
    <3>1. tokens' = tokens /\ Durable' = Durable /\ applied' = applied
      BY <1>3, <2>2
    <3> QED
      BY <2>1, <3>1
  <2>3. CASE b.token \notin tokens
    <3>1. \A x \in late : x.token \in tokens'
      BY <1>3, <2>1, <2>3 DEF Once
    <3>2. b.rows \cap Durable = {}
      BY <2>1, <2>3 DEF Once
    <3>3. w.phase # "closed" => Durable' \subseteq w.committed \cup OnHead(w, tokens')
      <4> SUFFICES ASSUME w.phase # "closed"
                   PROVE  Durable' \subseteq w.committed \cup OnHead(w, tokens')
        OBVIOUS
      <4>1. w.batches # <<>> /\ b = Request(w.batches[1])
        BY <2>1, <2>3 DEF Once
      <4>2. b.token = w.batches[1].token /\ b.rows = w.batches[1].rows
        BY <4>1 DEF Request
      <4>3. OnHead(w, tokens) = {} /\ OnHead(w, tokens') = b.rows
        BY <1>3, <2>3, <4>1, <4>2 DEF OnHead
      <4> QED
        BY <1>3, <2>1, <2>3, <4>3 DEF Once
    <3>4. Once(w, Durable', tokens', late)
      BY <3>1, <3>3 DEF Once
    <3>5. \A r \in b.rows : applied[r] = 0
      BY <1>1, <3>2 DEF Durable, Types
    <3>6. \A r \in Rows : applied'[r] <= 1
      BY <1>1, <1>3, <2>1, <2>3, <3>5 DEF Types
    <3> QED
      BY <3>4, <3>6
  <2> QED
    BY <2>2, <2>3
<1>5. PICK n : n = w
  OBVIOUS
<1>6. IndInv'
  BY <1>1, <1>2, <1>3, <1>4, <1>5, SeenStep
<1>7. ASSUME Told PROVE Told'
  <2>1. Durable \subseteq Durable'
    BY <1>3
  <2>2. Says(w, Durable') /\ Heard(w, Durable', call)
    BY <1>7, <2>1, ToldGrows DEF Told
  <2>3. \A t \in tokens' : Content(t) \subseteq Durable'
    BY <1>3, <1>7 DEF Told
  <2> QED
    BY <1>2, <1>7, <2>1, <2>2, <2>3 DEF Told
<1> QED
  BY <1>6, <1>7

(* The acknowledged head leaves the queue: m becomes n.                    *)
Popped(m) ==
    [m EXCEPT !.committed = @ \cup m.batches[1].rows,
              !.batches = Tail(@),
              !.rows = @ - Cardinality(m.batches[1].rows)]

(* The head is committed and leaves the queue.                             *)
LEMMA PopParts ==
    ASSUME NEW m \in Writer, m.batches # <<>>, m.phase # "closed",
           CoolOK(m), Apart(m), Counted(m),
           NEW n, n = Popped(m)
    PROVE  /\ n \in Writer /\ n.phase = m.phase /\ n.buf = m.buf
           /\ n.committed = m.committed \cup m.batches[1].rows
           /\ CoolOK(n) /\ Apart(n) /\ Counted(n)
           /\ \A D, E : (/\ D \subseteq E /\ m.batches[1].rows \subseteq E
                         /\ Says(m, D)) => Says(n, E)
           /\ DOMAIN n.batches = 1 .. Len(m.batches) - 1
           /\ \A i \in DOMAIN n.batches :
                 i + 1 \in DOMAIN m.batches /\ n.batches[i] = m.batches[i + 1]
           /\ \A i \in DOMAIN m.batches :
                 i = 1 \/ (i - 1 \in DOMAIN n.batches /\ n.batches[i - 1] = m.batches[i])
<1> DEFINE h    == m.batches[1]
           rest == Tail(m.batches)
           less == m.rows - Cardinality(h.rows)
<1>1. /\ m.batches \in Seq(BatchType) /\ Len(m.batches) \in Nat \ {0}
      /\ 1 \in DOMAIN m.batches /\ h \in BatchType
  BY DEF Writer
<1>2. /\ rest \in Seq(BatchType) /\ Len(rest) = Len(m.batches) - 1
      /\ DOMAIN rest = 1 .. Len(m.batches) - 1
      /\ \A i \in DOMAIN rest : i + 1 \in DOMAIN m.batches /\ rest[i] = m.batches[i + 1]
  BY <1>1
<1>3. \A i \in DOMAIN m.batches :
         i = 1 \/ (i - 1 \in DOMAIN rest /\ rest[i - 1] = m.batches[i])
  <2> SUFFICES ASSUME NEW i \in DOMAIN m.batches, i # 1
               PROVE  i - 1 \in DOMAIN rest /\ rest[i - 1] = m.batches[i]
    OBVIOUS
  <2>1. i \in Nat /\ i - 1 \in 1 .. Len(m.batches) - 1 /\ (i - 1) + 1 = i
    BY <1>1
  <2> QED
    BY <1>2, <2>1
<1>4. h.rows \subseteq QueuedRows(m) /\ IsFiniteSet(h.rows) /\ Cardinality(h.rows) \in Nat
  <2>1. h.rows \subseteq QueuedRows(m)
    BY <1>1 DEF QueuedRows
  <2> HIDE DEF h
  <2> QED
    BY <2>1, FS_Subset, FS_CardinalityType DEF Counted
<1>5. h.rows \subseteq Rows
  BY <1>1 DEF BatchType
<1>6. n = [m EXCEPT !.committed = @ \cup h.rows, !.batches = rest, !.rows = less]
  BY DEF Popped
<1>7. UNION {rest[i].rows : i \in DOMAIN rest} = QueuedRows(m) \ h.rows
  <2>1. \A i \in DOMAIN rest : rest[i].rows \subseteq QueuedRows(m) /\ rest[i].rows \cap h.rows = {}
    <3> SUFFICES ASSUME NEW i \in DOMAIN rest
                 PROVE  rest[i].rows \subseteq QueuedRows(m) /\ rest[i].rows \cap h.rows = {}
      OBVIOUS
    <3>1. i + 1 \in DOMAIN m.batches /\ i + 1 # 1 /\ rest[i] = m.batches[i + 1]
      BY <1>2
    <3> QED
      BY <1>1, <3>1 DEF Apart, QueuedRows
  <2>2. \A r \in QueuedRows(m) \ h.rows : \E i \in DOMAIN rest : r \in rest[i].rows
    BY <1>3 DEF QueuedRows
  <2> QED
    BY <2>1, <2>2
<1>8. /\ IsFiniteSet(QueuedRows(m) \ h.rows)
      /\ Cardinality(QueuedRows(m) \ h.rows) = Cardinality(QueuedRows(m)) - Cardinality(h.rows)
      /\ Cardinality(QueuedRows(m)) \in Nat /\ Cardinality(QueuedRows(m) \ h.rows) \in Nat
  <2>1. QueuedRows(m) \cap h.rows = h.rows /\ IsFiniteSet(QueuedRows(m))
    BY <1>4 DEF Counted
  <2> HIDE DEF h
  <2> QED
    BY <2>1, FS_Difference, FS_CardinalityType
<1> HIDE DEF rest, h
<1>9. less = Len(m.buf) + Cardinality(QueuedRows(m) \ h.rows) /\ less \in Nat /\ less <= MaxRows
  <2>1. m.rows = Len(m.buf) + Cardinality(QueuedRows(m)) /\ m.rows <= MaxRows
    BY DEF Counted
  <2>2. Len(m.buf) \in Nat /\ MaxRows \in Nat /\ m.rows \in Nat
    BY WriterAssumption DEF Writer
  <2> QED
    BY <1>4, <1>8, <2>1, <2>2, SMTT(30)
<1> HIDE DEF less
<1>10. /\ n \in Writer /\ n.phase = m.phase /\ n.buf = m.buf /\ n.known = m.known
       /\ n.committed = m.committed \cup h.rows
       /\ n.batches = rest /\ n.rows = less /\ n.timer = m.timer
  BY <1>2, <1>5, <1>6, <1>9, ZenonT(40) DEF Writer
<1>11. CoolOK(n)
  <2>1. \A i \in DOMAIN rest : i + 1 # 1 /\ i \in Nat
    BY <1>2
  <2>2. \A i \in DOMAIN rest : ~rest[i].cooling
    BY <1>2, <2>1 DEF CoolOK
  <2>3. m.timer => m.phase = "open"
    BY DEF CoolOK
  <2> QED
    BY <1>10, <2>2, <2>3 DEF CoolOK
<1>12. Apart(n)
  <2>1. \A i, j \in DOMAIN rest : i # j => i + 1 # j + 1
    BY <1>2
  <2>2. \A i, j \in DOMAIN rest : i # j => rest[i].rows \cap rest[j].rows = {}
    BY <1>2, <2>1 DEF Apart
  <2>3. \A i \in DOMAIN rest :
          /\ rest[i].rows # {} /\ rest[i].rows \subseteq QueuedRows(m) \ h.rows
          /\ rest[i].rows \subseteq m.known \ (m.committed \cup ToSet(m.buf))
    BY <1>2, <1>7 DEF Apart
  <2>4. h.rows \subseteq m.known \ (m.committed \cup ToSet(m.buf))
    BY <1>1 DEF Apart, h
  <2>5. /\ \A i, j \in DOMAIN m.buf : m.buf[i] = m.buf[j] => i = j
        /\ ToSet(m.buf) \subseteq m.known \ m.committed
        /\ m.committed \subseteq m.known
    BY DEF Apart
  <2> QED
    BY <1>10, <2>2, <2>3, <2>4, <2>5 DEF Apart
<1>13. Counted(n)
  <2>1. QueuedRows(n) = QueuedRows(m) \ h.rows
    BY <1>7, <1>10, SMTT(30) DEF QueuedRows
  <2> QED
    BY <1>8, <1>9, <1>10, <2>1 DEF Counted
<1>14. ASSUME NEW D, NEW E, D \subseteq E, h.rows \subseteq E, Says(m, D) PROVE Says(n, E)
  <2> SUFFICES ASSUME NEW i \in DOMAIN rest
               PROVE  /\ rest[i].rows \subseteq Content(rest[i].token)
                      /\ \A r \in Content(rest[i].token) \ rest[i].rows :
                            r \in E \/ \E j \in 1 .. i - 1 : r \in rest[j].rows
    BY <1>10 DEF Says
  <2>1. /\ i + 1 \in DOMAIN m.batches /\ rest[i] = m.batches[i + 1]
        /\ i \in Nat /\ i \in 1 .. Len(m.batches) - 1
    BY <1>2
  <2>2. /\ rest[i].rows \subseteq Content(rest[i].token)
        /\ \A r \in Content(rest[i].token) \ rest[i].rows :
              r \in D \/ \E j \in 1 .. (i + 1) - 1 : r \in m.batches[j].rows
    BY <1>14, <2>1 DEF Says
  <2>3. ASSUME NEW r, NEW j \in 1 .. (i + 1) - 1, r \in m.batches[j].rows
        PROVE  r \in E \/ \E x \in 1 .. i - 1 : r \in rest[x].rows
    <3>1. CASE j = 1
      BY <1>14, <2>3, <3>1 DEF h
    <3>2. CASE j # 1
      <4>1. j \in DOMAIN m.batches /\ j - 1 \in 1 .. i - 1
        <5>1. j \in Nat /\ i \in Nat /\ 1 < j /\ j <= i /\ i <= Len(m.batches) - 1
          BY <1>1, <2>1, <3>2
        <5> QED
          BY <1>1, <5>1
      <4> QED
        BY <1>3, <2>3, <3>2, <4>1
    <3> QED
      BY <3>1, <3>2
  <2> QED
    BY <1>14, <2>2, <2>3
<1> QED
  BY <1>2, <1>3, <1>10, <1>11, <1>12, <1>13, <1>14 DEF h

(* An insert is acknowledged: the head is durable.                         *)
LEMMA InsertSucceedsStep ==
    ASSUME IndInv, InsertSucceeds
    PROVE  IndInv' /\ (Told => Told')
<1> DEFINE b    == w.batches[1]
           done == Popped(w)
<1>1. /\ w \in Writer /\ w.drain = "insert" /\ w.batches # <<>> /\ w.phase # "closed"
      /\ ~w.blocked /\ Apart(w) /\ Counted(w) /\ Len(w.buf) < BatchRows
      /\ CoolOK(w) /\ faults \in Nat /\ call \in [Calls -> CallType]
      /\ Head(w.batches) = b
  BY DEF InsertSucceeds, IndInv, Types, Drain, Queue, BusyOK
<1>2. /\ Apply(b) /\ w' = Loop(done) /\ call' = Resolved(b.waiters, done)
      /\ UNCHANGED <<late, faults, crashes>>
  BY <1>1 DEF InsertSucceeds, Popped
<1>3. /\ applied' \in [Rows -> Nat] /\ tokens' \subseteq Token
      /\ Durable \subseteq Durable'
      /\ crashes = 0 =>
            /\ Once(w, Durable', tokens', late)
            /\ \A r \in Rows : applied'[r] <= 1
            /\ Durable' \subseteq w.committed \cup b.rows
            /\ \A x \in late : x.token \in tokens'
      /\ Told => /\ b.rows \subseteq Durable'
                 /\ \A t \in tokens' : Content(t) \subseteq Durable'
  BY <1>1, <1>2, ApplyHeadParts
<1>4. /\ done \in Writer /\ done.phase = w.phase /\ done.buf = w.buf
      /\ done.committed = w.committed \cup b.rows
      /\ CoolOK(done) /\ Apart(done) /\ Counted(done)
      /\ \A i \in DOMAIN w.batches :
            i = 1 \/ (i - 1 \in DOMAIN done.batches /\ done.batches[i - 1] = w.batches[i])
      /\ Told => Says(done, Durable')
  <2>0. done = Popped(w)
    OBVIOUS
  <2> HIDE DEF done
  <2>1. /\ done \in Writer /\ done.phase = w.phase /\ done.buf = w.buf
        /\ done.committed = w.committed \cup w.batches[1].rows
        /\ CoolOK(done) /\ Apart(done) /\ Counted(done)
        /\ \A D, E : (/\ D \subseteq E /\ w.batches[1].rows \subseteq E
                      /\ Says(w, D)) => Says(done, E)
        /\ DOMAIN done.batches = 1 .. Len(w.batches) - 1
        /\ \A i \in DOMAIN done.batches :
              i + 1 \in DOMAIN w.batches /\ done.batches[i] = w.batches[i + 1]
        /\ \A i \in DOMAIN w.batches :
              i = 1 \/ (i - 1 \in DOMAIN done.batches /\ done.batches[i - 1] = w.batches[i])
    BY <1>1, <2>0, PopParts
  <2>4. ASSUME Told PROVE Says(done, Durable')
    <3>1. Durable \subseteq Durable' /\ b.rows \subseteq Durable' /\ Says(w, Durable)
      BY <1>3, <2>4 DEF Told
    <3> QED
      BY <2>1, <3>1
  <2> QED
    BY <2>1, <2>4
<1> HIDE DEF done
<1>5. PICK n : n = Loop(done)
  OBVIOUS
<1>6. /\ n \in Writer /\ Keeps(done, n) /\ KeepsWaiters(done, n)
      /\ CoolOK(n) /\ BusyOK(n) /\ n.drain # "idle" /\ n.batches = done.batches
      /\ n.phase = done.phase
  BY <1>1, <1>4, <1>5, LoopParts
<1>7. /\ Apart(n) /\ Counted(n) /\ Len(n.buf) < BatchRows
      /\ n.committed = w.committed \cup b.rows /\ n.phase # "closed"
      /\ Says(done, Durable') => Says(n, Durable')
      /\ Watched(n)
  <2>1. /\ Apart(n) /\ Counted(n) /\ (Says(done, Durable') => Says(n, Durable'))
    BY <1>4, <1>6, KeepsParts
  <2> QED
    BY <1>1, <1>4, <1>6, <2>1 DEF Keeps, Watched
<1>8. /\ call' \in [Calls -> CallType]
      /\ \A c \in Calls :
            /\ call'[c].rows = call[c].rows
            /\ call'[c].state = IF c \in b.waiters \ Waiting(done) /\ call[c].state = "waiting"
                                THEN "resolved" ELSE call[c].state
  BY <1>1, <1>2 DEF Resolved, CallType
<1>9. crashes = 0 => Once(n, Durable', tokens', late) /\ \A r \in Rows : applied'[r] <= 1
  BY <1>3, <1>7 DEF Once
<1>10. IndInv'
  BY <1>1, <1>2, <1>3, <1>5, <1>6, <1>7, <1>8, <1>9, SeenStep
<1>11. ASSUME Told PROVE Heard(n, Durable', call')
  <2>1. Heard(w, Durable, call) /\ b.rows \subseteq Durable'
    BY <1>3, <1>11 DEF Told
  <2>2. \A i \in DOMAIN done.batches : done.batches[i].waiters \subseteq Waiting(done)
    BY DEF Waiting
  <2>3. ASSUME NEW c \in Calls, call[c].state = "waiting", NEW r \in call[c].rows, r \notin Durable'
        PROVE  \E i \in DOMAIN done.batches :
                  c \in done.batches[i].waiters /\ r \in done.batches[i].rows
    <3>1. PICK i \in DOMAIN w.batches : c \in w.batches[i].waiters /\ r \in w.batches[i].rows
      BY <1>3, <2>1, <2>3 DEF Heard
    <3>2. i # 1
      BY <2>1, <2>3, <3>1
    <3> QED
      BY <1>4, <3>1, <3>2
  <2>4. ASSUME NEW c \in Calls, call[c].state = "waiting", c \notin Waiting(done)
        PROVE  call[c].rows \subseteq Durable'
    BY <2>2, <2>3, <2>4
  <2>5. ASSUME NEW c \in Calls
        PROVE  /\ call'[c].state = "resolved" => call'[c].rows \subseteq Durable'
               /\ call'[c].state = "waiting" =>
                     \A r \in call'[c].rows :
                         r \in Durable' \/ \E i \in DOMAIN n.batches :
                                              c \in n.batches[i].waiters /\ r \in n.batches[i].rows
    <3>1. CASE call[c].state = "waiting"
      BY <1>6, <1>8, <2>3, <2>4, <3>1
    <3>2. CASE call[c].state # "waiting"
      <4>1. call'[c].state = call[c].state /\ call'[c].rows = call[c].rows
        BY <1>8, <3>2
      <4>2. call[c].state = "resolved" => call[c].rows \subseteq Durable
        BY <2>1 DEF Heard
      <4> QED
        BY <1>3, <3>2, <4>1, <4>2
    <3> QED
      BY <3>1, <3>2
  <2> QED
    BY <2>5 DEF Heard
<1>12. ASSUME Told PROVE Told'
  <2>1. w.committed \cup b.rows \subseteq Durable'
    BY <1>3, <1>12 DEF Told
  <2>2. \A x \in late : Content(x.token) \ x.rows \subseteq Durable'
    BY <1>3, <1>12 DEF Told
  <2> QED
    BY <1>2, <1>3, <1>4, <1>5, <1>7, <1>11, <1>12, <2>1, <2>2 DEF Told
<1> QED
  BY <1>10, <1>12

-----------------------------------------------------------------------------
(* The theorems.                                                           *)

(* The invariant holds initially,                                          *)
LEMMA InitParts == Init => IndInv /\ Told
<1> SUFFICES ASSUME Init PROVE IndInv /\ Told
  OBVIOUS
<1> DEFINE n == [Fresh EXCEPT !.phase = "open"]
<1>1. w = n
  BY DEF Init, Fresh
<1>2. /\ w \in Writer /\ w.committed = {} /\ w.batches = <<>>
      /\ CoolOK(w) /\ BusyOK(w) /\ Watched(w)
      /\ Len(w.buf) < BatchRows /\ Apart(w) /\ Counted(w)
      /\ \A D : Says(w, D)
  <2>1. "open" \in {"open", "closing", "closed"}
    OBVIOUS
  <2> QED
    BY <1>1, <2>1, FreshParts
<1>3. /\ call \in [Calls -> CallType] /\ \A c \in Calls : call[c].state = "new"
  BY DEF Init, NewCall, CallType
<1>4. /\ applied \in [Rows -> Nat] /\ tokens = {} /\ late = {} /\ faults \in Nat /\ crashes \in Nat
      /\ \A r \in Rows : applied[r] = 0
      /\ Durable = {}
  BY DEF Init, Durable
<1>5. StoredOnce
  BY <1>4 DEF StoredOnce, Once
<1>6. Heard(w, Durable, call)
  BY <1>3 DEF Heard
<1> QED
  BY <1>2, <1>3, <1>4, <1>5, <1>6 DEF IndInv, Types, Drain, Queue, Told

(* every step preserves it,                                                *)
LEMMA NextParts ==
    ASSUME IndInv, [Next]_vars
    PROVE  IndInv' /\ (Told /\ StableKeys => Told')
<1>1. CASE \E r \in Buffered : Enqueue(r)
  BY <1>1, EnqueueStep
<1>2. CASE \E c \in Calls, k \in Keys : \E S \in Retained[k] : InsertManyNow(c, k, S)
  BY <1>2, InsertManyNowStep
<1>3. CASE InsertSucceeds
  BY <1>3, InsertSucceedsStep
<1>4. CASE InsertFails
  BY <1>4, InsertFailsStep
<1>5. CASE InsertBlocked
  BY <1>5, InsertBlockedStep
<1>6. CASE BackoffEnds
  BY <1>6, BackoffEndsStep
<1>7. CASE DrainEnds
  BY <1>7, DrainEndsStep
<1>8. CASE RetryTimer
  BY <1>8, RetryTimerStep
<1>9. CASE FlushTimer
  BY <1>9, FlushTimerStep
<1>10. CASE \E b \in late : LateApply(b)
  BY <1>10, LateApplyStep
<1>11. CASE Close
  BY <1>11, CloseStep
<1>12. CASE FinishClose
  BY <1>12, FinishCloseStep
<1>13. CASE Restart
  BY <1>13, RestartStep
<1>14. CASE UNCHANGED vars
  BY <1>14 DEF vars, IndInv, Types, Drain, Queue, StoredOnce, Durable, Told
<1> QED
  BY <1>1, <1>2, <1>3, <1>4, <1>5, <1>6, <1>7, <1>8, <1>9, <1>10, <1>11, <1>12, <1>13, <1>14
  DEF Next

(* and so it always holds: the basis of the three theorems below.          *)
THEOREM Invariance == Spec => []IndInv
<1>1. Init => IndInv
  BY InitParts
<1>2. IndInv /\ [Next]_vars => IndInv'
  BY NextParts
<1> QED
  BY <1>1, <1>2, PTL DEF Spec

(* The types, that eventWriteRows is what the buffer and the batches hold  *)
(* and never more than the limit, that a batch cools only at the head and  *)
(* under a timer, and that no head with a caller waiting is left to no one.*)
THEOREM TypeCorrect == Spec => []TypeOK
<1>1. IndInv => TypeOK
  <2> SUFFICES ASSUME IndInv PROVE TypeOK
    OBVIOUS
  <2>1. /\ w \in Writer /\ call \in [Calls -> CallType] /\ applied \in [Rows -> Nat]
        /\ CoolOK(w) /\ BusyOK(w) /\ Watched(w) /\ Apart(w) /\ Counted(w)
        /\ Len(w.buf) < BatchRows
    BY DEF IndInv, Types, Drain, Queue
  <2>2. /\ w.phase \in {"open", "closing", "closed"}
        /\ w.drain \in {"idle", "insert", "backoff", "ended"}
        /\ {w.timer, w.blocked} \subseteq BOOLEAN /\ w.buf \in Seq(Rows)
        /\ w.batches \in Seq(BatchType)
    BY <2>1 DEF Writer
  <2>3. \A i \in DOMAIN w.batches : w.batches[i].waiters \subseteq Calls
    <3>1. \A i \in DOMAIN w.batches : w.batches[i] \in BatchType
      BY <2>2
    <3> QED
      BY <3>1 DEF BatchType
  <2>4. \A c \in Calls : call[c].state \in {"new", "waiting", "resolved", "rejected", "lost"}
    BY <2>1 DEF CallType
  <2>5. NoStrandedHead
    <3>1. w.batches # <<>> => Head(w.batches) = w.batches[1]
      BY <2>2
    <3> QED
      BY <2>1, <3>1 DEF NoStrandedHead, Watched
  <2>6. /\ w.drain \in {"insert", "backoff"} => (w.batches # <<>> /\ ~w.blocked)
        /\ \A i \in DOMAIN w.batches :
              /\ w.batches[i].rows # {} /\ w.batches[i].rows \subseteq w.known
              /\ w.batches[i].cooling => (i = 1 /\ w.timer)
        /\ w.rows = Len(w.buf) + Cardinality(QueuedRows(w)) /\ w.rows <= MaxRows
        /\ \A r \in Rows : applied[r] \in Nat
    BY <2>1 DEF BusyOK, Apart, CoolOK, Counted
  <2> QED
    BY <2>1, <2>2, <2>3, <2>4, <2>5, <2>6 DEF TypeOK
<1> QED
  BY <1>1, Invariance, PTL

(* Within one process a revision is stored once, and none behind the head  *)
(* before it.                                                              *)
THEOREM OnceInOrder == Spec => []StoredOnceInOrder
<1>1. IndInv => StoredOnceInOrder
  <2> SUFFICES ASSUME IndInv, crashes = 0
               PROVE  /\ \A r \in Rows : applied[r] <= 1
                      /\ \A i \in DOMAIN w.batches \ {1} : w.batches[i].rows \cap Durable = {}
                      /\ ToSet(w.buf) \cap Durable = {}
    BY DEF StoredOnceInOrder
  <2>1. /\ w \in Writer /\ Apart(w) /\ CoolOK(w) /\ Once(w, Durable, tokens, late)
        /\ \A r \in Rows : applied[r] <= 1
    BY DEF IndInv, Types, Drain, Queue, StoredOnce
  <2>2. CASE w.phase = "closed"
    BY <2>1, <2>2 DEF CoolOK, ToSet
  <2>3. CASE w.phase # "closed"
    <3>1. Durable \subseteq w.committed \cup OnHead(w, tokens)
      BY <2>1, <2>3 DEF Once
    <3>2. w.batches # <<>> => 1 \in DOMAIN w.batches
      BY <2>1 DEF Writer
    <3>3. \A i \in DOMAIN w.batches : w.batches # <<>>
      BY <2>1 DEF Writer
    <3>4. \A i \in DOMAIN w.batches \ {1} : w.batches[i].rows \cap Durable = {}
      BY <2>1, <3>1, <3>2, <3>3 DEF Apart, OnHead
    <3>5. ToSet(w.buf) \cap Durable = {}
      BY <2>1, <3>1, <3>2 DEF Apart, OnHead
    <3> QED
      BY <2>1, <3>4, <3>5
  <2> QED
    BY <2>2, <2>3
<1> QED
  BY <1>1, Invariance, PTL

(* Under keys that always carry the same rows, which the callers are asked *)
(* for, a resolved call is durable.                                        *)
THEOREM ResolvedDurable == StableKeys => (Spec => []ResolvedIsDurable)
<1> SUFFICES ASSUME StableKeys PROVE Spec => []ResolvedIsDurable
  OBVIOUS
<1>1. Init => IndInv /\ Told
  BY InitParts
<1>2. (IndInv /\ Told) /\ [Next]_vars => (IndInv /\ Told)'
  BY NextParts
<1>3. Told => ResolvedIsDurable
  BY DEF Told, Heard, ResolvedIsDurable
<1> QED
  BY <1>1, <1>2, <1>3, PTL DEF Spec

-----------------------------------------------------------------------------
(* The fact cache.                                                         *)

(* The facts of the buckets of D, one by one, when f says how many.        *)
Units(f, D) == UNION {{b} \X (1 .. f[b]) : b \in D}

(* f counts something for each bucket of D.                                *)
CountsOn(f, D) == IsFiniteSet(D) /\ D \subseteq DOMAIN f /\ \A b \in D : f[b] \in Nat

(* What counts on a set counts on its subsets.                             *)
LEMMA CountsLess ==
    ASSUME NEW f, NEW D, CountsOn(f, D), NEW E \in SUBSET D
    PROVE  CountsOn(f, E)
  BY FS_Subset DEF CountsOn

(* There are finitely many units.                                          *)
LEMMA UnitsFinite == ASSUME NEW f, NEW D, CountsOn(f, D) PROVE IsFiniteSet(Units(f, D))
<1> DEFINE T == {{b} \X (1 .. f[b]) : b \in D}
           g == [b \in D |-> {b} \X (1 .. f[b])]
<1>1. g \in Surjection(D, T)
  BY DEF Surjection
<1>2. IsFiniteSet(T)
  <2>1. IsFiniteSet(D)
    BY DEF CountsOn
  <2> HIDE DEF g, T
  <2> QED
    BY <1>1, <2>1, FS_Surjection
<1>3. ASSUME NEW t \in T PROVE IsFiniteSet(t)
  <2>1. PICK b \in D : t = {b} \X (1 .. f[b])
    OBVIOUS
  <2>2. f[b] \in Int
    BY DEF CountsOn
  <2> DEFINE I == 1 .. f[b]
  <2>3. IsFiniteSet({b}) /\ IsFiniteSet(I)
    <3>1. IsFiniteSet({b})
      BY FS_Singleton
    <3>2. IsFiniteSet(I)
      BY <2>2, FS_Interval
    <3> QED
      BY <3>1, <3>2
  <2> HIDE DEF I
  <2>4. IsFiniteSet({b} \X I)
    BY <2>3, FS_Product
  <2> QED
    BY <2>1, <2>4 DEF I
<1> QED
  BY <1>2, <1>3, FS_UNION DEF Units

(* A bucket has as many units as f says.                                   *)
LEMMA UnitsOfOne ==
    ASSUME NEW f, NEW b, f[b] \in Nat
    PROVE  Cardinality(Units(f, {b})) = f[b]
<1> DEFINE I == 1 .. f[b]
           B == {b} \X I
<1>2. Units(f, {b}) = B
  <2> HIDE DEF B
  <2>1. UNION {B} = B
    OBVIOUS
  <2>2. Units(f, {b}) = UNION {B}
    BY DEF Units, B
  <2> QED
    BY <2>1, <2>2
<1>3. /\ IsFiniteSet({b}) /\ Cardinality({b}) = 1
      /\ IsFiniteSet(I) /\ Cardinality(I) = f[b]
  <2>1. IsFiniteSet({b}) /\ Cardinality({b}) = 1
    BY FS_Singleton
  <2>2. IsFiniteSet(I) /\ Cardinality(I) = IF 1 > f[b] THEN 0 ELSE f[b] - 1 + 1
    BY FS_Interval
  <2> QED
    BY <2>1, <2>2
<1> HIDE DEF I
<1>4. Cardinality(B) = 1 * f[b]
  BY <1>3, FS_Product
<1> HIDE DEF B
<1> QED
  BY <1>2, <1>4

(* The units of two separate sets of buckets add up.                       *)
LEMMA UnitsSplit ==
    ASSUME NEW f, NEW S, NEW T, CountsOn(f, S), CountsOn(f, T), S \cap T = {}
    PROVE  /\ Cardinality(Units(f, S)) \in Nat
           /\ Cardinality(Units(f, S \cup T)) = Cardinality(Units(f, S)) + Cardinality(Units(f, T))
<1>1. Units(f, S \cup T) = Units(f, S) \cup Units(f, T) /\ Units(f, S) \cap Units(f, T) = {}
  <2>1. \A R, u : u \in Units(f, R) <=> \E b \in R : u \in {b} \X (1 .. f[b])
    BY Zenon DEF Units
  <2>2. \A b, u : u \in {b} \X (1 .. f[b]) => u[1] = b
    OBVIOUS
  <2> QED
    BY <2>1, <2>2
<1>2. IsFiniteSet(Units(f, S)) /\ IsFiniteSet(Units(f, T))
  BY UnitsFinite
<1>3. Cardinality(Units(f, S)) \in Nat /\ Cardinality(Units(f, T)) \in Nat
  BY <1>2, FS_CardinalityType
<1>4. Cardinality(Units(f, S) \cup Units(f, T))
         = Cardinality(Units(f, S)) + Cardinality(Units(f, T)) - Cardinality({})
  BY <1>1, <1>2, FS_Union
<1>5. Cardinality({}) = 0
  BY FS_EmptySet
<1>6. Cardinality(Units(f, S \cup T))
         = Cardinality(Units(f, S)) + Cardinality(Units(f, T)) - 0
  BY <1>1, <1>4, <1>5, Zenon
<1>7. \A m, n \in Nat : m + n - 0 = m + n
  OBVIOUS
<1> QED
  BY <1>3, <1>6, <1>7, Zenon

(* The recursion of SumFunctionOnSet over the subsets of D.               *)
SumsOver(h, f, D) ==
    h = [s \in SUBSET D |->
           IF s = {} THEN 0
           ELSE f[CHOOSE x \in s : TRUE] + h[s \ {CHOOSE x \in s : TRUE}]]

(* A sum is the number of its units: two functions that obey the same      *)
(* recursion agree, since the least subset on which they differ would not  *)
(* be least.                                                               *)
LEMMA SumIsCount ==
    ASSUME NEW f, NEW D, CountsOn(f, D)
    PROVE  SumFunctionOnSet(f, D) = Cardinality(Units(f, D))
<1> DEFINE count == [s \in SUBSET D |-> Cardinality(Units(f, s))]
           first(s) == CHOOSE x \in s : TRUE
           iter == CHOOSE h : h = [s \in SUBSET D |->
                      IF s = {} THEN 0
                      ELSE f[CHOOSE x \in s : TRUE] + h[s \ {CHOOSE x \in s : TRUE}]]
<1>1. ASSUME NEW s \in SUBSET D, s # {}
      PROVE  first(s) \in s /\ s \ {first(s)} \in SUBSET D
             /\ count[s] = f[first(s)] + count[s \ {first(s)}]
  <2> DEFINE x == first(s)
  <2>1. x \in s /\ f[x] \in Nat
    BY <1>1 DEF CountsOn
  <2> HIDE DEF x
  <2>2. /\ {x} \in SUBSET D /\ s \ {x} \in SUBSET D
        /\ {x} \cap (s \ {x}) = {} /\ {x} \cup (s \ {x}) = s
    BY <2>1
  <2>3. CountsOn(f, {x}) /\ CountsOn(f, s \ {x})
    BY <2>2, CountsLess
  <2>4. Cardinality(Units(f, {x} \cup (s \ {x})))
           = Cardinality(Units(f, {x})) + Cardinality(Units(f, s \ {x}))
    BY <2>2, <2>3, UnitsSplit
  <2>5. Cardinality(Units(f, s)) = f[x] + Cardinality(Units(f, s \ {x}))
    BY <2>1, <2>2, <2>4, UnitsOfOne
  <2> QED
    BY <2>1, <2>2, <2>5 DEF x
<1>2. count[{}] = 0
  BY FS_EmptySet DEF Units
<1>3. SumsOver(count, f, D)
  <2>1. \A s \in SUBSET D : count[s] = IF s = {} THEN 0 ELSE f[first(s)] + count[s \ {first(s)}]
    BY <1>1, <1>2
  <2> HIDE DEF first
  <2>2. count = [s \in SUBSET D |->
                   IF s = {} THEN 0 ELSE f[first(s)] + count[s \ {first(s)}]]
    <3>1. count = [s \in SUBSET D |-> count[s]]
      OBVIOUS
    <3> HIDE DEF count
    <3> QED
      BY <2>1, <3>1
  <2> QED
    BY <2>2 DEF SumsOver, first
<1>4. SumsOver(iter, f, D)
  <2> HIDE DEF count
  <2> QED
    BY <1>3 DEF SumsOver
<1>5. SumFunctionOnSet(f, D) = iter[D]
  BY DEF SumFunctionOnSet, FoldFunctionOnSet, MapThenFoldSet
<1> HIDE DEF iter
<1>6. \A s \in SUBSET D : iter[s] = count[s]
  <2> DEFINE P == {s \in SUBSET D : iter[s] # count[s]}
  <2> SUFFICES ASSUME P # {} PROVE FALSE
    OBVIOUS
  <2> HIDE DEF count
  <2>1. P \subseteq FiniteSubsetsOf(D)
    BY FS_Subset DEF FiniteSubsetsOf, CountsOn
  <2>2. PICK s \in P : \A t \in P : ~(<<t, s>> \in StrictSubsetOrdering(D))
    BY <2>1, FS_StrictSubsetOrderingWellFounded, WFMin
  <2>3. s # {}
    BY <1>2, <1>4 DEF SumsOver
  <2> DEFINE t == s \ {first(s)}
  <2>4. /\ t \in SUBSET D /\ t \subseteq s /\ t # s
        /\ count[s] = f[first(s)] + count[t]
    BY <1>1, <2>3
  <2>5. iter[s] = f[first(s)] + iter[t]
    BY <1>4, <2>3 DEF SumsOver
  <2>6. t \in P
    BY <2>2, <2>4, <2>5
  <2>7. <<t, s>> \in StrictSubsetOrdering(D)
    BY <2>4 DEF StrictSubsetOrdering
  <2> QED
    BY <2>2, <2>6, <2>7
<1> QED
  BY <1>5, <1>6

-----------------------------------------------------------------------------
(* The invariant of the fact cache.                                        *)
Announced == journal \cup transit

JournalRow == [at : Nat, n : Nat, bucket : Buckets, version : Nat]

JournalOK ==
    /\ table \in [Buckets -> Nat] /\ clock \in Nat
    /\ Announced \subseteq JournalRow /\ IsFiniteSet(journal)
    /\ \A x \in Announced : x.at <= clock /\ x.version \in 1 .. table[x.bucket]
    /\ \A x \in transit : clock - Replay <= x.at
    /\ \A x, y \in Announced : x.bucket = y.bucket /\ x.version = y.version => x = y

CallsOK ==
    /\ asked \in [Readers -> Ranges \cup {None}]
    /\ chain \in Seq(Readers) /\ IsInjective(chain)
    /\ {r \in Readers : asked[r] # None} = Range(chain)
    /\ chain = <<>> => refresh = Idle

RefreshSteps == {"idle", "latest", "earliest", "relatest", "changes", "load"}

Refreshes ==
    [step : RefreshSteps, again : BOOLEAN, page : 1 .. MaxPages,
     todo : SUBSET (Buckets \X Buckets), floor : {Empty} \cup [Buckets -> Nat]]

(* What is not cached of the range is going to be loaded.                  *)
RefreshOK ==
    /\ refresh \in Refreshes
    /\ refresh.again => refresh.step \in {"changes", "load"} /\ refresh.floor \in [Buckets -> Nat]
    /\ refresh.step = "load" =>
          \A b \in Span(asked[Head(chain)]) :
              b \in DOMAIN facts \/ \E g \in refresh.todo : b \in Span(g)

CacheOK ==
    /\ DOMAIN facts \subseteq Buckets
    /\ facts = [b \in DOMAIN facts |-> facts[b]]
    /\ \A b \in DOMAIN facts : facts[b] \in 0 .. table[b]
    /\ BudgetExact

CursorOK ==
    /\ cursor \in [at : Int, n : Nat] /\ cursor.at \in -1 .. clock
    /\ cursor = NoCursor => DOMAIN facts = {} /\ refresh.step \in {"idle", "latest"}
    /\ refresh.step \in {"latest", "relatest"} => DOMAIN facts = {}

CacheBase == JournalOK /\ CallsOK /\ RefreshOK /\ CacheOK /\ CursorOK

(* Every commit a bucket misses has a row that will be read.               *)
WillRead(b) ==
    \A v \in facts[b] + 1 .. table[b] :
        \E x \in Announced : /\ x.bucket = b /\ x.version = v
                             /\ x.at >= cursor.at - Replay

(* The cursor is older than the journal: the next refresh forgets it all.  *)
Lost ==
    /\ journal # {} /\ cursor.at < clock /\ \A x \in Announced : x.at > cursor.at
    /\ refresh.step \in {"idle", "earliest"}

Traced == Lost \/ \A b \in DOMAIN facts : WillRead(b)

(* What the journal had made known is still there, and is loaded.          *)
Floored ==
    refresh.again =>
        /\ \A b \in Buckets :
              \/ refresh.floor[b] = 0
              \/ \E x \in journal : x.bucket = b /\ x.version = refresh.floor[b]
        /\ refresh.step = "load" => \A b \in DOMAIN facts : facts[b] >= refresh.floor[b]

-----------------------------------------------------------------------------
(* The budget.                                                             *)

(* What the assumption says about buckets, ranges and limits.              *)
LEMMA BucketsAre ==
    /\ IsFiniteSet(Buckets) /\ Buckets \subseteq Int /\ NBuckets \in Nat
    /\ \A S \in SUBSET Buckets : IsFiniteSet(S)
    /\ \A range \in Ranges : range \in Buckets \X Buckets
    /\ \A g \in Buckets \X Buckets : Span(g) \in SUBSET Buckets
    /\ Replay \in Nat /\ MaxPages \in Nat /\ MaxPages >= 1 /\ Limit \in Nat /\ Limit >= 1
    /\ MaxBuckets \in Nat /\ MaxFacts \in Nat
<1>1. NBuckets \in Nat
  BY FactCacheAssumption
<1>2. IsFiniteSet(Buckets)
  BY <1>1, FS_Interval DEF Buckets
<1>3. \A S \in SUBSET Buckets : IsFiniteSet(S)
  BY <1>2, FS_Subset
<1>4. \A g \in Buckets \X Buckets : Span(g) \in SUBSET Buckets
  BY <1>1 DEF Span, Buckets
<1>5. \A range \in Ranges : range \in Buckets \X Buckets
  BY FactCacheAssumption
<1>6. /\ Replay \in Nat /\ MaxPages \in Nat /\ MaxPages >= 1 /\ Limit \in Nat /\ Limit >= 1
      /\ MaxBuckets \in Nat /\ MaxFacts \in Nat
  BY FactCacheAssumption
<1>7. Buckets \subseteq Int
  BY <1>1 DEF Buckets
<1> QED
  BY <1>1, <1>2, <1>3, <1>4, <1>5, <1>6, <1>7

(* What the budget says, in units.                                         *)
LEMMA BudgetCounts ==
    ASSUME JournalOK, CacheOK
    PROVE  /\ DOMAIN weights = DOMAIN facts /\ IsFiniteSet(DOMAIN facts)
           /\ \A b \in DOMAIN facts : weights[b] = facts[b] + 1 /\ weights[b] \in Nat
           /\ CountsOn(weights, DOMAIN facts)
           /\ total = Cardinality(Units(weights, DOMAIN facts))
           /\ \A S : WeightOf(S) = Cardinality(Units(weights, S \cap DOMAIN facts))
<1>1. weights = [b \in DOMAIN facts |-> Weight(facts[b])]
  BY DEF CacheOK, BudgetExact
<1>2. /\ DOMAIN weights = DOMAIN facts
      /\ \A b \in DOMAIN facts : weights[b] = facts[b] + 1 /\ weights[b] \in Nat
  <2>1. \A b \in DOMAIN facts : facts[b] \in Nat
    BY DEF CacheOK, JournalOK
  <2>2. DOMAIN weights = DOMAIN facts
    BY <1>1
  <2>3. \A b \in DOMAIN facts : weights[b] = facts[b] + 1
    BY <1>1 DEF Weight
  <2> QED
    BY <2>1, <2>2, <2>3
<1>3. IsFiniteSet(DOMAIN facts)
  BY BucketsAre DEF CacheOK
<1>4. CountsOn(weights, DOMAIN facts)
  BY <1>2, <1>3 DEF CountsOn
<1>5. total = Cardinality(Units(weights, DOMAIN facts))
  <2>1. total = SumFunctionOnSet(weights, DOMAIN weights)
    BY DEF CacheOK, BudgetExact, SumFunction
  <2> QED
    BY <1>2, <1>4, <2>1, SumIsCount
<1>6. ASSUME NEW S PROVE WeightOf(S) = Cardinality(Units(weights, S \cap DOMAIN facts))
  <2>1. CountsOn(weights, S \cap DOMAIN facts)
    BY <1>4, CountsLess
  <2>2. WeightOf(S) = SumFunctionOnSet(weights, S \cap DOMAIN weights)
    BY DEF WeightOf
  <2> QED
    BY <1>2, <2>1, <2>2, SumIsCount
<1> QED
  BY <1>2, <1>3, <1>4, <1>5, <1>6

(* Units look at the buckets they are asked about.                         *)
LEMMA UnitsSame ==
    ASSUME NEW f, NEW g, NEW D, \A b \in D : f[b] = g[b]
    PROVE  Units(f, D) = Units(g, D)
  BY DEF Units

(* The buckets of S are forgotten.                                         *)
LEMMA ForgetKeeps ==
    ASSUME JournalOK, CacheOK, NEW S, Forget(S), table' = table
    PROVE  /\ CacheOK' /\ DOMAIN facts' = DOMAIN facts \ S
           /\ \A b \in DOMAIN facts' : facts'[b] = facts[b]
<1>1. /\ facts' = [b \in DOMAIN facts \ S |-> facts[b]]
      /\ weights' = [b \in DOMAIN weights \ S |-> weights[b]]
      /\ total' = total - WeightOf(S)
  <2>1. /\ DOMAIN facts \ (S) = DOMAIN facts \ S
        /\ facts' = Restrict(facts, DOMAIN facts \ S)
        /\ weights' = Restrict(weights, DOMAIN weights \ S)
    BY DEF Forget, Without
  <2> QED
    BY <2>1 DEF Forget, Restrict
<1>2. /\ DOMAIN facts' = DOMAIN facts \ S /\ \A b \in DOMAIN facts' : facts'[b] = facts[b]
  BY <1>1
<1>3. /\ DOMAIN weights = DOMAIN facts
      /\ \A b \in DOMAIN facts : weights[b] = facts[b] + 1 /\ weights[b] \in Nat
      /\ CountsOn(weights, DOMAIN facts)
      /\ total = Cardinality(Units(weights, DOMAIN facts))
      /\ WeightOf(S) = Cardinality(Units(weights, S \cap DOMAIN facts))
  BY BudgetCounts
<1>4. weights' = [b \in DOMAIN facts' |-> Weight(facts'[b])]
  <2>1. DOMAIN weights \ S = DOMAIN facts'
    BY <1>2, <1>3
  <2>2. \A b \in DOMAIN facts' : weights[b] = Weight(facts'[b])
    BY <1>2, <1>3 DEF Weight
  <2> QED
    BY <1>1, <2>1, <2>2
<1> DEFINE A == S \cap DOMAIN facts
           B == DOMAIN facts \ S
<1>5. A \in SUBSET DOMAIN facts /\ B \in SUBSET DOMAIN facts /\ A \cap B = {}
      /\ A \cup B = DOMAIN facts
  OBVIOUS
<1>6. CountsOn(weights, A) /\ CountsOn(weights, B)
  BY <1>3, <1>5, CountsLess
<1>7. /\ Cardinality(Units(weights, B)) \in Nat /\ Cardinality(Units(weights, A)) \in Nat
      /\ Cardinality(Units(weights, A \cup B))
            = Cardinality(Units(weights, A)) + Cardinality(Units(weights, B))
  <2>1. Cardinality(Units(weights, B)) \in Nat
    BY <1>5, <1>6, UnitsSplit
  <2>2. /\ Cardinality(Units(weights, A)) \in Nat
        /\ Cardinality(Units(weights, A \cup B))
              = Cardinality(Units(weights, A)) + Cardinality(Units(weights, B))
    BY <1>5, <1>6, UnitsSplit
  <2> QED
    BY <2>1, <2>2
<1>8. total' = Cardinality(Units(weights, B))
  BY <1>1, <1>3, <1>5, <1>7
<1>9. total' = SumFunction(weights')
  <2>1. DOMAIN weights' = B /\ \A b \in B : weights'[b] = weights[b]
    BY <1>1, <1>3
  <2>2. Units(weights', B) = Units(weights, B)
    BY <2>1, UnitsSame
  <2>3. CountsOn(weights', B)
    BY <1>6, <2>1 DEF CountsOn
  <2>4. SumFunctionOnSet(weights', B) = Cardinality(Units(weights', B))
    BY <2>3, SumIsCount
  <2>5. SumFunction(weights') = SumFunctionOnSet(weights', DOMAIN weights')
    BY DEF SumFunction
  <2> HIDE DEF B
  <2> QED
    BY <1>8, <2>1, <2>2, <2>4, <2>5
<1>10. DOMAIN facts' \subseteq Buckets /\ facts' = [b \in DOMAIN facts' |-> facts'[b]]
       /\ \A b \in DOMAIN facts' : facts'[b] \in 0 .. table'[b]
  BY <1>1, <1>2 DEF CacheOK
<1>11. BudgetExact'
  BY <1>4, <1>9 DEF BudgetExact
<1> QED
  BY <1>2, <1>10, <1>11 DEF CacheOK

(* Nothing is cached any more.                                             *)
LEMMA ClearKeeps ==
    ASSUME Clear PROVE CacheOK' /\ DOMAIN facts' = {}
<1>1. facts' = Empty /\ weights' = Empty /\ total' = 0 /\ DOMAIN Empty = {}
  BY DEF Clear, Empty
<1>2. CountsOn(Empty, {}) /\ Units(Empty, {}) = {} /\ Cardinality({}) = 0
  BY FS_EmptySet DEF CountsOn, Units
<1>3. SumFunction(Empty) = 0
  <2>1. SumFunctionOnSet(Empty, {}) = Cardinality(Units(Empty, {}))
    BY <1>2, SumIsCount
  <2> QED
    BY <1>1, <1>2, <2>1 DEF SumFunction
<1>4. weights' = [b \in DOMAIN facts' |-> Weight(facts'[b])]
  BY <1>1 DEF Empty
<1>5. facts' = [b \in DOMAIN facts' |-> facts'[b]]
  BY <1>1 DEF Empty
<1>6. BudgetExact'
  BY <1>1, <1>3, <1>4 DEF BudgetExact
<1> QED
  BY <1>1, <1>5, <1>6 DEF CacheOK

(* A range of buckets is read anew.                                        *)
LEMMA LoadKeeps ==
    ASSUME JournalOK, CacheOK, NEW span \in SUBSET Buckets, table' = table,
           facts' = Put(facts, [b \in span |-> table[b]]),
           weights' = Put(weights, [b \in span |-> Weight(table[b])]),
           total' = Recorded(span)
    PROVE  /\ CacheOK' /\ DOMAIN facts' = DOMAIN facts \cup span
           /\ \A b \in DOMAIN facts' :
                 facts'[b] = IF b \in span THEN table[b] ELSE facts[b]
<1> DEFINE D == DOMAIN facts
           fresh == [b \in span |-> Weight(table[b])]
<1>1. /\ DOMAIN weights = D /\ IsFiniteSet(D)
      /\ \A b \in D : weights[b] = facts[b] + 1 /\ weights[b] \in Nat
      /\ CountsOn(weights, D)
      /\ total = Cardinality(Units(weights, D))
      /\ WeightOf(span) = Cardinality(Units(weights, span \cap D))
  BY BudgetCounts
<1>2. /\ facts' = [b \in D \cup span |-> IF b \in span THEN table[b] ELSE facts[b]]
      /\ weights' = [b \in D \cup span |-> IF b \in span THEN fresh[b] ELSE weights[b]]
  <2>1. DOMAIN [b \in span |-> table[b]] = span /\ DOMAIN fresh = span
    OBVIOUS
  <2>2. \A b \in span : [c \in span |-> table[c]][b] = table[b]
    OBVIOUS
  <2> HIDE DEF fresh
  <2>3. weights' = [b \in D \cup span |-> IF b \in span THEN fresh[b] ELSE weights[b]]
    BY <1>1, <2>1 DEF Put, fresh
  <2> DEFINE new == [b \in span |-> table[b]]
  <2>4. facts' = [b \in D \cup span |-> IF b \in span THEN new[b] ELSE facts[b]]
    BY <2>1 DEF Put
  <2> QED
    BY <2>2, <2>3, <2>4
<1>3. /\ DOMAIN facts' = D \cup span
      /\ \A b \in DOMAIN facts' : facts'[b] = IF b \in span THEN table[b] ELSE facts[b]
  BY <1>2
<1>4. \A b \in span : table[b] \in Nat /\ fresh[b] = table[b] + 1 /\ fresh[b] \in Nat
  BY DEF JournalOK, Weight
<1> DEFINE A == span \cap D
           B == D \ span
<1>5. A \in SUBSET D /\ B \in SUBSET D /\ A \cap B = {} /\ B \cap A = {} /\ A \cup B = D
      /\ B \cap span = {} /\ span \cap B = {} /\ B \cup span = D \cup span
  OBVIOUS
<1>6. CountsOn(weights, A) /\ CountsOn(weights, B)
  BY <1>1, <1>5, CountsLess
<1>7. CountsOn(fresh, span) /\ FreshWeight(span) = Cardinality(Units(fresh, span))
  <2>1. CountsOn(fresh, span)
    BY <1>4, BucketsAre DEF CountsOn
  <2>2. FreshWeight(span) = SumFunctionOnSet(fresh, span)
    BY DEF FreshWeight, SumFunction
  <2> HIDE DEF fresh
  <2> QED
    BY <2>1, <2>2, SumIsCount
<1>8. \A b \in B : weights'[b] = weights[b]
  BY <1>2
<1>9. \A b \in span : weights'[b] = fresh[b]
  BY <1>2
<1>10. DOMAIN weights' = B \cup span
  BY <1>2
<1> HIDE DEF fresh, A, B
<1>11. CountsOn(weights', B) /\ CountsOn(weights', span)
  BY <1>4, <1>6, <1>7, <1>8, <1>9, <1>10 DEF CountsOn
<1>12. CountsOn(weights', B \cup span)
  <2>1. IsFiniteSet(B \cup span)
    BY <1>11, FS_Union DEF CountsOn
  <2> QED
    BY <1>11, <2>1 DEF CountsOn
<1>13. /\ Units(weights', B) = Units(weights, B)
       /\ Units(weights', span) = Units(fresh, span)
  <2>1. Units(weights', B) = Units(weights, B)
    BY <1>8, UnitsSame
  <2>2. Units(weights', span) = Units(fresh, span)
    BY <1>9, UnitsSame
  <2> QED
    BY <2>1, <2>2
<1>14. /\ Cardinality(Units(weights, A)) \in Nat
       /\ Cardinality(Units(weights, A \cup B))
             = Cardinality(Units(weights, A)) + Cardinality(Units(weights, B))
  BY <1>5, <1>6, UnitsSplit
<1>15. /\ Cardinality(Units(weights', B)) \in Nat
       /\ Cardinality(Units(weights', B \cup span))
             = Cardinality(Units(weights', B)) + Cardinality(Units(weights', span))
  BY <1>5, <1>11, UnitsSplit
<1>16. Cardinality(Units(weights', span)) \in Nat
  BY <1>5, <1>11, UnitsSplit
<1>17. total' = Cardinality(Units(weights', B \cup span))
  <2>1. total' = total - WeightOf(span) + FreshWeight(span)
    BY DEF Recorded
  <2>2. total = Cardinality(Units(weights, A)) + Cardinality(Units(weights, B))
    BY <1>1, <1>5, <1>14
  <2>3. WeightOf(span) = Cardinality(Units(weights, A))
    BY <1>1 DEF A
  <2>4. FreshWeight(span) = Cardinality(Units(weights', span))
    BY <1>7, <1>13
  <2>5. Cardinality(Units(weights, B)) = Cardinality(Units(weights', B))
    BY <1>13
  <2> DEFINE a == Cardinality(Units(weights, A))
             c == Cardinality(Units(weights', B))
             d == Cardinality(Units(weights', span))
  <2>6. total' = (a + c) - a + d /\ a \in Nat /\ c \in Nat /\ d \in Nat
    BY <1>14, <1>15, <1>16, <2>1, <2>2, <2>3, <2>4, <2>5
  <2>7. Cardinality(Units(weights', B \cup span)) = c + d
    BY <1>15
  <2> HIDE DEF a, c, d
  <2> QED
    BY <2>6, <2>7
<1>18. total' = SumFunction(weights')
  <2>1. SumFunctionOnSet(weights', B \cup span) = Cardinality(Units(weights', B \cup span))
    BY <1>12, SumIsCount
  <2> QED
    BY <1>10, <1>17, <2>1 DEF SumFunction
<1>19. weights' = [b \in DOMAIN facts' |-> Weight(facts'[b])]
  <2>1. \A b \in D \cup span : (IF b \in span THEN fresh[b] ELSE weights[b]) = facts'[b] + 1
    BY <1>1, <1>3, <1>4
  <2> QED
    BY <1>2, <1>3, <2>1 DEF Weight
<1>20. BudgetExact'
  BY <1>18, <1>19 DEF BudgetExact
<1>21. facts' = [b \in DOMAIN facts' |-> facts'[b]]
  <2> DEFINE val == [b \in D \cup span |-> IF b \in span THEN table[b] ELSE facts[b]]
  <2>1. val = [b \in DOMAIN val |-> val[b]]
    OBVIOUS
  <2> QED
    BY <1>2, <2>1
<1>22. \A b \in DOMAIN facts' : b \in Buckets /\ facts'[b] \in 0 .. table'[b]
  BY <1>3, <1>4 DEF CacheOK
<1> QED
  BY <1>3, <1>20, <1>21, <1>22 DEF CacheOK

-----------------------------------------------------------------------------
(* The calls of read.                                                      *)

(* The refresh that has not begun.                                         *)
LEMMA IdleRefreshes ==
    /\ Idle \in Refreshes /\ Idle.step = "idle" /\ ~Idle.again /\ Idle.todo = {}
    /\ Idle.page = 1
  BY BucketsAre DEF Idle, Refreshes, RefreshSteps

(* A refresh is over, answered or not.                                     *)
LEMMA EndKeeps ==
    ASSUME CallsOK, NEW r \in Readers, Reading(r), End(r)
    PROVE  CallsOK' /\ RefreshOK' /\ refresh' = Idle
<1>1. /\ chain \in Seq(Readers) /\ chain # <<>> /\ r = Head(chain)
      /\ asked' = [asked EXCEPT ![r] = None] /\ chain' = Tail(chain) /\ refresh' = Idle
  BY DEF CallsOK, Reading, End
<1>2. /\ Len(chain) \in Nat /\ Len(chain) >= 1 /\ r = chain[1]
      /\ Tail(chain) \in Seq(Readers)
      /\ DOMAIN Tail(chain) = 1 .. Len(chain) - 1 /\ DOMAIN chain = 1 .. Len(chain)
      /\ \A i \in 1 .. Len(chain) - 1 : Tail(chain)[i] = chain[i + 1]
  BY <1>1
<1>3. \A i, k \in 1 .. Len(chain) : chain[i] = chain[k] => i = k
  BY <1>2 DEF CallsOK, IsInjective
<1>4. IsInjective(chain')
  <2> SUFFICES ASSUME NEW i \in 1 .. Len(chain) - 1, NEW k \in 1 .. Len(chain) - 1,
                      Tail(chain)[i] = Tail(chain)[k]
               PROVE  i = k
    BY <1>1, <1>2 DEF IsInjective
  <2>1. i + 1 \in 1 .. Len(chain) /\ k + 1 \in 1 .. Len(chain)
    BY <1>2
  <2> QED
    BY <1>2, <1>3, <2>1
<1>5. Range(chain') = Range(chain) \ {r}
  <2>1. ASSUME NEW x \in Range(chain') PROVE x \in Range(chain) /\ x # r
    <3>1. PICK i \in 1 .. Len(chain) - 1 : x = Tail(chain)[i]
      BY <1>1, <1>2 DEF Range
    <3>2. i + 1 \in 1 .. Len(chain) /\ i + 1 # 1 /\ 1 \in 1 .. Len(chain)
      BY <1>2
    <3> QED
      BY <1>2, <1>3, <3>1, <3>2 DEF Range
  <2>2. ASSUME NEW x \in Range(chain), x # r PROVE x \in Range(chain')
    <3>1. PICK i \in 1 .. Len(chain) : x = chain[i]
      BY <1>2 DEF Range
    <3>2. i - 1 \in 1 .. Len(chain) - 1 /\ i - 1 + 1 = i
      BY <1>2, <2>2, <3>1
    <3>3. x = Tail(chain)[i - 1]
      BY <1>2, <3>1, <3>2
    <3> QED
      BY <1>1, <1>2, <3>2, <3>3 DEF Range
  <2> QED
    BY <2>1, <2>2
<1>6. /\ asked' \in [Readers -> Ranges \cup {None}]
      /\ {q \in Readers : asked'[q] # None} = {q \in Readers : asked[q] # None} \ {r}
  BY <1>1 DEF CallsOK
<1>7. CallsOK'
  BY <1>1, <1>2, <1>4, <1>5, <1>6 DEF CallsOK
<1> QED
  BY <1>1, <1>7, IdleRefreshes DEF RefreshOK

(* A reader joins the chain.                                               *)
LEMMA CallKeeps ==
    ASSUME CacheBase, NEW r \in Readers, NEW range \in Ranges, Call(r, range)
    PROVE  CacheBase'
<1>1. /\ asked[r] = None /\ asked' = [asked EXCEPT ![r] = range]
      /\ chain' = Append(chain, r) /\ refresh' = refresh
      /\ UNCHANGED <<clickhouse, cache>>
  BY DEF Call
<1>2. /\ CallsOK /\ chain \in Seq(Readers) /\ Len(chain) \in Nat
      /\ DOMAIN chain = 1 .. Len(chain)
      /\ Append(chain, r) \in Seq(Readers) /\ Append(chain, r) # <<>>
      /\ DOMAIN Append(chain, r) = 1 .. Len(chain) + 1
      /\ \A i \in 1 .. Len(chain) : Append(chain, r)[i] = chain[i]
      /\ Append(chain, r)[Len(chain) + 1] = r
  BY DEF CacheBase, CallsOK
<1>3. r \notin Range(chain)
  BY <1>1 DEF CacheBase, CallsOK
<1>4. IsInjective(chain')
  <2>1. \A i, k \in 1 .. Len(chain) : chain[i] = chain[k] => i = k
    BY <1>2 DEF CallsOK, IsInjective
  <2>2. \A i \in 1 .. Len(chain) : chain[i] # r
    BY <1>2, <1>3 DEF Range
  <2>3. \A i \in 1 .. Len(chain) + 1 : i \in 1 .. Len(chain) \/ i = Len(chain) + 1
    BY <1>2
  <2> SUFFICES ASSUME NEW i \in 1 .. Len(chain) + 1, NEW k \in 1 .. Len(chain) + 1,
                      Append(chain, r)[i] = Append(chain, r)[k]
               PROVE  i = k
    BY <1>1, <1>2 DEF IsInjective
  <2> QED
    BY <1>2, <2>1, <2>2, <2>3
<1>5. Range(chain') = Range(chain) \cup {r}
  <2>1. \A x : x \in Range(chain') <=> \E i \in 1 .. Len(chain) + 1 : x = Append(chain, r)[i]
    BY <1>1, <1>2 DEF Range
  <2>2. \A x : x \in Range(chain) <=> \E i \in 1 .. Len(chain) : x = chain[i]
    BY <1>2 DEF Range
  <2>3. \A i \in 1 .. Len(chain) + 1 : i \in 1 .. Len(chain) \/ i = Len(chain) + 1
    BY <1>2
  <2>4. \A i \in 1 .. Len(chain) : i \in 1 .. Len(chain) + 1
    BY <1>2
  <2>5. Len(chain) + 1 \in 1 .. Len(chain) + 1
    BY <1>2
  <2> QED
    BY <1>2, <2>1, <2>2, <2>3, <2>4, <2>5
<1>6. range # None
  BY BucketsAre, FactCacheAssumption DEF None
<1>7. /\ asked' \in [Readers -> Ranges \cup {None}]
      /\ {q \in Readers : asked'[q] # None} = {q \in Readers : asked[q] # None} \cup {r}
  BY <1>1, <1>2, <1>6 DEF CallsOK
<1>8. CallsOK'
  BY <1>1, <1>2, <1>4, <1>5, <1>7 DEF CallsOK
<1>9. RefreshOK'
  <2>1. CASE refresh.step = "load"
    <3>1. chain # <<>>
      BY <2>1, IdleRefreshes DEF CacheBase, CallsOK
    <3>2. Head(chain') = Head(chain) /\ Head(chain) \in Range(chain) /\ Head(chain) \in Readers
      BY <1>1, <1>2, <3>1 DEF Range
    <3>3. asked'[Head(chain')] = asked[Head(chain)]
      BY <1>1, <1>3, <3>2 DEF CacheBase, CallsOK
    <3> QED
      BY <1>1, <3>3 DEF CacheBase, RefreshOK, cache
  <2>2. CASE refresh.step # "load"
    BY <1>1, <2>2 DEF CacheBase, RefreshOK
  <2> QED
    BY <2>1, <2>2
<1>10. JournalOK' /\ CacheOK' /\ CursorOK'
  BY <1>1 DEF CacheBase, JournalOK, Announced, CacheOK, BudgetExact, CursorOK, clickhouse, cache
<1> QED
  BY <1>8, <1>9, <1>10 DEF CacheBase

(* A refresh goes on, with the cache as it is.                             *)
LEMMA GoesOn ==
    ASSUME CacheBase, NEW r \in Readers, Reading(r),
           UNCHANGED <<clickhouse, chain, asked>>, refresh' \in Refreshes,
           refresh'.again => refresh'.step \in {"changes", "load"}
                             /\ refresh'.floor \in [Buckets -> Nat]
    PROVE  /\ JournalOK' /\ CallsOK'
           /\ refresh'.step # "load" => RefreshOK'
<1>1. JournalOK'
  BY DEF CacheBase, JournalOK, Announced, clickhouse
<1>2. chain # <<>>
  BY DEF Reading
<1>3. CallsOK'
  BY <1>2 DEF CacheBase, CallsOK
<1> QED
  BY <1>1, <1>3 DEF RefreshOK

(* A refresh begins.                                                       *)
LEMMA BeginKeeps ==
    ASSUME CacheBase, NEW r \in Readers, Begin(r) PROVE CacheBase'
<1> PICK s : s = IF cursor = NoCursor THEN "latest" ELSE "earliest"
  OBVIOUS
<1>1. /\ Reading(r) /\ refresh.step = "idle" /\ refresh' = [Idle EXCEPT !.step = s]
      /\ UNCHANGED <<clickhouse, cache, chain, asked>>
  BY DEF Begin
<1>2. refresh' \in Refreshes /\ ~refresh'.again /\ refresh'.step = s
  BY <1>1, IdleRefreshes DEF Refreshes, RefreshSteps
<1>3. JournalOK' /\ CallsOK' /\ RefreshOK'
  BY <1>1, <1>2, GoesOn
<1>4. CacheOK'
  BY <1>1 DEF CacheBase, CacheOK, BudgetExact, cache, clickhouse
<1>5. CursorOK'
  BY <1>1, <1>2 DEF CacheBase, CursorOK, cache, clickhouse
<1> QED
  BY <1>3, <1>4, <1>5 DEF CacheBase

(* The journal still reaches back to the cursor.                           *)
LEMMA ContinuousKeeps ==
    ASSUME CacheBase, NEW r \in Readers, Continuous(r) PROVE CacheBase'
<1>1. /\ Reading(r) /\ refresh.step = "earliest"
      /\ refresh' = [refresh EXCEPT !.step = "changes"]
      /\ UNCHANGED <<clickhouse, cache, chain, asked>>
  BY DEF Continuous
<1>2. refresh' \in Refreshes /\ ~refresh'.again /\ refresh'.step = "changes"
  BY <1>1 DEF CacheBase, RefreshOK, Refreshes, RefreshSteps
<1>3. JournalOK' /\ CallsOK' /\ RefreshOK'
  BY <1>1, <1>2, GoesOn
<1>4. CacheOK'
  BY <1>1 DEF CacheBase, CacheOK, BudgetExact, cache, clickhouse
<1>5. CursorOK'
  BY <1>1, <1>2 DEF CacheBase, CursorOK, cache, clickhouse
<1> QED
  BY <1>3, <1>4, <1>5 DEF CacheBase

(* The journal begins after the cursor: nothing is cached any more.        *)
LEMMA GapKeeps ==
    ASSUME CacheBase, NEW r \in Readers, Gap(r) PROVE CacheBase' /\ DOMAIN facts' = {}
<1>1. /\ Reading(r) /\ refresh.step = "earliest" /\ Clear
      /\ refresh' = [refresh EXCEPT !.step = "relatest"]
      /\ UNCHANGED <<clickhouse, cursor, chain, asked>>
  BY DEF Gap
<1>2. refresh' \in Refreshes /\ ~refresh'.again /\ refresh'.step = "relatest"
  BY <1>1 DEF CacheBase, RefreshOK, Refreshes, RefreshSteps
<1>3. JournalOK' /\ CallsOK' /\ RefreshOK'
  BY <1>1, <1>2, GoesOn
<1>4. CacheOK' /\ DOMAIN facts' = {}
  BY <1>1, ClearKeeps
<1>5. CursorOK'
  BY <1>1, <1>2, <1>4 DEF CacheBase, CursorOK, clickhouse
<1> QED
  BY <1>3, <1>4, <1>5 DEF CacheBase

-----------------------------------------------------------------------------
(* Least and greatest numbers.                                             *)

(* A set of numbers has a least one.                                       *)
LEMMA LeastExists ==
    ASSUME NEW S \in SUBSET Nat, S # {}
    PROVE  \E x \in S : \A y \in S : x <= y
<1>1. PICK x \in S : \A y \in S : ~(<<y, x>> \in OpToRel(<, Nat))
  BY NatLessThanWellFounded, WFMin
<1>2. \A y \in S : x <= y
  <2> SUFFICES ASSUME NEW y \in S, y < x PROVE FALSE
    OBVIOUS
  <2>1. <<y, x>> \in {ss \in Nat \X Nat : ss[1] < ss[2]}
    OBVIOUS
  <2> QED
    BY <1>1, <2>1 DEF OpToRel
<1> QED
  BY <1>2

(* A bounded set of numbers has a greatest one.                            *)
LEMMA GreatestExists ==
    ASSUME NEW k \in Nat, NEW S \in SUBSET (0 .. k), S # {}
    PROVE  \E x \in S : \A y \in S : y <= x
<1> DEFINE T == {d \in 0 .. k : k - d \in S}
<1>1. PICK x \in S : TRUE
  OBVIOUS
<1>2. k - x \in 0 .. k /\ k - (k - x) = x
  OBVIOUS
<1>3. k - x \in T
  BY <1>2
<1>4. T \in SUBSET Nat
  OBVIOUS
<1>5. PICK d \in T : \A e \in T : d <= e
  <2> HIDE DEF T
  <2> QED
    BY <1>3, <1>4, LeastExists
<1>6. ASSUME NEW y \in S PROVE y <= k - d
  <2>1. k - y \in 0 .. k /\ k - (k - y) = y
    OBVIOUS
  <2>2. k - y \in T
    BY <2>1
  <2>3. d <= k - y
    BY <1>5, <2>2
  <2>4. d \in 0 .. k /\ y \in 0 .. k
    BY <1>5
  <2> QED
    BY <2>3, <2>4
<1>7. k - d \in S
  BY <1>5
<1> QED
  BY <1>6, <1>7

(* What the journal has made known of a bucket is in the journal.          *)
LEMMA VisibleFacts ==
    ASSUME JournalOK
    PROVE  /\ Visible \in [Buckets -> Nat]
           /\ \A b \in Buckets :
                 Visible[b] = 0 \/ \E x \in journal : x.bucket = b /\ x.version = Visible[b]
<1> SUFFICES ASSUME NEW b \in Buckets
             PROVE  /\ Visible[b] \in Nat
                    /\ Visible[b] = 0
                          \/ \E x \in journal : x.bucket = b /\ x.version = Visible[b]
  BY DEF Visible
<1> DEFINE S == {0} \cup {x.version : x \in {y \in journal : y.bucket = b}}
<1>1. Visible[b] = Max(S)
  BY DEF Visible
<1>2. \A v \in S : v = 0 \/ \E x \in journal : x.bucket = b /\ x.version = v
  OBVIOUS
<1>3. table[b] \in Nat /\ \A v \in S : v \in 0 .. table[b]
  BY DEF JournalOK, Announced
<1>4. 0 \in S
  OBVIOUS
<1> HIDE DEF S
<1>5. \E v \in S : \A y \in S : y <= v
  BY <1>3, <1>4, GreatestExists
<1>6. Max(S) \in S
  BY <1>3, <1>5 DEF Max
<1> QED
  BY <1>1, <1>2, <1>3, <1>6

(* A run of numbers around one of them.                                    *)
RunOf(M, l, h) ==
    /\ l \in M /\ h \in M /\ l <= h /\ l - 1 \notin M /\ h + 1 \notin M
    /\ \A y \in l .. h : y \in M

(* Every number of a bounded set is in a run of it.                        *)
LEMMA RunAround ==
    ASSUME NEW k \in Nat, NEW M \in SUBSET (0 .. k), NEW b \in M
    PROVE  \E l \in M : \E h \in M : l <= b /\ b <= h /\ RunOf(M, l, h)
<1> DEFINE Lo == {x \in M : x <= b /\ \A y \in x .. b : y \in M}
           Hi == {x \in M : b <= x /\ \A y \in b .. x : y \in M}
<1>1. b \in Int /\ \A x \in M : x \in Nat /\ x \in 0 .. k
  OBVIOUS
<1>2. \A y \in b .. b : y = b
  BY <1>1
<1>3. b \in Lo /\ b \in Hi
  BY <1>1, <1>2
<1>4. Lo \in SUBSET Nat /\ Hi \in SUBSET (0 .. k)
  BY <1>1
<1>5. /\ \A x : x \in Lo <=> x \in M /\ x <= b /\ \A y \in x .. b : y \in M
      /\ \A x : x \in Hi <=> x \in M /\ b <= x /\ \A y \in b .. x : y \in M
  OBVIOUS
<1> HIDE DEF Lo, Hi
<1>6. PICK l \in Lo : \A x \in Lo : l <= x
  BY <1>3, <1>4, LeastExists
<1>7. PICK h \in Hi : \A x \in Hi : x <= h
  BY <1>3, <1>4, GreatestExists
<1>8. l \in Int /\ h \in Int /\ l <= b /\ b <= h /\ l \in M /\ h \in M
      /\ (\A y \in l .. b : y \in M) /\ \A y \in b .. h : y \in M
  <2>1. l \in M /\ l <= b /\ \A y \in l .. b : y \in M
    BY <1>5, <1>6
  <2>2. h \in M /\ b <= h /\ \A y \in b .. h : y \in M
    BY <1>5, <1>7
  <2> QED
    BY <1>1, <2>1, <2>2
<1>9. \A x \in l .. h : x \in M
  <2>1. \A x \in l .. h : x \in l .. b \/ x \in b .. h
    BY <1>1, <1>8
  <2> QED
    BY <1>8, <2>1
<1>10. l - 1 \notin M
  <2> SUFFICES ASSUME l - 1 \in M PROVE FALSE
    OBVIOUS
  <2> DEFINE p == l - 1
  <2>1. \A y \in p .. b : y = p \/ y \in l .. b
    BY <1>1, <1>8
  <2>2. p \in M /\ p <= b /\ ~(l <= p)
    BY <1>1, <1>8
  <2> HIDE DEF p
  <2>3. \A y \in p .. b : y \in M
    BY <1>8, <2>1, <2>2
  <2>4. p \in Lo
    BY <1>5, <2>2, <2>3
  <2> QED
    BY <1>6, <2>2, <2>4
<1>11. h + 1 \notin M
  <2> SUFFICES ASSUME h + 1 \in M PROVE FALSE
    OBVIOUS
  <2> DEFINE p == h + 1
  <2>1. \A y \in b .. p : y = p \/ y \in b .. h
    BY <1>1, <1>8
  <2>2. p \in M /\ b <= p /\ ~(p <= h)
    BY <1>1, <1>8
  <2> HIDE DEF p
  <2>3. \A y \in b .. p : y \in M
    BY <1>8, <2>1, <2>2
  <2>4. p \in Hi
    BY <1>5, <2>2, <2>3
  <2> QED
    BY <1>7, <2>2, <2>4
<1>12. l <= h
  BY <1>1, <1>8
<1>13. RunOf(M, l, h)
  BY <1>8, <1>9, <1>10, <1>11, <1>12 DEF RunOf
<1> QED
  BY <1>8, <1>13

(* Every bucket of a range that is not cached is in one of the reads.      *)
LEMMA GapAround ==
    ASSUME NEW range \in Buckets \X Buckets, NEW cached, NEW b \in Span(range) \ cached
    PROVE  \E g \in Gaps(range, cached) : b \in Span(g)
<1> DEFINE M == Span(range) \ cached
<1>1. NBuckets \in Nat /\ b \in M /\ b \in Int /\ M \in SUBSET (0 .. NBuckets)
  BY BucketsAre DEF Buckets, Span
<1>2. \A g : g \in Gaps(range, cached) <=>
                /\ g \in M \X M
                /\ g[1] .. g[2] \subseteq M
                /\ g[1] - 1 \notin M /\ g[2] + 1 \notin M
                /\ g[1] <= g[2]
  BY DEF Gaps
<1> HIDE DEF M
<1>3. PICK l \in M : \E h \in M : l <= b /\ b <= h /\ RunOf(M, l, h)
  BY <1>1, RunAround
<1>4. PICK h \in M : l <= b /\ b <= h /\ RunOf(M, l, h)
  BY <1>3
<1> DEFINE e == <<l, h>>
<1>5. e \in M \X M /\ e[1] = l /\ e[2] = h
  OBVIOUS
<1> HIDE DEF e
<1>6. l .. h \subseteq M
  BY <1>4 DEF RunOf
<1>7. e \in Gaps(range, cached)
  BY <1>2, <1>4, <1>5, <1>6 DEF RunOf
<1>8. l \in Int /\ h \in Int
  BY <1>1
<1>9. b \in Span(e)
  BY <1>1, <1>4, <1>5, <1>8 DEF Span
<1> QED
  BY <1>7, <1>9

(* The reads are ranges, and cover what is not cached.                     *)
LEMMA ReadsCover ==
    ASSUME NEW range \in Ranges, NEW cached
    PROVE  /\ Reads(range, cached) \in SUBSET (Buckets \X Buckets)
           /\ \A b \in Span(range) :
                 b \in cached \/ \E g \in Reads(range, cached) : b \in Span(g)
<1>1. range \in Buckets \X Buckets /\ Span(range) \in SUBSET Buckets
  BY BucketsAre
<1> DEFINE gaps == Gaps(range, cached)
           lows == {g[1] : g \in gaps}
           highs == {g[2] : g \in gaps}
<1>2. gaps \in SUBSET (Buckets \X Buckets)
  BY <1>1 DEF Gaps
<1>3. \A b \in Span(range) \ cached : \E g \in gaps : b \in Span(g)
  BY <1>1, GapAround
<1>4. CASE Cardinality(gaps) <= 2
  <2>1. Reads(range, cached) = gaps
    BY <1>4 DEF Reads
  <2> HIDE DEF gaps
  <2> QED
    BY <1>2, <1>3, <2>1
<1>5. CASE ~(Cardinality(gaps) <= 2)
  <2>1. Reads(range, cached) = {<<Min(lows), Max(highs)>>}
    BY <1>5 DEF Reads
  <2>2. gaps # {}
    <3>1. Cardinality({}) = 0 /\ 0 <= 2
      BY FS_EmptySet
    <3> QED
      BY <1>5, <3>1
  <2> HIDE DEF gaps
  <2>3. lows \in SUBSET Buckets /\ highs \in SUBSET Buckets /\ lows # {} /\ highs # {}
        /\ \A g \in gaps : g[1] \in lows /\ g[2] \in highs
    BY <1>2, <2>2
  <2> HIDE DEF lows, highs
  <2>4. Buckets \in SUBSET Nat /\ Buckets \in SUBSET (0 .. NBuckets) /\ NBuckets \in Nat
    BY BucketsAre DEF Buckets
  <2>5. Min(lows) \in lows /\ \A x \in lows : Min(lows) <= x
    <3>1. \E x \in lows : \A y \in lows : x <= y
      BY <2>3, <2>4, LeastExists
    <3> QED
      BY <3>1 DEF Min
  <2>6. Max(highs) \in highs /\ \A x \in highs : x <= Max(highs)
    <3>1. \E x \in highs : \A y \in highs : y <= x
      BY <2>3, <2>4, GreatestExists
    <3>2. highs \in SUBSET Nat
      BY <2>3, <2>4
    <3> QED
      BY <3>1, <3>2 DEF Max
  <2> DEFINE e == <<Min(lows), Max(highs)>>
  <2>7. e \in Buckets \X Buckets /\ e[1] = Min(lows) /\ e[2] = Max(highs)
    BY <2>3, <2>5, <2>6
  <2>8. ASSUME NEW b \in Span(range) \ cached PROVE b \in Span(e)
    <3>1. PICK g \in gaps : b \in Span(g)
      BY <1>3
    <3>2. g[1] \in lows /\ g[2] \in highs
      BY <2>3
    <3>3. e[1] <= g[1] /\ g[2] <= e[2] /\ e[1] \in lows /\ e[2] \in highs
      BY <2>5, <2>6, <2>7, <3>2
    <3>4. g[1] \in Int /\ g[2] \in Int /\ e[1] \in Int /\ e[2] \in Int
      <4>1. g[1] \in Buckets /\ g[2] \in Buckets /\ e[1] \in Buckets /\ e[2] \in Buckets
        BY <2>3, <3>2, <3>3
      <4>2. \A x \in Buckets : x \in Int
        BY BucketsAre
      <4> QED
        BY <4>1, <4>2, Zenon
    <3> HIDE DEF e
    <3> QED
      BY <3>1, <3>3, <3>4 DEF Span
  <2> HIDE DEF e
  <2> QED
    BY <2>1, <2>7, <2>8 DEF e
<1> QED
  BY <1>4, <1>5

-----------------------------------------------------------------------------
(* The steps of a refresh keep the basic invariant.                        *)

(* The refresh that runs is of a call that waits.                          *)
LEMMA ReadingAsks ==
    ASSUME CallsOK, NEW r, Reading(r)
    PROVE  asked[r] \in Ranges /\ r = Head(chain) /\ chain # <<>> /\ r \in Readers
<1>1. chain # <<>> /\ r = Head(chain) /\ chain \in Seq(Readers)
  BY DEF CallsOK, Reading
<1>2. 1 \in DOMAIN chain /\ r = chain[1] /\ r \in Readers
  BY <1>1
<1>3. r \in Range(chain)
  BY <1>2 DEF Range
<1>4. asked[r] # None /\ asked[r] \in Ranges \cup {None}
  BY <1>2, <1>3 DEF CallsOK
<1> QED
  BY <1>1, <1>2, <1>4

(* A refresh starts to load what is not cached.                            *)
LEMMA LoadsMissing ==
    ASSUME CallsOK, NEW r, Reading(r), UNCHANGED <<chain, asked>>,
           refresh' \in Refreshes, refresh'.step = "load",
           refresh'.again => refresh'.floor \in [Buckets -> Nat],
           refresh'.todo = Reads(asked[r], DOMAIN facts')
    PROVE  RefreshOK'
<1>1. asked[r] \in Ranges /\ r = Head(chain)
  BY ReadingAsks
<1>2. \A b \in Span(asked[r]) :
          b \in DOMAIN facts' \/ \E g \in refresh'.todo : b \in Span(g)
  BY <1>1, ReadsCover
<1> QED
  BY <1>1, <1>2 DEF RefreshOK

(* The journal read up to a row.                                           *)
LEMMA RowPosition ==
    ASSUME JournalOK, NEW row \in journal
    PROVE  /\ Position(row) \in [at : Int, n : Nat]
           /\ Position(row).at = row.at /\ Position(row).n = row.n
           /\ row.at \in 0 .. clock /\ row.n \in Nat /\ clock \in Nat /\ row.bucket \in Buckets
<1>1. row \in JournalRow /\ row.at <= clock /\ clock \in Nat
  BY DEF JournalOK, Announced
<1> QED
  BY <1>1 DEF JournalRow, Position

(* The cursor is set to the end of the journal.                            *)
LEMMA LatestKeeps ==
    ASSUME CacheBase, NEW r \in Readers, Latest(r)
    PROVE  CacheBase' /\ DOMAIN facts' = {} /\ ~refresh'.again
<1> PICK todo : todo = Reads(asked[r], DOMAIN facts)
  OBVIOUS
<1>1. /\ Reading(r) /\ refresh.step \in {"latest", "relatest"}
      /\ UNCHANGED <<clickhouse, facts, weights, total, chain, asked>>
      /\ refresh' = IF refresh.step = "latest"
                    THEN [refresh EXCEPT !.step = "load", !.todo = todo]
                    ELSE [refresh EXCEPT !.step = "changes"]
  BY DEF Latest
<1>2. cursor' = AtStart \/ \E row \in journal : cursor' = Position(row)
  BY DEF Latest
<1>3. refresh \in Refreshes /\ ~refresh.again /\ DOMAIN facts = {} /\ clock \in Nat
      /\ CallsOK /\ JournalOK
  BY <1>1 DEF CacheBase, RefreshOK, CursorOK, JournalOK
<1>4. todo \in SUBSET (Buckets \X Buckets)
  BY <1>1, <1>3, ReadingAsks, ReadsCover
<1>5. /\ refresh' \in Refreshes /\ ~refresh'.again /\ refresh'.step \in {"load", "changes"}
      /\ refresh'.step = "load" => refresh'.todo = todo
  BY <1>1, <1>3, <1>4 DEF Refreshes, RefreshSteps
<1>6. JournalOK' /\ CallsOK'
  BY <1>1, <1>5, GoesOn
<1>7. RefreshOK'
  <2>1. CASE refresh'.step = "load"
    BY <1>1, <1>3, <1>5, <2>1, LoadsMissing
  <2>2. CASE refresh'.step # "load"
    BY <1>1, <1>5, <2>2, GoesOn
  <2> QED
    BY <2>1, <2>2
<1>8. CacheOK'
  BY <1>1 DEF CacheBase, CacheOK, BudgetExact, clickhouse
<1>9. cursor' \in [at : Int, n : Nat] /\ cursor'.at \in 0 .. clock
  <2>1. CASE cursor' = AtStart
    BY <1>3, <2>1 DEF AtStart
  <2>2. CASE \E row \in journal : cursor' = Position(row)
    BY <1>3, <2>2, RowPosition
  <2> QED
    BY <1>2, <2>1, <2>2
<1>10. CursorOK'
  BY <1>1, <1>3, <1>5, <1>9 DEF CursorOK, NoCursor, clickhouse
<1> QED
  BY <1>1, <1>3, <1>5, <1>6, <1>7, <1>8, <1>10 DEF CacheBase

(* The cursor stays or moves to a row of the page, that no other is later  *)
(* than and that is not before the cursor.                                 *)
Moved(page) ==
    \E row \in page : /\ cursor' = Position(row) /\ ~Later(cursor, row)
                      /\ \A x \in page : ~Later(x, row)

(* The two outcomes of a page for the cursor.                              *)
LEMMA AdvancedIs ==
    ASSUME NEW page, cursor' = Advanced(page)
    PROVE  \/ Moved(page)
           \/ cursor' = cursor /\ \A row \in page :
                 Later(cursor, row) \/ \E x \in page : Later(x, row)
<1> DEFINE last == {row \in page : ~Later(cursor, row) /\ \A x \in page : ~Later(x, row)}
<1>1. Advanced(page) = IF last = {} THEN cursor ELSE Position(CHOOSE row \in last : TRUE)
  BY DEF Advanced
<1>2. CASE last = {}
  BY <1>1, <1>2
<1>3. CASE last # {}
  <2>1. (CHOOSE row \in last : TRUE) \in last
    BY <1>3
  <2>2. PICK row \in last : cursor' = Position(row)
    BY <1>1, <1>3, <2>1
  <2> QED
    BY <2>2 DEF Moved
<1> QED
  BY <1>2, <1>3

(* A page is of the journal.                                               *)
LEMMA PageRows ==
    Page(Window) \subseteq Window /\ Window \subseteq journal
  BY DEF Page, Window

(* A page is applied.                                                      *)
LEMMA ChangesKeeps ==
    ASSUME CacheBase, NEW r \in Readers, Changes(r) PROVE CacheBase'
<1> PICK page : page = Page(Window)
  OBVIOUS
<1> PICK more \in BOOLEAN : more <=> page # Window
  OBVIOUS
<1> PICK S : S = {row.bucket : row \in page}
  OBVIOUS
<1> PICK todo : todo = Reads(asked[r], DOMAIN facts \ S)
  OBVIOUS
<1>1. /\ Reading(r) /\ refresh.step = "changes" /\ Forget(S)
      /\ cursor' = Advanced(page) /\ UNCHANGED clickhouse
  BY DEF Changes
<1>2. \/ /\ refresh' = [refresh EXCEPT !.step = "load", !.page = 1, !.todo = todo]
         /\ UNCHANGED <<chain, asked>>
      \/ /\ refresh.page < MaxPages
         /\ refresh' = [refresh EXCEPT !.page = refresh.page + 1]
         /\ UNCHANGED <<chain, asked>>
      \/ End(r)
  BY DEF Changes, NextPage
<1>3. /\ JournalOK /\ CallsOK /\ RefreshOK /\ CacheOK /\ CursorOK
      /\ refresh \in Refreshes /\ table' = table /\ page \subseteq journal
      /\ refresh.again => refresh.floor \in [Buckets -> Nat]
  BY <1>1, PageRows DEF CacheBase, RefreshOK, clickhouse
<1>4. CacheOK' /\ DOMAIN facts' = DOMAIN facts \ S
  BY <1>1, <1>3, ForgetKeeps
<1>5. JournalOK'
  BY <1>1, <1>3 DEF JournalOK, Announced, clickhouse
<1>6. /\ CallsOK' /\ RefreshOK'
      /\ refresh'.step \notin {"latest", "relatest"}
  <2>1. CASE /\ refresh' = [refresh EXCEPT !.step = "load", !.page = 1, !.todo = todo]
             /\ UNCHANGED <<chain, asked>>
    <3>1. todo \in SUBSET (Buckets \X Buckets)
      BY <1>1, <1>3, ReadingAsks, ReadsCover
    <3>2. /\ refresh' \in Refreshes /\ refresh'.step = "load" /\ refresh'.todo = todo
          /\ refresh'.again = refresh.again /\ refresh'.floor = refresh.floor
      <4>1. 1 \in 1 .. MaxPages
        BY BucketsAre
      <4> QED
        BY <1>3, <2>1, <3>1, <4>1 DEF Refreshes, RefreshSteps
    <3>3. RefreshOK'
      BY <1>1, <1>3, <1>4, <2>1, <3>2, LoadsMissing
    <3>4. CallsOK'
      BY <1>1, <1>3, <2>1 DEF CallsOK, Reading
    <3> QED
      BY <3>2, <3>3, <3>4
  <2>2. CASE /\ refresh.page < MaxPages
             /\ refresh' = [refresh EXCEPT !.page = refresh.page + 1]
             /\ UNCHANGED <<chain, asked>>
    <3>1. refresh.page + 1 \in 1 .. MaxPages
      BY <1>3, <2>2, BucketsAre DEF Refreshes
    <3>2. /\ refresh' \in Refreshes /\ refresh'.step = "changes"
          /\ refresh'.again = refresh.again /\ refresh'.floor = refresh.floor
      BY <1>1, <1>3, <2>2, <3>1 DEF Refreshes, RefreshSteps
    <3>3. RefreshOK'
      BY <1>3, <3>2 DEF RefreshOK
    <3>4. CallsOK'
      BY <1>1, <1>3, <2>2 DEF CallsOK, Reading
    <3> QED
      BY <3>2, <3>3, <3>4
  <2>3. CASE End(r)
    BY <1>1, <1>3, <2>3, EndKeeps, IdleRefreshes
  <2> QED
    BY <1>2, <2>1, <2>2, <2>3
<1>7. cursor' \in [at : Int, n : Nat] /\ cursor'.at \in -1 .. clock /\ cursor' # NoCursor
  <2>1. cursor # NoCursor /\ cursor \in [at : Int, n : Nat] /\ cursor.at \in -1 .. clock
    BY <1>1, <1>3 DEF CursorOK
  <2>2. CASE Moved(page)
    <3>1. PICK row \in journal : cursor' = Position(row)
      BY <1>3, <2>2 DEF Moved
    <3>2. cursor' \in [at : Int, n : Nat] /\ cursor'.at \in 0 .. clock /\ clock \in Nat
      BY <1>3, <3>1, RowPosition
    <3> QED
      BY <3>2 DEF NoCursor
  <2> QED
    BY <1>1, <2>1, <2>2, AdvancedIs
<1>8. CursorOK'
  BY <1>1, <1>6, <1>7 DEF CursorOK, clickhouse
<1> QED
  BY <1>4, <1>5, <1>6, <1>8 DEF CacheBase

(* A range is loaded.                                                      *)
LEMMA LoadStepKeeps ==
    ASSUME CacheBase, NEW r \in Readers, NEW gap \in refresh.todo, Load(r, gap)
    PROVE  /\ CacheBase' /\ refresh'.step = "load" /\ Span(gap) \in SUBSET Buckets
           /\ refresh'.again = refresh.again /\ refresh'.floor = refresh.floor
           /\ DOMAIN facts' = DOMAIN facts \cup Span(gap)
           /\ \A b \in DOMAIN facts' :
                 facts'[b] = IF b \in Span(gap) THEN table[b] ELSE facts[b]
<1> PICK span : span = Span(gap)
  OBVIOUS
<1> PICK rest : rest = refresh.todo \ {gap}
  OBVIOUS
<1>1. /\ Reading(r) /\ refresh.step = "load"
      /\ facts' = Put(facts, [b \in span |-> table[b]])
      /\ weights' = Put(weights, [b \in span |-> Weight(table[b])])
      /\ total' = Recorded(span)
      /\ refresh' = [refresh EXCEPT !.todo = rest]
      /\ UNCHANGED <<clickhouse, cursor, chain, asked>>
  BY DEF Load
<1>2. /\ JournalOK /\ CallsOK /\ RefreshOK /\ CacheOK /\ CursorOK
      /\ refresh \in Refreshes /\ table' = table
      /\ refresh.again => refresh.floor \in [Buckets -> Nat]
  BY <1>1 DEF CacheBase, RefreshOK, clickhouse
<1>3. gap \in Buckets \X Buckets
  BY <1>2 DEF Refreshes
<1>4. span \in SUBSET Buckets
  BY <1>3, BucketsAre
<1>5. /\ CacheOK' /\ DOMAIN facts' = DOMAIN facts \cup span
      /\ \A b \in DOMAIN facts' : facts'[b] = IF b \in span THEN table[b] ELSE facts[b]
  BY <1>1, <1>2, <1>4, LoadKeeps
<1>6. /\ refresh' \in Refreshes /\ refresh'.step = "load" /\ refresh'.todo = rest
      /\ refresh'.again = refresh.again /\ refresh'.floor = refresh.floor
  BY <1>1, <1>2 DEF Refreshes, RefreshSteps
<1>7. JournalOK' /\ CallsOK'
  BY <1>1, <1>2 DEF JournalOK, Announced, clickhouse, CallsOK, Reading
<1>8. RefreshOK'
  <2>1. \A b \in Span(asked[Head(chain)]) :
            b \in DOMAIN facts \/ \E g \in refresh.todo : b \in Span(g)
    BY <1>1, <1>2 DEF RefreshOK
  <2>2. \A b \in Span(asked[Head(chain)]) :
            b \in DOMAIN facts' \/ \E g \in refresh'.todo : b \in Span(g)
    BY <1>5, <1>6, <2>1
  <2> QED
    BY <1>1, <1>2, <1>6, <2>2 DEF RefreshOK
<1>9. CursorOK'
  BY <1>1, <1>2, <1>6 DEF CursorOK, clickhouse
<1> QED
  BY <1>4, <1>5, <1>6, <1>7, <1>8, <1>9 DEF CacheBase

(* The first load is over.                                                 *)
LEMMA RecheckKeeps ==
    ASSUME CacheBase, NEW r \in Readers, Recheck(r)
    PROVE  /\ CacheBase' /\ refresh'.step = "changes" /\ refresh'.again
           /\ refresh'.floor = Visible
<1> PICK floor : floor = Visible
  OBVIOUS
<1>1. /\ Reading(r) /\ refresh.step = "load"
      /\ refresh' = [refresh EXCEPT !.step = "changes", !.again = TRUE, !.floor = floor]
      /\ UNCHANGED <<clickhouse, cache, chain, asked>>
  BY DEF Recheck
<1>2. floor \in [Buckets -> Nat] /\ refresh \in Refreshes
  BY VisibleFacts DEF CacheBase, RefreshOK
<1>3. /\ refresh' \in Refreshes /\ refresh'.again /\ refresh'.step = "changes"
      /\ refresh'.floor = floor
  BY <1>1, <1>2 DEF Refreshes, RefreshSteps
<1>4. JournalOK' /\ CallsOK' /\ RefreshOK'
  BY <1>1, <1>2, <1>3, GoesOn
<1>5. CacheOK'
  BY <1>1 DEF CacheBase, CacheOK, BudgetExact, cache, clickhouse
<1>6. CursorOK'
  BY <1>1, <1>3 DEF CacheBase, CursorOK, cache, clickhouse
<1> QED
  BY <1>3, <1>4, <1>5, <1>6 DEF CacheBase

(* The buckets left at the end of a read.                                  *)
LEMMA AnswerKeeps ==
    ASSUME CacheBase, NEW r \in Readers, Answer(r)
    PROVE  /\ CacheBase' /\ refresh' = Idle /\ DOMAIN facts' \subseteq DOMAIN facts
           /\ \A b \in DOMAIN facts' : facts'[b] = facts[b]
<1>1. /\ Reading(r) /\ refresh.step = "load" /\ End(r)
      /\ UNCHANGED <<clickhouse, cursor>>
      /\ (\E P : Forget(P)) \/ Clear
  BY DEF Answer
<1>2. /\ JournalOK /\ CallsOK /\ CacheOK /\ CursorOK /\ table' = table
  BY <1>1 DEF CacheBase, clickhouse
<1>3. CallsOK' /\ RefreshOK' /\ refresh' = Idle
  BY <1>1, <1>2, EndKeeps
<1>4. /\ CacheOK' /\ DOMAIN facts' \subseteq DOMAIN facts
      /\ \A b \in DOMAIN facts' : facts'[b] = facts[b]
  <2>1. CASE Clear
    BY <2>1, ClearKeeps
  <2>2. CASE \E P : Forget(P)
    <3>1. PICK P : Forget(P)
      BY <2>2
    <3> QED
      BY <1>2, <3>1, ForgetKeeps
  <2> QED
    BY <1>1, <2>1, <2>2
<1>5. JournalOK'
  BY <1>1, <1>2 DEF JournalOK, Announced, clickhouse
<1>6. CursorOK'
  BY <1>1, <1>2, <1>3, <1>4, IdleRefreshes DEF CursorOK, clickhouse
<1> QED
  BY <1>3, <1>4, <1>5, <1>6 DEF CacheBase

(* A query fails, the cache stays.                                         *)
LEMMA QueryFailsKeeps ==
    ASSUME CacheBase, NEW r \in Readers, QueryFails(r)
    PROVE  CacheBase' /\ refresh' = Idle /\ UNCHANGED <<clickhouse, cache>>
<1>1. /\ Reading(r) /\ End(r) /\ UNCHANGED <<clickhouse, cache>>
  BY DEF QueryFails
<1>2. /\ JournalOK /\ CallsOK /\ CacheOK /\ CursorOK
  BY DEF CacheBase
<1>3. CallsOK' /\ RefreshOK' /\ refresh' = Idle
  BY <1>1, <1>2, EndKeeps
<1>4. JournalOK' /\ CacheOK'
  BY <1>1, <1>2 DEF JournalOK, Announced, CacheOK, BudgetExact, clickhouse, cache
<1>5. CursorOK'
  BY <1>1, <1>2, <1>3, IdleRefreshes DEF CursorOK, clickhouse, cache
<1> QED
  BY <1>1, <1>3, <1>4, <1>5 DEF CacheBase

-----------------------------------------------------------------------------
(* The steps of ClickHouse keep the basic invariant.                       *)

(* The refresh, the calls and the cache are as they were.                  *)
LEMMA CacheApart ==
    ASSUME CacheBase, UNCHANGED <<cache, chain, refresh, asked>>
    PROVE  CallsOK' /\ RefreshOK'
  BY DEF CacheBase, CallsOK, RefreshOK, cache

(* The commits are a number.                                               *)
LEMMA CommitsNat == ASSUME JournalOK PROVE Commits \in Nat
<1>1. DOMAIN table = Buckets /\ \A b \in Buckets : table[b] \in Nat
  BY DEF JournalOK
<1>2. CountsOn(table, Buckets)
  BY <1>1, BucketsAre DEF CountsOn
<1>3. SumFunctionOnSet(table, Buckets) = Cardinality(Units(table, Buckets))
  BY <1>2, SumIsCount
<1>4. IsFiniteSet(Units(table, Buckets))
  BY <1>2, UnitsFinite
<1>5. Cardinality(Units(table, Buckets)) \in Nat
  BY <1>4, FS_CardinalityType
<1> QED
  BY <1>1, <1>3, <1>5 DEF Commits, SumFunction

(* A commit, with the row that announces it.                               *)
LEMMA CommitKeeps ==
    ASSUME CacheBase, NEW b \in Busy, Commit(b)
    PROVE  /\ CacheBase' /\ Announced \subseteq Announced'
           /\ \E x \in Announced' : /\ x.bucket = b /\ x.version = table[b] + 1
                                    /\ x.at = clock
           /\ table' = [table EXCEPT ![b] = @ + 1] /\ b \in Buckets
<1> PICK row : row = [at |-> clock, n |-> Commits + 1, bucket |-> b, version |-> table[b] + 1]
  OBVIOUS
<1>1. /\ table' = [table EXCEPT ![b] = @ + 1] /\ transit' = transit \cup {row}
      /\ UNCHANGED <<clock, journal, cache, chain, refresh, asked>>
  BY DEF Commit
<1>2. JournalOK /\ CacheOK /\ CursorOK /\ b \in Buckets
  BY FactCacheAssumption DEF CacheBase
<1>3. /\ row \in JournalRow /\ row.at = clock /\ row.bucket = b /\ row.version = table[b] + 1
      /\ table[b] \in Nat /\ clock \in Nat
  BY <1>2, CommitsNat DEF JournalOK, JournalRow
<1>4. /\ table' \in [Buckets -> Nat] /\ table'[b] = table[b] + 1
      /\ \A c \in Buckets : c # b => table'[c] = table[c]
  BY <1>1, <1>2, <1>3 DEF JournalOK
<1>5. Announced' = Announced \cup {row} /\ Announced \subseteq JournalRow
  BY <1>1, <1>2 DEF Announced, JournalOK
<1>6. ASSUME NEW x \in Announced
      PROVE  /\ x.at <= clock /\ x.bucket \in Buckets /\ x.version \in 1 .. table[x.bucket]
             /\ x.version \in 1 .. table'[x.bucket]
             /\ x.bucket = b => x.version # table[b] + 1
  <2>1. x \in JournalRow /\ x.at <= clock /\ x.version \in 1 .. table[x.bucket]
    BY <1>2, <1>5 DEF JournalOK
  <2>2. x.bucket \in Buckets /\ x.version \in Nat
    BY <2>1 DEF JournalRow
  <2>3. CASE x.bucket = b
    BY <1>3, <1>4, <2>1, <2>2, <2>3
  <2>4. CASE x.bucket # b
    BY <1>4, <2>1, <2>2, <2>4
  <2> QED
    BY <2>3, <2>4
<1>7. JournalOK'
  <2>1. \A x \in Announced' : x.at <= clock' /\ x.version \in 1 .. table'[x.bucket]
    BY <1>1, <1>3, <1>4, <1>5, <1>6
  <2>2. \A x \in transit' : clock' - Replay <= x.at
    BY <1>1, <1>2, <1>3, BucketsAre DEF JournalOK
  <2>3. \A x, y \in Announced' : x.bucket = y.bucket /\ x.version = y.version => x = y
    BY <1>2, <1>3, <1>5, <1>6 DEF JournalOK
  <2>4. /\ table' \in [Buckets -> Nat] /\ clock' \in Nat /\ Announced' \subseteq JournalRow
        /\ IsFiniteSet(journal')
    BY <1>1, <1>2, <1>3, <1>4, <1>5 DEF JournalOK
  <2> QED
    BY <2>1, <2>2, <2>3, <2>4 DEF JournalOK
<1>8. CallsOK' /\ RefreshOK'
  BY <1>1, CacheApart
<1>9. CacheOK'
  <2>1. facts' = facts /\ BudgetExact' /\ DOMAIN facts \subseteq Buckets
        /\ facts = [c \in DOMAIN facts |-> facts[c]]
    BY <1>1, <1>2 DEF cache, CacheOK, BudgetExact
  <2>2. ASSUME NEW c \in DOMAIN facts PROVE facts[c] \in 0 .. table'[c]
    <3>1. facts[c] \in 0 .. table[c] /\ c \in Buckets
      BY <1>2, <2>1 DEF CacheOK
    <3> QED
      BY <1>3, <1>4, <3>1
  <2> QED
    BY <2>1, <2>2 DEF CacheOK
<1>10. CursorOK'
  BY <1>1, <1>2 DEF CursorOK, cache
<1> QED
  BY <1>1, <1>2, <1>3, <1>5, <1>7, <1>8, <1>9, <1>10 DEF CacheBase

(* A row becomes visible.                                                  *)
LEMMA JournalKeeps ==
    ASSUME CacheBase, NEW row \in transit, Journal(row)
    PROVE  CacheBase' /\ Announced' = Announced
<1>1. /\ transit' = transit \ {row} /\ journal' = journal \cup {row}
      /\ UNCHANGED <<table, clock, cache, chain, refresh, asked>>
  BY DEF Journal
<1>2. JournalOK /\ CacheOK /\ CursorOK
  BY DEF CacheBase
<1>3. Announced' = Announced
  BY <1>1 DEF Announced
<1>4. IsFiniteSet(journal')
  BY <1>1, <1>2, FS_AddElement DEF JournalOK
<1>5. JournalOK'
  BY <1>1, <1>2, <1>3, <1>4 DEF JournalOK
<1>6. CallsOK' /\ RefreshOK'
  BY <1>1, CacheApart
<1>7. CacheOK' /\ CursorOK'
  BY <1>1, <1>2 DEF CacheOK, BudgetExact, CursorOK, cache
<1> QED
  BY <1>3, <1>5, <1>6, <1>7 DEF CacheBase

(* Time passes, but not past what is not visible yet.                      *)
LEMMA TickKeeps ==
    ASSUME CacheBase, Tick
    PROVE  /\ CacheBase' /\ clock' = clock + 1
           /\ UNCHANGED <<table, journal, transit, cache, refresh>>
<1>1. /\ clock' = clock + 1 /\ \A x \in transit : clock + 1 - x.at <= Replay
      /\ UNCHANGED <<table, journal, transit, cache, chain, refresh, asked>>
  BY DEF Tick
<1>2. JournalOK /\ CacheOK /\ CursorOK /\ clock \in Nat /\ Replay \in Nat
  BY BucketsAre DEF CacheBase, JournalOK
<1>3. Announced' = Announced /\ \A x \in Announced : x.at \in Nat
  BY <1>1, <1>2 DEF Announced, JournalOK, JournalRow
<1>4. \A x \in Announced : x.at <= clock'
  BY <1>1, <1>2, <1>3 DEF JournalOK
<1>5. \A x \in transit : clock' - Replay <= x.at
  BY <1>1, <1>2, <1>3 DEF Announced
<1>6. JournalOK'
  BY <1>1, <1>2, <1>3, <1>4, <1>5 DEF JournalOK
<1>7. CallsOK' /\ RefreshOK'
  BY <1>1, CacheApart
<1>8. CacheOK' /\ CursorOK'
  BY <1>1, <1>2 DEF CacheOK, BudgetExact, CursorOK, cache
<1> QED
  BY <1>1, <1>6, <1>7, <1>8 DEF CacheBase

(* Rows are dropped.                                                       *)
LEMMA ExpireKeeps ==
    ASSUME CacheBase, NEW time \in 0 .. MaxClock, Expire(time)
    PROVE  CacheBase' /\ journal' = {row \in journal : row.at > time}
<1>1. /\ journal' = {row \in journal : row.at > time}
      /\ UNCHANGED <<table, clock, transit, cache, chain, refresh, asked>>
  BY DEF Expire
<1>2. JournalOK /\ CacheOK /\ CursorOK
  BY DEF CacheBase
<1>3. IsFiniteSet(journal')
  BY <1>1, <1>2, FS_Subset DEF JournalOK
<1>4. Announced' \subseteq Announced
  BY <1>1 DEF Announced
<1>5. JournalOK'
  BY <1>1, <1>2, <1>3, <1>4 DEF JournalOK
<1>6. CallsOK' /\ RefreshOK'
  BY <1>1, CacheApart
<1>7. CacheOK' /\ CursorOK'
  BY <1>1, <1>2 DEF CacheOK, BudgetExact, CursorOK, cache
<1> QED
  BY <1>1, <1>5, <1>6, <1>7 DEF CacheBase

-----------------------------------------------------------------------------
(* The basic invariant is inductive.                                       *)

(* The invariant holds at the start.                                       *)
LEMMA CacheInitBase == CacheInit => CacheBase /\ Traced /\ Floored
<1> SUFFICES ASSUME CacheInit PROVE CacheBase /\ Traced /\ Floored
  OBVIOUS
<1>1. /\ table = [b \in Buckets |-> 0] /\ clock = 1 /\ journal = {} /\ transit = {}
      /\ facts = Empty /\ weights = Empty /\ total = 0 /\ cursor = NoCursor
      /\ chain = <<>> /\ refresh = Idle /\ asked = [r \in Readers |-> None]
  BY DEF CacheInit
<1>2. JournalOK
  <2>1. IsFiniteSet(journal) /\ Announced = {}
    BY <1>1, FS_EmptySet DEF Announced
  <2> QED
    BY <1>1, <2>1 DEF JournalOK
<1>3. CallsOK
  <2>1. Range(chain) = {} /\ IsInjective(chain) /\ chain \in Seq(Readers)
    BY <1>1 DEF Range, IsInjective
  <2> QED
    BY <1>1, <2>1 DEF CallsOK
<1>4. RefreshOK
  BY <1>1, IdleRefreshes DEF RefreshOK
<1>5. DOMAIN facts = {} /\ facts = [b \in DOMAIN facts |-> facts[b]]
  BY <1>1 DEF Empty
<1>6. CacheOK
  <2>1. SumFunction(Empty) = 0
    <3>1. CountsOn(Empty, {}) /\ Units(Empty, {}) = {} /\ Cardinality({}) = 0
      BY FS_EmptySet DEF CountsOn, Units
    <3>2. SumFunctionOnSet(Empty, {}) = Cardinality(Units(Empty, {}))
      BY <3>1, SumIsCount
    <3> QED
      BY <3>1, <3>2 DEF SumFunction, Empty
  <2>2. weights = [b \in DOMAIN facts |-> Weight(facts[b])]
    BY <1>1 DEF Empty
  <2> QED
    BY <1>1, <1>5, <2>1, <2>2 DEF CacheOK, BudgetExact
<1>7. CursorOK
  BY <1>1, <1>5, IdleRefreshes DEF CursorOK, NoCursor
<1>8. Traced /\ Floored
  BY <1>1, <1>5, IdleRefreshes DEF Traced, Floored
<1> QED
  BY <1>2, <1>3, <1>4, <1>6, <1>7, <1>8 DEF CacheBase

(* Nothing happens.                                                        *)
LEMMA StutterKeeps ==
    ASSUME CacheBase, UNCHANGED cacheVars PROVE CacheBase'
<1>1. UNCHANGED <<table, clock, journal, transit, cache, chain, refresh, asked>>
  BY DEF cacheVars, clickhouse
<1>2. JournalOK' /\ CacheOK' /\ CursorOK'
  BY <1>1 DEF CacheBase, JournalOK, Announced, CacheOK, BudgetExact, CursorOK, cache
<1> QED
  BY <1>1, <1>2, CacheApart DEF CacheBase

(* Every step keeps the basic invariant.                                   *)
LEMMA BaseKept == CacheBase /\ [CacheNext]_cacheVars => CacheBase'
<1> SUFFICES ASSUME CacheBase, [CacheNext]_cacheVars PROVE CacheBase'
  OBVIOUS
<1>1. ASSUME NEW b \in Busy, Commit(b) PROVE CacheBase'
  BY <1>1, CommitKeeps
<1>2. ASSUME NEW row \in transit, Journal(row) PROVE CacheBase'
  BY <1>2, JournalKeeps
<1>3. CASE Tick
  BY <1>3, TickKeeps
<1>4. ASSUME NEW time \in 0 .. MaxClock, Expire(time) PROVE CacheBase'
  BY <1>4, ExpireKeeps
<1>5. ASSUME NEW r \in Readers, NEW range \in Ranges, Call(r, range) PROVE CacheBase'
  BY <1>5, CallKeeps
<1>6. ASSUME NEW r \in Readers, Refresh(r) PROVE CacheBase'
  <2>1. CASE Begin(r)
    BY <2>1, BeginKeeps
  <2>2. CASE Latest(r)
    BY <2>2, LatestKeeps
  <2>3. CASE Continuous(r)
    BY <2>3, ContinuousKeeps
  <2>4. CASE Gap(r)
    BY <2>4, GapKeeps
  <2>5. CASE Changes(r)
    BY <2>5, ChangesKeeps
  <2>6. ASSUME NEW gap \in refresh.todo, Load(r, gap) PROVE CacheBase'
    BY <2>6, LoadStepKeeps
  <2>7. CASE Recheck(r)
    BY <2>7, RecheckKeeps
  <2>8. CASE Answer(r)
    BY <2>8, AnswerKeeps
  <2> QED
    BY <1>6, <2>1, <2>2, <2>3, <2>4, <2>5, <2>6, <2>7, <2>8 DEF Refresh
<1>7. ASSUME NEW r \in Readers, QueryFails(r) PROVE CacheBase'
  BY <1>7, QueryFailsKeeps
<1>8. CASE UNCHANGED cacheVars
  BY <1>8, StutterKeeps
<1> QED
  BY <1>1, <1>2, <1>3, <1>4, <1>5, <1>6, <1>7, <1>8 DEF CacheNext

(* The basic invariant implies the type invariant.                         *)
LEMMA BaseGivesType == CacheBase => CacheTypeOK
<1> SUFFICES ASSUME CacheBase PROVE CacheTypeOK
  OBVIOUS
<1>1. /\ \A b \in Buckets : table[b] \in Nat
      /\ DOMAIN facts \subseteq Buckets /\ BudgetExact
      /\ cursor.at \in -1 .. clock
      /\ refresh.page \in 1 .. MaxPages /\ refresh.step \in RefreshSteps
  BY DEF CacheBase, JournalOK, CacheOK, CursorOK, RefreshOK, Refreshes
<1> QED
  BY <1>1 DEF CacheTypeOK, CacheBase, CallsOK, RefreshSteps

(* Type correctness: the budget weighs exactly what is cached, the calls   *)
(* that wait are the chain, and the cursor is not ahead of the clock.      *)
THEOREM CacheTypeCorrect == CacheSpec => []CacheTypeOK
<1>1. CacheInit => CacheBase
  BY CacheInitBase
<1> QED
  BY <1>1, BaseKept, BaseGivesType, PTL DEF CacheSpec

-----------------------------------------------------------------------------
(* A page of the journal.                                                  *)

(* What is left of the window is not before the rows of the page.          *)
LEMMA PageIsEarliest ==
    ASSUME JournalOK, NEW row \in Page(Window), NEW x \in Window \ Page(Window)
    PROVE  row.at <= x.at
<1> DEFINE W == Window
           before(y) == {z \in W : Later(y, z)}
<1>1. W \subseteq journal /\ row \in W /\ IsFiniteSet(W)
  BY PageRows, FS_Subset DEF JournalOK
<1>2. \A z \in W : z.at \in Int /\ z.n \in Int
  BY <1>1 DEF JournalOK, Announced, JournalRow
<1>3. row \in {y \in W : Cardinality({z \in W : Later(y, z)}) < Limit}
      /\ x \notin {y \in W : Cardinality({z \in W : Later(y, z)}) < Limit}
  BY DEF Page
<1>4. Cardinality(before(row)) < Limit /\ ~(Cardinality(before(x)) < Limit)
  BY <1>3
<1> SUFFICES ASSUME ~(row.at <= x.at) PROVE FALSE
  OBVIOUS
<1>5. before(x) \subseteq before(row)
  BY <1>1, <1>2 DEF Later
<1>6. IsFiniteSet(before(row))
  BY <1>1, FS_Subset
<1> HIDE DEF before, W
<1>7. /\ IsFiniteSet(before(x)) /\ Cardinality(before(x)) <= Cardinality(before(row))
  BY <1>5, <1>6, FS_Subset
<1>8. Cardinality(before(x)) \in Nat /\ Cardinality(before(row)) \in Nat
  BY <1>6, <1>7, FS_CardinalityType
<1> QED
  BY <1>4, <1>7, <1>8, BucketsAre

-----------------------------------------------------------------------------
(* What the cache misses is traced, when the journal keeps its window.     *)

AllWillRead == \A b \in DOMAIN facts : WillRead(b)

(* A bucket that keeps its facts keeps its rows.                           *)
LEMMA StillWillRead ==
    ASSUME NEW b, WillRead(b), facts'[b] = facts[b], table'[b] = table[b],
           \A x \in Announced : x.at >= cursor.at - Replay =>
               x \in Announced' /\ x.at >= cursor'.at - Replay
    PROVE  WillRead(b)'
  BY DEF WillRead

(* The cache and the table are as they were, and no row is dropped.        *)
LEMMA TracedApart ==
    ASSUME AllWillRead, facts' = facts, table' = table, cursor' = cursor,
           Announced \subseteq Announced'
    PROVE  AllWillRead'
  BY StillWillRead DEF AllWillRead

(* A refresh begins with a cursor, or with nothing cached.                 *)
LEMMA TracedBegin ==
    ASSUME CacheBase, Traced, NEW r \in Readers, Begin(r) PROVE Traced'
<1> PICK s : s = IF cursor = NoCursor THEN "latest" ELSE "earliest"
  OBVIOUS
<1>1. /\ refresh' = [Idle EXCEPT !.step = s] /\ UNCHANGED <<clickhouse, cache>>
  BY DEF Begin
<1>2. Announced' = Announced /\ refresh'.step = s
  BY <1>1, IdleRefreshes DEF Announced, clickhouse, Refreshes
<1>3. CASE AllWillRead
  <2>1. AllWillRead'
    BY <1>1, <1>2, <1>3, TracedApart DEF clickhouse, cache
  <2> QED
    BY <2>1 DEF Traced, AllWillRead
<1>4. CASE Lost /\ s = "earliest"
  BY <1>1, <1>2, <1>4 DEF Traced, Lost, clickhouse, cache
<1>5. CASE Lost /\ s # "earliest"
  <2>1. cursor = NoCursor
    BY <1>5
  <2>2. DOMAIN facts' = {}
    BY <1>1, <2>1 DEF CacheBase, CursorOK, cache
  <2> QED
    BY <2>2 DEF Traced
<1> QED
  BY <1>3, <1>4, <1>5 DEF Traced, AllWillRead

(* A journal that reaches back to the cursor has not lost anything.        *)
LEMMA TracedContinuous ==
    ASSUME CacheBase, Traced, NEW r \in Readers, Continuous(r) PROVE Traced'
<1>1. /\ journal = {} \/ \E row \in journal : row.at <= cursor.at
      /\ UNCHANGED <<clickhouse, cache>>
  BY DEF Continuous
<1>2. \A row \in journal : row.at \in Int /\ cursor.at \in Int
  BY DEF CacheBase, JournalOK, Announced, JournalRow, CursorOK
<1>3. ~Lost
  BY <1>1, <1>2 DEF Lost, Announced
<1>4. AllWillRead
  BY <1>3 DEF Traced, AllWillRead
<1>5. AllWillRead'
  BY <1>1, <1>4, TracedApart DEF clickhouse, cache, Announced
<1> QED
  BY <1>5 DEF Traced, AllWillRead

(* What is loaded misses nothing.                                          *)
LEMMA TracedLoad ==
    ASSUME CacheBase, Traced, NEW r \in Readers, NEW gap \in refresh.todo, Load(r, gap)
    PROVE  Traced'
<1>1. UNCHANGED <<clickhouse, cursor>> /\ refresh.step = "load"
  BY DEF Load
<1>2. AllWillRead
  BY <1>1 DEF Traced, AllWillRead, Lost
<1>3. /\ DOMAIN facts' = DOMAIN facts \cup Span(gap)
      /\ \A b \in DOMAIN facts' : facts'[b] = IF b \in Span(gap) THEN table[b] ELSE facts[b]
      /\ Span(gap) \in SUBSET Buckets
  BY LoadStepKeeps
<1>4. table' = table /\ cursor' = cursor /\ Announced' = Announced
  BY <1>1 DEF clickhouse, Announced
<1>5. ASSUME NEW b \in DOMAIN facts' PROVE WillRead(b)'
  <2>1. CASE b \in Span(gap)
    <3>1. facts'[b] = table'[b] /\ table[b] \in Nat
      BY <1>3, <1>4, <2>1 DEF CacheBase, JournalOK
    <3>2. facts'[b] + 1 .. table'[b] = {}
      BY <1>4, <3>1
    <3> QED
      BY <3>2 DEF WillRead
  <2>2. CASE b \notin Span(gap)
    <3>1. b \in DOMAIN facts /\ facts'[b] = facts[b]
      BY <1>3, <2>2
    <3> QED
      BY <1>2, <1>4, <3>1, StillWillRead DEF AllWillRead
  <2> QED
    BY <2>1, <2>2
<1> QED
  BY <1>5 DEF Traced

(* The window is read from the new cursor on: what the page leaves is not  *)
(* before its last row, and what is not visible yet is recent.             *)
LEMMA TracedChanges ==
    ASSUME CacheBase, Traced, NEW r \in Readers, Changes(r) PROVE Traced'
<1> PICK page : page = Page(Window)
  OBVIOUS
<1> PICK S : S = {row.bucket : row \in page}
  OBVIOUS
<1>1. /\ refresh.step = "changes" /\ Forget(S)
      /\ cursor' = Advanced(page) /\ UNCHANGED clickhouse
  BY DEF Changes
<1>2. JournalOK /\ CacheOK /\ CursorOK /\ table' = table /\ Announced' = Announced
  BY <1>1 DEF CacheBase, clickhouse, Announced
<1>3. AllWillRead
  BY <1>1 DEF Traced, AllWillRead, Lost
<1>4. DOMAIN facts' = DOMAIN facts \ S /\ \A b \in DOMAIN facts' : facts'[b] = facts[b]
  BY <1>1, <1>2, ForgetKeeps
<1>5. /\ clock \in Nat /\ Replay \in Nat /\ cursor.at \in Int
      /\ \A x \in Announced : x.at \in Nat /\ x.at <= clock
      /\ \A x \in transit : clock - Replay <= x.at
  BY <1>2, BucketsAre DEF JournalOK, JournalRow, CursorOK
<1>6. page \subseteq Window /\ Window \subseteq journal
      /\ \A x \in journal : x.at >= cursor.at - Replay => x \in Window
  BY PageRows DEF Window
<1>7. ASSUME NEW b \in DOMAIN facts' PROVE WillRead(b)'
  <2> SUFFICES ASSUME NEW v \in facts[b] + 1 .. table[b]
               PROVE  \E x \in Announced : /\ x.bucket = b /\ x.version = v
                                           /\ x.at >= cursor'.at - Replay
    BY <1>2, <1>4 DEF WillRead
  <2>1. b \in DOMAIN facts /\ b \notin S
    BY <1>4
  <2>2. PICK x \in Announced : x.bucket = b /\ x.version = v /\ x.at >= cursor.at - Replay
    BY <1>3, <2>1 DEF AllWillRead, WillRead
  <2>3. x.at >= cursor'.at - Replay
    <3>1. CASE cursor' = cursor
      BY <2>2, <3>1
    <3>2. CASE Moved(page)
      <4>1. PICK row \in page : cursor' = Position(row)
        BY <3>2 DEF Moved
      <4>2. cursor'.at = row.at /\ row \in Announced
        BY <1>6, <4>1 DEF Position, Announced
      <4>3. CASE x \in transit
        BY <1>5, <4>2, <4>3
      <4>4. CASE x \in journal
        <5>1. x \in Window \ page
          BY <1>6, <2>1, <2>2, <4>4
        <5>2. row.at <= x.at
          BY <1>2, <5>1, PageIsEarliest
        <5> QED
          BY <1>5, <4>2, <5>2
      <4> QED
        BY <4>3, <4>4 DEF Announced
    <3> QED
      BY <1>1, <3>1, <3>2, AdvancedIs
  <2> QED
    BY <2>2, <2>3
<1> QED
  BY <1>7 DEF Traced

(* The second reading of the journal begins.                               *)
LEMMA TracedRecheck ==
    ASSUME CacheBase, Traced, NEW r \in Readers, Recheck(r) PROVE Traced'
<1>1. refresh.step = "load" /\ UNCHANGED <<clickhouse, cache>>
  BY DEF Recheck
<1>2. AllWillRead
  BY <1>1 DEF Traced, AllWillRead, Lost
<1>3. AllWillRead'
  BY <1>1, <1>2, TracedApart DEF clickhouse, cache, Announced
<1> QED
  BY <1>3 DEF Traced, AllWillRead

(* The budget only takes away.                                             *)
LEMMA TracedAnswer ==
    ASSUME CacheBase, Traced, NEW r \in Readers, Answer(r) PROVE Traced'
<1>1. refresh.step = "load" /\ UNCHANGED <<clickhouse, cursor>>
  BY DEF Answer
<1>2. AllWillRead
  BY <1>1 DEF Traced, AllWillRead, Lost
<1>3. DOMAIN facts' \subseteq DOMAIN facts /\ \A b \in DOMAIN facts' : facts'[b] = facts[b]
  BY AnswerKeeps
<1>4. table' = table /\ cursor' = cursor /\ Announced' = Announced
  BY <1>1 DEF clickhouse, Announced
<1>5. ASSUME NEW b \in DOMAIN facts' PROVE WillRead(b)'
  BY <1>2, <1>3, <1>4, StillWillRead DEF AllWillRead
<1> QED
  BY <1>5 DEF Traced

(* A refresh that fails leaves the cursor and the cache.                   *)
LEMMA TracedQueryFails ==
    ASSUME CacheBase, Traced, NEW r \in Readers, QueryFails(r) PROVE Traced'
<1>1. UNCHANGED <<clickhouse, cache>> /\ refresh' = Idle
  BY QueryFailsKeeps
<1>2. Announced' = Announced
  BY <1>1 DEF clickhouse, Announced
<1>3. CASE AllWillRead
  <2>1. AllWillRead'
    BY <1>1, <1>2, <1>3, TracedApart DEF clickhouse, cache
  <2> QED
    BY <2>1 DEF Traced, AllWillRead
<1>4. CASE Lost
  BY <1>1, <1>2, <1>4, IdleRefreshes DEF Traced, Lost, clickhouse, cache
<1> QED
  BY <1>3, <1>4 DEF Traced, AllWillRead

(* A commit is announced by a row that is not before the window.           *)
LEMMA TracedCommit ==
    ASSUME CacheBase, Traced, NEW b \in Busy, Commit(b) PROVE Traced'
<1>1. /\ Announced \subseteq Announced' /\ table' = [table EXCEPT ![b] = @ + 1]
      /\ b \in Buckets
  BY CommitKeeps
<1>2. PICK new \in Announced' : new.bucket = b /\ new.version = table[b] + 1 /\ new.at = clock
  BY CommitKeeps
<1>3. /\ UNCHANGED <<clock, journal, cache, refresh>>
      /\ \A x \in Announced' : x \in Announced \/ x.at = clock
  BY DEF Commit, Announced
<1>4. /\ table \in [Buckets -> Nat] /\ clock \in Nat /\ Replay \in Nat
      /\ cursor.at \in -1 .. clock /\ DOMAIN facts \subseteq Buckets
      /\ \A c \in DOMAIN facts : facts[c] \in 0 .. table[c]
  BY BucketsAre DEF CacheBase, JournalOK, CursorOK, CacheOK
<1>5. CASE Lost
  BY <1>1, <1>3, <1>4, <1>5 DEF Traced, Lost, cache
<1>6. CASE AllWillRead
  <2>1. facts' = facts /\ cursor' = cursor
    BY <1>3 DEF cache
  <2>2. ASSUME NEW c \in DOMAIN facts PROVE WillRead(c)'
    <3> SUFFICES ASSUME NEW v \in facts[c] + 1 .. table'[c]
                 PROVE  \E x \in Announced' : /\ x.bucket = c /\ x.version = v
                                              /\ x.at >= cursor.at - Replay
      BY <2>1 DEF WillRead
    <3>1. CASE v \in facts[c] + 1 .. table[c]
      <4>1. \E x \in Announced : /\ x.bucket = c /\ x.version = v
                                 /\ x.at >= cursor.at - Replay
        BY <1>6, <3>1 DEF AllWillRead, WillRead
      <4> QED
        BY <1>1, <4>1
    <3>2. CASE v \notin facts[c] + 1 .. table[c]
      <4>1. c = b /\ v = table[b] + 1
        BY <1>1, <1>4, <3>2
      <4>2. new.at >= cursor.at - Replay
        BY <1>2, <1>4
      <4> QED
        BY <1>2, <4>1, <4>2
    <3> QED
      BY <3>1, <3>2
  <2> QED
    BY <2>1, <2>2 DEF Traced
<1> QED
  BY <1>5, <1>6 DEF Traced, AllWillRead

(* Nothing that is cached or announced changes.                            *)
LEMMA TracedApartLost ==
    ASSUME Traced, facts' = facts, table' = table, cursor' = cursor, refresh' = refresh,
           Announced' = Announced, journal \subseteq journal',
           cursor.at < clock => cursor.at < clock'
    PROVE  Traced'
<1>1. CASE AllWillRead
  <2>1. AllWillRead'
    BY <1>1, TracedApart
  <2> QED
    BY <2>1 DEF Traced, AllWillRead
<1>2. CASE Lost
  BY <1>2 DEF Traced, Lost
<1> QED
  BY <1>1, <1>2 DEF Traced, AllWillRead

(* Rows are dropped: those of the window stay, or all that stays is later  *)
(* than the cursor.                                                        *)
LEMMA TracedExpire ==
    ASSUME CacheBase, Traced, CoarseExpiry, NEW time \in 0 .. MaxClock, Expire(time)
    PROVE  Traced'
<1> PICK kept : kept = {row \in journal : row.at > time}
  OBVIOUS
<1>1. /\ time + Ttl < clock /\ refresh.step = "idle"
      /\ kept # {} /\ \A row \in transit : row.at > time
      /\ time \notin cursor.at - Replay .. cursor.at - 1
      /\ journal' = kept /\ UNCHANGED <<table, clock, transit, cache, refresh>>
  BY DEF Expire
<1>2. /\ clock \in Nat /\ Replay \in Nat /\ cursor.at \in Int /\ time \in Int /\ Ttl \in Nat
      /\ \A x \in Announced : x.at \in Int
  BY BucketsAre, FactCacheAssumption DEF CacheBase, JournalOK, JournalRow, CursorOK
<1>3. facts' = facts /\ cursor' = cursor
  BY <1>1 DEF cache
<1>4. /\ \A x \in Announced' : x \in Announced /\ x.at > time
      /\ \A x \in Announced : x.at > time => x \in Announced'
  BY <1>1 DEF Announced
<1>5. CASE Lost
  BY <1>1, <1>3, <1>4, <1>5 DEF Traced, Lost
<1>6. CASE AllWillRead /\ time < cursor.at - Replay
  <2>1. \A x \in Announced : x.at >= cursor.at - Replay =>
            x \in Announced' /\ x.at >= cursor'.at - Replay
    BY <1>2, <1>3, <1>4, <1>6
  <2>2. \A b \in DOMAIN facts' : WillRead(b)'
    BY <1>1, <1>3, <1>6, <2>1, StillWillRead DEF AllWillRead
  <2> QED
    BY <2>2 DEF Traced
<1>7. CASE time >= cursor.at
  <2>1. \A x \in Announced' : x.at > cursor'.at
    BY <1>2, <1>3, <1>4, <1>7
  <2>2. cursor'.at < clock'
    BY <1>1, <1>2, <1>3, <1>7
  <2> QED
    BY <1>1, <2>1, <2>2 DEF Traced, Lost
<1> QED
  BY <1>1, <1>2, <1>5, <1>6, <1>7 DEF Traced, AllWillRead

-----------------------------------------------------------------------------
(* What the journal had made known is included.                            *)

(* The journal grows, the cache stays.                                     *)
LEMMA FlooredCalm ==
    ASSUME Floored, refresh' = refresh, facts' = facts, journal \subseteq journal'
    PROVE  Floored'
  BY DEF Floored

(* There is nothing to include before the journal is read again.           *)
LEMMA FlooredIdle == ASSUME ~refresh'.again PROVE Floored'
  BY DEF Floored

(* What the journal has made known is in it.                               *)
LEMMA FlooredRecheck ==
    ASSUME CacheBase, NEW r \in Readers, Recheck(r) PROVE Floored'
<1>1. /\ refresh'.step = "changes" /\ refresh'.floor = Visible
  BY RecheckKeeps
<1>2. journal' = journal
  BY DEF Recheck, clickhouse
<1> QED
  BY <1>1, <1>2, VisibleFacts DEF Floored, CacheBase

(* What is loaded includes all there is.                                   *)
LEMMA FlooredLoad ==
    ASSUME CacheBase, Floored, NEW r \in Readers, NEW gap \in refresh.todo, Load(r, gap)
    PROVE  Floored'
<1>1. /\ refresh.step = "load" /\ journal' = journal
  BY DEF Load, clickhouse
<1>2. /\ refresh'.again = refresh.again /\ refresh'.floor = refresh.floor
      /\ DOMAIN facts' = DOMAIN facts \cup Span(gap) /\ Span(gap) \in SUBSET Buckets
      /\ \A b \in DOMAIN facts' : facts'[b] = IF b \in Span(gap) THEN table[b] ELSE facts[b]
  BY LoadStepKeeps
<1>3. CASE ~refresh.again
  BY <1>2, <1>3, FlooredIdle
<1>4. CASE refresh.again
  <2>1. /\ \A b \in Buckets :
              \/ refresh.floor[b] = 0
              \/ \E x \in journal : x.bucket = b /\ x.version = refresh.floor[b]
        /\ \A b \in DOMAIN facts : facts[b] >= refresh.floor[b]
    BY <1>1, <1>4 DEF Floored
  <2>2. ASSUME NEW b \in Buckets PROVE table[b] >= refresh.floor[b]
    <3>1. table[b] \in Nat
      BY DEF CacheBase, JournalOK
    <3>2. CASE refresh.floor[b] = 0
      BY <3>1, <3>2
    <3>3. CASE \E x \in journal : x.bucket = b /\ x.version = refresh.floor[b]
      <4>1. PICK x \in journal : x.bucket = b /\ x.version = refresh.floor[b]
        BY <3>3
      <4>2. x.version \in 1 .. table[x.bucket]
        BY DEF CacheBase, JournalOK, Announced
      <4> QED
        BY <3>1, <4>1, <4>2
    <3> QED
      BY <2>1, <3>2, <3>3
  <2>3. \A b \in DOMAIN facts' : facts'[b] >= refresh'.floor[b]
    BY <1>2, <2>1, <2>2
  <2> QED
    BY <1>1, <1>2, <2>1, <2>3 DEF Floored
<1> QED
  BY <1>3, <1>4

(* When the journal is read to its end again, a bucket that misses what it *)
(* had made known has its row in the window, and is dropped.               *)
LEMMA FlooredChanges ==
    ASSUME CacheBase, Traced, Floored, NEW r \in Readers, Changes(r) PROVE Floored'
<1> PICK page : page = Page(Window)
  OBVIOUS
<1> PICK S : S = {row.bucket : row \in page}
  OBVIOUS
<1> PICK todo : todo = Reads(asked[r], DOMAIN facts \ S)
  OBVIOUS
<1>1. refresh.step = "changes" /\ Forget(S) /\ UNCHANGED clickhouse
  BY DEF Changes
<1>2. \/ /\ refresh' = [refresh EXCEPT !.step = "load", !.page = 1, !.todo = todo]
         /\ page = Window
      \/ refresh' = [refresh EXCEPT !.page = refresh.page + 1]
      \/ refresh' = Idle
  BY DEF Changes, NextPage, End
<1>3. JournalOK /\ CacheOK /\ table' = table /\ journal' = journal /\ refresh \in Refreshes
  BY <1>1 DEF CacheBase, clickhouse, RefreshOK
<1>4. DOMAIN facts' = DOMAIN facts \ S /\ \A b \in DOMAIN facts' : facts'[b] = facts[b]
  BY <1>1, <1>3, ForgetKeeps
<1>5. AllWillRead
  BY <1>1 DEF Traced, AllWillRead, Lost
<1>6. CASE ~refresh'.again
  BY <1>6, FlooredIdle
<1>7. CASE refresh'.again
  <2>1. refresh.again /\ refresh'.floor = refresh.floor
    BY <1>2, <1>3, <1>7, IdleRefreshes DEF Refreshes
  <2>2. \A b \in Buckets :
            \/ refresh.floor[b] = 0
            \/ \E x \in journal : x.bucket = b /\ x.version = refresh.floor[b]
    BY <2>1 DEF Floored
  <2>3. ASSUME refresh'.step = "load", NEW b \in DOMAIN facts'
        PROVE  facts[b] >= refresh.floor[b]
    <3>1. page = Window
      <4>1. refresh' # Idle
        BY <2>3, IdleRefreshes
      <4>2. refresh' # [refresh EXCEPT !.page = refresh.page + 1]
        BY <1>1, <1>3, <2>3 DEF Refreshes
      <4> QED
        BY <1>2, <4>1, <4>2
    <3>2. b \in DOMAIN facts /\ b \in Buckets /\ b \notin S
      BY <1>3, <1>4, <2>3 DEF CacheOK
    <3>3. facts[b] \in 0 .. table[b] /\ table[b] \in Nat
      BY <1>3, <3>2 DEF CacheOK, JournalOK
    <3>4. CASE refresh.floor[b] = 0
      BY <3>3, <3>4
    <3>5. CASE \E x \in journal : x.bucket = b /\ x.version = refresh.floor[b]
      <4>1. PICK x \in journal : x.bucket = b /\ x.version = refresh.floor[b]
        BY <3>5
      <4> PICK v : v = x.version
        OBVIOUS
      <4>2. x \in Announced /\ v \in 1 .. table[b]
        BY <1>3, <4>1 DEF JournalOK, Announced
      <4> SUFFICES ASSUME ~(facts[b] >= v) PROVE FALSE
        BY <4>1
      <4>3. v \in facts[b] + 1 .. table[b]
        BY <3>3, <4>2
      <4>4. PICK y \in Announced : y.bucket = b /\ y.version = v /\ y.at >= cursor.at - Replay
        BY <1>5, <3>2, <4>3 DEF AllWillRead, WillRead
      <4>5. y = x
        BY <1>3, <4>1, <4>2, <4>4 DEF JournalOK
      <4>6. x \in Window
        BY <4>1, <4>4, <4>5 DEF Window
      <4> QED
        BY <3>1, <3>2, <4>1, <4>6
    <3> QED
      BY <2>2, <3>2, <3>4, <3>5
  <2> QED
    BY <1>3, <1>4, <2>1, <2>2, <2>3 DEF Floored
<1> QED
  BY <1>6, <1>7

-----------------------------------------------------------------------------
(* The invariant, when the journal keeps its window.                       *)

CacheInv == CacheBase /\ Traced /\ Floored

(* Every step keeps the invariant.                                         *)
LEMMA InvKept == CoarseExpiry => (CacheInv /\ [CacheNext]_cacheVars => CacheInv')
<1> SUFFICES ASSUME CoarseExpiry, CacheBase, Traced, Floored, [CacheNext]_cacheVars
             PROVE  Traced' /\ Floored'
  BY BaseKept DEF CacheInv
<1>1. ASSUME NEW b \in Busy, Commit(b) PROVE Traced' /\ Floored'
  <2>1. refresh' = refresh /\ facts' = facts /\ journal' = journal
    BY <1>1 DEF Commit, cache
  <2> QED
    BY <1>1, <2>1, TracedCommit, FlooredCalm
<1>2. ASSUME NEW row \in transit, Journal(row) PROVE Traced' /\ Floored'
  <2>1. /\ refresh' = refresh /\ facts' = facts /\ journal \subseteq journal'
        /\ table' = table /\ cursor' = cursor /\ clock' = clock /\ Announced' = Announced
    BY <1>2 DEF Journal, cache, Announced
  <2> QED
    BY <2>1, TracedApartLost, FlooredCalm
<1>3. CASE Tick
  <2>1. /\ refresh' = refresh /\ facts' = facts /\ journal' = journal
        /\ table' = table /\ cursor' = cursor /\ clock' = clock + 1 /\ Announced' = Announced
    BY <1>3 DEF Tick, cache, Announced
  <2>2. cursor.at \in Int /\ clock \in Int
    BY DEF CacheBase, CursorOK, JournalOK
  <2>3. cursor.at < clock => cursor.at < clock'
    BY <2>1, <2>2
  <2> QED
    BY <2>1, <2>3, TracedApartLost, FlooredCalm
<1>4. ASSUME NEW time \in 0 .. MaxClock, Expire(time) PROVE Traced' /\ Floored'
  <2>1. refresh' = refresh /\ refresh.step = "idle"
    BY <1>4 DEF Expire
  <2>2. ~refresh'.again
    BY <2>1 DEF CacheBase, RefreshOK
  <2> QED
    BY <1>4, <2>2, TracedExpire, FlooredIdle
<1>5. ASSUME NEW r \in Readers, NEW range \in Ranges, Call(r, range)
      PROVE  Traced' /\ Floored'
  <2>1. /\ refresh' = refresh /\ facts' = facts /\ journal' = journal
        /\ table' = table /\ cursor' = cursor /\ clock' = clock /\ Announced' = Announced
    BY <1>5 DEF Call, cache, clickhouse, Announced
  <2> QED
    BY <2>1, TracedApartLost, FlooredCalm
<1>6. ASSUME NEW r \in Readers, Refresh(r) PROVE Traced' /\ Floored'
  <2>1. CASE Begin(r)
    <3>1. ~refresh'.again
      <4> PICK s : s = IF cursor = NoCursor THEN "latest" ELSE "earliest"
        OBVIOUS
      <4>1. refresh' = [Idle EXCEPT !.step = s]
        BY <2>1 DEF Begin
      <4> QED
        BY <4>1, IdleRefreshes DEF Refreshes
    <3> QED
      BY <2>1, <3>1, TracedBegin, FlooredIdle
  <2>2. CASE Latest(r)
    BY <2>2, LatestKeeps, FlooredIdle DEF Traced
  <2>3. CASE Continuous(r)
    <3>1. refresh.step = "earliest" /\ refresh' = [refresh EXCEPT !.step = "changes"]
      BY <2>3 DEF Continuous
    <3>2. ~refresh'.again
      BY <3>1 DEF CacheBase, RefreshOK, Refreshes
    <3> QED
      BY <2>3, <3>2, TracedContinuous, FlooredIdle
  <2>4. CASE Gap(r)
    <3>1. refresh.step = "earliest" /\ refresh' = [refresh EXCEPT !.step = "relatest"]
      BY <2>4 DEF Gap
    <3>2. ~refresh'.again
      BY <3>1 DEF CacheBase, RefreshOK, Refreshes
    <3> QED
      BY <2>4, <3>2, GapKeeps, FlooredIdle DEF Traced
  <2>5. CASE Changes(r)
    BY <2>5, TracedChanges, FlooredChanges
  <2>6. ASSUME NEW gap \in refresh.todo, Load(r, gap) PROVE Traced' /\ Floored'
    BY <2>6, TracedLoad, FlooredLoad
  <2>7. CASE Recheck(r)
    BY <2>7, TracedRecheck, FlooredRecheck
  <2>8. CASE Answer(r)
    BY <2>8, TracedAnswer, AnswerKeeps, IdleRefreshes, FlooredIdle
  <2> QED
    BY <1>6, <2>1, <2>2, <2>3, <2>4, <2>5, <2>6, <2>7, <2>8 DEF Refresh
<1>7. ASSUME NEW r \in Readers, QueryFails(r) PROVE Traced' /\ Floored'
  BY <1>7, TracedQueryFails, QueryFailsKeeps, IdleRefreshes, FlooredIdle
<1>8. CASE UNCHANGED cacheVars
  <2>1. /\ refresh' = refresh /\ facts' = facts /\ journal' = journal
        /\ table' = table /\ cursor' = cursor /\ clock' = clock /\ Announced' = Announced
    BY <1>8 DEF cacheVars, cache, clickhouse, Announced
  <2> QED
    BY <2>1, TracedApartLost, FlooredCalm
<1> QED
  BY <1>1, <1>2, <1>3, <1>4, <1>5, <1>6, <1>7, <1>8 DEF CacheNext

(* The invariant holds.                                                    *)
LEMMA InvHolds == CoarseExpiry => (CacheSpec => []CacheInv)
<1> SUFFICES ASSUME CoarseExpiry PROVE CacheSpec => []CacheInv
  OBVIOUS
<1>1. CacheInit => CacheInv
  BY CacheInitBase DEF CacheInv
<1>2. CacheInv /\ [CacheNext]_cacheVars => CacheInv'
  BY InvKept
<1> QED
  BY <1>1, <1>2, PTL DEF CacheSpec

(* A read that is answered holds every bucket of its range, with every     *)
(* commit the journal had made known when its first load was over.         *)
THEOREM FreshReads == CoarseExpiry => (CacheSpec => []ReadIsFresh)
<1> SUFFICES ASSUME CoarseExpiry PROVE CacheSpec => []ReadIsFresh
  OBVIOUS
<1>1. CacheInv => ReadIsFresh
  <2> SUFFICES ASSUME CacheInv, NEW r \in Readers,
                      Reading(r), refresh.step = "load", refresh.again, refresh.todo = {},
                      NEW b \in Span(asked[r])
               PROVE  b \in DOMAIN facts /\ facts[b] >= refresh.floor[b]
    BY DEF ReadIsFresh
  <2>1. b \in DOMAIN facts
    BY DEF CacheInv, CacheBase, RefreshOK, Reading
  <2> QED
    BY <2>1 DEF CacheInv, Floored
<1>2. CacheSpec => []CacheInv
  BY InvHolds
<1> QED
  BY <1>1, <1>2, PTL

(* A cached bucket never outlives what would tell that it is stale.        *)
THEOREM StaleTraced == CoarseExpiry => (CacheSpec => []StaleIsJournaled)
<1> SUFFICES ASSUME CoarseExpiry PROVE CacheSpec => []StaleIsJournaled
  OBVIOUS
<1>1. CacheInv => StaleIsJournaled
  <2> SUFFICES ASSUME CacheInv, NEW b \in DOMAIN facts, facts[b] < table[b]
               PROVE  \/ \E row \in journal \cup transit :
                            /\ row.bucket = b /\ row.version > facts[b]
                            /\ row.at >= cursor.at - Replay
                      \/ journal # {} /\ \A row \in journal : row.at > cursor.at
    BY DEF StaleIsJournaled
  <2>1. CASE Lost
    BY <2>1 DEF Lost, Announced
  <2>2. CASE WillRead(b)
    <3>1. facts[b] \in Nat /\ table[b] \in Nat
      BY DEF CacheInv, CacheBase, CacheOK, JournalOK
    <3>2. facts[b] + 1 \in facts[b] + 1 .. table[b] /\ facts[b] + 1 > facts[b]
      BY <3>1
    <3>3. PICK x \in Announced : /\ x.bucket = b /\ x.version = facts[b] + 1
                                 /\ x.at >= cursor.at - Replay
      BY <2>2, <3>2 DEF WillRead
    <3> QED
      BY <3>2, <3>3 DEF Announced
  <2> QED
    BY <2>1, <2>2 DEF CacheInv, Traced
<1>2. CacheSpec => []CacheInv
  BY InvHolds
<1> QED
  BY <1>1, <1>2, PTL
=============================================================================
