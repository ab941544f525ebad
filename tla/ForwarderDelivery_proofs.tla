---------------------- MODULE ForwarderDelivery_proofs ----------------------
(***************************************************************************)
(* Theorems about the forwarder's delivery, with machine-checked proofs:   *)
(* its type invariant with the gauges, that the reserve of protected       *)
(* traffic is never given away, and that it implements EventDelivery.      *)
(*                                                                         *)
(* The invariant has four parts.  Sound: every outstanding id is held in   *)
(* one place (pending, a request, a retry task), the gauges count them,    *)
(* they are in the spool and within the limits, and the answers of a batch *)
(* are apart.  Inside a callback some ids are in hand, in no place: they   *)
(* are the second argument of Sound.  Queue: no record is in two of the    *)
(* spool's operations.  Known: what exists was observed.  Owing: a record  *)
(* is acknowledged only once the API has it or the dead-letter file has.   *)
(***************************************************************************)
EXTENDS ForwarderDelivery, FiniteSetTheorems, SequenceTheorems, WellFoundedInduction, TLAPS

(* There are finitely many events.                                         *)
LEMMA IdsFinite ==
    /\ IsFiniteSet(Ids)
    /\ \A S \in SUBSET Ids : IsFiniteSet(S) /\ Cardinality(S) \in Nat
<1>1. IsFiniteSet(Ids)
  BY FS_Interval, ForwarderAssumption DEF Ids
<1> QED
  BY <1>1, FS_Subset, FS_CardinalityType

-----------------------------------------------------------------------------
(* Sequences.                                                              *)

(* Finitely many positions are ranked 1, 2, ... by their order.            *)
Rank(at, i) == Cardinality({j \in at : j <= i})

(* The ranks of a set of positions are 1 .. its size, each taken once.     *)
LEMMA Ranks ==
    ASSUME NEW n \in Nat, NEW at \in SUBSET (1 .. n)
    PROVE  /\ IsFiniteSet(at) /\ Cardinality(at) \in Nat
           /\ \A i \in at : Rank(at, i) \in 1 .. Cardinality(at)
           /\ \A i, j \in at : Rank(at, i) = Rank(at, j) => i = j
           /\ \A k \in 1 .. Cardinality(at) : \E i \in at : Rank(at, i) = k
<1>1. IsFiniteSet(at) /\ Cardinality(at) \in Nat
  <2>1. IsFiniteSet(1 .. n)
    BY FS_Interval
  <2>2. IsFiniteSet(at)
    BY <2>1, FS_Subset
  <2> QED
    BY <2>2, FS_CardinalityType
<1>2. ASSUME NEW i \in at
      PROVE  Rank(at, i) \in 1 .. Cardinality(at)
  <2> DEFINE U == {j \in at : j <= i}
  <2>1. U \in SUBSET at /\ i \in U
    OBVIOUS
  <2>2. IsFiniteSet(U) /\ Cardinality(U) <= Cardinality(at) /\ Cardinality(U) \in Nat
    BY <1>1, <2>1, FS_Subset, FS_CardinalityType
  <2>3. Cardinality(U) # 0
    BY <2>1, <2>2, FS_EmptySet
  <2> QED
    BY <1>1, <2>2, <2>3 DEF Rank
<1>3. ASSUME NEW i \in at, NEW j \in at, i < j
      PROVE  Rank(at, i) # Rank(at, j)
  <2> DEFINE U == {x \in at : x <= i}
             V == {x \in at : x <= j}
  <2>1. U \in SUBSET V /\ j \in V /\ j \notin U /\ V \in SUBSET at
    <3>1. i \in Nat /\ j \in Nat /\ \A x \in at : x \in Nat
      OBVIOUS
    <3>2. \A x \in at : x <= i => x <= j
      BY <1>3, <3>1
    <3>3. ~(j <= i) /\ j <= j
      BY <1>3, <3>1
    <3> QED
      BY <3>2, <3>3
  <2>2. Rank(at, i) = Cardinality(U) /\ Rank(at, j) = Cardinality(V)
    BY DEF Rank
  <2>3. U # V
    BY <2>1
  <2> HIDE DEF U, V
  <2>4. IsFiniteSet(V)
    BY <1>1, <2>1, FS_Subset
  <2>5. Cardinality(V) = Cardinality(U) => V = U
    BY <2>1, <2>4, FS_Subset
  <2> QED
    BY <2>2, <2>3, <2>5
<1>4. ASSUME NEW i \in at, NEW j \in at, Rank(at, i) = Rank(at, j)
      PROVE  i = j
  <2>1. i \in Nat /\ j \in Nat
    OBVIOUS
  <2> QED
    BY <1>3, <1>4, <2>1
<1> DEFINE c == Cardinality(at)
           f == [i \in at |-> Rank(at, i)]
<1>5. f \in Injection(at, 1 .. c)
  BY <1>2, <1>4 DEF Injection, IsInjective
<1>6. IsFiniteSet(1 .. c) /\ Cardinality(1 .. c) = c
  BY <1>1, FS_Interval
<1>7. f \in Surjection(at, 1 .. c)
  <2> HIDE DEF f
  <2> QED
    BY <1>5, <1>6, FS_Injection
<1>8. \A k \in 1 .. c : \E i \in at : Rank(at, i) = k
  BY <1>7 DEF Surjection
<1> QED
  BY <1>1, <1>2, <1>4, <1>8

(* Keep filters: the elements that stay, in a sequence as injective as     *)
(* before.                                                                 *)
LEMMA KeepFacts ==
    ASSUME NEW s \in Seq(Ids), NEW S
    PROVE  /\ Keep(s, S) \in Seq(Ids)
           /\ ToSet(Keep(s, S)) = ToSet(s) \cap S
           /\ IsInjective(s) => IsInjective(Keep(s, S))
<1> DEFINE at == {i \in DOMAIN s : s[i] \in S}
           c  == Cardinality(at)
           Nth(k) == CHOOSE i \in at : Rank(at, i) = k
<1>1. Len(s) \in Nat /\ DOMAIN s = 1 .. Len(s) /\ at \in SUBSET (1 .. Len(s))
  OBVIOUS
<1>2. Keep(s, S) = [k \in 1 .. c |-> s[Nth(k)]]
  BY DEF Keep, Rank
<1> HIDE DEF at
<1>3. /\ c \in Nat
      /\ \A i \in at : Rank(at, i) \in 1 .. c
      /\ \A i, j \in at : Rank(at, i) = Rank(at, j) => i = j
      /\ \A k \in 1 .. c : \E i \in at : Rank(at, i) = k
  BY <1>1, Ranks
<1> HIDE DEF c
<1>4. \A k \in 1 .. c : Nth(k) \in at /\ Rank(at, Nth(k)) = k
  BY <1>3
<1>5. \A i \in at : Nth(Rank(at, i)) = i
  BY <1>3
<1> HIDE DEF Nth
<1>6. \A i \in at : i \in DOMAIN s /\ s[i] \in S /\ s[i] \in Ids
  BY DEF at
<1>7. Keep(s, S) \in Seq(Ids) /\ DOMAIN Keep(s, S) = 1 .. c
  BY <1>2, <1>3, <1>4, <1>6
<1>8. ToSet(Keep(s, S)) \subseteq ToSet(s) \cap S
  BY <1>2, <1>4, <1>6 DEF ToSet
<1>9. ASSUME NEW x \in ToSet(s) \cap S
      PROVE  x \in ToSet(Keep(s, S))
  <2>1. PICK i \in at : x = s[i]
    BY DEF ToSet, at
  <2>2. Rank(at, i) \in 1 .. c /\ Keep(s, S)[Rank(at, i)] = s[i]
    BY <1>2, <1>3, <1>5
  <2> QED
    BY <1>7, <2>1, <2>2 DEF ToSet
<1>10. ASSUME IsInjective(s) PROVE IsInjective(Keep(s, S))
  <2>1. ASSUME NEW k \in 1 .. c, NEW l \in 1 .. c, s[Nth(k)] = s[Nth(l)]
        PROVE  k = l
    <3>1. Nth(k) = Nth(l)
      BY <1>4, <1>6, <1>10, <2>1 DEF IsInjective
    <3> QED
      BY <1>4, <3>1
  <2> QED
    BY <1>2, <1>7, <2>1 DEF IsInjective
<1> QED
  BY <1>7, <1>8, <1>9, <1>10

(* Two sequences without a common element, one after the other.            *)
LEMMA ConcatFacts ==
    ASSUME NEW T, NEW s \in Seq(T), NEW t \in Seq(T)
    PROVE  /\ s \o t \in Seq(T)
           /\ ToSet(s \o t) = ToSet(s) \cup ToSet(t)
           /\ (IsInjective(s) /\ IsInjective(t) /\ ToSet(s) \cap ToSet(t) = {})
                 => IsInjective(s \o t)
<1> DEFINE n == Len(s)
           u == s \o t
<1>1. /\ n \in Nat /\ Len(t) \in Nat /\ DOMAIN s = 1 .. n /\ DOMAIN t = 1 .. Len(t)
      /\ u \in Seq(T) /\ DOMAIN u = 1 .. n + Len(t)
      /\ \A i \in 1 .. n + Len(t) : u[i] = IF i <= n THEN s[i] ELSE t[i - n]
  OBVIOUS
<1> HIDE DEF n, u
<1>2. \A i \in DOMAIN s : i \in DOMAIN u /\ u[i] = s[i]
  BY <1>1
<1>3. \A i \in DOMAIN t : n + i \in DOMAIN u /\ u[n + i] = t[i]
  BY <1>1
<1>4. \A i \in DOMAIN u : \/ i \in DOMAIN s /\ u[i] = s[i]
                          \/ i - n \in DOMAIN t /\ u[i] = t[i - n] /\ i = n + (i - n)
  BY <1>1
<1>5. ToSet(u) = ToSet(s) \cup ToSet(t)
  BY <1>2, <1>3, <1>4 DEF ToSet
<1>6. ASSUME IsInjective(s), IsInjective(t), ToSet(s) \cap ToSet(t) = {}
      PROVE  IsInjective(u)
  <2> SUFFICES ASSUME NEW a \in DOMAIN u, NEW b \in DOMAIN u, u[a] = u[b]
               PROVE  a = b
    BY DEF IsInjective
  <2>1. CASE a \in DOMAIN s /\ u[a] = s[a] /\ b \in DOMAIN s /\ u[b] = s[b]
    BY <1>6, <2>1 DEF IsInjective
  <2>2. CASE a - n \in DOMAIN t /\ u[a] = t[a - n] /\ b - n \in DOMAIN t /\ u[b] = t[b - n]
    <3>1. a - n = b - n
      BY <1>6, <2>2 DEF IsInjective
    <3> QED
      BY <1>1, <3>1
  <2>3. ASSUME NEW i \in DOMAIN s, NEW j \in DOMAIN t PROVE s[i] # t[j]
    BY <1>6 DEF ToSet
  <2> QED
    BY <1>4, <2>1, <2>2, <2>3
<1> QED
  BY <1>1, <1>5, <1>6 DEF u

(* The empty sequence.                                                     *)
LEMMA EmptyFacts ==
    ToSet(<<>>) = {} /\ IsInjective(<<>>) /\ <<>> \in Seq(Ids)
  BY DEF ToSet, IsInjective

(* The elements of a sequence, by position.                                *)
LEMMA ElementFacts ==
    ASSUME NEW T, NEW s \in Seq(T)
    PROVE  /\ Len(s) \in Nat /\ DOMAIN s = 1 .. Len(s) /\ ToSet(s) \subseteq T
           /\ \A i \in DOMAIN s : s[i] \in ToSet(s) /\ s[i] \in T
           /\ s # <<>> => Len(s) >= 1 /\ 1 \in DOMAIN s /\ Head(s) = s[1] /\ ToSet(s) # {}
           /\ s = <<>> => ToSet(s) = {}
  BY DEF ToSet

(* A set of ids in the order of their numbers.                             *)
LEMMA InOrderFacts ==
    ASSUME NEW S \in SUBSET Ids
    PROVE  InOrder(S) \in Seq(Ids) /\ ToSet(InOrder(S)) = S /\ IsInjective(InOrder(S))
<1> DEFINE all == [id \in Ids |-> id]
<1>1. all \in Seq(Ids)
  BY ForwarderAssumption DEF Ids
<1>2. ToSet(all) = Ids /\ IsInjective(all)
  BY DEF ToSet, IsInjective
<1>3. InOrder(S) = Keep(all, S)
  BY DEF InOrder
<1> HIDE DEF all
<1>4. /\ Keep(all, S) \in Seq(Ids) /\ ToSet(Keep(all, S)) = ToSet(all) \cap S
      /\ IsInjective(all) => IsInjective(Keep(all, S))
  BY <1>1, KeepFacts
<1> QED
  BY <1>2, <1>3, <1>4

(* What is left of a sequence once the ids S are taken out.                *)
LEMMA MinusFacts ==
    ASSUME NEW s \in Seq(Ids), NEW S
    PROVE  /\ Minus(s, S) \in Seq(Ids) /\ ToSet(Minus(s, S)) = ToSet(s) \ S
           /\ IsInjective(s) => IsInjective(Minus(s, S))
<1>1. ToSet(s) \subseteq Ids
  BY ElementFacts
<1> QED
  BY <1>1, KeepFacts DEF Minus

(* What of a sequence is in S.                                             *)
LEMMA MeetFacts ==
    ASSUME NEW s \in Seq(Ids), NEW S
    PROVE  /\ Meet(s, S) \in Seq(Ids) /\ ToSet(Meet(s, S)) = ToSet(s) \cap S
           /\ IsInjective(s) => IsInjective(Meet(s, S))
  BY KeepFacts DEF Meet

(* Sorting by priority loses and duplicates nothing: the six classes cover *)
(* every id.                                                               *)
LEMMA ByPriorityFacts ==
    ASSUME NEW s \in Seq(Ids)
    PROVE  /\ ByPriority(s) \in Seq(Ids) /\ ToSet(ByPriority(s)) = ToSet(s)
           /\ IsInjective(s) => IsInjective(ByPriority(s))
<1> DEFINE c(p) == Meet(s, Class(p))
           t4 == c(5) \o c(4)
           t3 == t4 \o c(3)
           t2 == t3 \o c(2)
           t1 == t2 \o c(1)
           t0 == t1 \o c(0)
<1>1. \A p : /\ c(p) \in Seq(Ids) /\ ToSet(c(p)) = ToSet(s) \cap Class(p)
             /\ IsInjective(s) => IsInjective(c(p))
  BY MeetFacts
<1>2. \A p, q : p # q => Class(p) \cap Class(q) = {}
  BY DEF Class
<1>3. ByPriority(s) = t0
  BY DEF ByPriority
<1> HIDE DEF c
<1>4. /\ t4 \in Seq(Ids) /\ ToSet(t4) = ToSet(s) \cap (Class(5) \cup Class(4))
      /\ IsInjective(s) => IsInjective(t4)
  BY <1>1, <1>2, ConcatFacts
<1> HIDE DEF t4
<1>5. /\ t3 \in Seq(Ids) /\ ToSet(t3) = ToSet(s) \cap (Class(5) \cup Class(4) \cup Class(3))
      /\ IsInjective(s) => IsInjective(t3)
  <2>1. ToSet(t4) \cap Class(3) = {}
    BY <1>2, <1>4
  <2>2. c(3) \in Seq(Ids) /\ ToSet(c(3)) = ToSet(s) \cap Class(3)
    BY <1>1
  <2>3. ToSet(t4) \cap ToSet(c(3)) = {}
    BY <2>1, <2>2
  <2> QED
    BY <1>1, <1>4, <2>2, <2>3, ConcatFacts
<1> HIDE DEF t3
<1>6. /\ t2 \in Seq(Ids)
      /\ ToSet(t2) = ToSet(s) \cap (Class(5) \cup Class(4) \cup Class(3) \cup Class(2))
      /\ IsInjective(s) => IsInjective(t2)
  <2>1. ToSet(t3) \cap Class(2) = {}
    BY <1>2, <1>5
  <2>2. c(2) \in Seq(Ids) /\ ToSet(c(2)) = ToSet(s) \cap Class(2)
    BY <1>1
  <2>3. ToSet(t3) \cap ToSet(c(2)) = {}
    BY <2>1, <2>2
  <2> QED
    BY <1>1, <1>5, <2>2, <2>3, ConcatFacts
<1> HIDE DEF t2
<1>7. /\ t1 \in Seq(Ids)
      /\ ToSet(t1) = ToSet(s)
           \cap (Class(5) \cup Class(4) \cup Class(3) \cup Class(2) \cup Class(1))
      /\ IsInjective(s) => IsInjective(t1)
  <2>1. ToSet(t2) \cap Class(1) = {}
    BY <1>2, <1>6
  <2>2. c(1) \in Seq(Ids) /\ ToSet(c(1)) = ToSet(s) \cap Class(1)
    BY <1>1
  <2>3. ToSet(t2) \cap ToSet(c(1)) = {}
    BY <2>1, <2>2
  <2> QED
    BY <1>1, <1>6, <2>2, <2>3, ConcatFacts
<1> HIDE DEF t1
<1>8. /\ t0 \in Seq(Ids)
      /\ ToSet(t0) = ToSet(s) \cap (Class(5) \cup Class(4) \cup Class(3) \cup Class(2) \cup Class(1)
                                     \cup Class(0))
      /\ IsInjective(s) => IsInjective(t0)
  <2>1. ToSet(t1) \cap Class(0) = {}
    BY <1>2, <1>7
  <2>2. c(0) \in Seq(Ids) /\ ToSet(c(0)) = ToSet(s) \cap Class(0)
    BY <1>1
  <2>3. ToSet(t1) \cap ToSet(c(0)) = {}
    BY <2>1, <2>2
  <2> QED
    BY <1>1, <1>7, <2>2, <2>3, ConcatFacts
<1> HIDE DEF t0
<1>9. Ids \subseteq Class(5) \cup Class(4) \cup Class(3) \cup Class(2) \cup Class(1) \cup Class(0)
  <2>1. \A id \in Ids : Priority[id] \in 0 .. 5
    BY ForwarderAssumption
  <2> QED
    BY <2>1 DEF Class
<1>10. ToSet(s) \subseteq Ids
  BY ElementFacts
<1> QED
  BY <1>3, <1>8, <1>9, <1>10

(* A part of a sequence, as takePendingBatch and the split of a batch cut  *)
(* it.                                                                     *)
LEMMA PartFacts ==
    ASSUME NEW s \in Seq(Ids), NEW m \in Nat \ {0}, NEW n \in 0 .. Len(s)
    PROVE  /\ SubSeq(s, m, n) \in Seq(Ids) /\ ToSet(SubSeq(s, m, n)) \subseteq ToSet(s)
           /\ IsInjective(s) => IsInjective(SubSeq(s, m, n))
           /\ m <= n => SubSeq(s, m, n) # <<>>
<1> DEFINE t == SubSeq(s, m, n)
<1>1. \A i \in m .. n : i \in DOMAIN s /\ s[i] \in Ids
  BY ElementFacts
<1>2. /\ t \in Seq(Ids) /\ Len(t) = (IF m <= n THEN n - m + 1 ELSE 0)
      /\ \A i \in 1 .. n - m + 1 : t[i] = s[m + i - 1]
  BY <1>1, SubSeqProperties
<1> HIDE DEF t
<1>3. \A i \in DOMAIN t : m + i - 1 \in DOMAIN s /\ t[i] = s[m + i - 1] /\ i \in Nat
  BY <1>2
<1>4. ToSet(t) \subseteq ToSet(s)
  BY <1>3 DEF ToSet
<1>5. IsInjective(s) => IsInjective(t)
  <2> SUFFICES ASSUME IsInjective(s), NEW i \in DOMAIN t, NEW j \in DOMAIN t, t[i] = t[j]
               PROVE  i = j
    BY DEF IsInjective
  <2>1. m + i - 1 = m + j - 1
    BY <1>3 DEF IsInjective
  <2> QED
    BY <1>3, <2>1
<1>6. m <= n => t # <<>>
  BY <1>2
<1> QED
  BY <1>2, <1>4, <1>5, <1>6 DEF t

(* The two halves of a batch have no item in common.                       *)
LEMMA PartsApart ==
    ASSUME NEW s \in Seq(Ids), IsInjective(s), NEW n \in 0 .. Len(s)
    PROVE  ToSet(SubSeq(s, 1, n)) \cap ToSet(SubSeq(s, n + 1, Len(s))) = {}
<1> DEFINE a == SubSeq(s, 1, n)
           b == SubSeq(s, n + 1, Len(s))
<1>1. /\ Len(s) \in Nat /\ n \in Nat /\ DOMAIN s = 1 .. Len(s)
      /\ DOMAIN a = 1 .. n /\ \A i \in 1 .. n : a[i] = s[i]
      /\ DOMAIN b = 1 .. Len(s) - n /\ \A i \in 1 .. Len(s) - n : b[i] = s[n + i]
  OBVIOUS
<1> HIDE DEF a, b
<1>2. ASSUME NEW i \in DOMAIN a, NEW j \in DOMAIN b PROVE a[i] # b[j]
  <2>1. i \in DOMAIN s /\ n + j \in DOMAIN s /\ i # n + j /\ a[i] = s[i] /\ b[j] = s[n + j]
    BY <1>1
  <2> QED
    BY <2>1 DEF IsInjective
<1>3. ToSet(a) \cap ToSet(b) = {}
  BY <1>2 DEF ToSet
<1> QED
  BY <1>3 DEF a, b

(* The first n elements, or all of them when there are fewer.              *)
LEMMA FirstFacts ==
    ASSUME NEW s \in Seq(Ids), NEW n \in Int
    PROVE  /\ FirstN(s, n) \in Seq(Ids) /\ ToSet(FirstN(s, n)) \subseteq ToSet(s)
           /\ IsInjective(s) => IsInjective(FirstN(s, n))
           /\ n >= 1 /\ s # <<>> => FirstN(s, n) # <<>>
<1> DEFINE k == IF n < Len(s) THEN n ELSE Len(s)
<1>1. FirstN(s, n) = SubSeq(s, 1, k)
  BY DEF FirstN
<1>2. CASE n < 0
  <2>1. FirstN(s, n) = <<>>
    BY <1>1, <1>2, ElementFacts
  <2> QED
    BY <1>2, <2>1, EmptyFacts
<1>3. CASE n >= 0
  <2>1. k \in 0 .. Len(s) /\ (n >= 1 /\ s # <<>> => 1 <= k)
    BY <1>3, ElementFacts
  <2> HIDE DEF k
  <2> QED
    BY <1>1, <2>1, PartFacts
<1> QED
  BY <1>2, <1>3

(* What InsertAt puts where.                                               *)
LEMMA InsertFacts ==
    ASSUME NEW T, NEW s \in Seq(T), NEW e \in T, NEW i \in 1 .. Len(s) + 1
    PROVE  /\ InsertAt(s, i, e) \in Seq(T) /\ Len(InsertAt(s, i, e)) = Len(s) + 1
           /\ \A j \in DOMAIN InsertAt(s, i, e) :
                 InsertAt(s, i, e)[j] = IF j < i THEN s[j] ELSE IF j = i THEN e ELSE s[j - 1]
<1> DEFINE a == SubSeq(s, 1, i - 1)
           b == SubSeq(s, i, Len(s))
<1>0. Len(s) \in Nat /\ i \in Nat /\ \A j \in 1 .. Len(s) : s[j] \in T
  OBVIOUS
<1>1. a \in Seq(T) /\ Len(a) = i - 1 /\ \A j \in 1 .. i - 1 : a[j] = s[j]
  BY <1>0, SubSeqProperties
<1>2. b \in Seq(T) /\ Len(b) = Len(s) - i + 1 /\ \A j \in 1 .. Len(s) - i + 1 : b[j] = s[i + j - 1]
  BY <1>0, SubSeqProperties
<1>3. InsertAt(s, i, e) = (a \o <<e>>) \o b
  BY DEF InsertAt
<1> HIDE DEF a, b
<1> DEFINE c == a \o <<e>>
<1>4. c \in Seq(T) /\ Len(c) = i /\ \A j \in 1 .. i : c[j] = IF j < i THEN s[j] ELSE e
  BY <1>0, <1>1
<1> HIDE DEF c
<1>5. /\ c \o b \in Seq(T) /\ Len(c \o b) = Len(s) + 1
      /\ \A j \in 1 .. Len(s) + 1 : (c \o b)[j] = IF j <= i THEN c[j] ELSE b[j - i]
  <2>1. i + (Len(s) - i + 1) = Len(s) + 1
    BY <1>0
  <2> QED
    BY <1>2, <1>4, <2>1, ConcatProperties
<1>6. \A j \in 1 .. Len(s) + 1 : j > i => b[j - i] = s[j - 1]
  BY <1>0, <1>2
<1> QED
  BY <1>0, <1>3, <1>4, <1>5, <1>6, SMTT(60) DEF c
-----------------------------------------------------------------------------
(* Folds.  FoldLeft runs through the subsets of the positions; along the   *)
(* initial segments it is a recursion from one element to the next.        *)

(* Induction along 0 .. n in first-order form: a set that holds 0 and is   *)
(* closed under the step holds every number, for its complement has no     *)
(* least element.                                                          *)
LEMMA UpTo ==
    ASSUME NEW n \in Nat, NEW A, 0 \in A, \A k \in 1 .. n : k - 1 \in A => k \in A
    PROVE  \A k \in 0 .. n : k \in A
<1> DEFINE B == (0 .. n) \ A
<1> SUFFICES ASSUME B # {} PROVE FALSE
  OBVIOUS
<1>1. B \in SUBSET Nat
  OBVIOUS
<1>2. PICK x \in B : \A y \in B : ~(<<y, x>> \in OpToRel(<, Nat))
  BY <1>1, NatLessThanWellFounded, WFMin
<1>3. x \in 1 .. n /\ x - 1 \in 0 .. n /\ x - 1 < x /\ x - 1 \in Nat /\ x \in Nat
  OBVIOUS
<1>4. x - 1 \in B
  BY <1>3
<1>5. <<x - 1, x>> \in OpToRel(<, Nat)
  BY <1>3 DEF OpToRel
<1> QED
  BY <1>2, <1>4, <1>5

(* The last position of an initial segment.                                *)
LEMMA LastOf ==
    ASSUME NEW n \in Nat \ {0}, NEW t \in SUBSET (1 .. n), n \in t
    PROVE  Max(t) = n
<1>1. \A y \in t : n >= y
  OBVIOUS
<1>2. \A x \in t : (\A y \in t : x >= y) => x = n
  OBVIOUS
<1> QED
  BY <1>1, <1>2 DEF Max

(* The steps of the model's loops.                                         *)
Turn(loop, id, st, e) ==
    CASE loop = "room"    -> RoomStep(st, id)
      [] loop = "pump"    -> PumpStep(st)
      [] loop = "replay"  -> ReplayStep(st, e)
      [] loop = "abort"   -> AbortStep(st, e)
      [] loop = "exhaust" -> Exhaust(st, e)

Folds(h, loop, id, x, s, D) ==
    h = [t \in SUBSET D |->
           IF t = {} THEN x ELSE Turn(loop, id, h[t \ {Max(t)}], s[Max(t)])]

(* The function FoldLeft chooses exists.                                   *)
LEMMA FoldExists ==
    ASSUME NEW n \in Nat, NEW s, NEW x, NEW id, NEW loop
    PROVE  \E h : Folds(h, loop, id, x, s, 1 .. n)
<1> DEFINE Step(st, e) == Turn(loop, id, st, e)
           Eq(h, D) == h = [t \in SUBSET D |->
                              IF t = {} THEN x ELSE Step(h[t \ {Max(t)}], s[Max(t)])]
           A == {k \in Nat : \E h : Eq(h, 1 .. k)}
<1> HIDE DEF Step
<1>1. 0 \in A
  <2>1. Eq([t \in SUBSET (1 .. 0) |-> x], 1 .. 0)
    OBVIOUS
  <2> QED
    BY <2>1
<1>2. ASSUME NEW k \in 1 .. n, k - 1 \in A PROVE k \in A
  <2>0. k \in Nat \ {0}
    OBVIOUS
  <2>1. PICK h : Eq(h, 1 .. k - 1)
    BY <1>2
  <2> DEFINE g == [t \in SUBSET (1 .. k) |->
                     IF k \in t THEN Step(h[t \ {k}], s[k]) ELSE h[t]]
  <2>2. ASSUME NEW t \in SUBSET (1 .. k)
        PROVE  g[t] = IF t = {} THEN x ELSE Step(g[t \ {Max(t)}], s[Max(t)])
    <3>1. CASE k \in t
      <4>1. Max(t) = k /\ t \ {k} \in SUBSET (1 .. k - 1) /\ t \ {k} \in SUBSET (1 .. k)
        BY <2>0, <3>1, LastOf
      <4>2. g[t \ {k}] = h[t \ {k}] /\ g[t] = Step(h[t \ {k}], s[k]) /\ t # {}
        BY <3>1, <4>1
      <4> QED
        BY <4>1, <4>2
    <3>2. CASE k \notin t
      <4>0. \A i \in t : i \in 1 .. k - 1
        BY <2>0, <3>2
      <4>1. t \in SUBSET (1 .. k - 1) /\ t \ {Max(t)} \in SUBSET (1 .. k)
        BY <4>0
      <4>2. g[t] = h[t] /\ g[t \ {Max(t)}] = h[t \ {Max(t)}]
        BY <3>2, <4>1
      <4> HIDE DEF g
      <4> QED
        BY <2>1, <4>1, <4>2
    <3> QED
      BY <3>1, <3>2
  <2>3. Eq(g, 1 .. k)
    BY <2>2
  <2> HIDE DEF g, Eq
  <2> QED
    BY <2>0, <2>3
<1>3. n \in A
  <2> HIDE DEF A
  <2> QED
    BY <1>1, <1>2, UpTo
<1>4. PICK h : Eq(h, 1 .. n)
  BY <1>3
<1>5. Folds(h, loop, id, x, s, 1 .. n)
  BY <1>4 DEF Folds, Step
<1> QED
  BY <1>5

(* Along the initial segments 1 .. k it is a recursion from one element to *)
(* the next.                                                               *)
LEMMA FoldAlong ==
    ASSUME NEW n \in Nat, NEW s, NEW x, NEW id, NEW loop, NEW h,
           Folds(h, loop, id, x, s, 1 .. n)
    PROVE  \E f : /\ f[0] = x /\ f[n] = h[1 .. n]
                  /\ \A k \in 1 .. n : f[k] = Turn(loop, id, f[k - 1], s[k])
<1> DEFINE f == [k \in 0 .. n |-> h[1 .. k]]
<1>1. \A t \in SUBSET (1 .. n) :
         h[t] = IF t = {} THEN x ELSE Turn(loop, id, h[t \ {Max(t)}], s[Max(t)])
  BY DEF Folds
<1>2. f[0] = x
  <2>1. 1 .. 0 = {} /\ {} \in SUBSET (1 .. n) /\ 0 \in 0 .. n
    OBVIOUS
  <2>2. f[0] = h[{}]
    BY <2>1
  <2>3. h[{}] = x
    BY <1>1, <2>1
  <2> QED
    BY <2>2, <2>3
<1>3. ASSUME NEW k \in 1 .. n PROVE f[k] = Turn(loop, id, f[k - 1], s[k])
  <2>1. k \in Nat \ {0} /\ k \in 1 .. k /\ k \in 0 .. n /\ k - 1 \in 0 .. n
    OBVIOUS
  <2>2. Max(1 .. k) = k
    BY <2>1, LastOf
  <2>3. 1 .. k \in SUBSET (1 .. n) /\ 1 .. k # {}
    BY <2>1
  <2>4. (1 .. k) \ {k} = 1 .. k - 1
    BY <2>1
  <2> QED
    BY <1>1, <2>1, <2>2, <2>3, <2>4
<1>4. f[n] = h[1 .. n]
  OBVIOUS
<1> HIDE DEF f
<1> QED
  BY <1>2, <1>3, <1>4

(* makeQueueRoom as a recursion over the evictions.                        *)
LEMMA RoomFold ==
    ASSUME NEW m, NEW n \in Nat, DOMAIN m.pending = 1 .. n, NEW id
    PROVE  \E f : /\ f[0] = m
                  /\ \A k \in 1 .. n : f[k] = RoomStep(f[k - 1], id)
                  /\ MakeQueueRoom(m, id) = f[n]
<1> DEFINE s == m.pending
           iter == CHOOSE h : h = [t \in SUBSET DOMAIN s |->
                      IF t = {} THEN m ELSE RoomStep(h[t \ {Max(t)}], id)]
<1>1. PICK h : Folds(h, "room", id, m, s, 1 .. n)
  BY FoldExists
<1>2. iter = [t \in SUBSET DOMAIN s |->
                IF t = {} THEN m ELSE RoomStep(iter[t \ {Max(t)}], id)]
  BY <1>1 DEF Folds, Turn
<1>3. MakeQueueRoom(m, id) = iter[1 .. n]
  BY DEF MakeQueueRoom, FoldLeft, MapThenFoldSet
<1> HIDE DEF iter
<1>4. Folds(iter, "room", id, m, s, 1 .. n)
  BY <1>2 DEF Folds, Turn
<1>5. \A st, e : Turn("room", id, st, e) = RoomStep(st, id)
  BY DEF Turn
<1> QED
  BY <1>3, <1>4, <1>5, FoldAlong

(* pumpEventWork as a recursion over the dispatches.                       *)
LEMMA PumpFold ==
    ASSUME NEW m, m.stage \in {"up", "closing"}, NEW due, Len(due) \in Nat,
           NEW n \in Nat, n = Len(due) + MaxInflight
    PROVE  \E f : /\ f[0] = [m |-> m, due |-> due]
                  /\ \A k \in 1 .. n : f[k] = PumpStep(f[k - 1])
                  /\ Pump(m, due) = Flow(f[n].m)
<1> DEFINE s == [i \in 1 .. n |-> i]
           x == [m |-> m, due |-> due]
           iter == CHOOSE h : h = [t \in SUBSET DOMAIN s |->
                      IF t = {} THEN x ELSE PumpStep(h[t \ {Max(t)}])]
<1>0. DOMAIN s = 1 .. n
  OBVIOUS
<1>1. PICK h : Folds(h, "pump", 0, x, s, 1 .. n)
  <2> HIDE DEF x, s
  <2> QED
    BY FoldExists
<1>2. iter = [t \in SUBSET DOMAIN s |->
                IF t = {} THEN x ELSE PumpStep(iter[t \ {Max(t)}])]
  <2> HIDE DEF x, s
  <2> QED
    BY <1>0, <1>1, ZenonT(60) DEF Folds, Turn
<1>3. Pump(m, due) = Flow(iter[1 .. n].m)
  BY DEF Pump, FoldLeft, MapThenFoldSet
<1> HIDE DEF iter, x, s
<1>4. Folds(iter, "pump", 0, x, s, 1 .. n)
  BY <1>0, <1>2 DEF Folds, Turn
<1>5. \A st, e : Turn("pump", 0, st, e) = PumpStep(st)
  BY DEF Turn
<1>6. PICK f : /\ f[0] = x /\ f[n] = iter[1 .. n]
              /\ \A k \in 1 .. n : f[k] = PumpStep(f[k - 1])
  BY <1>4, <1>5, FoldAlong
<1> QED
  BY <1>3, <1>6 DEF x

ReplayIter(s, x) ==
    CHOOSE h : h = [t \in SUBSET DOMAIN s |->
                      IF t = {} THEN x ELSE ReplayStep(h[t \ {Max(t)}], s[Max(t)])]

(* The loop over the records to replay takes them one by one;              *)
LEMMA ReplayIterates ==
    ASSUME NEW n \in Nat, NEW s, DOMAIN s = 1 .. n, NEW x
    PROVE  \E f : /\ f[0] = x /\ f[n] = ReplayIter(s, x)[1 .. n]
                  /\ \A k \in 1 .. n : f[k] = ReplayStep(f[k - 1], s[k])
<1> DEFINE iter == ReplayIter(s, x)
<1>1. PICK h : Folds(h, "replay", 0, x, s, 1 .. n)
  BY FoldExists
<1>2. iter = [t \in SUBSET DOMAIN s |->
                IF t = {} THEN x ELSE ReplayStep(iter[t \ {Max(t)}], s[Max(t)])]
  BY <1>1 DEF Folds, Turn, ReplayIter
<1> HIDE DEF iter
<1>3. Folds(iter, "replay", 0, x, s, 1 .. n)
  BY <1>2 DEF Folds, Turn
<1>4. \A st, e : Turn("replay", 0, st, e) = ReplayStep(st, e)
  BY DEF Turn
<1> QED
  BY <1>3, <1>4, FoldAlong DEF iter

(* pumpDurableSpool as a recursion over the records that are not in        *)
(* memory.                                                                 *)
LEMMA ReplayFold ==
    ASSUME NEW m, NEW due, NEW s, s = Available(m, ReplaySlots(m)),
           NEW n \in Nat, DOMAIN s = 1 .. n,
           NEW x, x = [m |-> m, stop |-> FALSE, due |-> due]
    PROVE  \E f : /\ f[0] = x
                  /\ \A k \in 1 .. n : f[k] = ReplayStep(f[k - 1], s[k])
                  /\ Replayed(m, due) = Pump(f[n].m, f[n].due)
<1>1. PICK f : /\ f[0] = x /\ f[n] = ReplayIter(s, x)[1 .. n]
              /\ \A k \in 1 .. n : f[k] = ReplayStep(f[k - 1], s[k])
  BY ReplayIterates, SMTT(60)
<1>2. Replayed(m, due) = Pump(ReplayIter(s, x)[1 .. n].m, ReplayIter(s, x)[1 .. n].due)
  BY DEF Replayed, ReplayIter, FoldLeft, MapThenFoldSet
<1> QED
  BY <1>1, <1>2

AbortIter(s, x) ==
    CHOOSE h : h = [t \in SUBSET DOMAIN s |->
                      IF t = {} THEN x ELSE AbortStep(h[t \ {Max(t)}], s[Max(t)])]

(* so does the one that aborts the retry tasks,                            *)
LEMMA AbortIterates ==
    ASSUME NEW n \in Nat, NEW s, DOMAIN s = 1 .. n, NEW x
    PROVE  \E f : /\ f[0] = x /\ f[n] = AbortIter(s, x)[1 .. n]
                  /\ \A k \in 1 .. n : f[k] = AbortStep(f[k - 1], s[k])
<1> DEFINE iter == AbortIter(s, x)
<1>1. PICK h : Folds(h, "abort", 0, x, s, 1 .. n)
  BY FoldExists
<1>2. iter = [t \in SUBSET DOMAIN s |->
                IF t = {} THEN x ELSE AbortStep(iter[t \ {Max(t)}], s[Max(t)])]
  BY <1>1 DEF Folds, Turn, AbortIter
<1> HIDE DEF iter
<1>3. Folds(iter, "abort", 0, x, s, 1 .. n)
  BY <1>2 DEF Folds, Turn
<1>4. \A st, e : Turn("abort", 0, st, e) = AbortStep(st, e)
  BY DEF Turn
<1> QED
  BY <1>3, <1>4, FoldAlong DEF iter

(* abortActiveEventRequests as a recursion over the requests.              *)
LEMMA AbortFold ==
    ASSUME NEW m, NEW s, s = SetToSeq(m.requests), NEW n \in Nat, DOMAIN s = 1 .. n
    PROVE  \E f : /\ f[0] = m
                  /\ \A k \in 1 .. n : f[k] = AbortStep(f[k - 1], s[k])
                  /\ AbortRequests(m) = f[n]
<1>1. PICK f : /\ f[0] = m /\ f[n] = AbortIter(s, m)[1 .. n]
              /\ \A k \in 1 .. n : f[k] = AbortStep(f[k - 1], s[k])
  BY AbortIterates, SMTT(60)
<1>2. AbortRequests(m) = AbortIter(s, m)[1 .. n]
  BY DEF AbortRequests, AbortIter, FoldLeft, MapThenFoldSet
<1> QED
  BY <1>1, <1>2

ExhaustIter(s, x) ==
    CHOOSE h : h = [t \in SUBSET DOMAIN s |->
                      IF t = {} THEN x ELSE Exhaust(h[t \ {Max(t)}], s[Max(t)])]

(* and the one that gives up on those overdue.                             *)
LEMMA ExhaustIterates ==
    ASSUME NEW n \in Nat, NEW s, DOMAIN s = 1 .. n, NEW x
    PROVE  \E f : /\ f[0] = x /\ f[n] = ExhaustIter(s, x)[1 .. n]
                  /\ \A k \in 1 .. n : f[k] = Exhaust(f[k - 1], s[k])
<1> DEFINE iter == ExhaustIter(s, x)
<1>1. PICK h : Folds(h, "exhaust", 0, x, s, 1 .. n)
  BY FoldExists
<1>2. iter = [t \in SUBSET DOMAIN s |->
                IF t = {} THEN x ELSE Exhaust(iter[t \ {Max(t)}], s[Max(t)])]
  BY <1>1 DEF Folds, Turn, ExhaustIter
<1> HIDE DEF iter
<1>3. Folds(iter, "exhaust", 0, x, s, 1 .. n)
  BY <1>2 DEF Folds, Turn
<1>4. \A st, e : Turn("exhaust", 0, st, e) = Exhaust(st, e)
  BY DEF Turn
<1> QED
  BY <1>3, <1>4, FoldAlong DEF iter

(* abandonRetryEvents as a recursion over the retry tasks.                 *)
LEMMA ExhaustFold ==
    ASSUME NEW m, NEW s, s = m.retries, NEW n \in Nat, DOMAIN s = 1 .. n,
           NEW x, x = [m EXCEPT !.retries = <<>>]
    PROVE  \E f : /\ f[0] = x
                  /\ \A k \in 1 .. n : f[k] = Exhaust(f[k - 1], s[k])
                  /\ AbandonRetries(m) = f[n]
<1>1. PICK f : /\ f[0] = x /\ f[n] = ExhaustIter(s, x)[1 .. n]
              /\ \A k \in 1 .. n : f[k] = Exhaust(f[k - 1], s[k])
  BY ExhaustIterates
<1>2. AbandonRetries(m) = ExhaustIter(s, x)[1 .. n]
  BY DEF AbandonRetries, ExhaustIter, FoldLeft, MapThenFoldSet
<1> QED
  BY <1>1, <1>2
-----------------------------------------------------------------------------
(* The inductive invariant.                                                *)

Request ==
    [batch : Seq(Ids), retry : BOOLEAN, parts : Seq(Seq(Ids)),
     acc : SUBSET Ids, rej : SUBSET Ids, again : Seq(Ids)]

Operation == [kind : {"put", "ack"}, ids : SUBSET Ids, written : BOOLEAN]

Memory ==
    [stage : {"up", "closing", "aborted", "down"}, lane : Seq(Ids), ops : Seq(Operation),
     walPending : Int, pending : Seq(Ids), requests : SUBSET Request,
     retries : Seq(Seq(Ids)), retryOwned : SUBSET Ids, active : SUBSET Ids,
     outstanding : Int, retryOutstanding : Int, paused : BOOLEAN]

Low == {id \in Ids : Priority[id] < ProtectedPriority}

(* The gauges of m are exact, except that the ids X are counted while a    *)
(* callback has them in hand: taken from one place and not yet in another. *)
Exact(m, X) ==
    /\ HeldOnce(m)
    /\ X \cap Held(m) = {} /\ m.active = Held(m) \cup X
    /\ m.outstanding = Cardinality(m.active)
    /\ m.retryOutstanding = Cardinality(m.retryOwned)
    /\ m.retryOwned \subseteq m.active
    /\ \A i \in DOMAIN m.retries :
          m.retries[i] # <<>> /\ ToSet(m.retries[i]) \subseteq m.retryOwned

Spooled(m) == IsInjective(m.lane) /\ m.active \subseteq ToSet(m.lane)

Reserve(m) ==
    /\ m.outstanding <= MaxOutstanding
    /\ Cardinality(m.active \cap Low) <= MaxOutstanding - ProtectedReserve

(* An item of a batch is accepted, rejected, to be sent again, or in one   *)
(* of the parts still to be sent, and never in two of these.               *)
Answers(r) ==
    /\ r.batch # <<>> /\ r.parts # <<>>
    /\ IsInjective(r.again)
    /\ r.acc \cup r.rej \cup ToSet(r.again) \subseteq ToSet(r.batch)
    /\ (r.acc \cup r.rej) \cap ToSet(r.again) = {}
    /\ \A i \in DOMAIN r.parts :
          /\ r.parts[i] # <<>> /\ IsInjective(r.parts[i])
          /\ ToSet(r.parts[i]) \subseteq ToSet(r.batch) \ (r.acc \cup r.rej \cup ToSet(r.again))
          /\ \A j \in DOMAIN r.parts \ {i} :
                ToSet(r.parts[i]) \cap ToSet(r.parts[j]) = {}

Wire(m) == IsFiniteSet(m.requests) /\ \A r \in m.requests : Answers(r)

Sound(m, X) == m \in Memory /\ Exact(m, X) /\ Spooled(m) /\ Reserve(m) /\ Wire(m)

(* The spool's queue: one operation at a time is being written, no record  *)
(* is in two operations, or in one and in memory.                          *)
Queue(m) ==
    /\ m.walPending = PutsPending(m)
    /\ \A i \in DOMAIN m.ops :
          /\ m.ops[i].ids \cap ToSet(m.lane) = {}
          /\ m.ops[i].kind = "put" => \E id \in Ids : m.ops[i].ids = {id}
          /\ m.ops[i].written => i = 1
          /\ \A j \in DOMAIN m.ops \ {i} : m.ops[i].ids \cap m.ops[j].ids = {}

Seen == 1 .. next - 1

Known ==
    /\ next \in 1 .. MaxEvents + 1
    /\ ToSet(fwd.lane) \cup disk \cup promised \subseteq Seen
    /\ \A i \in DOMAIN fwd.ops : fwd.ops[i].ids \subseteq Seen
    /\ dlq \cup consumed \subseteq Ids

(* A record is promised only once it is on disk, and acknowledged only     *)
(* once the API has taken it or the dead-letter file holds it.             *)
Owing ==
    /\ \A i \in DOMAIN fwd.ops :
          IF fwd.ops[i].kind = "put"
          THEN /\ fwd.ops[i].ids \cap promised = {}
               /\ fwd.ops[i].written => fwd.ops[i].ids \subseteq disk
          ELSE fwd.ops[i].ids \subseteq consumed \cup dlq
    /\ \A r \in fwd.requests : r.acc \subseteq consumed

IndInv == Sound(fwd, {}) /\ Queue(fwd) /\ Known /\ Owing

(* What the forwarder's own bookkeeping leaves alone, and the ids E it may *)
(* add to what is outstanding.                                             *)
Carries(m, n, E) ==
    /\ n.stage = m.stage /\ n.ops = m.ops /\ n.walPending = m.walPending
    /\ ToSet(n.lane) = ToSet(m.lane)
    /\ \A r \in n.requests : r \in m.requests \/ r.acc = {}
    /\ n.active \subseteq m.active \cup E

(* Carries is reflexive and, the added ids together, transitive.           *)
LEMMA CarriesSelf ==
    ASSUME NEW m PROVE Carries(m, m, {})
  BY DEF Carries

(* Two steps that carry the gauges carry them together.                    *)
LEMMA CarriesOn ==
    ASSUME NEW m, NEW n, NEW o, NEW E, NEW F, Carries(m, n, E), Carries(n, o, F)
    PROVE  Carries(m, o, E \cup F)
  BY DEF Carries

-----------------------------------------------------------------------------
(* Steps of the memory: what each does to the gauges.                      *)

(* The types of the forwarder's fields.                                    *)
LEMMA MemoryFacts ==
    ASSUME NEW m \in Memory
    PROVE  /\ m.stage \in {"up", "closing", "aborted", "down"} /\ m.lane \in Seq(Ids)
           /\ m.ops \in Seq(Operation) /\ m.walPending \in Int /\ m.pending \in Seq(Ids)
           /\ m.requests \in SUBSET Request /\ m.retries \in Seq(Seq(Ids))
           /\ m.retryOwned \in SUBSET Ids /\ m.active \in SUBSET Ids
           /\ m.outstanding \in Int /\ m.retryOutstanding \in Int /\ m.paused \in BOOLEAN
  BY DEF Memory

(* Everything held is an id, and each place is part of what is held.       *)
LEMMA HeldIds ==
    ASSUME NEW m \in Memory
    PROVE  /\ Held(m) \subseteq Ids /\ ToSet(m.pending) \subseteq Held(m)
           /\ \A i \in DOMAIN m.retries : ToSet(m.retries[i]) \subseteq Held(m)
           /\ \A r \in m.requests : ToSet(r.batch) \subseteq Held(m)
<1>1. ToSet(m.pending) \subseteq Ids
  BY ElementFacts, MemoryFacts
<1>2. ASSUME NEW i \in DOMAIN m.retries PROVE ToSet(m.retries[i]) \subseteq Ids
  <2>1. m.retries[i] \in Seq(Ids)
    BY MemoryFacts
  <2> QED
    BY <2>1, ElementFacts
<1>3. ASSUME NEW r \in m.requests PROVE ToSet(r.batch) \subseteq Ids
  <2>1. r.batch \in Seq(Ids)
    BY MemoryFacts DEF Request
  <2> QED
    BY <2>1, ElementFacts
<1>4. /\ Waiting(m) \subseteq Ids
      /\ \A i \in DOMAIN m.retries : ToSet(m.retries[i]) \subseteq Waiting(m)
  BY <1>2 DEF Waiting
<1>5. OnWire(m) \subseteq Ids /\ \A r \in m.requests : ToSet(r.batch) \subseteq OnWire(m)
  BY <1>3 DEF OnWire
<1> QED
  BY <1>1, <1>4, <1>5 DEF Held

(* Flow touches nothing but `paused'.                                      *)
LEMMA FlowSound ==
    ASSUME NEW m, NEW X, Sound(m, X), NEW n, n = Flow(m)
    PROVE  /\ Sound(n, X) /\ Carries(m, n, {}) /\ n.lane = m.lane
           /\ n.retries = m.retries /\ n.requests = m.requests /\ n.pending = m.pending
           /\ n.active = m.active /\ n.outstanding = m.outstanding
<1>1. m \in Memory
  BY DEF Sound
<1>2. AtCapacity(m) \in BOOLEAN
  BY DEF AtCapacity
<1>3. \E b \in BOOLEAN : n = [m EXCEPT !.paused = b]
  <2>1. CASE m.stage = "up"
    BY <1>2, <2>1 DEF Flow
  <2>2. CASE m.stage # "up"
    <3>1. m = [m EXCEPT !.paused = m.paused] /\ m.paused \in BOOLEAN
      BY <1>1 DEF Memory
    <3> QED
      BY <2>2, <3>1 DEF Flow
  <2> QED
    BY <2>1, <2>2
<1>4. /\ n \in Memory /\ n.stage = m.stage /\ n.lane = m.lane /\ n.ops = m.ops
      /\ n.walPending = m.walPending /\ n.pending = m.pending /\ n.requests = m.requests
      /\ n.retries = m.retries /\ n.retryOwned = m.retryOwned /\ n.active = m.active
      /\ n.outstanding = m.outstanding /\ n.retryOutstanding = m.retryOutstanding
  BY <1>1, <1>3 DEF Memory
<1>5. Held(n) = Held(m) /\ (HeldOnce(m) => HeldOnce(n))
  BY <1>4 DEF Held, Waiting, OnWire, HeldOnce
<1>6. Exact(n, X)
  BY <1>4, <1>5 DEF Sound, Exact
<1>7. Spooled(n) /\ Reserve(n) /\ Wire(n)
  BY <1>4 DEF Sound, Spooled, Reserve, Wire
<1> QED
  BY <1>4, <1>6, <1>7 DEF Sound, Carries

(* Fewer outstanding ids keep within the limits.                           *)
LEMMA ReserveShrinks ==
    ASSUME NEW m, NEW n, Reserve(m), m.active \in SUBSET Ids, n.active \subseteq m.active,
           m.outstanding = Cardinality(m.active), n.outstanding = Cardinality(n.active)
    PROVE  Reserve(n)
<1>1. Cardinality(n.active) <= Cardinality(m.active) /\ Cardinality(n.active) \in Nat
      /\ Cardinality(m.active) \in Nat
  BY IdsFinite, FS_Subset
<1>2. /\ Cardinality(n.active \cap Low) <= Cardinality(m.active \cap Low)
      /\ Cardinality(n.active \cap Low) \in Nat /\ Cardinality(m.active \cap Low) \in Nat
  <2>1. IsFiniteSet(m.active \cap Low) /\ n.active \cap Low \subseteq m.active \cap Low
    BY IdsFinite
  <2> QED
    BY <2>1, IdsFinite, FS_Subset
<1>3. MaxOutstanding \in Int /\ ProtectedReserve \in Int
  BY ForwarderAssumption
<1> QED
  BY <1>1, <1>2, <1>3 DEF Reserve

(* settleOutstanding takes the ids in hand off the gauges.                 *)
LEMMA SettleSound ==
    ASSUME NEW m, NEW X, Sound(m, X), NEW S, S \cap Held(m) = {}, NEW n, n = Settle(m, S)
    PROVE  /\ Sound(n, X \ S) /\ Carries(m, n, {})
           /\ n.pending = m.pending /\ n.requests = m.requests /\ n.retries = m.retries
           /\ n.lane = m.lane /\ n.active = m.active \ S
<1> DEFINE T == S \cap m.active
<1>0. m \in Memory
  BY DEF Sound
<1>1. n = [m EXCEPT !.active = @ \ T, !.outstanding = @ - Cardinality(T),
                    !.retryOutstanding = @ - Cardinality(T \cap m.retryOwned),
                    !.retryOwned = @ \ T]
  BY DEF Settle
<1>2. Cardinality(T) \in Nat /\ Cardinality(T \cap m.retryOwned) \in Nat
  BY <1>0, IdsFinite, MemoryFacts
<1> HIDE DEF T
<1>3. /\ n.stage = m.stage /\ n.lane = m.lane /\ n.ops = m.ops
      /\ n.walPending = m.walPending /\ n.pending = m.pending /\ n.requests = m.requests
      /\ n.retries = m.retries /\ n.retryOwned = m.retryOwned \ T
      /\ n.active = m.active \ T
      /\ n.outstanding = m.outstanding - Cardinality(T)
      /\ n.retryOutstanding = m.retryOutstanding - Cardinality(T \cap m.retryOwned)
  BY <1>0, <1>1 DEF Memory
<1>4. n \in Memory
  <2>1. /\ m.outstanding - Cardinality(T) \in Int
        /\ m.retryOutstanding - Cardinality(T \cap m.retryOwned) \in Int
        /\ m.active \ T \in SUBSET Ids /\ m.retryOwned \ T \in SUBSET Ids
    BY <1>0, <1>2, MemoryFacts
  <2> QED
    BY <1>0, <1>1, <2>1 DEF Memory
<1>5. Held(n) = Held(m) /\ (HeldOnce(m) => HeldOnce(n))
  BY <1>3, SMTT(60) DEF Held, Waiting, OnWire, HeldOnce
<1>6. n.active = m.active \ S
  BY <1>3 DEF T
<1>7. (X \ S) \cap Held(n) = {} /\ n.active = Held(n) \cup (X \ S)
  BY <1>5, <1>6 DEF Sound, Exact
<1>8. n.outstanding = Cardinality(n.active)
  <2>1. T \in SUBSET m.active /\ m.active \in SUBSET Ids
    BY <1>0, MemoryFacts DEF T
  <2>2. Cardinality(m.active \ T) = Cardinality(m.active) - Cardinality(m.active \cap T)
    BY <2>1, IdsFinite, FS_Difference
  <2>3. m.active \cap T = T
    BY <2>1
  <2> QED
    BY <1>3, <2>2, <2>3 DEF Sound, Exact
<1>9. n.retryOutstanding = Cardinality(n.retryOwned)
  <2>1. m.retryOwned \in SUBSET Ids
    BY <1>0, MemoryFacts
  <2>2. Cardinality(m.retryOwned \ T)
          = Cardinality(m.retryOwned) - Cardinality(m.retryOwned \cap T)
    BY <2>1, IdsFinite, FS_Difference
  <2>3. m.retryOwned \cap T = T \cap m.retryOwned
    OBVIOUS
  <2> QED
    BY <1>3, <2>2, <2>3 DEF Sound, Exact
<1>10. /\ n.retryOwned \subseteq n.active
       /\ \A i \in DOMAIN n.retries :
             n.retries[i] # <<>> /\ ToSet(n.retries[i]) \subseteq n.retryOwned
  <2>1. \A i \in DOMAIN m.retries : ToSet(m.retries[i]) \cap T = {}
    BY <1>0, HeldIds DEF T
  <2> QED
    BY <1>3, <2>1 DEF Sound, Exact
<1>11. Exact(n, X \ S)
  BY <1>5, <1>7, <1>8, <1>9, <1>10 DEF Sound, Exact
<1>12. Spooled(n) /\ Wire(n)
  BY <1>3 DEF Sound, Spooled, Wire
<1>13. Reserve(n)
  <2>1. /\ Reserve(m) /\ m.active \in SUBSET Ids /\ n.active \subseteq m.active
        /\ m.outstanding = Cardinality(m.active)
    BY <1>0, <1>3, MemoryFacts DEF Sound, Exact
  <2> QED
    BY <1>8, <2>1, ReserveShrinks
<1>14. Carries(m, n, {})
  BY <1>3 DEF Carries
<1> QED
  BY <1>3, <1>4, <1>6, <1>11, <1>12, <1>13, <1>14 DEF Sound

(* Items move between the queue, the wire, the retry tasks and the hand of *)
(* a callback; the gauges stay as they are.                                *)
Kept(m, n) ==
    /\ n.stage = m.stage /\ n.lane = m.lane /\ n.ops = m.ops
    /\ n.walPending = m.walPending /\ n.active = m.active
    /\ n.outstanding = m.outstanding /\ n.retryOwned = m.retryOwned
    /\ n.retryOutstanding = m.retryOutstanding

(* The rule for every step that moves items: the gauges stay exact if what *)
(* is held and what is in hand are, together, what they were.              *)
LEMMA Moved ==
    ASSUME NEW m, NEW X, Sound(m, X), NEW n \in Memory, NEW Y, Kept(m, n),
           HeldOnce(n), Y \cap Held(n) = {}, Held(n) \cup Y = Held(m) \cup X,
           IsFiniteSet(n.requests),
           \A r \in n.requests : r \in m.requests \/ (Answers(r) /\ r.acc = {}),
           \A i \in DOMAIN n.retries :
              n.retries[i] # <<>> /\ ToSet(n.retries[i]) \subseteq m.retryOwned
    PROVE  Sound(n, Y) /\ Carries(m, n, {})
<1>1. Exact(n, Y)
  BY DEF Sound, Exact, Kept
<1>2. Spooled(n) /\ Reserve(n)
  BY DEF Sound, Spooled, Reserve, Kept
<1>3. Wire(n)
  BY DEF Sound, Wire
<1>4. Carries(m, n, {})
  BY DEF Carries, Kept
<1> QED
  BY <1>1, <1>2, <1>3, <1>4 DEF Sound

Requeued(m, p) == [m EXCEPT !.pending = p]

(* Items leave the pending queue into the callback's hand.                 *)
LEMMA PendingTaken ==
    ASSUME NEW m, NEW X, Sound(m, X), NEW p \in Seq(Ids), IsInjective(p),
           ToSet(p) \subseteq ToSet(m.pending), NEW n, n = Requeued(m, p)
    PROVE  /\ Sound(n, X \cup (ToSet(m.pending) \ ToSet(p))) /\ Carries(m, n, {})
           /\ Kept(m, n) /\ n.pending = p /\ n.requests = m.requests /\ n.retries = m.retries
<1> DEFINE Y == X \cup (ToSet(m.pending) \ ToSet(p))
<1>0. m \in Memory
  BY DEF Sound
<1>1. n \in Memory /\ n.pending = p /\ n.requests = m.requests /\ n.retries = m.retries
  BY <1>0 DEF Memory, Requeued
<1>2. Kept(m, n)
  BY <1>0 DEF Memory, Kept, Requeued
<1>3. HeldOnce(m) /\ X \cap Held(m) = {}
  BY DEF Sound, Exact
<1>4. HeldOnce(n)
  BY <1>1, <1>3 DEF HeldOnce
<1>5. Waiting(n) = Waiting(m) /\ OnWire(n) = OnWire(m)
  BY <1>1 DEF Waiting, OnWire
<1>6. ToSet(m.pending) \cap Waiting(m) = {} /\ ToSet(m.pending) \cap OnWire(m) = {}
  BY <1>3 DEF HeldOnce, Waiting, OnWire
<1>7. Y \cap Held(n) = {} /\ Held(n) \cup Y = Held(m) \cup X
  BY <1>1, <1>3, <1>5, <1>6 DEF Held
<1>8. IsFiniteSet(n.requests)
      /\ \A r \in n.requests : r \in m.requests \/ (Answers(r) /\ r.acc = {})
  <2>1. IsFiniteSet(m.requests)
    BY DEF Sound, Wire
  <2> QED
    BY <1>1, <2>1
<1>9. \A i \in DOMAIN n.retries :
         n.retries[i] # <<>> /\ ToSet(n.retries[i]) \subseteq m.retryOwned
  BY <1>1 DEF Sound, Exact
<1> HIDE DEF Y
<1>10. Sound(n, Y) /\ Carries(m, n, {})
  BY <1>1, <1>2, <1>4, <1>7, <1>8, <1>9, Moved, Zenon
<1> QED
  BY <1>1, <1>2, <1>10 DEF Y

(* A request leaves the wire with its batch.                               *)
LEMMA RequestTaken ==
    ASSUME NEW m, NEW X, Sound(m, X), NEW r \in m.requests,
           NEW n, n = [m EXCEPT !.requests = @ \ {r}]
    PROVE  /\ Sound(n, X \cup ToSet(r.batch)) /\ Carries(m, n, {})
           /\ Kept(m, n) /\ n.pending = m.pending /\ n.requests = m.requests \ {r}
           /\ n.retries = m.retries /\ ToSet(r.batch) \subseteq m.active
<1> DEFINE Y == X \cup ToSet(r.batch)
<1>0. m \in Memory
  BY DEF Sound
<1>1. /\ n \in Memory /\ n.pending = m.pending /\ n.requests = m.requests \ {r}
      /\ n.retries = m.retries
  BY <1>0 DEF Memory
<1>2. Kept(m, n)
  BY <1>0 DEF Memory, Kept
<1>3. HeldOnce(m) /\ X \cap Held(m) = {}
  BY DEF Sound, Exact
<1>4. HeldOnce(n)
  BY <1>1, <1>3 DEF HeldOnce
<1>5. Waiting(n) = Waiting(m) /\ OnWire(m) = OnWire(n) \cup ToSet(r.batch)
  BY <1>1 DEF Waiting, OnWire
<1>6. /\ ToSet(r.batch) \cap ToSet(m.pending) = {} /\ ToSet(r.batch) \cap Waiting(n) = {}
      /\ ToSet(r.batch) \cap OnWire(n) = {}
  BY <1>1, <1>3 DEF HeldOnce, Waiting, OnWire
<1>7. Y \cap Held(n) = {} /\ Held(n) \cup Y = Held(m) \cup X
  BY <1>1, <1>3, <1>5, <1>6 DEF Held
<1>8. IsFiniteSet(n.requests)
      /\ \A q \in n.requests : q \in m.requests \/ (Answers(q) /\ q.acc = {})
  <2>1. IsFiniteSet(m.requests)
    BY DEF Sound, Wire
  <2>2. n.requests \subseteq m.requests
    BY <1>1
  <2>3. IsFiniteSet(n.requests)
    BY <2>1, <2>2, FS_Subset
  <2> QED
    BY <2>2, <2>3
<1>9. \A i \in DOMAIN n.retries :
         n.retries[i] # <<>> /\ ToSet(n.retries[i]) \subseteq m.retryOwned
  BY <1>1 DEF Sound, Exact
<1>10. ToSet(r.batch) \subseteq m.active
  BY <1>0, HeldIds DEF Sound, Exact
<1> HIDE DEF Y
<1>11. Sound(n, Y) /\ Carries(m, n, {})
  BY <1>1, <1>2, <1>4, <1>7, <1>8, <1>9, Moved, Zenon
<1> QED
  BY <1>1, <1>2, <1>10, <1>11 DEF Y

(* The first retry task is taken.                                          *)
LEMMA RetryTaken ==
    ASSUME NEW m, NEW X, Sound(m, X), m.retries # <<>>,
           NEW n, n = [m EXCEPT !.retries = Tail(@)], NEW h, h = Head(m.retries)
    PROVE  /\ Sound(n, X \cup ToSet(h)) /\ Carries(m, n, {})
           /\ Kept(m, n) /\ n.pending = m.pending /\ n.requests = m.requests
           /\ Len(n.retries) = Len(m.retries) - 1
           /\ h \in Seq(Ids) /\ IsInjective(h) /\ h # <<>>
<1> DEFINE Y == X \cup ToSet(h)
           s == m.retries
<1>0. m \in Memory /\ m.retries \in Seq(Seq(Ids))
  BY MemoryFacts DEF Sound
<1>tail. Tail(s) \in Seq(Seq(Ids))
  BY <1>0
<1>1. /\ n \in Memory /\ n.pending = m.pending /\ n.requests = m.requests
      /\ n.retries = Tail(s)
  <2>1. n = [m EXCEPT !.retries = Tail(s)]
    OBVIOUS
  <2> HIDE DEF s
  <2> QED
    BY <1>0, <1>tail, <2>1 DEF Memory
<1>2. Kept(m, n)
  BY <1>0 DEF Memory, Kept
<1>3. HeldOnce(m) /\ X \cap Held(m) = {}
  BY DEF Sound, Exact
<1>4. /\ Len(s) \in Nat \ {0} /\ DOMAIN s = 1 .. Len(s) /\ 1 \in DOMAIN s /\ h = s[1]
      /\ DOMAIN Tail(s) = 1 .. Len(s) - 1 /\ Len(Tail(s)) = Len(s) - 1
      /\ \A i \in DOMAIN Tail(s) : Tail(s)[i] = s[i + 1] /\ i + 1 \in DOMAIN s /\ i + 1 # 1
      /\ \A i \in DOMAIN Tail(s), j \in DOMAIN Tail(s) : i # j => i + 1 # j + 1
      /\ \A i \in DOMAIN s \ {1} : i - 1 \in DOMAIN Tail(s) /\ s[i] = Tail(s)[i - 1]
  BY <1>0, SMTT(60)
<1> HIDE DEF s
<1>5. h \in Seq(Ids) /\ IsInjective(h) /\ h # <<>>
  <2>1. s[1] \in Seq(Ids)
    BY <1>0, <1>4 DEF s
  <2>2. IsInjective(s[1])
    BY <1>3, <1>4 DEF s, HeldOnce
  <2>3. s[1] # <<>>
    BY <1>4 DEF s, Sound, Exact
  <2> QED
    BY <1>4, <2>1, <2>2, <2>3
<1>6. HeldOnce(n)
  <2>1. ASSUME NEW i \in DOMAIN n.retries
        PROVE  /\ IsInjective(n.retries[i])
               /\ ToSet(n.retries[i]) \cap ToSet(n.pending) = {}
               /\ \A j \in DOMAIN n.retries \ {i} :
                     ToSet(n.retries[i]) \cap ToSet(n.retries[j]) = {}
               /\ \A r \in n.requests : ToSet(r.batch) \cap ToSet(n.retries[i]) = {}
    <3>0. HeldOnce(m) /\ n.retries = Tail(s) /\ i \in DOMAIN Tail(s) /\ n.retries[i] = s[i + 1]
          /\ i + 1 \in DOMAIN s
      BY <1>1, <1>3, <1>4
    <3>1. IsInjective(s[i + 1]) /\ ToSet(s[i + 1]) \cap ToSet(m.pending) = {}
      BY <3>0 DEF s, HeldOnce
    <3>2. \A j \in DOMAIN s \ {i + 1} : ToSet(s[i + 1]) \cap ToSet(s[j]) = {}
      BY <3>0 DEF s, HeldOnce
    <3>3. \A r \in m.requests : ToSet(r.batch) \cap ToSet(s[i + 1]) = {}
      BY <3>0 DEF s, HeldOnce
    <3>4. \A j \in DOMAIN n.retries \ {i} : n.retries[j] = s[j + 1] /\ j + 1 \in DOMAIN s \ {i + 1}
      BY <3>0, <1>4
    <3> QED
      BY <1>1, <3>0, <3>1, <3>2, <3>3, <3>4
  <2>2. IsInjective(n.pending)
    BY <1>1, <1>3 DEF HeldOnce
  <2>3. ASSUME NEW r \in n.requests
        PROVE  /\ IsInjective(r.batch)
               /\ ToSet(r.batch) \cap ToSet(n.pending) = {}
               /\ \A q \in n.requests \ {r} : ToSet(r.batch) \cap ToSet(q.batch) = {}
    BY <1>1, <1>3 DEF HeldOnce
  <2> QED
    BY <2>1, <2>2, <2>3 DEF HeldOnce
<1>7. Waiting(m) = Waiting(n) \cup ToSet(h) /\ OnWire(m) = OnWire(n)
  <2>1. \A i \in DOMAIN n.retries : ToSet(n.retries[i]) \subseteq Waiting(m)
    BY <1>1, <1>4 DEF s, Waiting
  <2>2. ToSet(h) \subseteq Waiting(m)
    BY <1>4 DEF s, Waiting
  <2>3. ASSUME NEW i \in DOMAIN s, NEW e \in ToSet(s[i])
        PROVE  e \in Waiting(n) \cup ToSet(h)
    BY <1>1, <1>4 DEF Waiting
  <2>4. Waiting(n) \subseteq Waiting(m)
    BY <2>1 DEF Waiting
  <2>5. Waiting(m) \subseteq Waiting(n) \cup ToSet(h)
    BY <2>3 DEF Waiting, s
  <2>6. OnWire(m) = OnWire(n)
    BY <1>1 DEF OnWire
  <2> QED
    BY <2>2, <2>4, <2>5, <2>6
<1>8. /\ ToSet(h) \cap ToSet(m.pending) = {} /\ ToSet(h) \cap Waiting(n) = {}
      /\ ToSet(h) \cap OnWire(n) = {}
  <2>1. ToSet(h) \cap ToSet(m.pending) = {}
    BY <1>3, <1>4 DEF s, HeldOnce
  <2>2. \A i \in DOMAIN n.retries : ToSet(h) \cap ToSet(n.retries[i]) = {}
    <3>1. \A j \in DOMAIN s \ {1} : ToSet(s[1]) \cap ToSet(s[j]) = {}
      BY <1>3, <1>4 DEF s, HeldOnce
    <3> QED
      BY <1>1, <1>4, <3>1
  <2>3. \A r \in n.requests : ToSet(h) \cap ToSet(r.batch) = {}
    BY <1>1, <1>3, <1>4 DEF s, HeldOnce
  <2> QED
    BY <2>1, <2>2, <2>3 DEF Waiting, OnWire
<1>9. Y \cap Held(n) = {} /\ Held(n) \cup Y = Held(m) \cup X
  BY <1>1, <1>3, <1>7, <1>8 DEF Held
<1>10. IsFiniteSet(n.requests)
       /\ \A r \in n.requests : r \in m.requests \/ (Answers(r) /\ r.acc = {})
  <2>1. IsFiniteSet(m.requests)
    BY DEF Sound, Wire
  <2> QED
    BY <1>1, <2>1
<1>11. \A i \in DOMAIN n.retries :
         n.retries[i] # <<>> /\ ToSet(n.retries[i]) \subseteq m.retryOwned
  BY <1>1, <1>4 DEF s, Sound, Exact
<1> HIDE DEF Y
<1>12. Sound(n, Y) /\ Carries(m, n, {})
  BY <1>1, <1>2, <1>6, <1>9, <1>10, <1>11, Moved, Zenon
<1> QED
  BY <1>1, <1>2, <1>4, <1>5, <1>12 DEF Y, s

(* dispatchEventBatch puts a batch in hand on the wire.                    *)
LEMMA Dispatched ==
    ASSUME NEW m, NEW X, Sound(m, X), NEW batch \in Seq(Ids), batch # <<>>,
           IsInjective(batch), ToSet(batch) \subseteq X, NEW retry \in BOOLEAN,
           NEW n, n = Dispatch(m, batch, retry)
    PROVE  /\ Sound(n, X \ ToSet(batch)) /\ Carries(m, n, {})
           /\ Kept(m, n) /\ n.pending = m.pending /\ n.retries = m.retries
<1> DEFINE q == [batch |-> batch, retry |-> retry, parts |-> <<batch>>,
                 acc |-> {}, rej |-> {}, again |-> <<>>]
           Y == X \ ToSet(batch)
<1>0. m \in Memory
  BY DEF Sound
<1>1. q \in Request /\ q.batch = batch /\ q.acc = {} /\ q.rej = {} /\ q.again = <<>>
      /\ q.parts = <<batch>>
  BY EmptyFacts DEF Request
<1>2. Answers(q)
  <2>1. DOMAIN <<batch>> = {1} /\ <<batch>>[1] = batch /\ <<batch>> # <<>>
    OBVIOUS
  <2> HIDE DEF q
  <2>2. \A i \in DOMAIN q.parts : q.parts[i] = batch /\ DOMAIN q.parts \ {i} = {}
    BY <1>1, <2>1
  <2>3. ToSet(q.again) = {} /\ IsInjective(q.again)
    BY <1>1, EmptyFacts
  <2> QED
    BY <1>1, <2>1, <2>2, <2>3 DEF Answers
<1>3. n = [m EXCEPT !.requests = @ \cup {q}]
  BY DEF Dispatch
<1> HIDE DEF q
<1>wire. m.requests \cup {q} \in SUBSET Request
  BY <1>0, <1>1, MemoryFacts
<1>4. /\ n \in Memory /\ n.pending = m.pending /\ n.requests = m.requests \cup {q}
      /\ n.retries = m.retries
  BY <1>0, <1>3, <1>wire DEF Memory
<1>5. Kept(m, n)
  BY <1>0, <1>3 DEF Memory, Kept
<1>6. HeldOnce(m) /\ X \cap Held(m) = {}
  BY DEF Sound, Exact
<1>7. /\ ToSet(batch) \cap ToSet(m.pending) = {}
      /\ \A i \in DOMAIN m.retries : ToSet(batch) \cap ToSet(m.retries[i]) = {}
      /\ \A r \in m.requests : ToSet(batch) \cap ToSet(r.batch) = {}
  BY <1>0, <1>6, HeldIds
<1>8. HeldOnce(n)
  BY <1>1, <1>4, <1>6, <1>7 DEF HeldOnce
<1>9. Waiting(n) = Waiting(m) /\ OnWire(n) = OnWire(m) \cup ToSet(batch)
  BY <1>1, <1>4 DEF Waiting, OnWire
<1>10. Y \cap Held(n) = {} /\ Held(n) \cup Y = Held(m) \cup X
  BY <1>4, <1>6, <1>9 DEF Held
<1>11. IsFiniteSet(n.requests)
  <2>1. IsFiniteSet(m.requests)
    BY DEF Sound, Wire
  <2> QED
    <3>1. IsFiniteSet(m.requests \cup {q})
      BY <2>1, FS_AddElement
    <3> QED
      BY <1>4, <3>1
<1>12. \A r \in n.requests : r \in m.requests \/ (Answers(r) /\ r.acc = {})
  <2>1. q.acc = {} /\ Answers(q) /\ n.requests = m.requests \cup {q}
    BY <1>1, <1>2, <1>4
  <2> HIDE DEF Answers
  <2>2. ASSUME NEW r \in n.requests, r \notin m.requests PROVE r = q
    BY <2>1, <2>2
  <2> QED
    BY <2>1, <2>2
<1>13. \A i \in DOMAIN n.retries :
         n.retries[i] # <<>> /\ ToSet(n.retries[i]) \subseteq m.retryOwned
  BY <1>4 DEF Sound, Exact
<1> HIDE DEF Y
<1>14. Sound(n, Y) /\ Carries(m, n, {})
  BY <1>4, <1>5, <1>8, <1>10, <1>11, <1>12, <1>13, Moved, Zenon
<1> QED
  BY <1>4, <1>5, <1>14 DEF Y

(* A task is put among the retry tasks.                                    *)
Retrying(m, at, items) == [m EXCEPT !.retries = InsertAt(@, at, items)]

(* scheduleRetryItems puts the items in hand among the retry tasks.        *)
LEMMA Scheduled ==
    ASSUME NEW m, NEW X, Sound(m, X), NEW items \in Seq(Ids), items # <<>>,
           IsInjective(items), ToSet(items) \subseteq X, ToSet(items) \subseteq m.retryOwned,
           NEW at \in 1 .. Len(m.retries) + 1,
           NEW n, n = Retrying(m, at, items)
    PROVE  /\ Sound(n, X \ ToSet(items)) /\ Carries(m, n, {})
           /\ Kept(m, n) /\ n.pending = m.pending /\ n.requests = m.requests
           /\ Len(n.retries) = Len(m.retries) + 1
<1> DEFINE Y == X \ ToSet(items)
           s == m.retries
           t == InsertAt(s, at, items)
<1>0. m \in Memory /\ s \in Seq(Seq(Ids))
  BY MemoryFacts DEF Sound
<1>1. /\ t \in Seq(Seq(Ids)) /\ Len(t) = Len(s) + 1
      /\ \A j \in DOMAIN t :
            t[j] = IF j < at THEN s[j] ELSE IF j = at THEN items ELSE s[j - 1]
  <2> DEFINE T == Seq(Ids)
  <2>1. s \in Seq(T) /\ items \in T /\ at \in 1 .. Len(s) + 1
    BY <1>0
  <2> HIDE DEF T, s
  <2>2. /\ InsertAt(s, at, items) \in Seq(T) /\ Len(InsertAt(s, at, items)) = Len(s) + 1
        /\ \A j \in DOMAIN InsertAt(s, at, items) :
              InsertAt(s, at, items)[j]
                = IF j < at THEN s[j] ELSE IF j = at THEN items ELSE s[j - 1]
    BY <2>1, InsertFacts
  <2> QED
    BY <2>2 DEF T
<1>2. Kept(m, n) /\ n = [m EXCEPT !.retries = t]
  BY <1>0 DEF Memory, Kept, Retrying
<1> HIDE DEF t
<1>3. /\ n \in Memory /\ n.pending = m.pending /\ n.requests = m.requests
      /\ n.retries = t
  BY <1>0, <1>1, <1>2 DEF Memory
<1>4. /\ DOMAIN s = 1 .. Len(s) /\ DOMAIN t = 1 .. Len(s) + 1 /\ Len(s) \in Nat
      /\ at \in DOMAIN t /\ t[at] = items
      /\ \A j \in DOMAIN t \ {at} : \E i \in DOMAIN s :
            t[j] = s[i] /\ i = IF j < at THEN j ELSE j - 1
      /\ \A i \in DOMAIN s : \E j \in DOMAIN t : t[j] = s[i]
  <2>1. DOMAIN s = 1 .. Len(s) /\ DOMAIN t = 1 .. Len(s) + 1 /\ Len(s) \in Nat /\ at \in DOMAIN t
    BY <1>0, <1>1
  <2>2. t[at] = items
    BY <1>1, <2>1
  <2>3. ASSUME NEW j \in DOMAIN t \ {at}
        PROVE  \E i \in DOMAIN s : t[j] = s[i] /\ i = IF j < at THEN j ELSE j - 1
    BY <1>1, <2>1, SMTT(60)
  <2>4. ASSUME NEW i \in DOMAIN s PROVE \E j \in DOMAIN t : t[j] = s[i]
    <3>1. CASE i < at
      <4>1. i \in DOMAIN t
        BY <2>1
      <4> QED
        BY <1>1, <3>1, <4>1
    <3>2. CASE i >= at
      <4>1. i + 1 \in DOMAIN t /\ ~(i + 1 < at) /\ i + 1 # at /\ (i + 1) - 1 = i
        BY <2>1, <3>2
      <4> QED
        BY <1>1, <4>1
    <3> QED
      BY <2>1, <3>1, <3>2
  <2> QED
    BY <2>1, <2>2, <2>3, <2>4
<1> HIDE DEF s
<1>5. HeldOnce(m) /\ X \cap Held(m) = {}
  BY DEF Sound, Exact
<1>6. /\ ToSet(items) \cap ToSet(m.pending) = {}
      /\ \A i \in DOMAIN s : ToSet(items) \cap ToSet(s[i]) = {}
      /\ \A r \in m.requests : ToSet(r.batch) \cap ToSet(items) = {}
  BY <1>0, <1>5, HeldIds DEF s
<1>7. /\ \A i \in DOMAIN s : IsInjective(s[i]) /\ ToSet(s[i]) \cap ToSet(m.pending) = {}
      /\ \A i \in DOMAIN s : \A j \in DOMAIN s \ {i} : ToSet(s[i]) \cap ToSet(s[j]) = {}
      /\ \A r \in m.requests : \A i \in DOMAIN s : ToSet(r.batch) \cap ToSet(s[i]) = {}
  BY <1>5 DEF s, HeldOnce
<1>8. HeldOnce(n)
  <2>1. ASSUME NEW j \in DOMAIN t
        PROVE  /\ IsInjective(t[j]) /\ ToSet(t[j]) \cap ToSet(m.pending) = {}
               /\ \A r \in m.requests : ToSet(r.batch) \cap ToSet(t[j]) = {}
    BY <1>4, <1>6, <1>7
  <2>2. ASSUME NEW j \in DOMAIN t, NEW k \in DOMAIN t \ {j}
        PROVE  ToSet(t[j]) \cap ToSet(t[k]) = {}
    <3>1. CASE j = at
      BY <1>4, <1>6, <3>1
    <3>2. CASE k = at
      BY <1>4, <1>6, <3>2
    <3>3. CASE j # at /\ k # at
      <4>1. PICK i \in DOMAIN s : t[j] = s[i] /\ i = IF j < at THEN j ELSE j - 1
        BY <1>4, <3>3
      <4>2. PICK l \in DOMAIN s : t[k] = s[l] /\ l = IF k < at THEN k ELSE k - 1
        BY <1>4, <3>3
      <4>3. i # l
        BY <1>4, <3>3, <4>1, <4>2
      <4> QED
        BY <1>7, <4>1, <4>2, <4>3
    <3> QED
      BY <3>1, <3>2, <3>3
  <2>3. /\ IsInjective(n.pending)
        /\ \A r \in n.requests :
              /\ IsInjective(r.batch) /\ ToSet(r.batch) \cap ToSet(n.pending) = {}
              /\ \A q \in n.requests \ {r} : ToSet(r.batch) \cap ToSet(q.batch) = {}
    BY <1>3, <1>5 DEF HeldOnce
  <2> QED
    <3>1. n.pending = m.pending /\ n.requests = m.requests /\ n.retries = t
      BY <1>3
    <3>2. \A j \in DOMAIN n.retries :
             /\ IsInjective(n.retries[j])
             /\ ToSet(n.retries[j]) \cap ToSet(n.pending) = {}
             /\ \A k \in DOMAIN n.retries \ {j} :
                   ToSet(n.retries[j]) \cap ToSet(n.retries[k]) = {}
      BY <2>1, <2>2, <3>1
    <3>3. \A r \in n.requests :
             \A i \in DOMAIN n.retries : ToSet(r.batch) \cap ToSet(n.retries[i]) = {}
      BY <2>1, <3>1
    <3> QED
      BY <2>3, <3>2, <3>3 DEF HeldOnce
<1>9. Waiting(n) = Waiting(m) \cup ToSet(items) /\ OnWire(n) = OnWire(m)
  <2>1. ASSUME NEW e \in Waiting(n) PROVE e \in Waiting(m) \cup ToSet(items)
    <3>1. PICK j \in DOMAIN t : e \in ToSet(t[j])
      BY <1>3, <2>1 DEF Waiting
    <3> QED
      BY <1>4, <3>1 DEF s, Waiting
  <2>2. ASSUME NEW e \in Waiting(m) PROVE e \in Waiting(n)
    <3>1. PICK i \in DOMAIN s : e \in ToSet(s[i])
      BY <2>2 DEF s, Waiting
    <3> QED
      BY <1>3, <1>4, <3>1 DEF Waiting
  <2>3. ToSet(items) \subseteq Waiting(n)
    BY <1>3, <1>4 DEF Waiting
  <2>4. OnWire(n) = OnWire(m)
    BY <1>3 DEF OnWire
  <2> QED
    BY <2>1, <2>2, <2>3, <2>4
<1>10. Y \cap Held(n) = {} /\ Held(n) \cup Y = Held(m) \cup X
  BY <1>3, <1>5, <1>9 DEF Held
<1>11. IsFiniteSet(n.requests)
       /\ \A r \in n.requests : r \in m.requests \/ (Answers(r) /\ r.acc = {})
  <2>1. IsFiniteSet(m.requests)
    BY DEF Sound, Wire
  <2> QED
    BY <1>3, <2>1
<1>12. \A i \in DOMAIN n.retries :
         n.retries[i] # <<>> /\ ToSet(n.retries[i]) \subseteq m.retryOwned
  <2>1. \A i \in DOMAIN s : s[i] # <<>> /\ ToSet(s[i]) \subseteq m.retryOwned
    BY DEF s, Sound, Exact
  <2> QED
    BY <1>3, <1>4, <2>1
<1> HIDE DEF Y
<1>13. Sound(n, Y) /\ Carries(m, n, {})
  BY <1>2, <1>3, <1>8, <1>10, <1>11, <1>12, Moved, Zenon
<1> QED
  BY <1>1, <1>2, <1>3, <1>13 DEF Y, s

(* markRetryOwned, for items in hand.                                      *)
LEMMA Marked ==
    ASSUME NEW m, NEW X, Sound(m, X), NEW items \in Seq(Ids), ToSet(items) \subseteq X,
           NEW n, n = MarkRetryOwned(m, items)
    PROVE  /\ Sound(n, X) /\ Carries(m, n, {}) /\ ToSet(items) \subseteq n.retryOwned
           /\ n.pending = m.pending /\ n.requests = m.requests /\ n.retries = m.retries
           /\ n.lane = m.lane /\ n.active = m.active /\ n.ops = m.ops
<1> DEFINE F == ToSet(items) \ m.retryOwned
<1>0. m \in Memory /\ m.retryOwned \in SUBSET Ids /\ m.retryOutstanding \in Int
  BY MemoryFacts DEF Sound
<1>1. n = [m EXCEPT !.retryOwned = @ \cup F, !.retryOutstanding = @ + Cardinality(F)]
  BY DEF MarkRetryOwned
<1>2. F \in SUBSET Ids
  BY ElementFacts
<1>3. Cardinality(F) \in Nat
  BY <1>2, IdsFinite
<1>4. F \cap m.retryOwned = {} /\ ToSet(items) \subseteq m.retryOwned \cup F /\ F \subseteq X
  OBVIOUS
<1> HIDE DEF F
<1>5. m.retryOwned \cup F \in SUBSET Ids /\ m.retryOutstanding + Cardinality(F) \in Int
  BY <1>0, <1>2, <1>3
<1>6. /\ n \in Memory /\ n.stage = m.stage /\ n.lane = m.lane /\ n.ops = m.ops
      /\ n.walPending = m.walPending /\ n.pending = m.pending /\ n.requests = m.requests
      /\ n.retries = m.retries /\ n.retryOwned = m.retryOwned \cup F
      /\ n.active = m.active /\ n.outstanding = m.outstanding
      /\ n.retryOutstanding = m.retryOutstanding + Cardinality(F)
  BY <1>0, <1>1, <1>5 DEF Memory
<1>7. Held(n) = Held(m) /\ (HeldOnce(m) => HeldOnce(n))
  <2>1. n.pending = m.pending /\ n.requests = m.requests /\ n.retries = m.retries
    BY <1>6
  <2> QED
    BY <2>1, ZenonT(60) DEF Held, Waiting, OnWire, HeldOnce
<1>8. n.retryOutstanding = Cardinality(n.retryOwned)
  <2>1. /\ IsFiniteSet(F) /\ IsFiniteSet(m.retryOwned) /\ Cardinality(m.retryOwned) \in Nat
    BY <1>0, <1>2, IdsFinite
  <2>2. Cardinality(m.retryOwned \cup F)
          = Cardinality(m.retryOwned) + Cardinality(F) - Cardinality(m.retryOwned \cap F)
    BY <2>1, FS_Union
  <2>3. m.retryOwned \cap F = {} /\ Cardinality({}) = 0
    BY <1>4, FS_EmptySet
  <2>4. m.retryOutstanding = Cardinality(m.retryOwned)
    BY DEF Sound, Exact
  <2>5. Cardinality(m.retryOwned \cup F) = Cardinality(m.retryOwned) + Cardinality(F)
    <3>1. Cardinality(m.retryOwned \cap F) = 0
      BY <2>3
    <3> DEFINE p == Cardinality(m.retryOwned)
               q == Cardinality(F)
    <3>2. p \in Nat /\ q \in Nat /\ p + q - 0 = p + q
      BY <1>3, <2>1
    <3> QED
      BY <2>2, <3>1, <3>2
  <2>6. /\ n.retryOwned = m.retryOwned \cup F
        /\ n.retryOutstanding = m.retryOutstanding + Cardinality(F)
    BY <1>6
  <2> QED
    BY <2>4, <2>5, <2>6, Zenon
<1>9. /\ n.retryOwned \subseteq n.active
      /\ \A i \in DOMAIN n.retries :
            n.retries[i] # <<>> /\ ToSet(n.retries[i]) \subseteq n.retryOwned
  BY <1>4, <1>6 DEF Sound, Exact
<1>10. Exact(n, X)
  BY <1>6, <1>7, <1>8, <1>9 DEF Sound, Exact
<1>11. Spooled(n) /\ Reserve(n) /\ Wire(n)
  BY <1>6 DEF Sound, Spooled, Reserve, Wire
<1>12. Carries(m, n, {})
  BY <1>6 DEF Carries
<1> QED
  BY <1>4, <1>6, <1>10, <1>11, <1>12 DEF Sound

(* The lane changes, but keeps what is outstanding.                        *)
Spool(m, l, o) == [m EXCEPT !.lane = l, !.ops = o]

(* The spool's records and operations change; the gauges do not see it.    *)
LEMMA LaneChanged ==
    ASSUME NEW m, NEW X, Sound(m, X), NEW l \in Seq(Ids), IsInjective(l),
           m.active \subseteq ToSet(l), NEW o \in Seq(Operation),
           NEW n, n = Spool(m, l, o)
    PROVE  /\ Sound(n, X) /\ n.lane = l /\ n.ops = o /\ n.stage = m.stage
           /\ n.walPending = m.walPending /\ n.active = m.active
           /\ n.pending = m.pending /\ n.requests = m.requests /\ n.retries = m.retries
<1>0. m \in Memory
  BY DEF Sound
<1>1. /\ n \in Memory /\ n.lane = l /\ n.ops = o /\ n.stage = m.stage
      /\ n.walPending = m.walPending /\ n.pending = m.pending /\ n.requests = m.requests
      /\ n.retries = m.retries /\ n.retryOwned = m.retryOwned /\ n.active = m.active
      /\ n.outstanding = m.outstanding /\ n.retryOutstanding = m.retryOutstanding
  BY <1>0 DEF Memory, Spool
<1>2. Held(n) = Held(m) /\ (HeldOnce(m) => HeldOnce(n))
  BY <1>1, ZenonT(60) DEF Held, Waiting, OnWire, HeldOnce
<1>3. Exact(n, X)
  BY <1>1, <1>2 DEF Sound, Exact
<1>4. Spooled(n) /\ Reserve(n) /\ Wire(n)
  BY <1>1 DEF Sound, Spooled, Reserve, Wire
<1> QED
  BY <1>1, <1>3, <1>4 DEF Sound

(* recordRetryExhausted: the items leave the gauges and stay in the spool. *)
LEMMA Exhausted ==
    ASSUME NEW m, NEW X, Sound(m, X), NEW items \in Seq(Ids), IsInjective(items),
           ToSet(items) \subseteq X, NEW n, n = Exhaust(m, items)
    PROVE  /\ Sound(n, X \ ToSet(items)) /\ Carries(m, n, {})
           /\ n.pending = m.pending /\ n.requests = m.requests /\ n.retries = m.retries
<1> DEFINE S == ToSet(items)
           k == Settle(m, S)
           a == Minus(k.lane, S)
           b == Meet(items, ToSet(k.lane))
<1>1. S \cap Held(m) = {}
  BY DEF Sound, Exact
<1>2. /\ Sound(k, X \ S) /\ Carries(m, k, {})
      /\ k.pending = m.pending /\ k.requests = m.requests /\ k.retries = m.retries
      /\ k.lane = m.lane /\ k.active = m.active \ S
  <2>1. k = Settle(m, S)
    OBVIOUS
  <2> HIDE DEF S, k
  <2> QED
    BY <1>1, <2>1, SettleSound, SMTT(60)
<1>3. n = [k EXCEPT !.lane = a \o b]
  BY DEF Exhaust
<1> HIDE DEF k
<1>4. k \in Memory /\ k.lane \in Seq(Ids) /\ k.ops \in Seq(Operation)
  BY <1>2, MemoryFacts DEF Sound
<1>5. IsInjective(k.lane) /\ k.active \subseteq ToSet(k.lane)
  BY <1>2 DEF Sound, Spooled
<1>6. /\ a \in Seq(Ids) /\ IsInjective(a) /\ ToSet(a) = ToSet(k.lane) \ S
  BY <1>4, <1>5, MinusFacts
<1>7. /\ b \in Seq(Ids) /\ IsInjective(b) /\ ToSet(b) = S \cap ToSet(k.lane)
  BY MeetFacts
<1> HIDE DEF a, b, S
<1>8. /\ a \o b \in Seq(Ids) /\ ToSet(a \o b) = ToSet(a) \cup ToSet(b)
      /\ IsInjective(a \o b)
  <2>1. ToSet(a) \cap ToSet(b) = {}
    BY <1>6, <1>7
  <2> QED
    BY <1>6, <1>7, <2>1, ConcatFacts
<1>9. ToSet(a \o b) = ToSet(k.lane)
  BY <1>6, <1>7, <1>8
<1>10. n = [k EXCEPT !.lane = a \o b, !.ops = k.ops]
  <2> HIDE DEF Memory
  <2>1. [k EXCEPT !.lane = a \o b] = [k EXCEPT !.lane = a \o b, !.ops = k.ops]
    BY <1>4 DEF Memory
  <2> QED
    BY <1>3, <2>1
<1>11. /\ Sound(n, X \ S) /\ n.lane = a \o b /\ n.ops = k.ops /\ n.stage = k.stage
       /\ n.walPending = k.walPending /\ n.active = k.active
       /\ n.pending = k.pending /\ n.requests = k.requests /\ n.retries = k.retries
  <2> DEFINE l == a \o b
             o == k.ops
             Z == X \ S
  <2>1. Sound(k, Z) /\ l \in Seq(Ids) /\ IsInjective(l) /\ k.active \subseteq ToSet(l)
    BY <1>2, <1>5, <1>8, <1>9
  <2>2. o \in Seq(Operation) /\ n = Spool(k, l, o)
    BY <1>4, <1>10 DEF Spool
  <2> HIDE DEF l, o, Z
  <2>3. /\ Sound(n, Z) /\ n.lane = l /\ n.ops = o /\ n.stage = k.stage
        /\ n.walPending = k.walPending /\ n.active = k.active
        /\ n.pending = k.pending /\ n.requests = k.requests /\ n.retries = k.retries
    BY <2>1, <2>2, LaneChanged
  <2> QED
    BY <2>3 DEF l, o, Z
<1>12. Carries(m, n, {})
  BY <1>2, <1>9, <1>11 DEF Carries
<1> QED
  BY <1>2, <1>11, <1>12 DEF S

(* The priority queue takes an id once, behind those of its priority.      *)
LEMMA PushFacts ==
    ASSUME NEW s \in Seq(Ids), NEW id \in Ids
    PROVE  /\ Push(s, id) \in Seq(Ids) /\ ToSet(Push(s, id)) = ToSet(s) \cup {id}
           /\ (IsInjective(s) /\ id \notin ToSet(s)) => IsInjective(Push(s, id))
<1> DEFINE D == {i \in DOMAIN s : Priority[s[i]] >= Priority[id]}
           at == Cardinality(D) + 1
           t == InsertAt(s, at, id)
<1>1. DOMAIN s = 1 .. Len(s) /\ Len(s) \in Nat
  OBVIOUS
<1>2. at \in 1 .. Len(s) + 1
  <2>1. IsFiniteSet(1 .. Len(s)) /\ Cardinality(1 .. Len(s)) = Len(s)
    BY <1>1, FS_Interval
  <2>2. D \in SUBSET (1 .. Len(s))
    BY <1>1
  <2> HIDE DEF D
  <2>3. IsFiniteSet(D) /\ Cardinality(D) <= Len(s)
    BY <2>1, <2>2, FS_Subset
  <2>4. Cardinality(D) \in Nat
    BY <2>3, FS_CardinalityType
  <2> QED
    BY <1>1, <2>3, <2>4
<1>3. Push(s, id) = t
  BY DEF Push
<1> HIDE DEF at, D
<1>4. /\ t \in Seq(Ids) /\ Len(t) = Len(s) + 1
      /\ \A j \in DOMAIN t :
            t[j] = IF j < at THEN s[j] ELSE IF j = at THEN id ELSE s[j - 1]
  BY <1>2, InsertFacts
<1> HIDE DEF t
<1>5. DOMAIN t = 1 .. Len(s) + 1 /\ at \in DOMAIN t /\ t[at] = id
  BY <1>1, <1>2, <1>4
<1>6. \A j \in DOMAIN t \ {at} : \E i \in DOMAIN s : t[j] = s[i] /\ i = IF j < at THEN j ELSE j - 1
  BY <1>1, <1>2, <1>4, <1>5
<1>7. ASSUME NEW i \in DOMAIN s PROVE \E j \in DOMAIN t : t[j] = s[i]
  <2>1. CASE i < at
    <3>1. i \in DOMAIN t
      BY <1>1, <1>5
    <3> QED
      BY <1>4, <2>1, <3>1
  <2>2. CASE i >= at
    <3>1. i + 1 \in DOMAIN t /\ ~(i + 1 < at) /\ i + 1 # at /\ (i + 1) - 1 = i
      BY <1>1, <1>2, <1>5, <2>2
    <3> QED
      BY <1>4, <3>1
  <2> QED
    BY <1>1, <1>2, <2>1, <2>2
<1>8. ToSet(t) = ToSet(s) \cup {id}
  <2>1. ASSUME NEW e \in ToSet(t) PROVE e \in ToSet(s) \cup {id}
    <3>1. PICK j \in DOMAIN t : e = t[j]
      BY DEF ToSet
    <3> QED
      BY <1>5, <1>6, <3>1 DEF ToSet
  <2>2. ASSUME NEW e \in ToSet(s) PROVE e \in ToSet(t)
    <3>1. PICK i \in DOMAIN s : e = s[i]
      BY <2>2 DEF ToSet
    <3> QED
      BY <1>7, <3>1 DEF ToSet
  <2>3. id \in ToSet(t)
    BY <1>5 DEF ToSet
  <2> QED
    BY <2>1, <2>2, <2>3
<1>9. ASSUME IsInjective(s), id \notin ToSet(s) PROVE IsInjective(t)
  <2>1. \A i \in DOMAIN s : s[i] # id
    BY <1>9 DEF ToSet
  <2>2. \A i, k \in DOMAIN s : s[i] = s[k] => i = k
    BY <1>9 DEF IsInjective
  <2>3. ASSUME NEW j \in DOMAIN t, NEW k \in DOMAIN t, t[j] = t[k] PROVE j = k
    <3>1. CASE j = at
      BY <1>5, <1>6, <2>1, <2>3, <3>1
    <3>2. CASE k = at
      BY <1>5, <1>6, <2>1, <2>3, <3>2
    <3>3. CASE j # at /\ k # at
      <4>1. PICK i \in DOMAIN s : t[j] = s[i] /\ i = IF j < at THEN j ELSE j - 1
        BY <1>6, <3>3
      <4>2. PICK l \in DOMAIN s : t[k] = s[l] /\ l = IF k < at THEN k ELSE k - 1
        BY <1>6, <3>3
      <4>3. i = l
        BY <2>2, <2>3, <4>1, <4>2
      <4> QED
        BY <1>2, <1>5, <3>3, <4>1, <4>2, <4>3
    <3> QED
      BY <3>1, <3>2, <3>3
  <2> QED
    BY <2>3 DEF IsInjective
<1> QED
  BY <1>3, <1>4, <1>8, <1>9

(* trackOutstanding, for a record that fits.                               *)
LEMMA Pushed ==
    ASSUME NEW m, NEW X, Sound(m, X), NEW id \in Ids, id \notin m.active,
           id \in ToSet(m.lane), ~Exceeds(m, id),
           NEW n, n = Track([m EXCEPT !.pending = Push(@, id)], id)
    PROVE  /\ Sound(n, X) /\ Carries(m, n, {id}) /\ n.retries = m.retries
<1> DEFINE p == Push(m.pending, id)
<1>0. m \in Memory /\ m.active \in SUBSET Ids /\ m.outstanding \in Int /\ m.pending \in Seq(Ids)
  BY MemoryFacts DEF Sound
<1>1. n = [m EXCEPT !.pending = p, !.active = @ \cup {id}, !.outstanding = @ + 1]
  BY <1>0 DEF Track, Memory
<1>2. HeldOnce(m) /\ X \cap Held(m) = {} /\ m.active = Held(m) \cup X
      /\ m.outstanding = Cardinality(m.active) /\ m.retryOwned \subseteq m.active
  BY DEF Sound, Exact
<1>3. id \notin Held(m) /\ id \notin X
  BY <1>2
<1>4. p \in Seq(Ids) /\ ToSet(p) = ToSet(m.pending) \cup {id} /\ IsInjective(p)
  <2>1. IsInjective(m.pending) /\ id \notin ToSet(m.pending)
    BY <1>2, <1>3 DEF HeldOnce, Held
  <2> QED
    BY <1>0, <2>1, PushFacts
<1> HIDE DEF p
<1>5. m.active \cup {id} \in SUBSET Ids /\ m.outstanding + 1 \in Int
  BY <1>0
<1>6. /\ n \in Memory /\ n.stage = m.stage /\ n.lane = m.lane /\ n.ops = m.ops
      /\ n.walPending = m.walPending /\ n.pending = p /\ n.requests = m.requests
      /\ n.retries = m.retries /\ n.retryOwned = m.retryOwned
      /\ n.active = m.active \cup {id} /\ n.outstanding = m.outstanding + 1
      /\ n.retryOutstanding = m.retryOutstanding
  BY <1>0, <1>1, <1>4, <1>5 DEF Memory
<1>7. HeldOnce(n)
  <2>1. \A i \in DOMAIN m.retries : id \notin ToSet(m.retries[i])
    BY <1>0, <1>3, HeldIds
  <2>2. \A r \in m.requests : id \notin ToSet(r.batch)
    BY <1>0, <1>3, HeldIds
  <2>3. n.pending = p /\ n.requests = m.requests /\ n.retries = m.retries
    BY <1>6
  <2> QED
    <3>1. ASSUME NEW i \in DOMAIN m.retries
          PROVE  /\ IsInjective(m.retries[i]) /\ ToSet(m.retries[i]) \cap ToSet(p) = {}
                 /\ \A j \in DOMAIN m.retries \ {i} :
                       ToSet(m.retries[i]) \cap ToSet(m.retries[j]) = {}
      BY <1>2, <1>4, <2>1 DEF HeldOnce
    <3>2. ASSUME NEW r \in m.requests
          PROVE  /\ IsInjective(r.batch) /\ ToSet(r.batch) \cap ToSet(p) = {}
                 /\ \A i \in DOMAIN m.retries : ToSet(r.batch) \cap ToSet(m.retries[i]) = {}
                 /\ \A q \in m.requests \ {r} : ToSet(r.batch) \cap ToSet(q.batch) = {}
      BY <1>2, <1>4, <2>2 DEF HeldOnce
    <3> QED
      BY <1>4, <2>3, <3>1, <3>2 DEF HeldOnce
<1>8. Held(n) = Held(m) \cup {id}
  <2>1. n.pending = p /\ n.requests = m.requests /\ n.retries = m.retries
    BY <1>6
  <2> QED
    BY <1>4, <2>1 DEF Held, Waiting, OnWire
<1>9. n.outstanding = Cardinality(n.active)
  <2>1. Cardinality(m.active \cup {id}) = Cardinality(m.active) + 1
    BY <1>0, IdsFinite, FS_AddElement
  <2> QED
    BY <1>2, <1>6, <2>1
<1>10. Exact(n, X)
  <2>1. X \cap Held(n) = {} /\ n.active = Held(n) \cup X /\ n.retryOwned \subseteq n.active
    BY <1>2, <1>3, <1>6, <1>8
  <2>2. /\ n.retryOutstanding = Cardinality(n.retryOwned)
        /\ \A i \in DOMAIN n.retries :
              n.retries[i] # <<>> /\ ToSet(n.retries[i]) \subseteq n.retryOwned
    BY <1>6 DEF Sound, Exact
  <2> QED
    BY <1>7, <1>9, <2>1, <2>2 DEF Exact
<1>11. Spooled(n) /\ Wire(n)
  BY <1>6 DEF Sound, Spooled, Wire
<1>12. Reserve(n)
  <2>1. m.outstanding + 1 <= Limit(id)
    <3>1. Limit(id) \in Int
      BY ForwarderAssumption DEF Limit
    <3> QED
      BY <1>0, <3>1 DEF Exceeds
  <2>2. MaxOutstanding \in Nat /\ ProtectedReserve \in Nat
    BY ForwarderAssumption
  <2>3. Priority[id] \in Int /\ ProtectedPriority \in Int
    BY ForwarderAssumption
  <2>4. n.outstanding <= MaxOutstanding
    BY <1>0, <1>6, <2>1, <2>2 DEF Limit
  <2>5. CASE Priority[id] >= ProtectedPriority
    <3>1. id \notin Low
      BY <2>3, <2>5 DEF Low
    <3>2. n.active \cap Low = m.active \cap Low
      BY <1>6, <3>1
    <3> QED
      BY <2>4, <3>2 DEF Sound, Reserve
  <2>6. CASE ~(Priority[id] >= ProtectedPriority)
    <3>1. n.outstanding <= MaxOutstanding - ProtectedReserve
      BY <1>6, <2>1, <2>6 DEF Limit
    <3>2. n.active \in SUBSET Ids /\ n.active \cap Low \in SUBSET n.active
      BY <1>5, <1>6
    <3>3. IsFiniteSet(n.active) /\ Cardinality(n.active) \in Nat
          /\ Cardinality(n.active \cap Low) \in Nat
      BY <3>2, IdsFinite
    <3>4. Cardinality(n.active \cap Low) <= Cardinality(n.active)
      BY <3>2, <3>3, FS_Subset
    <3> QED
      BY <1>9, <2>2, <2>4, <3>1, <3>3, <3>4 DEF Reserve
  <2> QED
    BY <2>5, <2>6
<1>13. Carries(m, n, {id})
  BY <1>6 DEF Carries
<1> QED
  BY <1>6, <1>10, <1>11, <1>12, <1>13 DEF Sound

(* takePendingBatch takes something whenever something is pending.         *)
LEMMA BatchTaken ==
    ASSUME NEW m \in Memory, m.pending # <<>>, IsInjective(m.pending),
           NEW b, b = TakePendingBatch(m)
    PROVE  b \in Seq(Ids) /\ b # <<>> /\ IsInjective(b) /\ ToSet(b) \subseteq ToSet(m.pending)
<1> DEFINE a == AdaptiveBatchSize(Len(m.pending))
<1>1. m.pending \in Seq(Ids)
  BY MemoryFacts
<1>2. a \in Int /\ a >= 1
  <2>1. BatchSize \in Nat \ {0} /\ Len(m.pending) \in Nat
    BY <1>1, ForwarderAssumption
  <2> QED
    BY <2>1 DEF AdaptiveBatchSize
<1>3. b = FirstN(m.pending, a)
  BY DEF TakePendingBatch
<1> HIDE DEF a
<1> QED
  BY <1>1, <1>2, <1>3, FirstFacts

-----------------------------------------------------------------------------
(* Calls.                                                                  *)

DispatchPending(m) ==
    Dispatch(Requeued(m, Minus(m.pending, ToSet(TakePendingBatch(m)))), TakePendingBatch(m), FALSE)

(* A pending batch goes out.                                               *)
LEMMA PendingDispatched ==
    ASSUME NEW m, Sound(m, {}), m.pending # <<>>
    PROVE  /\ Sound(DispatchPending(m), {}) /\ Carries(m, DispatchPending(m), {})
           /\ DispatchPending(m).retries = m.retries
<1>0. m \in Memory /\ m.pending \in Seq(Ids) /\ IsInjective(m.pending)
  BY MemoryFacts DEF Sound, Exact, HeldOnce
<1>1. PICK batch : batch = TakePendingBatch(m)
  OBVIOUS
<1>2. PICK left : left = Minus(m.pending, ToSet(batch))
  OBVIOUS
<1>3. PICK rest : rest = Requeued(m, left)
  OBVIOUS
<1>4. PICK n : n = Dispatch(rest, batch, FALSE)
  OBVIOUS
<1>5. batch \in Seq(Ids) /\ batch # <<>> /\ IsInjective(batch)
      /\ ToSet(batch) \subseteq ToSet(m.pending)
  BY <1>0, <1>1, BatchTaken
<1>6. left \in Seq(Ids) /\ IsInjective(left) /\ ToSet(left) = ToSet(m.pending) \ ToSet(batch)
  BY <1>0, <1>2, MinusFacts
<1>7. ToSet(left) \subseteq ToSet(m.pending)
  BY <1>6
<1>8. /\ Sound(rest, {} \cup (ToSet(m.pending) \ ToSet(left))) /\ Carries(m, rest, {})
      /\ rest.pending = left /\ rest.retries = m.retries
  <2> DEFINE X == {}
  <2>0. Sound(m, X)
    OBVIOUS
  <2> HIDE DEF X
  <2>1. Sound(rest, X \cup (ToSet(m.pending) \ ToSet(left)))
    BY <2>0, <1>3, <1>6, <1>7, PendingTaken
  <2>2. Carries(m, rest, {})
    BY <2>0, <1>3, <1>6, <1>7, PendingTaken
  <2>3. rest.pending = left /\ rest.retries = m.retries
    BY <1>0, <1>3 DEF Requeued, Memory
  <2> QED
    BY <2>1, <2>2, <2>3 DEF X
<1>9. {} \cup (ToSet(m.pending) \ ToSet(left)) = ToSet(batch)
  BY <1>5, <1>6
<1>10. Sound(rest, ToSet(batch))
  BY <1>8, <1>9
<1>11. ToSet(batch) \subseteq ToSet(batch) /\ FALSE \in BOOLEAN
  OBVIOUS
<1>12. /\ Sound(n, ToSet(batch) \ ToSet(batch)) /\ Carries(rest, n, {})
       /\ n.retries = rest.retries
  <2> DEFINE X == ToSet(batch)
  <2>1. Sound(rest, X) /\ ToSet(batch) \subseteq X
    BY <1>10
  <2> HIDE DEF X
  <2>2. Sound(n, X \ ToSet(batch)) /\ Carries(rest, n, {})
    BY <1>4, <1>5, <1>11, <2>1, Dispatched
  <2>3. n.retries = rest.retries
    BY <1>4, <1>10 DEF Dispatch, Sound, Memory
  <2> QED
    BY <2>2, <2>3 DEF X
<1>13. ToSet(batch) \ ToSet(batch) = {}
  OBVIOUS
<1>14. Carries(m, n, {} \cup {})
  BY <1>8, <1>12, CarriesOn
<1>15. n = DispatchPending(m)
  BY <1>1, <1>2, <1>3, <1>4 DEF DispatchPending
<1> QED
  BY <1>8, <1>12, <1>13, <1>14, <1>15

Pumping(st) ==
    /\ Sound(st.m, {}) /\ st.due \in Seq(BOOLEAN)
    /\ Len(st.due) <= Len(st.m.retries)

(* One turn of pumpEventWork's loop.                                       *)
LEMMA PumpStepSound ==
    ASSUME NEW st, Pumping(st), NEW o, o = PumpStep(st)
    PROVE  Pumping(o) /\ Carries(st.m, o.m, {})
<1> DEFINE m == st.m
<1>0. /\ Sound(m, {}) /\ m \in Memory /\ st.due \in Seq(BOOLEAN)
      /\ Len(st.due) <= Len(m.retries) /\ m.pending \in Seq(Ids)
      /\ m.retries \in Seq(Seq(Ids)) /\ IsInjective(m.pending)
  BY MemoryFacts DEF Pumping, Sound, Exact, HeldOnce
<1>1. CASE Cardinality(m.requests) >= MaxInflight
  <2>1. o = st
    BY <1>1 DEF PumpStep
  <2> QED
    BY <2>1, CarriesSelf
<1>2. CASE ~(Cardinality(m.requests) >= MaxInflight) /\ st.due # <<>>
  <2> DEFINE task == Head(m.retries)
             rest == [m EXCEPT !.retries = Tail(@)]
             next1 == IF Head(st.due) THEN Exhaust(rest, task) ELSE Dispatch(rest, task, TRUE)
  <2>1. o.m = next1 /\ o.due = Tail(st.due)
    BY <1>2 DEF PumpStep
  <2>2. m.retries # <<>> /\ Tail(st.due) \in Seq(BOOLEAN) /\ Len(Tail(st.due)) = Len(st.due) - 1
        /\ Len(st.due) \in Nat /\ Len(m.retries) \in Nat /\ Head(st.due) \in BOOLEAN
    <3>1. Len(st.due) \in Nat /\ Len(m.retries) \in Nat
      BY <1>0
    <3>2. Len(st.due) >= 1 /\ Tail(st.due) \in Seq(BOOLEAN) /\ Head(st.due) \in BOOLEAN
          /\ Len(Tail(st.due)) = Len(st.due) - 1
      <4> DEFINE d == st.due
      <4>1. d \in Seq(BOOLEAN) /\ d # <<>>
        BY <1>0, <1>2
      <4> HIDE DEF d
      <4>2. Len(d) >= 1
        BY <4>1
      <4>3. Tail(d) \in Seq(BOOLEAN) /\ Len(Tail(d)) = Len(d) - 1
        BY <4>1
      <4>4. Head(d) \in BOOLEAN
        BY <4>1
      <4> QED
        BY <4>2, <4>3, <4>4 DEF d
    <3>3. Len(m.retries) >= 1
      BY <1>0, <3>1, <3>2
    <3>4. m.retries # <<>>
      BY <3>3
    <3> QED
      BY <3>1, <3>2, <3>4
  <2>3. rest = [m EXCEPT !.retries = Tail(@)] /\ task = Head(m.retries)
    OBVIOUS
  <2> HIDE DEF rest, task, m
  <2>4. /\ Sound(rest, {} \cup ToSet(task)) /\ Carries(m, rest, {})
        /\ Kept(m, rest) /\ rest.pending = m.pending /\ rest.requests = m.requests
        /\ Len(rest.retries) = Len(m.retries) - 1
        /\ task \in Seq(Ids) /\ IsInjective(task) /\ task # <<>>
    BY <1>0, <2>2, <2>3, RetryTaken
  <2>5. Sound(rest, ToSet(task))
    BY <2>4
  <2>6. CASE Head(st.due)
    <3>1. next1 = Exhaust(rest, task)
      BY <2>6
    <3> HIDE DEF next1
    <3>2. Sound(next1, ToSet(task) \ ToSet(task)) /\ Carries(rest, next1, {})
          /\ next1.retries = rest.retries
      BY <2>4, <2>5, <3>1, Exhausted
    <3>3. Sound(next1, {}) /\ Carries(m, next1, {})
      <4>1. Carries(m, next1, {} \cup {})
        BY <2>4, <3>2, CarriesOn
      <4> QED
        BY <3>2, <4>1
    <3> QED
      BY <1>0, <2>1, <2>2, <2>4, <3>2, <3>3 DEF Pumping, m
  <2>7. CASE ~Head(st.due)
    <3>1. next1 = Dispatch(rest, task, TRUE)
      BY <2>7
    <3> HIDE DEF next1
    <3>2. Sound(next1, ToSet(task) \ ToSet(task)) /\ Carries(rest, next1, {})
          /\ next1.retries = rest.retries
      BY <2>4, <2>5, <3>1, Dispatched, ZenonT(60)
    <3>3. Sound(next1, {}) /\ Carries(m, next1, {})
      <4>1. Carries(m, next1, {} \cup {})
        BY <2>4, <3>2, CarriesOn
      <4> QED
        BY <3>2, <4>1
    <3> QED
      BY <1>0, <2>1, <2>2, <2>4, <3>2, <3>3 DEF Pumping, m
  <2> QED
    BY <2>6, <2>7
<1>3. CASE ~(Cardinality(m.requests) >= MaxInflight) /\ st.due = <<>> /\ m.pending # <<>>
  <2>1. o = [m |-> DispatchPending(m), due |-> <<>>]
    BY <1>3 DEF PumpStep, DispatchPending, Requeued
  <2>2. /\ Sound(DispatchPending(m), {}) /\ Carries(m, DispatchPending(m), {})
        /\ DispatchPending(m).retries = m.retries
    BY <1>0, <1>3, PendingDispatched
  <2>3. <<>> \in Seq(BOOLEAN) /\ Len(<<>>) = 0 /\ Len(m.retries) \in Nat
    BY <1>0
  <2> QED
    BY <2>1, <2>2, <2>3 DEF Pumping
<1>4. CASE ~(Cardinality(m.requests) >= MaxInflight) /\ st.due = <<>> /\ m.pending = <<>>
  <2>1. o = st
    BY <1>4 DEF PumpStep
  <2> QED
    BY <2>1, CarriesSelf
<1> QED
  BY <1>1, <1>2, <1>3, <1>4

(* pumpEventWork.                                                          *)
LEMMA PumpSound ==
    ASSUME NEW m, Sound(m, {}), NEW due \in Seq(BOOLEAN), Len(due) <= Len(m.retries),
           NEW o, o = Pump(m, due)
    PROVE  Sound(o, {}) /\ Carries(m, o, {})
<1>1. CASE m.stage \notin {"up", "closing"}
  <2>1. o = m
    BY <1>1 DEF Pump
  <2> QED
    BY <2>1, CarriesSelf
<1>2. CASE m.stage \in {"up", "closing"}
  <2> DEFINE n == Len(due) + MaxInflight
  <2>1. n \in Nat /\ Len(due) \in Nat
    BY ForwarderAssumption
  <2> HIDE DEF n
  <2>2. PICK f : /\ f[0] = [m |-> m, due |-> due]
                 /\ \A k \in 1 .. n : f[k] = PumpStep(f[k - 1])
                 /\ Pump(m, due) = Flow(f[n].m)
    BY <1>2, <2>1, PumpFold DEF n
  <2> DEFINE A == {k \in 0 .. n : Pumping(f[k]) /\ Carries(m, f[k].m, {})}
  <2>3. 0 \in A
    <3>1. f[0].m = m /\ f[0].due = due /\ 0 \in 0 .. n
      BY <2>1, <2>2
    <3> QED
      BY <3>1, CarriesSelf DEF Pumping
  <2>4. ASSUME NEW k \in 1 .. n, k - 1 \in A PROVE k \in A
    <3>1. Pumping(f[k - 1]) /\ Carries(m, f[k - 1].m, {}) /\ f[k] = PumpStep(f[k - 1])
      BY <2>2, <2>4
    <3>2. Pumping(f[k]) /\ Carries(f[k - 1].m, f[k].m, {})
      BY <3>1, PumpStepSound
    <3>3. Carries(m, f[k].m, {} \cup {})
      BY <3>1, <3>2, CarriesOn
    <3> QED
      BY <2>1, <3>2, <3>3
  <2>5. n \in A
    <3> HIDE DEF A
    <3>1. \A k \in 0 .. n : k \in A
      BY <2>1, <2>3, <2>4, UpTo
    <3> QED
      BY <2>1, <3>1
  <2>6. Sound(f[n].m, {}) /\ Carries(m, f[n].m, {}) /\ o = Flow(f[n].m)
    BY <2>2, <2>5 DEF Pumping
  <2>7. Sound(o, {}) /\ Carries(f[n].m, o, {})
    BY <2>6, FlowSound
  <2>8. Carries(m, o, {} \cup {})
    BY <2>6, <2>7, CarriesOn
  <2> QED
    BY <2>7, <2>8
<1> QED
  BY <1>1, <1>2

(* dropQueuedItem takes its victim off the queue and off the gauges.       *)
LEMMA DropLowestSound ==
    ASSUME NEW m, Sound(m, {}), m.pending # <<>>
    PROVE  /\ Sound(DropLowest(m), {}) /\ Carries(m, DropLowest(m), {})
           /\ DropLowest(m).retries = m.retries
<1>0. m \in Memory /\ m.pending \in Seq(Ids) /\ IsInjective(m.pending)
  BY MemoryFacts DEF Sound, Exact, HeldOnce
<1>1. PICK lowest : lowest = Priority[Last(m.pending)]
  OBVIOUS
<1>2. PICK same : same = Meet(m.pending, Class(lowest))
  OBVIOUS
<1>3. PICK victim : victim = Head(same)
  OBVIOUS
<1>4. PICK left : left = Minus(m.pending, {victim})
  OBVIOUS
<1>5. PICK rest : rest = Requeued(m, left)
  OBVIOUS
<1>6. PICK n : n = Settle(rest, {victim})
  OBVIOUS
<1>7. victim \in ToSet(m.pending)
  <2>1. PICK last : last = Last(m.pending)
    OBVIOUS
  <2>2. last \in ToSet(m.pending) /\ last \in Ids
    <3>1. Len(m.pending) \in DOMAIN m.pending
      BY <1>0
    <3> QED
      BY <1>0, <2>1, <3>1, ElementFacts DEF Last
  <2>3. last \in Class(lowest)
    BY <1>1, <2>1, <2>2 DEF Class
  <2>4. same \in Seq(Ids) /\ ToSet(same) = ToSet(m.pending) \cap Class(lowest)
    BY <1>0, <1>2, MeetFacts
  <2>5. same # <<>>
    BY <2>2, <2>3, <2>4, EmptyFacts
  <2>6. Head(same) = same[1] /\ 1 \in DOMAIN same
    BY <2>4, <2>5, ElementFacts
  <2>7. victim \in ToSet(same)
    BY <1>3, <2>4, <2>6, ElementFacts
  <2> QED
    BY <2>4, <2>7
<1>8. left \in Seq(Ids) /\ IsInjective(left) /\ ToSet(left) = ToSet(m.pending) \ {victim}
  BY <1>0, <1>4, MinusFacts
<1>9. /\ Sound(rest, {victim}) /\ Carries(m, rest, {}) /\ rest.retries = m.retries
  <2> DEFINE X == {}
  <2>0. Sound(m, X) /\ ToSet(left) \subseteq ToSet(m.pending)
    BY <1>8
  <2> HIDE DEF X
  <2>1. Sound(rest, X \cup (ToSet(m.pending) \ ToSet(left))) /\ Carries(m, rest, {})
    BY <1>5, <1>8, <2>0, PendingTaken
  <2>2. X \cup (ToSet(m.pending) \ ToSet(left)) = {victim}
    BY <1>7, <1>8 DEF X
  <2>3. rest.retries = m.retries
    BY <1>0, <1>5 DEF Requeued, Memory
  <2> QED
    BY <2>1, <2>2, <2>3
<1>10. /\ Sound(n, {}) /\ Carries(rest, n, {}) /\ n.retries = rest.retries
  <2> DEFINE S == {victim}
  <2>0. Sound(rest, S) /\ S \cap Held(rest) = {} /\ n = Settle(rest, S)
    BY <1>6, <1>9 DEF Sound, Exact
  <2> HIDE DEF S
  <2>1. Sound(n, S \ S) /\ Carries(rest, n, {})
    BY <2>0, SettleSound
  <2>2. n.retries = rest.retries
    BY <2>0 DEF Settle, Sound, Memory
  <2>3. S \ S = {}
    OBVIOUS
  <2> QED
    BY <2>1, <2>2, <2>3
<1>11. Carries(m, n, {} \cup {})
  BY <1>9, <1>10, CarriesOn
<1>12. n = DropLowest(m)
  BY <1>1, <1>2, <1>3, <1>4, <1>5, <1>6 DEF DropLowest, Requeued
<1> QED
  BY <1>9, <1>10, <1>11, <1>12

(* makeQueueRoom evicts until the new record fits, or not.                 *)
LEMMA RoomSound ==
    ASSUME NEW m, Sound(m, {}), NEW id, NEW o, o = MakeQueueRoom(m, id)
    PROVE  /\ Sound(o, {}) /\ Carries(m, o, {}) /\ o.retries = m.retries
<1> DEFINE n == Len(m.pending)
<1>0. n \in Nat /\ DOMAIN m.pending = 1 .. n
  BY MemoryFacts, ElementFacts DEF Sound
<1> HIDE DEF n
<1>1. PICK f : /\ f[0] = m
               /\ \A k \in 1 .. n : f[k] = RoomStep(f[k - 1], id)
               /\ MakeQueueRoom(m, id) = f[n]
  BY <1>0, RoomFold
<1> DEFINE A == {k \in 0 .. n : Sound(f[k], {}) /\ Carries(m, f[k], {}) /\ f[k].retries = m.retries}
<1>2. 0 \in A
  BY <1>0, <1>1, CarriesSelf
<1>3. ASSUME NEW k \in 1 .. n, k - 1 \in A PROVE k \in A
  <2>1. /\ Sound(f[k - 1], {}) /\ Carries(m, f[k - 1], {}) /\ f[k - 1].retries = m.retries
        /\ f[k] = RoomStep(f[k - 1], id) /\ k \in 0 .. n
    BY <1>0, <1>1, <1>3
  <2>2. /\ Sound(f[k], {}) /\ Carries(f[k - 1], f[k], {}) /\ f[k].retries = f[k - 1].retries
    <3>1. CASE f[k] = f[k - 1]
      BY <2>1, <3>1, CarriesSelf
    <3>2. CASE f[k] = DropLowest(f[k - 1]) /\ f[k - 1].pending # <<>>
      BY <2>1, <3>2, DropLowestSound
    <3> QED
      BY <2>1, <3>1, <3>2 DEF RoomStep
  <2>3. Carries(m, f[k], {} \cup {})
    BY <2>1, <2>2, CarriesOn
  <2> QED
    BY <2>1, <2>2, <2>3
<1>4. n \in A
  <2> HIDE DEF A
  <2>1. \A k \in 0 .. n : k \in A
    BY <1>0, <1>2, <1>3, UpTo
  <2> QED
    BY <1>0, <2>1
<1> QED
  BY <1>1, <1>4

(* admitDurableEvent.                                                      *)
LEMMA AdmitSound ==
    ASSUME NEW m, Sound(m, {}), NEW id \in Ids, id \notin m.active, id \in ToSet(m.lane),
           NEW due \in Seq(BOOLEAN), Len(due) <= Len(m.retries),
           NEW o, o = Admit(m, id, due)
    PROVE  Sound(o, {}) /\ Carries(m, o, {id})
<1>1. PICK room : room = MakeQueueRoom(m, id)
  OBVIOUS
<1>2. /\ Sound(room, {}) /\ Carries(m, room, {}) /\ room.retries = m.retries
  BY <1>1, RoomSound
<1>3. id \notin room.active /\ id \in ToSet(room.lane)
  BY <1>2 DEF Carries
<1>4. PICK queued : queued = Track([room EXCEPT !.pending = Push(@, id)], id)
  OBVIOUS
<1>5. CASE Exceeds(room, id)
  <2>1. o = room
    BY <1>1, <1>5 DEF Admit
  <2> QED
    BY <1>2, <2>1 DEF Carries
<1>6. CASE ~Exceeds(room, id)
  <2>1. /\ Sound(queued, {}) /\ Carries(room, queued, {id}) /\ queued.retries = room.retries
    BY <1>2, <1>3, <1>4, <1>6, Pushed
  <2>2. PICK last : last = IF Len(queued.pending) >= BatchSize THEN Pump(queued, due) ELSE queued
    OBVIOUS
  <2>3. o = Flow(last)
    BY <1>1, <1>4, <1>6, <2>2 DEF Admit
  <2>4. Sound(last, {}) /\ Carries(queued, last, {})
    <3>1. CASE last = queued
      BY <2>1, <3>1, CarriesSelf
    <3>2. CASE last = Pump(queued, due)
      <4>1. Len(due) <= Len(queued.retries)
        BY <1>2, <2>1
      <4> QED
        BY <2>1, <3>2, <4>1, PumpSound
    <3> QED
      BY <2>2, <3>1, <3>2
  <2>5. Sound(o, {}) /\ Carries(last, o, {})
    BY <2>3, <2>4, FlowSound
  <2>6. Carries(m, queued, {} \cup {id})
    BY <1>2, <2>1, CarriesOn
  <2>7. Carries(m, last, ({} \cup {id}) \cup {})
    BY <2>4, <2>6, CarriesOn
  <2>8. Carries(m, o, (({} \cup {id}) \cup {}) \cup {})
    BY <2>5, <2>7, CarriesOn
  <2>9. (({} \cup {id}) \cup {}) \cup {} = {id}
    OBVIOUS
  <2> QED
    BY <2>5, <2>8, <2>9
<1> QED
  BY <1>5, <1>6

(* What pumpDurableSpool replays is in the spool, not outstanding, and     *)
(* named once.                                                             *)
LEMMA AvailableFacts ==
    ASSUME NEW m, Sound(m, {}), NEW n \in Int, NEW s, s = Available(m, n)
    PROVE  /\ s \in Seq(Ids) /\ IsInjective(s)
           /\ ToSet(s) \subseteq ToSet(m.lane) \ m.active
<1>0. m.lane \in Seq(Ids) /\ IsInjective(m.lane)
  BY MemoryFacts DEF Sound, Spooled
<1>1. PICK a : a = Minus(m.lane, m.active)
  OBVIOUS
<1>2. a \in Seq(Ids) /\ IsInjective(a) /\ ToSet(a) = ToSet(m.lane) \ m.active
  BY <1>0, <1>1, MinusFacts
<1>3. PICK b : b = ByPriority(a)
  OBVIOUS
<1>4. b \in Seq(Ids) /\ IsInjective(b) /\ ToSet(b) = ToSet(a)
  BY <1>2, <1>3, ByPriorityFacts
<1>5. s = FirstN(b, n)
  BY <1>1, <1>3 DEF Available
<1>6. s \in Seq(Ids) /\ IsInjective(s) /\ ToSet(s) \subseteq ToSet(b)
  BY <1>4, <1>5, FirstFacts
<1> QED
  BY <1>2, <1>4, <1>6

(* pumpDurableSpool.                                                       *)
LEMMA ReplayedSound ==
    ASSUME NEW m, Sound(m, {}), NEW due \in Seq(BOOLEAN), Len(due) <= Len(m.retries),
           NEW o, o = Replayed(m, due)
    PROVE  Sound(o, {}) /\ Carries(m, o, Ids)
<1>1. PICK s : s = Available(m, ReplaySlots(m))
  OBVIOUS
<1>2. ReplaySlots(m) \in Int
  <2>1. m.outstanding \in Int /\ MaxOutstanding \in Int /\ ReplayBatch \in Int
    BY MemoryFacts, ForwarderAssumption DEF Sound
  <2> QED
    BY <2>1 DEF ReplaySlots
<1>3. s \in Seq(Ids) /\ IsInjective(s) /\ ToSet(s) \subseteq ToSet(m.lane) \ m.active
  BY <1>1, <1>2, AvailableFacts
<1>4. PICK n : n = Len(s)
  OBVIOUS
<1>5. n \in Nat /\ DOMAIN s = 1 .. n
  BY <1>3, <1>4
<1>6. PICK x : x = [m |-> m, stop |-> FALSE, due |-> due]
  OBVIOUS
<1>7. PICK f : /\ f[0] = x
               /\ \A k \in 1 .. n : f[k] = ReplayStep(f[k - 1], s[k])
               /\ Replayed(m, due) = Pump(f[n].m, f[n].due)
  BY <1>1, <1>5, <1>6, ReplayFold
<1> DEFINE E(k) == {s[j] : j \in 1 .. k}
           A == {k \in 0 .. n : Pumping(f[k]) /\ Carries(m, f[k].m, E(k))}
<1>8. 0 \in A
  <2>1. f[0].m = m /\ f[0].due = due /\ 0 \in 0 .. n
    BY <1>5, <1>6, <1>7
  <2>2. Pumping(f[0])
    BY <2>1 DEF Pumping
  <2>3. Carries(m, m, E(0))
    BY DEF Carries
  <2> QED
    BY <2>1, <2>2, <2>3
<1>9. ASSUME NEW k \in 1 .. n, k - 1 \in A PROVE k \in A
  <2>1. PICK st : st = f[k - 1]
    OBVIOUS
  <2>2. Pumping(st) /\ Carries(m, st.m, E(k - 1)) /\ f[k] = ReplayStep(st, s[k]) /\ k \in 0 .. n
    BY <1>5, <1>7, <1>9, <2>1
  <2>3. E(k) = E(k - 1) \cup {s[k]}
    <3>1. 1 .. k = (1 .. k - 1) \cup {k}
      BY <1>5
    <3> QED
      BY <3>1
  <2>4. CASE st.stop
    <3>1. f[k] = st
      BY <2>2, <2>4 DEF ReplayStep
    <3>2. Carries(m, st.m, E(k))
      BY <2>2, <2>3 DEF Carries
    <3> QED
      BY <2>2, <3>1, <3>2
  <2>5. CASE ~st.stop
    <3>1. PICK a : a = Admit(st.m, s[k], st.due)
      OBVIOUS
    <3>2. f[k].m = a /\ f[k].due = <<>>
      BY <2>2, <2>5, <3>1 DEF ReplayStep
    <3>3. s[k] \in ToSet(s) /\ s[k] \in Ids /\ k \in DOMAIN s
      BY <1>3, <1>5, ElementFacts
    <3>4. s[k] \notin E(k - 1)
      <4>1. \A j \in 1 .. k - 1 : j \in DOMAIN s /\ j # k
        BY <1>5
      <4> QED
        BY <1>3, <3>3, <4>1 DEF IsInjective
    <3>5. s[k] \notin st.m.active /\ s[k] \in ToSet(st.m.lane)
      BY <1>3, <2>2, <3>3, <3>4 DEF Carries
    <3>6. Sound(st.m, {}) /\ st.due \in Seq(BOOLEAN) /\ Len(st.due) <= Len(st.m.retries)
      BY <2>2 DEF Pumping
    <3>7. Sound(a, {}) /\ Carries(st.m, a, {s[k]})
      BY <3>1, <3>3, <3>5, <3>6, AdmitSound
    <3>8. Carries(m, a, E(k - 1) \cup {s[k]})
      BY <2>2, <3>7, CarriesOn
    <3>9. <<>> \in Seq(BOOLEAN) /\ Len(<<>>) = 0 /\ Len(a.retries) \in Nat
      <4>1. a.retries \in Seq(Seq(Ids))
        BY <3>7, MemoryFacts DEF Sound
      <4> QED
        BY <4>1
    <3>10. Pumping(f[k])
      BY <3>2, <3>7, <3>9 DEF Pumping
    <3> QED
      BY <2>2, <2>3, <3>2, <3>8, <3>10
  <2> QED
    BY <2>4, <2>5
<1>10. n \in A
  <2> HIDE DEF A
  <2>1. \A k \in 0 .. n : k \in A
    BY <1>5, <1>8, <1>9, UpTo
  <2> QED
    BY <1>5, <2>1
<1>11. PICK last : last = f[n]
  OBVIOUS
<1>12. Sound(last.m, {}) /\ Carries(m, last.m, E(n)) /\ last.due \in Seq(BOOLEAN)
       /\ Len(last.due) <= Len(last.m.retries)
  BY <1>10, <1>11 DEF Pumping
<1>13. o = Pump(last.m, last.due)
  BY <1>7, <1>11
<1>14. Sound(o, {}) /\ Carries(last.m, o, {})
  BY <1>12, <1>13, PumpSound
<1>15. Carries(m, o, E(n) \cup {})
  BY <1>12, <1>14, CarriesOn
<1>16. E(n) \subseteq Ids
  BY <1>3, <1>5
<1>17. Carries(m, o, Ids)
  BY <1>15, <1>16 DEF Carries
<1> QED
  BY <1>14, <1>17

(* What finishing batches leaves behind; A are the accepted ids.           *)
Drains(m, n, A) ==
    /\ n.stage = m.stage
    /\ ToSet(n.lane) \subseteq ToSet(m.lane)
    /\ \A q \in n.requests : q \in m.requests \/ q.acc = {}
    /\ \A i \in DOMAIN n.ops :
          \/ i \in DOMAIN m.ops /\ n.ops[i] = m.ops[i]
          \/ /\ n.ops[i].kind = "ack" /\ ~n.ops[i].written
             /\ n.ops[i].ids \subseteq A \cap ToSet(m.lane)
    /\ Queue(m) => Queue(n)

(* Drains is transitive, the acknowledged ids together.                    *)
LEMMA DrainsOn ==
    ASSUME NEW m, NEW n, NEW o, NEW A, NEW B, Drains(m, n, A), Drains(n, o, B)
    PROVE  Drains(m, o, A \cup B)
<1>1. /\ o.stage = m.stage
      /\ ToSet(o.lane) \subseteq ToSet(m.lane)
      /\ \A q \in o.requests : q \in m.requests \/ q.acc = {}
      /\ Queue(m) => Queue(o)
  BY DEF Drains
<1>2. ASSUME NEW i \in DOMAIN o.ops
      PROVE  \/ i \in DOMAIN m.ops /\ o.ops[i] = m.ops[i]
             \/ /\ o.ops[i].kind = "ack" /\ ~o.ops[i].written
                /\ o.ops[i].ids \subseteq (A \cup B) \cap ToSet(m.lane)
  BY DEF Drains
<1> QED
  BY <1>1, <1>2 DEF Drains

(* A step that carries the gauges drains nothing.                          *)
LEMMA CarriesDrains ==
    ASSUME NEW m, NEW n, NEW E, Carries(m, n, E)
    PROVE  Drains(m, n, {})
<1>1. Queue(m) => Queue(n)
  BY DEF Queue, PutsPending, Carries
<1> QED
  BY <1>1 DEF Carries, Drains

(* scheduleRetryItems, for the items in hand.                              *)
LEMMA ScheduleSound ==
    ASSUME NEW m, NEW items \in Seq(Ids), Sound(m, ToSet(items)), IsInjective(items),
           NEW at \in 1 .. Len(m.retries) + 1, NEW expired \in BOOLEAN,
           NEW o, o = ScheduleRetry(m, items, at, expired)
    PROVE  /\ Sound(o, {}) /\ Carries(m, o, {}) /\ o.requests = m.requests
           /\ Len(m.retries) <= Len(o.retries)
<1>0. m.retries \in Seq(Seq(Ids)) /\ Len(m.retries) \in Nat
  BY MemoryFacts DEF Sound
<1>1. CASE items = <<>>
  <2>1. o = m
    BY <1>1 DEF ScheduleRetry
  <2>2. ToSet(items) = {}
    BY <1>1, EmptyFacts
  <2> QED
    BY <1>0, <2>1, <2>2, CarriesSelf
<1>2. CASE items # <<>>
  <2>1. PICK owned : owned = MarkRetryOwned(m, items)
    OBVIOUS
  <2> DEFINE X == ToSet(items)
  <2>2. Sound(m, X) /\ ToSet(items) \subseteq X /\ X \ ToSet(items) = {}
    OBVIOUS
  <2> HIDE DEF X
  <2>3. Sound(owned, X) /\ Carries(m, owned, {}) /\ ToSet(items) \subseteq owned.retryOwned
    BY <2>1, <2>2, Marked
  <2>4. owned.requests = m.requests /\ owned.retries = m.retries
    BY <2>1, <2>2 DEF MarkRetryOwned, Sound, Memory
  <2>5. CASE m.stage = "aborted" \/ expired
    <3>1. o = Exhaust(owned, items)
      BY <1>2, <2>1, <2>5 DEF ScheduleRetry
    <3>2. Sound(o, X \ ToSet(items)) /\ Carries(owned, o, {})
      BY <2>2, <2>3, <3>1, Exhausted
    <3>3. o.requests = owned.requests /\ o.retries = owned.retries
      BY <2>3, <3>1 DEF Exhaust, Settle, Sound, Memory
    <3>4. Carries(m, o, {} \cup {})
      BY <2>3, <3>2, CarriesOn
    <3> QED
      <4>1. {} \cup {} = {}
        OBVIOUS
      <4>2. Len(m.retries) <= Len(o.retries)
        BY <1>0, <2>4, <3>3
      <4> QED
        BY <2>2, <2>4, <3>2, <3>3, <3>4, <4>1, <4>2
  <2>6. CASE ~(m.stage = "aborted" \/ expired)
    <3>1. o = Retrying(owned, at, items)
      BY <1>2, <2>1, <2>6 DEF ScheduleRetry, Retrying
    <3>2. at \in 1 .. Len(owned.retries) + 1
      BY <2>4
    <3>3. Sound(o, X \ ToSet(items)) /\ Carries(owned, o, {})
      BY <1>2, <2>2, <2>3, <3>1, <3>2, Scheduled
    <3>4. o.requests = owned.requests /\ Len(o.retries) = Len(owned.retries) + 1
      <4>1. owned \in Memory /\ owned.retries \in Seq(Seq(Ids))
        BY <2>3, MemoryFacts DEF Sound
      <4>2. o.requests = owned.requests /\ o.retries = InsertAt(owned.retries, at, items)
        BY <3>1, <4>1 DEF Retrying, Memory
      <4> DEFINE T == Seq(Ids)
      <4>3. owned.retries \in Seq(T) /\ items \in T
        BY <4>1
      <4> HIDE DEF T
      <4>4. Len(InsertAt(owned.retries, at, items)) = Len(owned.retries) + 1
        BY <3>2, <4>3, InsertFacts
      <4> QED
        BY <4>2, <4>4
    <3>5. Carries(m, o, {} \cup {})
      BY <2>3, <3>3, CarriesOn
    <3> QED
      <4>1. {} \cup {} = {}
        OBVIOUS
      <4>2. Len(m.retries) <= Len(o.retries)
        BY <1>0, <2>4, <3>4
      <4> QED
        BY <2>2, <2>4, <3>3, <3>4, <3>5, <4>1, <4>2
  <2> QED
    BY <2>5, <2>6
<1> QED
  BY <1>1, <1>2

(* Settling and changing the spool commute.                                *)
LEMMA SettleSpool ==
    ASSUME NEW w \in Memory, NEW l, NEW o, NEW S
    PROVE  Settle(Spool(w, l, o), S) = Spool(Settle(w, S), l, o)
  BY DEF Settle, Spool, Memory

(* finishBatch, for a request r that has been taken off the wire.          *)
Outcome(r) ==
    /\ r \in Request /\ IsInjective(r.again)
    /\ r.acc \cup r.rej \cup ToSet(r.again) \subseteq ToSet(r.batch)
    /\ (r.acc \cup r.rej) \cap ToSet(r.again) = {}

AckOps(w, r) ==
    IF Meet(w.lane, r.acc) = <<>> THEN w.ops
    ELSE Append(w.ops, [kind |-> "ack", ids |-> ToSet(Meet(w.lane, r.acc)), written |-> FALSE])

LaneLeft(w, r) == Minus(w.lane, ToSet(Meet(w.lane, r.acc)) \cup r.rej)

(* The spool's queue after finishBatch has moved the acknowledged records  *)
(* out of the lane into an ack operation.                                  *)
LEMMA SpoolQueue ==
    ASSUME NEW w \in Memory, IsInjective(w.lane), NEW r, Outcome(r), NEW n,
           n.ops = AckOps(w, r), n.lane = LaneLeft(w, r), n.walPending = w.walPending
    PROVE  /\ n.ops \in Seq(Operation) /\ n.lane \in Seq(Ids) /\ IsInjective(n.lane)
           /\ ToSet(n.lane) = ToSet(w.lane) \ (r.acc \cup r.rej)
           /\ \A i \in DOMAIN n.ops :
                 \/ i \in DOMAIN w.ops /\ n.ops[i] = w.ops[i]
                 \/ /\ n.ops[i].kind = "ack" /\ ~n.ops[i].written
                    /\ n.ops[i].ids \subseteq r.acc \cap ToSet(w.lane)
           /\ Queue(w) => Queue(n)
<1> DEFINE a == Meet(w.lane, r.acc)
           op == [kind |-> "ack", ids |-> ToSet(a), written |-> FALSE]
<1>0. w.lane \in Seq(Ids) /\ w.ops \in Seq(Operation)
  BY MemoryFacts
<1>1. a \in Seq(Ids) /\ ToSet(a) = ToSet(w.lane) \cap r.acc
  BY <1>0, MeetFacts
<1> HIDE DEF a
<1>2. n.lane = Minus(w.lane, ToSet(a) \cup r.rej)
  BY DEF LaneLeft, a
<1>3. /\ n.lane \in Seq(Ids) /\ IsInjective(n.lane)
      /\ ToSet(n.lane) = ToSet(w.lane) \ (ToSet(a) \cup r.rej)
  BY <1>0, <1>2, MinusFacts
<1>4. ToSet(n.lane) = ToSet(w.lane) \ (r.acc \cup r.rej)
  BY <1>1, <1>3
<1>5. CASE a = <<>>
  <2>1. n.ops = w.ops
    BY <1>5 DEF AckOps, a
  <2>2. ToSet(n.lane) \subseteq ToSet(w.lane)
    BY <1>4
  <2>3. Queue(w) => Queue(n)
    BY <2>1, <2>2 DEF Queue, PutsPending
  <2> QED
    BY <1>0, <1>3, <1>4, <2>1, <2>3
<1>6. CASE a # <<>>
  <2>1. n.ops = Append(w.ops, op)
    BY <1>6 DEF AckOps, a
  <2>2. /\ op \in Operation /\ op.kind = "ack" /\ op.written = FALSE
        /\ op.ids = ToSet(w.lane) \cap r.acc
    BY <1>0, <1>1, ElementFacts DEF Operation
  <2> HIDE DEF op
  <2>3. /\ n.ops \in Seq(Operation) /\ DOMAIN w.ops = 1 .. Len(w.ops) /\ Len(w.ops) \in Nat
        /\ DOMAIN n.ops = 1 .. Len(w.ops) + 1 /\ n.ops[Len(w.ops) + 1] = op
        /\ \A i \in DOMAIN w.ops : i \in DOMAIN n.ops /\ n.ops[i] = w.ops[i]
        /\ \A i \in DOMAIN n.ops : i \in DOMAIN w.ops \/ i = Len(w.ops) + 1
        /\ Len(w.ops) + 1 \notin DOMAIN w.ops
    BY <1>0, <2>1, <2>2
  <2>4. \A i \in DOMAIN n.ops :
           \/ i \in DOMAIN w.ops /\ n.ops[i] = w.ops[i]
           \/ /\ n.ops[i].kind = "ack" /\ ~n.ops[i].written
              /\ n.ops[i].ids \subseteq r.acc \cap ToSet(w.lane)
    BY <2>2, <2>3
  <2>5. ASSUME Queue(w) PROVE Queue(n)
    <3>1. {i \in DOMAIN n.ops : n.ops[i].kind = "put"}
             = {i \in DOMAIN w.ops : w.ops[i].kind = "put"}
      <4>1. \A i \in DOMAIN n.ops : n.ops[i].kind = "put" => i \in DOMAIN w.ops
        BY <2>2, <2>3
      <4> QED
        BY <2>3, <4>1
    <3>2. n.walPending = PutsPending(n)
      BY <2>5, <3>1 DEF Queue, PutsPending
    <3>3. \A i \in DOMAIN w.ops : w.ops[i].ids \cap op.ids = {}
      BY <2>2, <2>5 DEF Queue
    <3>4. op.ids \cap ToSet(n.lane) = {} /\ ToSet(n.lane) \subseteq ToSet(w.lane)
      BY <1>4, <2>2
    <3>5. ASSUME NEW i \in DOMAIN n.ops
          PROVE  /\ n.ops[i].ids \cap ToSet(n.lane) = {}
                 /\ n.ops[i].kind = "put" => \E id \in Ids : n.ops[i].ids = {id}
                 /\ n.ops[i].written => i = 1
                 /\ \A j \in DOMAIN n.ops \ {i} : n.ops[i].ids \cap n.ops[j].ids = {}
      <4>1. CASE i = Len(w.ops) + 1
        <5>1. n.ops[i] = op
          BY <2>3, <4>1
        <5>2. \A j \in DOMAIN n.ops \ {i} : n.ops[j] = w.ops[j] /\ j \in DOMAIN w.ops
          BY <2>3, <4>1
        <5> QED
          BY <2>2, <3>3, <3>4, <5>1, <5>2
      <4>2. CASE i \in DOMAIN w.ops
        <5>1. n.ops[i] = w.ops[i]
          BY <2>3, <4>2
        <5>2. /\ n.ops[i].ids \cap ToSet(w.lane) = {}
              /\ n.ops[i].kind = "put" => \E id \in Ids : n.ops[i].ids = {id}
              /\ n.ops[i].written => i = 1
              /\ \A j \in DOMAIN w.ops \ {i} : n.ops[i].ids \cap w.ops[j].ids = {}
          BY <2>5, <4>2, <5>1 DEF Queue
        <5>3. ASSUME NEW j \in DOMAIN n.ops \ {i} PROVE n.ops[i].ids \cap n.ops[j].ids = {}
          <6>1. CASE j \in DOMAIN w.ops
            BY <2>3, <5>2, <6>1
          <6>2. CASE j = Len(w.ops) + 1
            BY <2>3, <3>3, <4>2, <5>1, <6>2
          <6> QED
            BY <2>3, <6>1, <6>2
        <5>4. n.ops[i].ids \cap ToSet(n.lane) = {}
          BY <3>4, <5>2
        <5> QED
          BY <5>2, <5>3, <5>4
      <4> QED
        BY <2>3, <4>1, <4>2
    <3> QED
      BY <3>2, <3>5 DEF Queue
  <2> QED
    BY <1>3, <1>4, <2>3, <2>4, <2>5
<1> QED
  BY <1>5, <1>6

Without(m, r) == [m EXCEPT !.requests = @ \ {r}]

(* finishBatch, in the order of its calls.                                 *)
LEMMA FinishParts ==
    ASSUME NEW m \in Memory, NEW r, NEW due, NEW at, NEW expired, NEW w, w = Without(m, r)
    PROVE  FinishBatch(m, r, due, at, expired)
             = Flow(Pump(ScheduleRetry(
                 Settle(Spool(w, LaneLeft(w, r), AckOps(w, r)), ToSet(r.batch) \ ToSet(r.again)),
                 r.again, at, expired), due))
<1>1. w.lane = m.lane /\ w.ops = m.ops
  BY DEF Without, Memory
<1>2. [m EXCEPT !.requests = @ \ {r}, !.lane = LaneLeft(m, r), !.ops = AckOps(m, r)]
        = Spool(w, LaneLeft(m, r), AckOps(m, r))
  BY DEF Without, Spool, Memory
<1>3. LaneLeft(m, r) = LaneLeft(w, r) /\ AckOps(m, r) = AckOps(w, r)
  BY <1>1 DEF LaneLeft, AckOps
<1>4. FinishBatch(m, r, due, at, expired)
        = Flow(Pump(ScheduleRetry(
            Settle([m EXCEPT !.requests = @ \ {r}, !.lane = LaneLeft(m, r), !.ops = AckOps(m, r)],
                   ToSet(r.batch) \ ToSet(r.again)),
            r.again, at, expired), due))
  BY DEF FinishBatch, Acked, LaneLeft, AckOps, Memory
<1> QED
  BY <1>2, <1>3, <1>4

(* finishBatch keeps the gauges exact and acknowledges only what the API   *)
(* took or rejected for good.                                              *)
LEMMA FinishSound ==
    ASSUME NEW m \in Memory, NEW r, Outcome(r), NEW w, w = Without(m, r),
           Sound(w, ToSet(r.batch)), NEW due \in Seq(BOOLEAN), Len(due) <= Len(w.retries),
           NEW at \in 1 .. Len(w.retries) + 1, NEW expired \in BOOLEAN,
           NEW o, o = FinishBatch(m, r, due, at, expired)
    PROVE  /\ Sound(o, {}) /\ Drains(w, o, r.acc)
           /\ w.stage = "aborted" => o.requests = w.requests
<1> DEFINE X == ToSet(r.batch)
           S == ToSet(r.batch) \ ToSet(r.again)
<1>1. PICK l : l = LaneLeft(w, r)
  OBVIOUS
<1>2. PICK q : q = AckOps(w, r)
  OBVIOUS
<1>3. PICK k : k = Settle(w, S)
  OBVIOUS
<1>4. PICK t : t = Spool(k, l, q)
  OBVIOUS
<1>5. PICK u : u = ScheduleRetry(t, r.again, at, expired)
  OBVIOUS
<1>6. PICK v : v = Pump(u, due)
  OBVIOUS
<1>7. w \in Memory /\ Sound(w, X) /\ X \ S = ToSet(r.again) /\ X \cap Held(w) = {}
  BY DEF Sound, Exact, Outcome
<1>8. o = Flow(v)
  <2>1. Settle(Spool(w, l, q), S) = t
    BY <1>3, <1>4, <1>7, SettleSpool
  <2> QED
    BY <1>1, <1>2, <1>5, <1>6, <2>1, FinishParts
<1>9. S \cap Held(w) = {} /\ r.acc \cup r.rej \subseteq S
  BY <1>7 DEF Outcome
<1> HIDE DEF X, S
<1>10. Sound(k, X \ S) /\ Carries(w, k, {}) /\ k.active = w.active \ S
  BY <1>3, <1>7, <1>9, SettleSound
<1>11. k.requests = w.requests /\ k.retries = w.retries /\ k.lane = w.lane
       /\ k.ops = w.ops /\ k.walPending = w.walPending /\ k.stage = w.stage
  BY <1>3, <1>7 DEF Settle, Memory
<1>12. t.lane = l /\ t.ops = q /\ t.walPending = w.walPending /\ t.stage = w.stage
       /\ t.requests = w.requests /\ t.retries = w.retries /\ t.active = k.active
  BY <1>4, <1>10, <1>11 DEF Spool, Sound, Memory
<1>13. /\ q \in Seq(Operation) /\ l \in Seq(Ids) /\ IsInjective(l)
       /\ ToSet(l) = ToSet(w.lane) \ (r.acc \cup r.rej)
       /\ \A i \in DOMAIN q :
             \/ i \in DOMAIN w.ops /\ q[i] = w.ops[i]
             \/ /\ q[i].kind = "ack" /\ ~q[i].written
                /\ q[i].ids \subseteq r.acc \cap ToSet(w.lane)
       /\ Queue(w) => Queue(t)
  <2>1. t.ops = AckOps(w, r) /\ t.lane = LaneLeft(w, r) /\ t.walPending = w.walPending
    BY <1>1, <1>2, <1>12
  <2>2. /\ t.ops \in Seq(Operation) /\ t.lane \in Seq(Ids) /\ IsInjective(t.lane)
        /\ ToSet(t.lane) = ToSet(w.lane) \ (r.acc \cup r.rej)
        /\ \A i \in DOMAIN t.ops :
              \/ i \in DOMAIN w.ops /\ t.ops[i] = w.ops[i]
              \/ /\ t.ops[i].kind = "ack" /\ ~t.ops[i].written
                 /\ t.ops[i].ids \subseteq r.acc \cap ToSet(w.lane)
        /\ Queue(w) => Queue(t)
    <3>1. w \in Memory /\ IsInjective(w.lane)
      BY <1>7 DEF Sound, Spooled
    <3> QED
      BY <2>1, <3>1, SpoolQueue
  <2> QED
    BY <1>12, <2>2
<1>14. k.active \subseteq ToSet(l)
  <2>1. w.active \subseteq ToSet(w.lane)
    BY <1>7 DEF Sound, Spooled
  <2> QED
    BY <1>9, <1>10, <1>13, <2>1
<1>15. Sound(t, X \ S)
  <2> DEFINE Z == X \ S
  <2>1. Sound(k, Z)
    BY <1>10
  <2> HIDE DEF Z
  <2>2. Sound(t, Z)
    BY <1>4, <1>13, <1>14, <2>1, LaneChanged
  <2> QED
    BY <2>2 DEF Z
<1>16. Drains(w, t, r.acc)
  <2>1. t.stage = w.stage /\ t.requests = w.requests
    BY <1>10, <1>12
  <2>2. ToSet(t.lane) \subseteq ToSet(w.lane)
    BY <1>12, <1>13
  <2>3. t.ops = q
    BY <1>12
  <2> QED
    BY <1>13, <2>1, <2>2, <2>3 DEF Drains
<1>17. /\ Sound(u, {}) /\ Carries(t, u, {}) /\ u.requests = t.requests
       /\ Len(t.retries) <= Len(u.retries)
  <2>1. r.again \in Seq(Ids) /\ IsInjective(r.again)
    BY DEF Outcome, Request
  <2>2. Sound(t, ToSet(r.again)) /\ at \in 1 .. Len(t.retries) + 1
    BY <1>7, <1>12, <1>15
  <2> QED
    BY <1>5, <2>1, <2>2, ScheduleSound
<1>18. Sound(v, {}) /\ Carries(u, v, {})
  <2>1. Len(due) <= Len(u.retries)
    <3>1. Len(due) \in Nat /\ Len(t.retries) \in Nat /\ Len(u.retries) \in Nat
      <4>1. t.retries \in Seq(Seq(Ids)) /\ u.retries \in Seq(Seq(Ids))
        BY <1>15, <1>17, MemoryFacts DEF Sound
      <4> QED
        BY <4>1
    <3>2. Len(due) <= Len(t.retries)
      BY <1>12
    <3> QED
      BY <1>17, <3>1, <3>2
  <2> QED
    BY <1>6, <1>17, <2>1, PumpSound
<1>19. Sound(o, {}) /\ Carries(v, o, {})
  BY <1>8, <1>18, FlowSound
<1>20. Drains(w, o, r.acc)
  <2>1. Drains(t, u, {}) /\ Drains(u, v, {}) /\ Drains(v, o, {})
    BY <1>17, <1>18, <1>19, CarriesDrains
  <2>2. Drains(w, u, r.acc \cup {})
    BY <1>16, <2>1, DrainsOn
  <2>3. Drains(w, v, (r.acc \cup {}) \cup {})
    BY <2>1, <2>2, DrainsOn
  <2>4. Drains(w, o, ((r.acc \cup {}) \cup {}) \cup {})
    BY <2>1, <2>3, DrainsOn
  <2>5. ((r.acc \cup {}) \cup {}) \cup {} = r.acc
    OBVIOUS
  <2> QED
    BY <2>4, <2>5
<1>21. ASSUME w.stage = "aborted" PROVE o.requests = w.requests
  <2>1. u.stage = "aborted"
    BY <1>12, <1>17, <1>21 DEF Carries
  <2>2. v = u
    BY <1>6, <2>1 DEF Pump
  <2>3. o = v
    BY <1>8, <2>1, <2>2 DEF Flow
  <2> QED
    BY <1>12, <1>17, <2>2, <2>3
<1> QED
  BY <1>19, <1>20, <1>21

(* r's place on the wire is taken by q, r with more answers.               *)
Replace(m, r, q) == [m EXCEPT !.requests = (@ \ {r}) \cup {q}]

(* A request is replaced by itself with a further outcome.                 *)
LEMMA ReplaceSound ==
    ASSUME NEW m, Sound(m, {}), NEW r \in m.requests, NEW q \in Request, q.batch = r.batch
    PROVE  /\ Replace(m, r, q) \in Memory /\ Without(Replace(m, r, q), q) = Without(m, r)
           /\ Sound(Without(m, r), ToSet(q.batch)) /\ Carries(m, Without(m, r), {})
           /\ Without(m, r).requests = m.requests \ {r}
           /\ Without(m, r).retries = m.retries /\ Without(m, r).stage = m.stage
<1>0. m \in Memory /\ m.requests \in SUBSET Request /\ HeldOnce(m) /\ Answers(r)
  BY MemoryFacts DEF Sound, Exact, Wire
<1>1. q \notin m.requests \ {r}
  <2>1. SUFFICES ASSUME q \in m.requests \ {r} PROVE FALSE
    OBVIOUS
  <2>2. ToSet(r.batch) \cap ToSet(q.batch) = {}
    BY <1>0, <2>1 DEF HeldOnce
  <2>3. r.batch \in Seq(Ids) /\ r.batch # <<>>
    BY <1>0 DEF Request, Answers
  <2> QED
    BY <2>2, <2>3, ElementFacts
<1>2. PICK R : R = (m.requests \ {r}) \cup {q}
  OBVIOUS
<1>3. R \in SUBSET Request /\ R \ {q} = m.requests \ {r}
  BY <1>0, <1>1, <1>2
<1>4. Replace(m, r, q) = [m EXCEPT !.requests = R]
  BY <1>0, <1>2 DEF Replace, Memory
<1>5. Replace(m, r, q) \in Memory
  BY <1>0, <1>3, <1>4 DEF Memory
<1>6. Without(Replace(m, r, q), q) = [m EXCEPT !.requests = R \ {q}]
  BY <1>0, <1>4 DEF Without, Memory
<1>7. Without(Replace(m, r, q), q) = Without(m, r)
  BY <1>0, <1>3, <1>6 DEF Without, Memory
<1>8. /\ Without(m, r).requests = m.requests \ {r}
      /\ Without(m, r).retries = m.retries /\ Without(m, r).stage = m.stage
  BY <1>0 DEF Without, Memory
<1>9. PICK n : n = Without(m, r)
  OBVIOUS
<1>10. n = [m EXCEPT !.requests = @ \ {r}]
  BY <1>9 DEF Without
<1>11. Sound(n, {} \cup ToSet(r.batch)) /\ Carries(m, n, {})
  BY <1>10, RequestTaken
<1> QED
  BY <1>5, <1>7, <1>8, <1>9, <1>11

(* The first part joins what is sent again.                                *)
LEMMA AgainFacts ==
    ASSUME NEW r \in Request, Answers(r), NEW part, part = Head(r.parts)
    PROVE  /\ part \in Seq(Ids) /\ part # <<>> /\ IsInjective(part)
           /\ ToSet(part) \subseteq ToSet(r.batch) \ (r.acc \cup r.rej \cup ToSet(r.again))
           /\ ToSet(r.again) \subseteq Ids /\ ToSet(part) \subseteq Ids
           /\ \A s \in Seq(Ids) : IsInjective(s) /\ ToSet(s) \subseteq ToSet(part) =>
                 /\ r.again \o s \in Seq(Ids) /\ IsInjective(r.again \o s)
                 /\ ToSet(r.again \o s) = ToSet(r.again) \cup ToSet(s)
<1>0. r.again \in Seq(Ids) /\ r.parts \in Seq(Seq(Ids)) /\ r.parts # <<>> /\ IsInjective(r.again)
  BY DEF Request, Answers
<1>1. 1 \in DOMAIN r.parts /\ part = r.parts[1] /\ part \in Seq(Ids)
  BY <1>0
<1>2. /\ part # <<>> /\ IsInjective(part)
      /\ ToSet(part) \subseteq ToSet(r.batch) \ (r.acc \cup r.rej \cup ToSet(r.again))
  BY <1>1 DEF Answers
<1>3. ToSet(r.again) \subseteq Ids /\ ToSet(part) \subseteq Ids
  BY <1>0, <1>1, ElementFacts
<1>4. ASSUME NEW s \in Seq(Ids), IsInjective(s), ToSet(s) \subseteq ToSet(part)
      PROVE  /\ r.again \o s \in Seq(Ids) /\ IsInjective(r.again \o s)
             /\ ToSet(r.again \o s) = ToSet(r.again) \cup ToSet(s)
  <2>1. ToSet(r.again) \cap ToSet(s) = {}
    BY <1>2, <1>4
  <2> QED
    BY <1>0, <1>4, <2>1, ConcatFacts
<1> QED
  BY <1>1, <1>2, <1>3, <1>4

(* A finite set, listed.                                                   *)
LEMMA SetToSeqFacts ==
    ASSUME NEW S, IsFiniteSet(S)
    PROVE  /\ Cardinality(S) \in Nat /\ SetToSeq(S) \in [1 .. Cardinality(S) -> S]
           /\ IsInjective(SetToSeq(S))
<1>1. PICK n \in Nat : ExistsBijection(1 .. n, S)
  BY FS_NatBijection
<1>2. Cardinality(S) = n
  BY <1>1, FS_CountingElements
<1>3. \E f \in [1 .. n -> S] : IsInjective(f)
  BY <1>1 DEF ExistsBijection, Bijection, Injection
<1> QED
  BY <1>2, <1>3 DEF SetToSeq

(* Abandon one request: what was not answered is parked.                   *)
LEMMA AbortStepSound ==
    ASSUME NEW m, Sound(m, {}), m.stage = "aborted", NEW r \in m.requests,
           NEW o, o = AbortStep(m, r)
    PROVE  Sound(o, {}) /\ Drains(m, o, r.acc) /\ o.requests = m.requests \ {r}
<1>0. m \in Memory /\ r \in Request /\ Answers(r)
  BY MemoryFacts DEF Sound, Wire
<1>1. PICK part : part = Head(r.parts)
  OBVIOUS
<1>2. /\ part \in Seq(Ids) /\ IsInjective(part)
      /\ ToSet(part) \subseteq ToSet(r.batch) \ (r.acc \cup r.rej \cup ToSet(r.again))
      /\ r.again \o part \in Seq(Ids) /\ IsInjective(r.again \o part)
      /\ ToSet(r.again \o part) = ToSet(r.again) \cup ToSet(part)
  BY <1>0, <1>1, AgainFacts
<1>3. PICK q : q = [r EXCEPT !.again = r.again \o part]
  OBVIOUS
<1>4. /\ q \in Request /\ q.batch = r.batch /\ q.acc = r.acc /\ q.rej = r.rej
      /\ q.again = r.again \o part
  BY <1>0, <1>2, <1>3 DEF Request
<1>5. Outcome(q)
  BY <1>0, <1>2, <1>4 DEF Outcome, Answers
<1>6. PICK v : v = Replace(m, r, q)
  OBVIOUS
<1>7. PICK w : w = Without(v, q)
  OBVIOUS
<1>none. PICK due : due = <<>>
  OBVIOUS
<1>late. PICK expired \in BOOLEAN : expired = FALSE
  OBVIOUS
<1>8. o = FinishBatch(v, q, due, 1, expired)
  BY <1>none, <1>late, <1>0, <1>1, <1>3, <1>6 DEF AbortStep, Replace, Request
<1>9. /\ v \in Memory /\ Sound(w, ToSet(q.batch)) /\ Carries(m, w, {})
      /\ w.requests = m.requests \ {r} /\ w.stage = "aborted"
  BY <1>4, <1>6, <1>7, ReplaceSound
<1>10. /\ due \in Seq(BOOLEAN) /\ Len(due) <= Len(w.retries) /\ 1 \in 1 .. Len(w.retries) + 1
  <2>1. w.retries \in Seq(Seq(Ids))
    BY <1>9, MemoryFacts DEF Sound
  <2> QED
    BY <1>none, <2>1
<1>11. /\ Sound(o, {}) /\ Drains(w, o, q.acc)
       /\ w.stage = "aborted" => o.requests = w.requests
  BY <1>5, <1>7, <1>8, <1>9, <1>10, FinishSound
<1>12. Drains(m, w, {})
  BY <1>9, CarriesDrains
<1>13. Drains(m, o, {} \cup q.acc)
  BY <1>11, <1>12, DrainsOn
<1>14. {} \cup q.acc = r.acc
  BY <1>4
<1> QED
  BY <1>9, <1>11, <1>13, <1>14

(* abortActiveEventRequests.                                               *)
LEMMA AbortRequestsSound ==
    ASSUME NEW m, Sound(m, {}), m.stage = "aborted", NEW o, o = AbortRequests(m)
    PROVE  Sound(o, {}) /\ Drains(m, o, UNION {r.acc : r \in m.requests})
<1>0. IsFiniteSet(m.requests)
  BY DEF Sound, Wire
<1>1. PICK s : s = SetToSeq(m.requests)
  OBVIOUS
<1>2. PICK n : n = Cardinality(m.requests)
  OBVIOUS
<1>3. n \in Nat /\ s \in [1 .. n -> m.requests] /\ IsInjective(s)
  BY <1>0, <1>1, <1>2, SetToSeqFacts
<1>4. DOMAIN s = 1 .. n
  BY <1>3
<1>5. PICK f : /\ f[0] = m
               /\ \A k \in 1 .. n : f[k] = AbortStep(f[k - 1], s[k])
               /\ AbortRequests(m) = f[n]
  BY <1>1, <1>3, <1>4, AbortFold
<1> DEFINE U == UNION {r.acc : r \in m.requests}
           E(k) == {s[j] : j \in 1 .. k}
           A == {k \in 0 .. n : /\ Sound(f[k], {}) /\ Drains(m, f[k], U)
                                /\ f[k].requests = m.requests \ E(k)}
<1>6. \A r \in m.requests : r.acc \subseteq U
  OBVIOUS
<1> HIDE DEF U
<1>7. 0 \in A
  <2>1. Drains(m, m, U)
    BY DEF Drains
  <2>2. E(0) = {} /\ 0 \in 0 .. n
    BY <1>3
  <2> QED
    BY <1>5, <2>1, <2>2
<1>8. ASSUME NEW k \in 1 .. n, k - 1 \in A PROVE k \in A
  <2>1. PICK g : g = f[k - 1]
    OBVIOUS
  <2>2. PICK r : r = s[k]
    OBVIOUS
  <2>3. /\ Sound(g, {}) /\ Drains(m, g, U) /\ g.requests = m.requests \ E(k - 1)
        /\ f[k] = AbortStep(g, r) /\ k \in 0 .. n /\ r \in m.requests
    BY <1>1, <1>3, <1>5, <1>8, <2>1, <2>2
  <2>4. E(k) = E(k - 1) \cup {r} /\ r \notin E(k - 1)
    <3>1. 1 .. k = (1 .. k - 1) \cup {k} /\ \A j \in 1 .. k - 1 : j # k /\ j \in 1 .. n
      BY <1>3
    <3> QED
      BY <1>3, <2>2, <3>1 DEF IsInjective
  <2>5. r \in g.requests /\ g.stage = "aborted"
    BY <2>3, <2>4 DEF Drains
  <2>6. /\ Sound(f[k], {}) /\ Drains(g, f[k], r.acc) /\ f[k].requests = g.requests \ {r}
    BY <2>3, <2>5, AbortStepSound
  <2>7. Drains(m, f[k], U \cup r.acc)
    BY <2>3, <2>6, DrainsOn
  <2>8. U \cup r.acc = U
    BY <1>6, <2>3
  <2> QED
    BY <2>3, <2>4, <2>6, <2>7, <2>8
<1>9. n \in A
  <2> HIDE DEF A
  <2>1. \A k \in 0 .. n : k \in A
    BY <1>3, <1>7, <1>8, UpTo
  <2> QED
    BY <1>3, <2>1
<1> QED
  BY <1>5, <1>9 DEF U

Staged(m, g) == [m EXCEPT !.stage = g]

(* The stage changes and nothing else.                                     *)
LEMMA StageSound ==
    ASSUME NEW m, NEW X, Sound(m, X), NEW g \in {"up", "closing", "aborted", "down"},
           NEW n, n = Staged(m, g)
    PROVE  /\ Sound(n, X) /\ n.stage = g /\ n.ops = m.ops /\ n.lane = m.lane
           /\ n.walPending = m.walPending /\ n.active = m.active
           /\ n.requests = m.requests /\ n.retries = m.retries
<1>0. m \in Memory
  BY DEF Sound
<1>1. /\ n \in Memory /\ n.stage = g /\ n.lane = m.lane /\ n.ops = m.ops
      /\ n.walPending = m.walPending /\ n.pending = m.pending /\ n.requests = m.requests
      /\ n.retries = m.retries /\ n.retryOwned = m.retryOwned /\ n.active = m.active
      /\ n.outstanding = m.outstanding /\ n.retryOutstanding = m.retryOutstanding
  BY <1>0 DEF Memory, Staged
<1>2. Held(n) = Held(m) /\ (HeldOnce(m) => HeldOnce(n))
  <2>1. n.pending = m.pending /\ n.requests = m.requests /\ n.retries = m.retries
    BY <1>1
  <2> QED
    BY <2>1 DEF Held, Waiting, OnWire, HeldOnce
<1>3. Exact(n, X)
  BY <1>1, <1>2 DEF Sound, Exact
<1>4. Spooled(n) /\ Reserve(n) /\ Wire(n)
  BY <1>1 DEF Sound, Spooled, Reserve, Wire
<1> QED
  BY <1>1, <1>3, <1>4 DEF Sound

(* abandonPendingEvents.                                                   *)
LEMMA AbandonPendingSound ==
    ASSUME NEW m, Sound(m, {}), NEW o, o = AbandonPending(m)
    PROVE  Sound(o, {}) /\ Carries(m, o, {})
<1>0. m \in Memory
  BY DEF Sound
<1>1. PICK p : p = <<>>
  OBVIOUS
<1>2. p \in Seq(Ids) /\ IsInjective(p) /\ ToSet(p) = {} /\ ToSet(p) \subseteq ToSet(m.pending)
  BY <1>1, EmptyFacts
<1>3. PICK n : n = Requeued(m, p)
  OBVIOUS
<1>4. PICK S : S = ToSet(m.pending)
  OBVIOUS
<1>5. Sound(n, S) /\ Carries(m, n, {})
  <2>1. Sound(n, {} \cup (ToSet(m.pending) \ ToSet(p))) /\ Carries(m, n, {})
    BY <1>2, <1>3, PendingTaken
  <2>2. {} \cup (ToSet(m.pending) \ ToSet(p)) = S
    BY <1>2, <1>4
  <2> QED
    BY <2>1, <2>2
<1>6. o = Settle(n, S)
  BY <1>1, <1>3, <1>4 DEF AbandonPending, Requeued
<1>7. S \cap Held(n) = {}
  BY <1>5 DEF Sound, Exact
<1>8. Sound(o, S \ S) /\ Carries(n, o, {})
  BY <1>5, <1>6, <1>7, SettleSound
<1>9. Carries(m, o, {} \cup {})
  BY <1>5, <1>8, CarriesOn
<1>10. S \ S = {} /\ {} \cup {} = {}
  OBVIOUS
<1> QED
  BY <1>8, <1>9, <1>10

(* Every task is taken off the retry tasks.                                *)
LEMMA RetriesTaken ==
    ASSUME NEW m, Sound(m, {}), NEW n, n = [m EXCEPT !.retries = <<>>]
    PROVE  /\ Sound(n, Waiting(m)) /\ Carries(m, n, {})
           /\ \A i \in DOMAIN m.retries :
                 /\ m.retries[i] \in Seq(Ids) /\ IsInjective(m.retries[i])
                 /\ \A j \in DOMAIN m.retries \ {i} :
                       ToSet(m.retries[i]) \cap ToSet(m.retries[j]) = {}
<1>0. m \in Memory /\ HeldOnce(m) /\ m.retries \in Seq(Seq(Ids))
  BY MemoryFacts DEF Sound, Exact
<1>1. n \in Memory /\ n.pending = m.pending /\ n.requests = m.requests /\ n.retries = <<>>
  <2>1. PICK e : e = <<>>
    OBVIOUS
  <2>2. e \in Seq(Seq(Ids)) /\ n = [m EXCEPT !.retries = e]
    BY <2>1
  <2>3. n \in Memory /\ n.pending = m.pending /\ n.requests = m.requests /\ n.retries = e
    BY <1>0, <2>2 DEF Memory
  <2> QED
    BY <2>1, <2>3
<1>2. Kept(m, n)
  BY <1>0 DEF Memory, Kept
<1>3. DOMAIN n.retries = {}
  BY <1>1
<1>4. HeldOnce(n)
  BY <1>0, <1>1, <1>3 DEF HeldOnce
<1>5. Waiting(n) = {} /\ OnWire(n) = OnWire(m)
  BY <1>1, <1>3 DEF Waiting, OnWire
<1>6. Waiting(m) \cap ToSet(m.pending) = {} /\ Waiting(m) \cap OnWire(m) = {}
  <2>1. /\ \A i \in DOMAIN m.retries : ToSet(m.retries[i]) \cap ToSet(m.pending) = {}
        /\ \A r \in m.requests : \A i \in DOMAIN m.retries :
              ToSet(r.batch) \cap ToSet(m.retries[i]) = {}
    BY <1>0 DEF HeldOnce
  <2>2. ASSUME NEW e \in Waiting(m) PROVE e \notin ToSet(m.pending) /\ e \notin OnWire(m)
    <3>1. PICK i \in DOMAIN m.retries : e \in ToSet(m.retries[i])
      BY <2>2 DEF Waiting
    <3> QED
      BY <2>1, <3>1 DEF OnWire
  <2> QED
    BY <2>2
<1>7. Waiting(m) \cap Held(n) = {} /\ Held(n) \cup Waiting(m) = Held(m) \cup {}
  BY <1>1, <1>5, <1>6 DEF Held
<1>8. IsFiniteSet(n.requests)
      /\ \A r \in n.requests : r \in m.requests \/ (Answers(r) /\ r.acc = {})
  <2>1. IsFiniteSet(m.requests)
    BY DEF Sound, Wire
  <2> QED
    BY <1>1, <2>1
<1>9. \A i \in DOMAIN n.retries :
         n.retries[i] # <<>> /\ ToSet(n.retries[i]) \subseteq m.retryOwned
  BY <1>3
<1>10. PICK Y : Y = Waiting(m)
  OBVIOUS
<1>11. Sound(n, Y) /\ Carries(m, n, {})
  BY <1>1, <1>2, <1>4, <1>7, <1>8, <1>9, <1>10, Moved, Zenon
<1>12. \A i \in DOMAIN m.retries :
         /\ m.retries[i] \in Seq(Ids) /\ IsInjective(m.retries[i])
         /\ \A j \in DOMAIN m.retries \ {i} :
               ToSet(m.retries[i]) \cap ToSet(m.retries[j]) = {}
  <2>1. \A i \in DOMAIN m.retries : m.retries[i] \in Seq(Ids)
    BY <1>0
  <2>2. \A i \in DOMAIN m.retries :
           /\ IsInjective(m.retries[i])
           /\ \A j \in DOMAIN m.retries \ {i} :
                 ToSet(m.retries[i]) \cap ToSet(m.retries[j]) = {}
    BY <1>0, Zenon DEF HeldOnce
  <2> QED
    BY <2>1, <2>2, Zenon
<1> QED
  BY <1>10, <1>11, <1>12

(* abandonRetryEvents.                                                     *)
LEMMA AbandonRetriesSound ==
    ASSUME NEW m, Sound(m, {}), NEW o, o = AbandonRetries(m)
    PROVE  Sound(o, {}) /\ Carries(m, o, {})
<1>1. PICK s : s = m.retries
  OBVIOUS
<1>2. PICK n : n = Len(s)
  OBVIOUS
<1>3. n \in Nat /\ DOMAIN s = 1 .. n
  BY <1>1, <1>2, MemoryFacts DEF Sound
<1>4. PICK x : x = [m EXCEPT !.retries = <<>>]
  OBVIOUS
<1>5. PICK f : /\ f[0] = x
               /\ \A k \in 1 .. n : f[k] = Exhaust(f[k - 1], s[k])
               /\ AbandonRetries(m) = f[n]
  BY <1>1, <1>3, <1>4, ExhaustFold
<1>6. /\ Sound(x, Waiting(m)) /\ Carries(m, x, {})
      /\ \A i \in DOMAIN s :
            /\ s[i] \in Seq(Ids) /\ IsInjective(s[i])
            /\ \A j \in DOMAIN s \ {i} : ToSet(s[i]) \cap ToSet(s[j]) = {}
  BY <1>1, <1>4, RetriesTaken
<1> DEFINE X(k) == UNION {ToSet(s[j]) : j \in k + 1 .. n}
           A == {k \in 0 .. n : Sound(f[k], X(k)) /\ Carries(m, f[k], {})}
<1>7. 0 \in A
  <2>1. X(0) = Waiting(m)
    <3>1. 0 + 1 .. n = DOMAIN s
      BY <1>3
    <3> QED
      BY <1>1, <3>1 DEF Waiting
  <2> QED
    <3>1. f[0] = x /\ 0 \in 0 .. n
      BY <1>3, <1>5
    <3>2. Sound(f[0], X(0))
      BY <1>6, <2>1, <3>1
    <3>3. Carries(m, f[0], {})
      BY <1>6, <3>1
    <3> HIDE DEF X
    <3> QED
      BY <3>1, <3>2, <3>3
<1>8. ASSUME NEW k \in 1 .. n, k - 1 \in A PROVE k \in A
  <2>1. PICK g : g = f[k - 1]
    OBVIOUS
  <2>2. PICK items : items = s[k]
    OBVIOUS
  <2>3. PICK Y : Y = X(k - 1)
    OBVIOUS
  <2>4. /\ Sound(g, Y) /\ Carries(m, g, {}) /\ f[k] = Exhaust(g, items) /\ k \in 0 .. n
        /\ items \in Seq(Ids) /\ IsInjective(items)
    BY <1>3, <1>5, <1>6, <1>8, <2>1, <2>2, <2>3
  <2>5. ToSet(items) \subseteq Y /\ Y \ ToSet(items) = X(k)
    <3>1. (k - 1) + 1 .. n = {k} \cup (k + 1 .. n) /\ \A j \in k + 1 .. n : j # k /\ j \in DOMAIN s
      BY <1>3
    <3>2. \A j \in k + 1 .. n : ToSet(s[k]) \cap ToSet(s[j]) = {}
      BY <1>3, <1>6, <3>1
    <3>3. ToSet(s[k]) \cap X(k) = {}
      BY <3>2
    <3>4. X(k - 1) = ToSet(s[k]) \cup X(k)
      BY <3>1
    <3> QED
      BY <2>2, <2>3, <3>3, <3>4
  <2>6. Sound(f[k], Y \ ToSet(items)) /\ Carries(g, f[k], {})
    BY <2>4, <2>5, Exhausted
  <2>7. Carries(m, f[k], {} \cup {})
    BY <2>4, <2>6, CarriesOn
  <2>8. {} \cup {} = {}
    OBVIOUS
  <2> QED
    BY <2>4, <2>5, <2>6, <2>7, <2>8
<1>9. n \in A
  <2> HIDE DEF A
  <2>1. \A k \in 0 .. n : k \in A
    BY <1>3, <1>7, <1>8, UpTo
  <2> QED
    BY <1>3, <2>1
<1>10. X(n) = {}
  <2>1. n + 1 .. n = {}
    BY <1>3
  <2> QED
    BY <2>1
<1> QED
  BY <1>5, <1>9, <1>10

(* abortActiveEventRequests, abandonPendingEvents and abandonRetryEvents.  *)
LEMMA AbortedSound ==
    ASSUME NEW m, Sound(m, {}), NEW o, o = Aborted(m)
    PROVE  /\ Sound(o, {})
           /\ \E n : n = Staged(m, "aborted")
                     /\ Drains(n, o, UNION {r.acc : r \in m.requests})
<1>1. PICK n : n = Staged(m, "aborted")
  OBVIOUS
<1>2. PICK a : a = AbortRequests(n)
  OBVIOUS
<1>3. PICK b : b = AbandonPending(a)
  OBVIOUS
<1>4. o = AbandonRetries(b)
  BY <1>1, <1>2, <1>3 DEF Aborted, Staged
<1>5. Sound(n, {}) /\ n.stage = "aborted" /\ n.requests = m.requests /\ n.active = m.active
  <2>1. n.stage = "aborted" /\ n.requests = m.requests /\ n.active = m.active
    BY <1>1 DEF Staged, Sound, Memory
  <2>2. Sound(n, {})
    BY <1>1, StageSound
  <2> QED
    BY <2>1, <2>2
<1>6. PICK U : U = UNION {r.acc : r \in n.requests}
  OBVIOUS
<1>7. Sound(a, {}) /\ Drains(n, a, U)
  BY <1>2, <1>5, <1>6, AbortRequestsSound
<1>8. Sound(b, {}) /\ Carries(a, b, {})
  BY <1>3, <1>7, AbandonPendingSound
<1>9. Sound(o, {}) /\ Carries(b, o, {})
  BY <1>4, <1>8, AbandonRetriesSound
<1>10. Drains(a, b, {}) /\ Drains(b, o, {})
  BY <1>8, <1>9, CarriesDrains
<1>11. Drains(n, b, U \cup {})
  BY <1>7, <1>10, DrainsOn
<1>12. Drains(n, o, (U \cup {}) \cup {})
  BY <1>10, <1>11, DrainsOn
<1>13. (U \cup {}) \cup {} = U /\ U = UNION {r.acc : r \in m.requests}
  BY <1>5, <1>6
<1>14. Drains(n, o, U)
  BY <1>12, <1>13 DEF Drains
<1> QED
  BY <1>1, <1>5, <1>9, <1>13, <1>14

-----------------------------------------------------------------------------
(* The actions.                                                            *)

(* The retry tasks that are due are a prefix of the tasks.                 *)
LEMMA DueFacts ==
    ASSUME NEW m \in Memory, NEW due \in Due(m)
    PROVE  due \in Seq(BOOLEAN) /\ Len(due) \in 0 .. Len(m.retries)
<1>1. PICK k \in 0 .. Len(m.retries) : due \in [1 .. k -> BOOLEAN]
  BY DEF Due
<1>2. m.retries \in Seq(Seq(Ids)) /\ Len(m.retries) \in Nat
  BY MemoryFacts
<1>3. k \in Nat
  BY <1>2
<1>4. due \in Seq(BOOLEAN) /\ Len(due) = k
  BY <1>1, <1>3
<1> QED
  BY <1>4

(* A change that leaves the gauges alone.                                  *)
LEMMA GaugesKept ==
    ASSUME NEW m, NEW X, Sound(m, X), NEW n \in Memory, n.pending = m.pending,
           n.requests = m.requests, n.retries = m.retries, n.retryOwned = m.retryOwned,
           n.active = m.active, n.outstanding = m.outstanding,
           n.retryOutstanding = m.retryOutstanding,
           IsInjective(n.lane), m.active \subseteq ToSet(n.lane)
    PROVE  Sound(n, X)
<1>1. Held(n) = Held(m) /\ (HeldOnce(m) => HeldOnce(n))
  BY DEF Held, Waiting, OnWire, HeldOnce
<1>2. Exact(n, X)
  BY <1>1 DEF Sound, Exact
<1>3. Spooled(n) /\ Reserve(n) /\ Wire(n)
  BY DEF Sound, Spooled, Reserve, Wire
<1> QED
  BY <1>2, <1>3 DEF Sound

(* A forwarder that has just been started, or is down.                     *)
LEMMA FreshSound ==
    ASSUME NEW g \in {"up", "closing", "aborted", "down"}, NEW ids \in SUBSET Ids,
           NEW m, m = Fresh(g, ids)
    PROVE  /\ Sound(m, {}) /\ Queue(m) /\ ToSet(m.lane) = ids /\ m.ops = <<>>
           /\ m.requests = {}
<1>1. PICK l : l = InOrder(ids)
  OBVIOUS
<1>2. l \in Seq(Ids) /\ ToSet(l) = ids /\ IsInjective(l)
  BY <1>1, InOrderFacts
<1>3. PICK e : e = <<>>
  OBVIOUS
<1>4. e \in Seq(Ids) /\ e \in Seq(Seq(Ids)) /\ e \in Seq(Operation) /\ DOMAIN e = {}
      /\ ToSet(e) = {} /\ IsInjective(e)
  BY <1>3, EmptyFacts
<1>5. m = [stage |-> g, lane |-> l, ops |-> e, walPending |-> 0, pending |-> e,
           requests |-> {}, retries |-> e, retryOwned |-> {}, active |-> {},
           outstanding |-> 0, retryOutstanding |-> 0, paused |-> FALSE]
  BY <1>1, <1>3 DEF Fresh
<1>6. m \in Memory
  BY <1>2, <1>4, <1>5 DEF Memory
<1>7. /\ m.lane = l /\ m.ops = e /\ m.walPending = 0 /\ m.pending = e /\ m.requests = {}
      /\ m.retries = e /\ m.retryOwned = {} /\ m.active = {} /\ m.outstanding = 0
      /\ m.retryOutstanding = 0
  BY <1>5
<1>8. Cardinality({}) = 0
  BY FS_EmptySet
<1>9. HeldOnce(m)
  BY <1>4, <1>7 DEF HeldOnce
<1>10. Held(m) = {}
  BY <1>4, <1>7 DEF Held, Waiting, OnWire
<1>11. Exact(m, {})
  BY <1>4, <1>7, <1>8, <1>9, <1>10 DEF Exact
<1>12. Spooled(m)
  BY <1>2, <1>7 DEF Spooled
<1>13. Reserve(m)
  <2>1. {} \cap Low = {} /\ 0 <= MaxOutstanding /\ 0 <= MaxOutstanding - ProtectedReserve
    BY ForwarderAssumption
  <2> QED
    BY <1>7, <1>8, <2>1 DEF Reserve
<1>14. Wire(m)
  BY <1>7, FS_EmptySet DEF Wire
<1>15. Queue(m)
  <2>1. {i \in DOMAIN m.ops : m.ops[i].kind = "put"} = {}
    BY <1>4, <1>7
  <2>2. PutsPending(m) = 0
    BY <1>8, <2>1 DEF PutsPending
  <2> QED
    BY <1>4, <1>7, <2>2 DEF Queue
<1> QED
  BY <1>2, <1>3, <1>6, <1>7, <1>11, <1>12, <1>13, <1>14, <1>15 DEF Sound

(* A batch goes on with its next part.                                     *)
LEMMA ReplaceKept ==
    ASSUME NEW m, Sound(m, {}), NEW r \in m.requests, NEW q \in Request,
           q.batch = r.batch, Answers(q), NEW n, n = Replace(m, r, q)
    PROVE  /\ Sound(n, {}) /\ n.requests = (m.requests \ {r}) \cup {q}
           /\ n.lane = m.lane /\ n.ops = m.ops /\ n.walPending = m.walPending
           /\ n.stage = m.stage
<1>0. m \in Memory /\ HeldOnce(m)
  BY DEF Sound, Exact
<1>1. /\ n \in Memory /\ n.pending = m.pending /\ n.requests = (m.requests \ {r}) \cup {q}
      /\ n.retries = m.retries
  BY <1>0, ReplaceSound DEF Replace, Memory
<1>2. Kept(m, n)
  BY <1>0 DEF Memory, Replace, Kept
<1>3. HeldOnce(n)
  <2>1. \A p \in n.requests : \E o \in m.requests : o.batch = p.batch /\ (o = p \/ (o = r /\ p = q))
    BY <1>1
  <2>2. /\ IsInjective(n.pending)
        /\ \A i \in DOMAIN n.retries :
              /\ IsInjective(n.retries[i])
              /\ ToSet(n.retries[i]) \cap ToSet(n.pending) = {}
              /\ \A j \in DOMAIN n.retries \ {i} :
                    ToSet(n.retries[i]) \cap ToSet(n.retries[j]) = {}
    BY <1>0, <1>1 DEF HeldOnce
  <2>3. ASSUME NEW p \in n.requests
        PROVE  /\ IsInjective(p.batch)
               /\ ToSet(p.batch) \cap ToSet(n.pending) = {}
               /\ \A i \in DOMAIN n.retries : ToSet(p.batch) \cap ToSet(n.retries[i]) = {}
    BY <1>0, <1>1, <2>1 DEF HeldOnce
  <2>4. ASSUME NEW p \in n.requests, NEW s \in n.requests \ {p}
        PROVE  ToSet(p.batch) \cap ToSet(s.batch) = {}
    <3>1. PICK o \in m.requests : o.batch = p.batch /\ (o = p \/ (o = r /\ p = q))
      BY <2>1
    <3>2. PICK t \in m.requests : t.batch = s.batch /\ (t = s \/ (t = r /\ s = q))
      BY <2>1
    <3>3. CASE o # t
      BY <1>0, <3>1, <3>2, <3>3 DEF HeldOnce
    <3>4. CASE o = t
      <4>1. o = r /\ (p = r \/ s = r)
        BY <2>4, <3>1, <3>2, <3>4
      <4>2. r \in n.requests => r = q
        BY <1>1
      <4> QED
        BY <2>4, <3>1, <3>2, <3>4, <4>1, <4>2
    <3> QED
      BY <3>3, <3>4
  <2> QED
    BY <2>2, <2>3, <2>4 DEF HeldOnce
<1>4. OnWire(n) = OnWire(m) /\ Waiting(n) = Waiting(m)
  <2>1. \A e : e \in OnWire(n) <=> e \in OnWire(m)
    BY <1>1 DEF OnWire
  <2> QED
    BY <1>1, <2>1 DEF Waiting
<1>5. Held(n) = Held(m)
  BY <1>1, <1>4 DEF Held
<1>6. Exact(n, {})
  <2>1. {} \cap Held(n) = {} /\ n.active = Held(n) \cup {}
    BY <1>2, <1>5 DEF Sound, Exact, Kept
  <2>2. /\ n.outstanding = Cardinality(n.active)
        /\ n.retryOutstanding = Cardinality(n.retryOwned)
        /\ n.retryOwned \subseteq n.active
        /\ \A i \in DOMAIN n.retries :
              n.retries[i] # <<>> /\ ToSet(n.retries[i]) \subseteq n.retryOwned
    BY <1>1, <1>2 DEF Sound, Exact, Kept
  <2> QED
    BY <1>3, <2>1, <2>2 DEF Exact
<1>7. Spooled(n) /\ Reserve(n)
  BY <1>2 DEF Sound, Spooled, Reserve, Kept
<1>8. Wire(n)
  <2>1. IsFiniteSet(m.requests) /\ \A p \in m.requests : Answers(p)
    BY DEF Sound, Wire
  <2>2. IsFiniteSet(m.requests \ {r})
    BY <2>1, FS_Subset
  <2>3. IsFiniteSet((m.requests \ {r}) \cup {q})
    BY <2>2, FS_AddElement
  <2>4. \A p \in n.requests : p \in m.requests \/ p = q
    BY <1>1
  <2>5. \A p \in n.requests : Answers(p)
    BY <2>1, <2>4
  <2> QED
    BY <1>1, <2>3, <2>5 DEF Wire
<1> QED
  BY <1>1, <1>2, <1>6, <1>7, <1>8 DEF Sound, Kept

(* What a step has to keep besides the gauges, when it takes the records J *)
(* off the disk.                                                           *)
LEMMA DrainsInd ==
    ASSUME IndInv, NEW m, NEW A, NEW J, Drains(m, fwd', A), Sound(fwd', {}),
           m.ops = fwd.ops, m.lane = fwd.lane, m.walPending = fwd.walPending,
           \A q \in m.requests : q.acc \subseteq consumed',
           A \subseteq consumed', consumed \subseteq consumed', consumed' \subseteq Ids,
           dlq \subseteq dlq', dlq' \subseteq Ids, disk' = disk \ J,
           J \subseteq ToSet(fwd.lane), promised' = promised, next' = next
    PROVE  IndInv'
<1>1. Queue(fwd')
  <2>1. Queue(m)
    BY DEF IndInv, Queue, PutsPending
  <2> QED
    BY <2>1 DEF Drains
<1>2. \A i \in DOMAIN fwd'.ops :
         \/ i \in DOMAIN fwd.ops /\ fwd'.ops[i] = fwd.ops[i]
         \/ /\ fwd'.ops[i].kind = "ack" /\ ~fwd'.ops[i].written
            /\ fwd'.ops[i].ids \subseteq A \cap ToSet(fwd.lane)
  BY DEF Drains
<1>3. Known'
  <2>1. Seen' = Seen /\ ToSet(fwd'.lane) \subseteq ToSet(fwd.lane)
    BY DEF Seen, Drains
  <2>2. next' \in 1 .. MaxEvents + 1 /\ ToSet(fwd'.lane) \cup disk' \cup promised' \subseteq Seen'
    BY <2>1 DEF IndInv, Known
  <2>3. \A i \in DOMAIN fwd'.ops : fwd'.ops[i].ids \subseteq Seen'
    BY <1>2, <2>1 DEF IndInv, Known
  <2> QED
    BY <2>2, <2>3 DEF Known
<1>4. Owing'
  <2>1. ASSUME NEW i \in DOMAIN fwd'.ops
        PROVE  IF fwd'.ops[i].kind = "put"
               THEN /\ fwd'.ops[i].ids \cap promised' = {}
                    /\ fwd'.ops[i].written => fwd'.ops[i].ids \subseteq disk'
               ELSE fwd'.ops[i].ids \subseteq consumed' \cup dlq'
    <3>1. CASE i \in DOMAIN fwd.ops /\ fwd'.ops[i] = fwd.ops[i]
      <4>1. fwd.ops[i].ids \cap J = {}
        BY <3>1 DEF IndInv, Queue
      <4> QED
        BY <3>1, <4>1 DEF IndInv, Owing
    <3>2. CASE /\ fwd'.ops[i].kind = "ack" /\ ~fwd'.ops[i].written
               /\ fwd'.ops[i].ids \subseteq A \cap ToSet(fwd.lane)
      BY <3>2
    <3> QED
      BY <1>2, <3>1, <3>2
  <2>2. \A q \in fwd'.requests : q.acc \subseteq consumed'
    BY DEF Drains
  <2> QED
    BY <2>1, <2>2 DEF Owing
<1> QED
  BY <1>1, <1>3, <1>4 DEF IndInv, Sound, Queue

(* The same, for a step that goes through the memory m.                    *)
LEMMA NextInd ==
    ASSUME NEW m, NEW A, Drains(m, fwd', A), Sound(fwd', {}), Queue(m),
           ToSet(m.lane) \cup disk' \cup promised' \subseteq 1 .. next' - 1,
           \A i \in DOMAIN m.ops :
              /\ m.ops[i].ids \subseteq 1 .. next' - 1
              /\ IF m.ops[i].kind = "put"
                 THEN /\ m.ops[i].ids \cap promised' = {}
                      /\ m.ops[i].written => m.ops[i].ids \subseteq disk'
                 ELSE m.ops[i].ids \subseteq consumed' \cup dlq',
           \A q \in m.requests : q.acc \subseteq consumed',
           A \subseteq consumed', consumed' \subseteq Ids, dlq' \subseteq Ids,
           next' \in 1 .. MaxEvents + 1
    PROVE  IndInv'
<1>1. Queue(fwd')
  BY DEF Drains
<1>2. \A i \in DOMAIN fwd'.ops :
         \/ i \in DOMAIN m.ops /\ fwd'.ops[i] = m.ops[i]
         \/ /\ fwd'.ops[i].kind = "ack" /\ ~fwd'.ops[i].written
            /\ fwd'.ops[i].ids \subseteq A \cap ToSet(m.lane)
  BY DEF Drains
<1>3. Known'
  <2>1. ToSet(fwd'.lane) \subseteq ToSet(m.lane)
    BY DEF Drains
  <2>2. \A i \in DOMAIN fwd'.ops : fwd'.ops[i].ids \subseteq 1 .. next' - 1
    BY <1>2
  <2> QED
    BY <2>1, <2>2 DEF Known, Seen
<1>4. Owing'
  <2>1. ASSUME NEW i \in DOMAIN fwd'.ops
        PROVE  IF fwd'.ops[i].kind = "put"
               THEN /\ fwd'.ops[i].ids \cap promised' = {}
                    /\ fwd'.ops[i].written => fwd'.ops[i].ids \subseteq disk'
               ELSE fwd'.ops[i].ids \subseteq consumed' \cup dlq'
    BY <1>2
  <2>2. \A q \in fwd'.requests : q.acc \subseteq consumed'
    BY DEF Drains
  <2> QED
    BY <2>1, <2>2 DEF Owing
<1> QED
  BY <1>1, <1>3, <1>4 DEF IndInv, Sound, Queue

(* The invariant holds at the start and after each handler.                *)
LEMMA InitInd ==
    ASSUME Init PROVE IndInv
<1>1. /\ Sound(fwd, {}) /\ Queue(fwd) /\ ToSet(fwd.lane) = {} /\ fwd.ops = <<>>
      /\ fwd.requests = {}
  <2>1. PICK ids : ids = {}
    OBVIOUS
  <2>2. ids \in SUBSET Ids /\ fwd = Fresh("up", ids)
    BY <2>1 DEF Init
  <2>3. /\ Sound(fwd, {}) /\ Queue(fwd) /\ ToSet(fwd.lane) = ids /\ fwd.ops = <<>>
        /\ fwd.requests = {}
    BY <2>2, FreshSound
  <2> QED
    BY <2>1, <2>3
<1>2. MaxEvents \in Nat
  BY ForwarderAssumption
<1>3. Known
  BY <1>1, <1>2 DEF Init, Known
<1>4. Owing
  BY <1>1 DEF Init, Owing
<1> QED
  BY <1>1, <1>3, <1>4 DEF IndInv

(* The first operation leaves the queue.                                   *)
LEMMA TailQueue ==
    ASSUME NEW m \in Memory, Queue(m), m.ops # <<>>
    PROVE  /\ Tail(m.ops) \in Seq(Operation) /\ Head(m.ops) = m.ops[1] /\ 1 \in DOMAIN m.ops
           /\ Head(m.ops) \in Operation
           /\ \A i \in DOMAIN Tail(m.ops) :
                 i + 1 \in DOMAIN m.ops /\ Tail(m.ops)[i] = m.ops[i + 1] /\ i + 1 # 1
           /\ \A n : n.ops = Tail(m.ops)
                     => PutsPending(n) = IF Head(m.ops).kind = "put" THEN PutsPending(m) - 1
                                         ELSE PutsPending(m)
<1>0. m.ops \in Seq(Operation)
  BY MemoryFacts
<1>1. /\ Tail(m.ops) \in Seq(Operation) /\ Head(m.ops) = m.ops[1] /\ 1 \in DOMAIN m.ops
      /\ Head(m.ops) \in Operation
      /\ DOMAIN m.ops = 1 .. Len(m.ops) /\ Len(m.ops) \in Nat \ {0}
      /\ DOMAIN Tail(m.ops) = 1 .. Len(m.ops) - 1
      /\ \A i \in DOMAIN Tail(m.ops) :
            i + 1 \in DOMAIN m.ops /\ Tail(m.ops)[i] = m.ops[i + 1] /\ i + 1 # 1
  BY <1>0
<1>2. ASSUME NEW n, n.ops = Tail(m.ops)
      PROVE  PutsPending(n) = IF Head(m.ops).kind = "put" THEN PutsPending(m) - 1
                              ELSE PutsPending(m)
  <2> DEFINE P == {i \in DOMAIN m.ops : m.ops[i].kind = "put"}
             Q == {i \in DOMAIN Tail(m.ops) : Tail(m.ops)[i].kind = "put"}
             f == [i \in Q |-> i + 1]
  <2>1. PutsPending(m) = Cardinality(P) /\ PutsPending(n) = Cardinality(Q)
    BY <1>2 DEF PutsPending
  <2>2. IsFiniteSet(P) /\ IsFiniteSet(Q) /\ IsFiniteSet(P \ {1})
    <3>1. IsFiniteSet(1 .. Len(m.ops)) /\ IsFiniteSet(1 .. Len(m.ops) - 1)
      BY <1>1, FS_Interval
    <3>2. /\ P \subseteq 1 .. Len(m.ops) /\ Q \subseteq 1 .. Len(m.ops) - 1
          /\ P \ {1} \subseteq 1 .. Len(m.ops)
      BY <1>1
    <3> QED
      BY <3>1, <3>2, FS_Subset
  <2>3. f \in Bijection(Q, P \ {1})
    <3>1. \A i \in Q : i \in Int /\ i + 1 \in P \ {1}
      BY <1>1
    <3>2. \A j \in P \ {1} : j - 1 \in Q /\ (j - 1) + 1 = j
      BY <1>1
    <3>3. f \in [Q -> P \ {1}]
      BY <3>1
    <3>4. \A a, b \in Q : f[a] = f[b] => a = b
      BY <3>1
    <3>5. \A j \in P \ {1} : f[j - 1] = j
      BY <3>2
    <3>6. f \in Injection(Q, P \ {1})
      BY <3>3, <3>4 DEF Injection, IsInjective
    <3>7. f \in Surjection(Q, P \ {1})
      BY <3>2, <3>3, <3>5 DEF Surjection
    <3> QED
      BY <3>6, <3>7 DEF Bijection
  <2>4. ExistsBijection(Q, P \ {1})
    BY <2>3 DEF ExistsBijection
  <2>5. Cardinality(Q) = Cardinality(P \ {1})
    BY <2>2, <2>4, FS_Bijection
  <2>6. Cardinality(P \ {1}) = IF 1 \in P THEN Cardinality(P) - 1 ELSE Cardinality(P)
    <3> HIDE DEF P
    <3> QED
      BY <2>2, FS_RemoveElement
  <2>7. 1 \in P <=> Head(m.ops).kind = "put"
    BY <1>1
  <2> QED
    BY <2>1, <2>5, <2>6, <2>7
<1> QED
  BY <1>1, <1>2

(* enqueue: an event joins the spool's queue.                              *)
Logged(m, op) == [m EXCEPT !.walPending = @ + 1, !.ops = Append(@, op)]

(* A put is queued behind the spool's operations.                          *)
LEMMA LoggedSound ==
    ASSUME NEW m, Sound(m, {}), Queue(m), NEW op \in Operation, op.kind = "put", ~op.written,
           NEW id \in Ids, op.ids = {id}, id \notin ToSet(m.lane),
           \A i \in DOMAIN m.ops : id \notin m.ops[i].ids,
           NEW n, n = Logged(m, op)
    PROVE  /\ Sound(n, {}) /\ Queue(n) /\ n.lane = m.lane /\ n.requests = m.requests
           /\ \A i \in DOMAIN n.ops : (i \in DOMAIN m.ops /\ n.ops[i] = m.ops[i]) \/ n.ops[i] = op
<1>0. m \in Memory /\ m.ops \in Seq(Operation)
  BY MemoryFacts DEF Sound
<1>1. Append(m.ops, op) \in Seq(Operation) /\ m.walPending + 1 \in Int
  BY <1>0, MemoryFacts
<1>2. /\ n.stage = m.stage /\ n.lane = m.lane /\ n.ops = Append(m.ops, op)
      /\ n.walPending = m.walPending + 1 /\ n.pending = m.pending /\ n.requests = m.requests
      /\ n.retries = m.retries /\ n.retryOwned = m.retryOwned /\ n.active = m.active
      /\ n.outstanding = m.outstanding /\ n.retryOutstanding = m.retryOutstanding
      /\ n \in Memory
  BY <1>0, <1>1 DEF Memory, Logged
<1>3. Sound(n, {})
  <2>1. IsInjective(n.lane) /\ m.active \subseteq ToSet(n.lane)
    BY <1>2 DEF Sound, Spooled
  <2>2. PICK X : X = {}
    OBVIOUS
  <2>3. Sound(n, X)
    BY <1>2, <2>1, <2>2, GaugesKept
  <2> QED
    BY <2>2, <2>3
<1>4. /\ DOMAIN m.ops = 1 .. Len(m.ops) /\ Len(m.ops) \in Nat
      /\ DOMAIN n.ops = 1 .. Len(m.ops) + 1 /\ n.ops[Len(m.ops) + 1] = op
      /\ \A i \in DOMAIN m.ops : i \in DOMAIN n.ops /\ n.ops[i] = m.ops[i]
      /\ \A i \in DOMAIN n.ops : i \in DOMAIN m.ops \/ i = Len(m.ops) + 1
      /\ Len(m.ops) + 1 \notin DOMAIN m.ops
  BY <1>0, <1>2
<1>5. \A i \in DOMAIN n.ops : (i \in DOMAIN m.ops /\ n.ops[i] = m.ops[i]) \/ n.ops[i] = op
  BY <1>4
<1>6. n.walPending = PutsPending(n)
  <2> DEFINE P == {i \in DOMAIN m.ops : m.ops[i].kind = "put"}
             Q == {i \in DOMAIN n.ops : n.ops[i].kind = "put"}
  <2>1. Q = P \cup {Len(m.ops) + 1} /\ Len(m.ops) + 1 \notin P
    BY <1>4
  <2>2. IsFiniteSet(P)
    <3>1. IsFiniteSet(1 .. Len(m.ops)) /\ P \subseteq 1 .. Len(m.ops)
      BY <1>4, FS_Interval
    <3> QED
      BY <3>1, FS_Subset
  <2>3. m.walPending = Cardinality(P) /\ PutsPending(n) = Cardinality(Q)
    BY DEF Queue, PutsPending
  <2> HIDE DEF P, Q
  <2>4. Cardinality(P \cup {Len(m.ops) + 1}) = Cardinality(P) + 1
    BY <2>1, <2>2, FS_AddElement
  <2> QED
    BY <1>2, <2>1, <2>3, <2>4
<1>7. ASSUME NEW i \in DOMAIN n.ops
      PROVE  /\ n.ops[i].ids \cap ToSet(n.lane) = {}
             /\ n.ops[i].kind = "put" => \E e \in Ids : n.ops[i].ids = {e}
             /\ n.ops[i].written => i = 1
             /\ \A j \in DOMAIN n.ops \ {i} : n.ops[i].ids \cap n.ops[j].ids = {}
  <2>1. CASE i = Len(m.ops) + 1
    <3>1. n.ops[i] = op
      BY <1>4, <2>1
    <3>2. \A j \in DOMAIN n.ops \ {i} : n.ops[j] = m.ops[j] /\ j \in DOMAIN m.ops
      BY <1>4, <2>1
    <3> QED
      BY <1>2, <3>1, <3>2
  <2>2. CASE i \in DOMAIN m.ops
    <3>1. n.ops[i] = m.ops[i]
      BY <1>4, <2>2
    <3>2. /\ n.ops[i].ids \cap ToSet(m.lane) = {}
          /\ n.ops[i].kind = "put" => \E e \in Ids : n.ops[i].ids = {e}
          /\ n.ops[i].written => i = 1
          /\ \A j \in DOMAIN m.ops \ {i} : n.ops[i].ids \cap m.ops[j].ids = {}
      BY <2>2, <3>1 DEF Queue
    <3>3. ASSUME NEW j \in DOMAIN n.ops \ {i} PROVE n.ops[i].ids \cap n.ops[j].ids = {}
      <4>1. CASE j \in DOMAIN m.ops
        BY <1>4, <3>2, <4>1
      <4>2. CASE j = Len(m.ops) + 1
        BY <1>4, <2>2, <3>1, <4>2
      <4> QED
        BY <1>4, <4>1, <4>2
    <3> QED
      BY <1>2, <3>2, <3>3
  <2> QED
    BY <1>4, <2>1, <2>2
<1> QED
  BY <1>2, <1>3, <1>5, <1>6, <1>7 DEF Queue

(* An event is observed and admitted.                                      *)
LEMMA ObserveInd ==
    ASSUME IndInv, Observe PROVE IndInv'
<1>0. MaxEvents \in Nat
  BY ForwarderAssumption
<1>1. /\ next' = next + 1 /\ disk' = disk /\ dlq' = dlq /\ consumed' = consumed
      /\ promised' = promised /\ next \in Ids /\ next' \in 1 .. MaxEvents + 1
      /\ next \notin 1 .. next - 1 /\ 1 .. next - 1 \subseteq 1 .. next' - 1
      /\ next \in 1 .. next' - 1
  BY <1>0 DEF Observe, IndInv, Known, Ids
<1>2. Sound(fwd, {}) /\ Queue(fwd)
  BY DEF IndInv
<1>3. PICK op : op = [kind |-> "put", ids |-> {next}, written |-> FALSE]
  OBVIOUS
<1>4. op \in Operation /\ op.kind = "put" /\ op.written = FALSE /\ op.ids = {next}
  BY <1>1, <1>3 DEF Operation
<1>5. PICK n : /\ fwd' = Flow(n)
               /\ n = fwd \/ n = Logged(fwd, op)
  BY <1>3 DEF Observe, Logged
<1>6. /\ Sound(n, {}) /\ Queue(n) /\ n.lane = fwd.lane /\ n.requests = fwd.requests
      /\ \A i \in DOMAIN n.ops : (i \in DOMAIN fwd.ops /\ n.ops[i] = fwd.ops[i]) \/ n.ops[i] = op
  <2>1. CASE n = fwd
    BY <1>2, <2>1
  <2>2. CASE n = Logged(fwd, op)
    <3>1. next \notin ToSet(fwd.lane) /\ \A i \in DOMAIN fwd.ops : next \notin fwd.ops[i].ids
      BY <1>1 DEF IndInv, Known, Seen
    <3> QED
      BY <1>1, <1>2, <1>4, <2>2, <3>1, LoggedSound
  <2> QED
    BY <1>5, <2>1, <2>2
<1>7. Sound(fwd', {}) /\ Carries(n, fwd', {})
  BY <1>5, <1>6, FlowSound
<1>8. Drains(n, fwd', {})
  BY <1>7, CarriesDrains
<1>9. ToSet(n.lane) \cup disk' \cup promised' \subseteq 1 .. next' - 1
  BY <1>1, <1>6 DEF IndInv, Known, Seen
<1>10. ASSUME NEW i \in DOMAIN n.ops
       PROVE  /\ n.ops[i].ids \subseteq 1 .. next' - 1
              /\ IF n.ops[i].kind = "put"
                 THEN /\ n.ops[i].ids \cap promised' = {}
                      /\ n.ops[i].written => n.ops[i].ids \subseteq disk'
                 ELSE n.ops[i].ids \subseteq consumed' \cup dlq'
  <2>1. CASE i \in DOMAIN fwd.ops /\ n.ops[i] = fwd.ops[i]
    BY <1>1, <2>1 DEF IndInv, Known, Owing, Seen
  <2>2. CASE n.ops[i] = op
    <3>1. next \notin promised
      BY <1>1 DEF IndInv, Known, Seen
    <3> QED
      BY <1>1, <1>4, <2>2, <3>1
  <2> QED
    BY <1>6, <2>1, <2>2
<1>11. /\ \A q \in n.requests : q.acc \subseteq consumed'
       /\ {} \subseteq consumed' /\ consumed' \subseteq Ids /\ dlq' \subseteq Ids
  BY <1>1, <1>6 DEF IndInv, Known, Owing
<1> QED
  BY <1>1, <1>6, <1>7, <1>8, <1>9, <1>10, <1>11, NextInd

(* The spool's oldest operation reaches the file.                          *)
LEMMA SpoolWriteInd ==
    ASSUME IndInv, SpoolWrite PROVE IndInv'
<1>1. /\ next' = next /\ dlq' = dlq /\ consumed' = consumed /\ promised' = promised
      /\ fwd \in Memory /\ fwd.ops \in Seq(Operation) /\ fwd.ops # <<>>
      /\ Sound(fwd, {}) /\ Queue(fwd)
  BY MemoryFacts DEF SpoolWrite, IndInv, Sound
<1>2. PICK op : op = Head(fwd.ops)
  OBVIOUS
<1>3. PICK ops : ops = [fwd.ops EXCEPT ![1].written = TRUE]
  OBVIOUS
<1>4. /\ op = fwd.ops[1] /\ 1 \in DOMAIN fwd.ops /\ op \in Operation
      /\ ops \in Seq(Operation) /\ DOMAIN ops = DOMAIN fwd.ops
      /\ ops[1].ids = op.ids /\ ops[1].kind = op.kind
      /\ \A i \in DOMAIN ops : i # 1 => ops[i] = fwd.ops[i]
  <2>1. op = fwd.ops[1] /\ 1 \in DOMAIN fwd.ops /\ op \in Operation
    BY <1>1, <1>2
  <2>2. PICK b \in BOOLEAN : b = TRUE
    OBVIOUS
  <2>3. PICK new : new = [op EXCEPT !.written = b]
    OBVIOUS
  <2>4. new \in Operation /\ new.ids = op.ids /\ new.kind = op.kind
    BY <2>1, <2>3 DEF Operation
  <2>5. ops = [fwd.ops EXCEPT ![1] = new]
    BY <1>3, <2>1, <2>2, <2>3
  <2> QED
    BY <1>1, <2>1, <2>4, <2>5
<1>5. fwd' = [fwd EXCEPT !.ops = ops]
  BY <1>1, <1>3 DEF SpoolWrite, Memory
<1>6. /\ fwd'.lane = fwd.lane /\ fwd'.ops = ops /\ fwd'.walPending = fwd.walPending
      /\ fwd'.pending = fwd.pending /\ fwd'.requests = fwd.requests
      /\ fwd'.retries = fwd.retries /\ fwd'.retryOwned = fwd.retryOwned
      /\ fwd'.active = fwd.active /\ fwd'.outstanding = fwd.outstanding
      /\ fwd'.retryOutstanding = fwd.retryOutstanding /\ fwd' \in Memory
  BY <1>1, <1>4, <1>5 DEF Memory
<1>7. Sound(fwd', {})
  <2>1. IsInjective(fwd'.lane) /\ fwd.active \subseteq ToSet(fwd'.lane)
    BY <1>1, <1>6 DEF Sound, Spooled
  <2>2. PICK X : X = {}
    OBVIOUS
  <2>3. PICK n : n = fwd'
    OBVIOUS
  <2>4. Sound(n, X)
    BY <1>1, <1>6, <2>1, <2>2, <2>3, GaugesKept
  <2> QED
    BY <2>2, <2>3, <2>4
<1>8. \A i \in DOMAIN ops : ops[i].ids = fwd.ops[i].ids /\ ops[i].kind = fwd.ops[i].kind
  BY <1>4
<1>9. Queue(fwd')
  <2>1. {i \in DOMAIN fwd'.ops : fwd'.ops[i].kind = "put"}
          = {i \in DOMAIN fwd.ops : fwd.ops[i].kind = "put"}
    BY <1>4, <1>6, <1>8
  <2>2. fwd'.walPending = PutsPending(fwd')
    BY <1>1, <1>6, <2>1 DEF Queue, PutsPending
  <2>3. \A i \in DOMAIN fwd'.ops :
           /\ fwd'.ops[i].ids \cap ToSet(fwd'.lane) = {}
           /\ fwd'.ops[i].kind = "put" => \E id \in Ids : fwd'.ops[i].ids = {id}
           /\ \A j \in DOMAIN fwd'.ops \ {i} : fwd'.ops[i].ids \cap fwd'.ops[j].ids = {}
    BY <1>1, <1>4, <1>6, <1>8 DEF Queue
  <2>4. \A i \in DOMAIN fwd'.ops : fwd'.ops[i].written => i = 1
    BY <1>1, <1>4, <1>6 DEF Queue
  <2> QED
    BY <2>2, <2>3, <2>4 DEF Queue
<1>10. disk' = IF op.kind = "put" THEN disk \cup op.ids ELSE disk \ op.ids
  BY <1>2 DEF SpoolWrite
<1>11. Known'
  <2>1. op.ids \subseteq Seen
    BY <1>4 DEF IndInv, Known
  <2>2. disk' \subseteq Seen
    BY <1>10, <2>1 DEF IndInv, Known
  <2>3. \A i \in DOMAIN ops : ops[i].ids \subseteq Seen
    BY <1>4, <1>8 DEF IndInv, Known
  <2> QED
    BY <1>1, <1>6, <2>2, <2>3 DEF IndInv, Known, Seen
<1>12. Owing'
  <2>1. ASSUME NEW i \in DOMAIN ops
        PROVE  IF ops[i].kind = "put"
               THEN /\ ops[i].ids \cap promised = {}
                    /\ ops[i].written => ops[i].ids \subseteq disk'
               ELSE ops[i].ids \subseteq consumed \cup dlq
    <3>1. CASE i = 1
      BY <1>4, <1>8, <1>10, <3>1 DEF IndInv, Owing
    <3>2. CASE i # 1
      <4>1. ops[i] = fwd.ops[i] /\ i \in DOMAIN fwd.ops
        BY <1>4, <3>2
      <4>2. ~ops[i].written
        BY <1>1, <3>2, <4>1 DEF Queue
      <4> QED
        BY <4>1, <4>2 DEF IndInv, Owing
    <3> QED
      BY <3>1, <3>2
  <2> QED
    BY <1>1, <1>6, <2>1 DEF IndInv, Owing
<1> QED
  BY <1>7, <1>9, <1>11, <1>12 DEF IndInv, Sound, Queue

(* The oldest operation has been answered: its records may join the lane.  *)
Popped(m, l, w, b) ==
    [m EXCEPT !.ops = Tail(@), !.lane = l, !.walPending = w, !.paused = b]

(* The operation at the head is done and the next may be written.          *)
LEMMA PoppedSound ==
    ASSUME NEW m, Sound(m, {}), Queue(m), m.ops # <<>>, NEW l \in Seq(Ids), IsInjective(l),
           ToSet(m.lane) \subseteq ToSet(l), ToSet(l) \subseteq ToSet(m.lane) \cup Head(m.ops).ids,
           NEW w, w = IF Head(m.ops).kind = "put" THEN m.walPending - 1 ELSE m.walPending,
           NEW b \in BOOLEAN, NEW n, n = Popped(m, l, w, b)
    PROVE  /\ Sound(n, {}) /\ Queue(n) /\ n.lane = l /\ n.requests = m.requests
           /\ n.retries = m.retries /\ n.active = m.active
           /\ \A i \in DOMAIN n.ops :
                 i + 1 \in DOMAIN m.ops /\ n.ops[i] = m.ops[i + 1] /\ i + 1 # 1
           /\ \A i \in DOMAIN n.ops : n.ops[i].ids \cap Head(m.ops).ids = {}
<1>0. m \in Memory
  BY DEF Sound
<1>1. /\ Tail(m.ops) \in Seq(Operation) /\ Head(m.ops) = m.ops[1] /\ 1 \in DOMAIN m.ops
      /\ \A i \in DOMAIN Tail(m.ops) :
            i + 1 \in DOMAIN m.ops /\ Tail(m.ops)[i] = m.ops[i + 1] /\ i + 1 # 1
      /\ \A k : k.ops = Tail(m.ops)
                => PutsPending(k) = IF Head(m.ops).kind = "put" THEN PutsPending(m) - 1
                                    ELSE PutsPending(m)
  BY <1>0, TailQueue
<1>2. w \in Int
  BY <1>0, MemoryFacts
<1>3. /\ n.lane = l /\ n.ops = Tail(m.ops) /\ n.walPending = w
      /\ n.pending = m.pending /\ n.requests = m.requests
      /\ n.retries = m.retries /\ n.retryOwned = m.retryOwned /\ n.active = m.active
      /\ n.outstanding = m.outstanding /\ n.retryOutstanding = m.retryOutstanding
      /\ n \in Memory
  BY <1>0, <1>1, <1>2 DEF Memory, Popped
<1>4. Sound(n, {})
  <2>1. IsInjective(n.lane) /\ m.active \subseteq ToSet(n.lane)
    BY <1>3 DEF Sound, Spooled
  <2>2. PICK X : X = {}
    OBVIOUS
  <2>3. Sound(n, X)
    BY <1>3, <2>1, <2>2, GaugesKept
  <2> QED
    BY <2>2, <2>3
<1>5. \A i \in DOMAIN n.ops :
         i + 1 \in DOMAIN m.ops /\ n.ops[i] = m.ops[i + 1] /\ i + 1 # 1
  BY <1>1, <1>3
<1>6. n.walPending = PutsPending(n)
  BY <1>1, <1>3 DEF Queue
<1>7. \A i \in DOMAIN n.ops : n.ops[i].ids \cap Head(m.ops).ids = {}
  BY <1>1, <1>5 DEF Queue
<1>8. \A i \in DOMAIN n.ops :
         /\ n.ops[i].ids \cap ToSet(n.lane) = {}
         /\ n.ops[i].kind = "put" => \E id \in Ids : n.ops[i].ids = {id}
  <2>1. \A i \in DOMAIN n.ops : n.ops[i].ids \cap ToSet(m.lane) = {}
    BY <1>5 DEF Queue
  <2>2. \A i \in DOMAIN n.ops : n.ops[i].ids \cap ToSet(n.lane) = {}
    BY <1>3, <1>7, <2>1
  <2>3. \A i \in DOMAIN n.ops : n.ops[i].kind = "put" => \E id \in Ids : n.ops[i].ids = {id}
    <3>1. \A i \in DOMAIN m.ops : m.ops[i].kind = "put" => \E id \in Ids : m.ops[i].ids = {id}
      BY DEF Queue
    <3> QED
      BY <1>5, <3>1
  <2> QED
    BY <2>2, <2>3
<1>9. \A i \in DOMAIN n.ops : n.ops[i].written => i = 1
  BY <1>5 DEF Queue
<1>10. ASSUME NEW i \in DOMAIN n.ops, NEW j \in DOMAIN n.ops \ {i}
       PROVE  n.ops[i].ids \cap n.ops[j].ids = {}
  <2>1. i + 1 # j + 1
    <3>1. n.ops \in Seq(Operation)
      BY <1>1, <1>3
    <3>2. DOMAIN n.ops = 1 .. Len(n.ops) /\ Len(n.ops) \in Nat
      BY <3>1
    <3> QED
      BY <3>2
  <2> QED
    BY <1>5, <2>1 DEF Queue
<1> QED
  BY <1>3, <1>4, <1>5, <1>6, <1>7, <1>8, <1>9, <1>10, ZenonT(60) DEF Queue

(* What every answered operation leaves for NextInd.                       *)
LEMMA PoppedOps ==
    ASSUME IndInv, NEW n,
           \A i \in DOMAIN n.ops :
              i + 1 \in DOMAIN fwd.ops /\ n.ops[i] = fwd.ops[i + 1] /\ i + 1 # 1
    PROVE  \A i \in DOMAIN n.ops :
              /\ n.ops[i].ids \subseteq Seen
              /\ IF n.ops[i].kind = "put"
                 THEN /\ n.ops[i].ids \cap promised = {}
                      /\ n.ops[i].written => n.ops[i].ids \subseteq disk
                 ELSE n.ops[i].ids \subseteq consumed \cup dlq
  BY DEF IndInv, Known, Owing

(* A put is in the spool.                                                  *)
LEMMA PutDoneInd ==
    ASSUME IndInv, NEW due \in Due(fwd), PutDone(due) PROVE IndInv'
<1>1. /\ next' = next /\ disk' = disk /\ dlq' = dlq /\ consumed' = consumed
      /\ fwd \in Memory /\ fwd.ops # <<>> /\ Sound(fwd, {}) /\ Queue(fwd)
      /\ Head(fwd.ops).kind = "put" /\ Head(fwd.ops).written
  BY DEF PutDone, IndInv, Sound
<1>2. Head(fwd.ops) = fwd.ops[1] /\ 1 \in DOMAIN fwd.ops
  BY <1>1, TailQueue
<1>3. PICK id \in Ids : Head(fwd.ops).ids = {id}
  BY <1>1, <1>2 DEF Queue
<1>4. /\ id \notin ToSet(fwd.lane) /\ id \notin promised /\ id \in disk /\ id \in Seen
  BY <1>1, <1>2, <1>3 DEF IndInv, Queue, Owing, Known
<1>5. PICK l : l = Append(fwd.lane, id)
  OBVIOUS
<1>6. /\ l \in Seq(Ids) /\ IsInjective(l) /\ ToSet(l) = ToSet(fwd.lane) \cup {id}
  <2>1. fwd.lane \in Seq(Ids) /\ IsInjective(fwd.lane)
    BY <1>1, MemoryFacts DEF Sound, Spooled
  <2>2. PICK s : s = <<id>>
    OBVIOUS
  <2>3. s \in Seq(Ids) /\ IsInjective(s) /\ ToSet(s) = {id}
    BY <2>2 DEF IsInjective, ToSet
  <2>4. l = fwd.lane \o s
    BY <1>5, <2>1, <2>2, SMTT(60)
  <2>5. ToSet(fwd.lane) \cap ToSet(s) = {}
    BY <1>4, <2>3
  <2> QED
    BY <2>1, <2>3, <2>4, <2>5, ConcatFacts
<1>7. PICK w : w = fwd.walPending - 1
  OBVIOUS
<1>8. PICK b \in BOOLEAN : b = fwd.paused
  BY <1>1, MemoryFacts
<1>9. PICK m : m = Popped(fwd, l, w, b)
  OBVIOUS
<1>10. /\ Sound(m, {}) /\ Queue(m) /\ m.lane = l /\ m.requests = fwd.requests
       /\ m.retries = fwd.retries /\ m.active = fwd.active
       /\ \A i \in DOMAIN m.ops :
             i + 1 \in DOMAIN fwd.ops /\ m.ops[i] = fwd.ops[i + 1] /\ i + 1 # 1
       /\ \A i \in DOMAIN m.ops : m.ops[i].ids \cap Head(fwd.ops).ids = {}
  <2>1. /\ ToSet(fwd.lane) \subseteq ToSet(l)
        /\ ToSet(l) \subseteq ToSet(fwd.lane) \cup Head(fwd.ops).ids
    BY <1>3, <1>6
  <2>2. w = IF Head(fwd.ops).kind = "put" THEN fwd.walPending - 1 ELSE fwd.walPending
    BY <1>1, <1>7
  <2>3. /\ Sound(m, {}) /\ Queue(m) /\ m.lane = l /\ m.requests = fwd.requests
        /\ m.retries = fwd.retries /\ m.active = fwd.active
        /\ \A i \in DOMAIN m.ops :
              i + 1 \in DOMAIN fwd.ops /\ m.ops[i] = fwd.ops[i + 1] /\ i + 1 # 1
    BY <1>1, <1>6, <1>9, <2>1, <2>2, PoppedSound, SMTT(60)
  <2>4. \A i \in DOMAIN m.ops : m.ops[i].ids \cap Head(fwd.ops).ids = {}
    BY <1>1, <1>6, <1>9, <2>1, <2>2, PoppedSound, ZenonT(60)
  <2> QED
    BY <2>3, <2>4
<1>11. fwd' = Flow(Admit(m, id, due)) /\ promised' = promised \cup {id}
  <2>1. (CHOOSE i \in {id} : TRUE) = id
    OBVIOUS
  <2>2. m = [fwd EXCEPT !.ops = Tail(@), !.walPending = @ - 1, !.lane = Append(@, id)]
    BY <1>1, <1>5, <1>7, <1>8, <1>9 DEF Popped, Memory
  <2>3. /\ fwd' = Flow(Admit([fwd EXCEPT !.ops = Tail(@), !.walPending = @ - 1,
                                          !.lane = Append(@, CHOOSE i \in {id} : TRUE)],
                             CHOOSE i \in {id} : TRUE, due))
        /\ promised' = promised \cup {id}
    BY <1>3 DEF PutDone
  <2> QED
    BY <2>1, <2>2, <2>3
<1>12. PICK a : a = Admit(m, id, due)
  OBVIOUS
<1>13. Sound(a, {}) /\ Carries(m, a, {id})
  <2>1. due \in Seq(BOOLEAN) /\ Len(due) <= Len(m.retries)
    <3>1. /\ due \in Seq(BOOLEAN) /\ Len(due) \in 0 .. Len(fwd.retries)
          /\ fwd.retries \in Seq(Seq(Ids))
      BY <1>1, DueFacts, MemoryFacts
    <3> QED
      BY <1>10, <3>1
  <2>2. id \notin m.active /\ id \in ToSet(m.lane)
    BY <1>4, <1>6, <1>10 DEF IndInv, Sound, Spooled
  <2> QED
    BY <1>10, <1>12, <2>1, <2>2, AdmitSound
<1>14. Sound(fwd', {}) /\ Carries(a, fwd', {})
  <2>1. PICK n : n = fwd'
    OBVIOUS
  <2>2. n = Flow(a)
    BY <1>11, <1>12, <2>1
  <2>3. Sound(n, {}) /\ Carries(a, n, {})
    BY <1>13, <2>2, FlowSound
  <2> QED
    BY <2>1, <2>3
<1>15. Drains(m, fwd', {})
  <2>1. Carries(m, fwd', {id} \cup {})
    BY <1>13, <1>14, CarriesOn
  <2> QED
    BY <2>1, CarriesDrains
<1>16. /\ ToSet(m.lane) \cup disk' \cup promised' \subseteq 1 .. next' - 1
       /\ next' \in 1 .. MaxEvents + 1
  BY <1>1, <1>4, <1>6, <1>10, <1>11 DEF IndInv, Known, Seen
<1>17. \A i \in DOMAIN m.ops :
          /\ m.ops[i].ids \subseteq 1 .. next' - 1
          /\ IF m.ops[i].kind = "put"
             THEN /\ m.ops[i].ids \cap promised' = {}
                  /\ m.ops[i].written => m.ops[i].ids \subseteq disk'
             ELSE m.ops[i].ids \subseteq consumed' \cup dlq'
  <2>1. \A i \in DOMAIN m.ops :
           /\ m.ops[i].ids \subseteq Seen
           /\ IF m.ops[i].kind = "put"
              THEN /\ m.ops[i].ids \cap promised = {}
                   /\ m.ops[i].written => m.ops[i].ids \subseteq disk
              ELSE m.ops[i].ids \subseteq consumed \cup dlq
    BY <1>10, PoppedOps
  <2>2. \A i \in DOMAIN m.ops : id \notin m.ops[i].ids
    BY <1>3, <1>10
  <2> QED
    BY <1>1, <1>11, <2>1, <2>2 DEF Seen
<1>18. /\ \A q \in m.requests : q.acc \subseteq consumed'
       /\ {} \subseteq consumed' /\ consumed' \subseteq Ids /\ dlq' \subseteq Ids
  BY <1>1, <1>10 DEF IndInv, Known, Owing
<1> QED
  BY <1>10, <1>14, <1>15, <1>16, <1>17, <1>18, NextInd

(* The callback of an acknowledgement, and of a failed operation.          *)
LEMMA PoppedInd ==
    ASSUME IndInv, fwd.ops # <<>>, NEW l \in Seq(Ids), IsInjective(l),
           ToSet(fwd.lane) \subseteq ToSet(l),
           ToSet(l) \subseteq ToSet(fwd.lane) \cup Head(fwd.ops).ids,
           NEW w, w = IF Head(fwd.ops).kind = "put" THEN fwd.walPending - 1 ELSE fwd.walPending,
           NEW b \in BOOLEAN, fwd' = Popped(fwd, l, w, b),
           next' = next, disk' = disk, dlq' = dlq, consumed' = consumed, promised' = promised
    PROVE  IndInv'
<1>1. PICK m : m = Popped(fwd, l, w, b)
  OBVIOUS
<1>2. fwd \in Memory /\ Sound(fwd, {}) /\ Queue(fwd)
  BY DEF IndInv, Sound
<1>3. /\ Sound(m, {}) /\ Queue(m) /\ m.lane = l /\ m.requests = fwd.requests
      /\ \A i \in DOMAIN m.ops :
            i + 1 \in DOMAIN fwd.ops /\ m.ops[i] = fwd.ops[i + 1] /\ i + 1 # 1
  BY <1>1, <1>2, PoppedSound
<1>4. Drains(m, m, {})
  BY DEF Drains
<1>5. fwd' = m
  BY <1>1
<1>6. Head(fwd.ops).ids \subseteq Seen
  <2>1. Head(fwd.ops) = fwd.ops[1] /\ 1 \in DOMAIN fwd.ops
    BY <1>2, TailQueue
  <2> QED
    BY <2>1 DEF IndInv, Known
<1>7. /\ ToSet(m.lane) \cup disk' \cup promised' \subseteq 1 .. next' - 1
      /\ next' \in 1 .. MaxEvents + 1
  BY <1>3, <1>6 DEF IndInv, Known, Seen
<1>8. \A i \in DOMAIN m.ops :
         /\ m.ops[i].ids \subseteq 1 .. next' - 1
         /\ IF m.ops[i].kind = "put"
            THEN /\ m.ops[i].ids \cap promised' = {}
                 /\ m.ops[i].written => m.ops[i].ids \subseteq disk'
            ELSE m.ops[i].ids \subseteq consumed' \cup dlq'
  BY <1>3, PoppedOps DEF Seen
<1>9. /\ \A q \in m.requests : q.acc \subseteq consumed'
      /\ {} \subseteq consumed' /\ consumed' \subseteq Ids /\ dlq' \subseteq Ids
  BY <1>3 DEF IndInv, Known, Owing
<1>10. Drains(m, fwd', {}) /\ Sound(fwd', {})
  BY <1>3, <1>4, <1>5
<1> QED
  BY <1>3, <1>7, <1>8, <1>9, <1>10, NextInd

(* A settling is in the spool.                                             *)
LEMMA AckDoneInd ==
    ASSUME IndInv, AckDone PROVE IndInv'
<1>1. /\ fwd \in Memory /\ fwd.ops # <<>> /\ Head(fwd.ops).kind = "ack"
      /\ fwd.lane \in Seq(Ids) /\ IsInjective(fwd.lane) /\ fwd.paused \in BOOLEAN
  BY MemoryFacts DEF AckDone, IndInv, Sound, Spooled
<1>2. PICK w : w = fwd.walPending
  OBVIOUS
<1>3. fwd' = Popped(fwd, fwd.lane, w, fwd.paused)
  BY <1>1, <1>2 DEF AckDone, Popped, Memory
<1>4. w = IF Head(fwd.ops).kind = "put" THEN fwd.walPending - 1 ELSE fwd.walPending
  BY <1>1, <1>2
<1>5. /\ next' = next /\ disk' = disk /\ dlq' = dlq /\ consumed' = consumed
      /\ promised' = promised
  BY DEF AckDone
<1>6. ToSet(fwd.lane) \subseteq ToSet(fwd.lane) \cup Head(fwd.ops).ids
  OBVIOUS
<1> QED
  BY <1>1, <1>3, <1>4, <1>5, <1>6, PoppedInd

(* The spool failed.                                                       *)
LEMMA SpoolErrorInd ==
    ASSUME IndInv, SpoolError PROVE IndInv'
<1>1. /\ fwd \in Memory /\ fwd.ops # <<>> /\ fwd.lane \in Seq(Ids) /\ IsInjective(fwd.lane)
  BY MemoryFacts DEF SpoolError, IndInv, Sound, Spooled
<1>2. /\ next' = next /\ disk' = disk /\ dlq' = dlq /\ consumed' = consumed
      /\ promised' = promised
  BY DEF SpoolError
<1>3. PICK b \in BOOLEAN : b = TRUE
  OBVIOUS
<1>4. /\ Head(fwd.ops) \in Operation /\ Head(fwd.ops) = fwd.ops[1] /\ 1 \in DOMAIN fwd.ops
  BY <1>1, TailQueue DEF IndInv
<1>5. CASE Head(fwd.ops).kind = "put"
  <2>1. PICK w : w = fwd.walPending - 1
    OBVIOUS
  <2>2. fwd' = Popped(fwd, fwd.lane, w, b)
    BY <1>1, <1>3, <1>5, <2>1 DEF SpoolError, Popped, Memory
  <2>3. w = IF Head(fwd.ops).kind = "put" THEN fwd.walPending - 1 ELSE fwd.walPending
    BY <1>5, <2>1
  <2>4. ToSet(fwd.lane) \subseteq ToSet(fwd.lane) \cup Head(fwd.ops).ids
    OBVIOUS
  <2> QED
    BY <1>1, <1>2, <2>2, <2>3, <2>4, PoppedInd
<1>6. CASE Head(fwd.ops).kind # "put"
  <2>1. PICK w : w = fwd.walPending
    OBVIOUS
  <2>2. PICK back : back = InOrder(Head(fwd.ops).ids)
    OBVIOUS
  <2>3. back \in Seq(Ids) /\ IsInjective(back) /\ ToSet(back) = Head(fwd.ops).ids
    BY <1>4, <2>2, InOrderFacts DEF Operation
  <2>4. PICK l : l = fwd.lane \o back
    OBVIOUS
  <2>5. /\ l \in Seq(Ids) /\ IsInjective(l) /\ ToSet(l) = ToSet(fwd.lane) \cup Head(fwd.ops).ids
    <3>1. ToSet(fwd.lane) \cap ToSet(back) = {}
      BY <1>4, <2>3 DEF IndInv, Queue
    <3> QED
      BY <1>1, <2>3, <2>4, <3>1, ConcatFacts
  <2>6. fwd' = Popped(fwd, l, w, b)
    BY <1>1, <1>3, <1>6, <2>1, <2>2, <2>4 DEF SpoolError, Popped, Memory
  <2>7. w = IF Head(fwd.ops).kind = "put" THEN fwd.walPending - 1 ELSE fwd.walPending
    BY <1>6, <2>1
  <2>8. /\ ToSet(fwd.lane) \subseteq ToSet(l)
        /\ ToSet(l) \subseteq ToSet(fwd.lane) \cup Head(fwd.ops).ids
    BY <2>5
  <2> QED
    BY <1>1, <1>2, <2>5, <2>6, <2>7, <2>8, PoppedInd
<1> QED
  BY <1>5, <1>6

(* The forwarder's own bookkeeping, with nothing written or answered.      *)
LEMMA QuietInd ==
    ASSUME IndInv, NEW m, NEW E, Carries(m, fwd', E), Sound(fwd', {}),
           m.ops = fwd.ops, m.lane = fwd.lane, m.walPending = fwd.walPending,
           m.requests = fwd.requests,
           disk' = disk, dlq' = dlq, consumed' = consumed, promised' = promised, next' = next
    PROVE  IndInv'
<1>1. Drains(m, fwd', {})
  BY CarriesDrains
<1>2. Queue(m)
  BY DEF IndInv, Queue, PutsPending
<1>3. /\ ToSet(m.lane) \cup disk' \cup promised' \subseteq 1 .. next' - 1
      /\ next' \in 1 .. MaxEvents + 1
  BY DEF IndInv, Known, Seen
<1>4. \A i \in DOMAIN m.ops :
         /\ m.ops[i].ids \subseteq 1 .. next' - 1
         /\ IF m.ops[i].kind = "put"
            THEN /\ m.ops[i].ids \cap promised' = {}
                 /\ m.ops[i].written => m.ops[i].ids \subseteq disk'
            ELSE m.ops[i].ids \subseteq consumed' \cup dlq'
  BY DEF IndInv, Known, Owing, Seen
<1>5. /\ \A q \in m.requests : q.acc \subseteq consumed'
      /\ {} \subseteq consumed' /\ consumed' \subseteq Ids /\ dlq' \subseteq Ids
  BY DEF IndInv, Known, Owing
<1> QED
  BY <1>1, <1>2, <1>3, <1>4, <1>5, NextInd

(* The pump runs.                                                          *)
LEMMA PumpTimerInd ==
    ASSUME IndInv, NEW due \in Due(fwd), PumpTimer(due) PROVE IndInv'
<1>1. PICK n : n = fwd'
  OBVIOUS
<1>2. n = Pump(fwd, due)
  BY <1>1 DEF PumpTimer
<1>3. Sound(fwd, {}) /\ fwd \in Memory
  BY DEF IndInv, Sound
<1>4. due \in Seq(BOOLEAN) /\ Len(due) <= Len(fwd.retries)
  <2>1. due \in Seq(BOOLEAN) /\ Len(due) \in 0 .. Len(fwd.retries)
    BY <1>3, DueFacts
  <2> QED
    BY <2>1
<1>5. Sound(n, {}) /\ Carries(fwd, n, {})
  BY <1>2, <1>3, <1>4, PumpSound
<1>6. /\ disk' = disk /\ dlq' = dlq /\ consumed' = consumed /\ promised' = promised
      /\ next' = next
  BY DEF PumpTimer
<1> QED
  BY <1>1, <1>5, <1>6, QuietInd

(* Retry tasks are due or overdue.                                         *)
LEMMA ReplayInd ==
    ASSUME IndInv, NEW due \in Due(fwd), Replay(due) PROVE IndInv'
<1>1. PICK n : n = fwd'
  OBVIOUS
<1>2. n = Replayed(fwd, due)
  BY <1>1 DEF Replay
<1>3. Sound(fwd, {}) /\ fwd \in Memory
  BY DEF IndInv, Sound
<1>4. due \in Seq(BOOLEAN) /\ Len(due) <= Len(fwd.retries)
  <2>1. due \in Seq(BOOLEAN) /\ Len(due) \in 0 .. Len(fwd.retries)
    BY <1>3, DueFacts
  <2> QED
    BY <2>1
<1>5. Sound(n, {}) /\ Carries(fwd, n, Ids)
  BY <1>2, <1>3, <1>4, ReplayedSound
<1>6. /\ disk' = disk /\ dlq' = dlq /\ consumed' = consumed /\ promised' = promised
      /\ next' = next
  BY DEF Replay
<1> QED
  BY <1>1, <1>5, <1>6, QuietInd

(* The forwarder stops taking events.                                      *)
LEMMA ShutdownInd ==
    ASSUME IndInv, NEW due \in Due(fwd), Shutdown(due) PROVE IndInv'
<1>1. PICK n : n = fwd'
  OBVIOUS
<1>2. PICK m : m = Staged(fwd, "closing")
  OBVIOUS
<1>3. n = Pump(m, due)
  BY <1>1, <1>2 DEF Shutdown, Staged
<1>4. Sound(fwd, {}) /\ fwd \in Memory
  BY DEF IndInv, Sound
<1>5. /\ Sound(m, {}) /\ m.ops = fwd.ops /\ m.lane = fwd.lane
      /\ m.walPending = fwd.walPending /\ m.requests = fwd.requests /\ m.retries = fwd.retries
  <2>1. PICK X : X = {}
    OBVIOUS
  <2>2. /\ Sound(m, X) /\ m.ops = fwd.ops /\ m.lane = fwd.lane
        /\ m.walPending = fwd.walPending /\ m.requests = fwd.requests /\ m.retries = fwd.retries
    BY <1>2, <1>4, <2>1, StageSound
  <2> QED
    BY <2>1, <2>2
<1>6. due \in Seq(BOOLEAN) /\ Len(due) <= Len(m.retries)
  <2>1. due \in Seq(BOOLEAN) /\ Len(due) \in 0 .. Len(fwd.retries)
    BY <1>4, DueFacts
  <2> QED
    BY <1>5, <2>1
<1>7. Sound(n, {}) /\ Carries(m, n, {})
  BY <1>3, <1>5, <1>6, PumpSound
<1>8. /\ disk' = disk /\ dlq' = dlq /\ consumed' = consumed /\ promised' = promised
      /\ next' = next
  BY DEF Shutdown
<1> QED
  BY <1>1, <1>5, <1>7, <1>8, QuietInd

(* The first part of r is answered: the ids a are accepted, j rejected and *)
(* the items s sent again.                                                 *)
Graded(r, a, j, s) ==
    [r EXCEPT !.acc = @ \cup a, !.rej = @ \cup j, !.again = @ \o s]

Onward(r) == [r EXCEPT !.parts = Tail(@)]

(* An answer to the first part moves its items to accepted, rejected or to *)
(* be sent again: still no item is in two of these.                        *)
LEMMA GradedFacts ==
    ASSUME NEW r \in Request, Answers(r), NEW part, part = Head(r.parts),
           NEW a, NEW j, NEW s \in Seq(Ids), IsInjective(s),
           a \cup j \cup ToSet(s) \subseteq ToSet(part), (a \cup j) \cap ToSet(s) = {},
           NEW q, q = Onward(Graded(r, a, j, s))
    PROVE  /\ q \in Request /\ q.batch = r.batch /\ q.acc = r.acc \cup a /\ q.rej = r.rej \cup j
           /\ Outcome(q)
           /\ q.parts # <<>> => Answers(q)
<1>1. /\ part \in Seq(Ids) /\ IsInjective(part)
      /\ ToSet(part) \subseteq ToSet(r.batch) \ (r.acc \cup r.rej \cup ToSet(r.again))
      /\ ToSet(part) \subseteq Ids
      /\ r.again \o s \in Seq(Ids) /\ IsInjective(r.again \o s)
      /\ ToSet(r.again \o s) = ToSet(r.again) \cup ToSet(s)
  BY AgainFacts
<1>2. PICK g : g = r.again \o s
  OBVIOUS
<1>3. r.parts \in Seq(Seq(Ids)) /\ r.parts # <<>>
  BY DEF Request, Answers
<1>4. PICK t : t = Tail(r.parts)
  OBVIOUS
<1>5. /\ t \in Seq(Seq(Ids))
      /\ \A i \in DOMAIN t : i + 1 \in DOMAIN r.parts /\ t[i] = r.parts[i + 1] /\ i + 1 # 1
      /\ \A i, k \in DOMAIN t : i # k => i + 1 # k + 1
      /\ 1 \in DOMAIN r.parts /\ part = r.parts[1]
  <2> DEFINE T == Seq(Ids)
  <2>1. r.parts \in Seq(T)
    BY <1>3
  <2> HIDE DEF T
  <2>2. /\ t \in Seq(T)
        /\ \A i \in DOMAIN t : i + 1 \in DOMAIN r.parts /\ t[i] = r.parts[i + 1] /\ i + 1 # 1
        /\ \A i, k \in DOMAIN t : i # k => i + 1 # k + 1
        /\ 1 \in DOMAIN r.parts /\ part = r.parts[1]
    BY <1>3, <1>4, <2>1, SMTT(60)
  <2> QED
    BY <2>2 DEF T
<1>6. /\ q \in Request /\ q.batch = r.batch /\ q.acc = r.acc \cup a /\ q.rej = r.rej \cup j
      /\ q.again = g /\ q.parts = t
  <2>1. q = [r EXCEPT !.acc = r.acc \cup a, !.rej = r.rej \cup j, !.again = g, !.parts = t]
    BY <1>2, <1>4 DEF Graded, Onward, Request
  <2>2. r.acc \cup a \in SUBSET Ids /\ r.rej \cup j \in SUBSET Ids
    BY <1>1 DEF Request
  <2> QED
    BY <1>1, <1>2, <1>5, <2>1, <2>2 DEF Request
<1>7. /\ q.acc \cup q.rej \cup ToSet(q.again) \subseteq ToSet(q.batch)
      /\ (q.acc \cup q.rej) \cap ToSet(q.again) = {}
      /\ IsInjective(q.again)
  <2>1. /\ r.acc \cup r.rej \cup ToSet(r.again) \subseteq ToSet(r.batch)
        /\ (r.acc \cup r.rej) \cap ToSet(r.again) = {}
    BY DEF Answers
  <2>2. ToSet(q.again) = ToSet(r.again) \cup ToSet(s) /\ IsInjective(q.again)
    BY <1>1, <1>2, <1>6
  <2> QED
    BY <1>1, <1>6, <2>1, <2>2
<1>8. Outcome(q)
  BY <1>6, <1>7 DEF Outcome
<1>9. ASSUME q.parts # <<>> PROVE Answers(q)
  <2>1. q.acc \cup q.rej \cup ToSet(q.again)
          \subseteq (r.acc \cup r.rej \cup ToSet(r.again)) \cup ToSet(part)
    BY <1>1, <1>2, <1>6
  <2>2. ASSUME NEW i \in DOMAIN t
        PROVE  /\ t[i] # <<>> /\ IsInjective(t[i])
               /\ ToSet(t[i]) \subseteq ToSet(r.batch) \ (q.acc \cup q.rej \cup ToSet(q.again))
               /\ \A k \in DOMAIN t \ {i} : ToSet(t[i]) \cap ToSet(t[k]) = {}
    <3>1. /\ t[i] # <<>> /\ IsInjective(t[i])
          /\ ToSet(t[i]) \subseteq ToSet(r.batch) \ (r.acc \cup r.rej \cup ToSet(r.again))
      BY <1>5 DEF Answers
    <3>2. ToSet(t[i]) \cap ToSet(part) = {}
      BY <1>5 DEF Answers
    <3>3. \A k \in DOMAIN t \ {i} : ToSet(t[i]) \cap ToSet(t[k]) = {}
      BY <1>5, ZenonT(60) DEF Answers
    <3> QED
      BY <2>1, <3>1, <3>2, <3>3
  <2>3. q.batch # <<>>
    BY <1>6 DEF Answers
  <2> QED
    BY <1>6, <1>7, <1>9, <2>2, <2>3 DEF Answers
<1> QED
  BY <1>6, <1>8, <1>9

(* A part is answered: the next is sent, or the batch is finished.         *)
LEMMA AnsweredInd ==
    ASSUME IndInv, NEW r \in fwd.requests, NEW part, part = Head(r.parts),
           NEW a, NEW j, NEW s \in Seq(Ids), IsInjective(s),
           a \cup j \cup ToSet(s) \subseteq ToSet(part), (a \cup j) \cap ToSet(s) = {},
           NEW due \in Due(fwd), NEW at \in Places(due), NEW expired \in BOOLEAN,
           Answered(r, Graded(r, a, j, s), due, at, expired),
           consumed \subseteq consumed', consumed' \subseteq Ids, a \subseteq consumed',
           promised' = promised, next' = next
    PROVE  IndInv'
<1>0. /\ fwd \in Memory /\ Sound(fwd, {}) /\ r \in Request /\ Answers(r)
      /\ r.acc \subseteq consumed /\ dlq \subseteq Ids /\ ToSet(r.batch) \subseteq ToSet(fwd.lane)
  <2>1. fwd \in Memory /\ Sound(fwd, {})
    BY DEF IndInv, Sound
  <2>2. r \in Request /\ Answers(r)
    BY <2>1, MemoryFacts DEF Sound, Wire
  <2>3. ToSet(r.batch) \subseteq Held(fwd) /\ Held(fwd) \subseteq fwd.active
    BY <2>1, HeldIds DEF Sound, Exact
  <2> QED
    BY <2>1, <2>2, <2>3 DEF IndInv, Owing, Known, Sound, Spooled
<1>1. PICK q : q = Onward(Graded(r, a, j, s))
  OBVIOUS
<1>2. /\ q \in Request /\ q.batch = r.batch /\ q.acc = r.acc \cup a /\ q.rej = r.rej \cup j
      /\ Outcome(q)
      /\ q.parts # <<>> => Answers(q)
  BY <1>0, <1>1, GradedFacts
<1>3. q.acc \subseteq consumed' /\ \A p \in fwd.requests : p.acc \subseteq consumed'
  BY <1>0, <1>2 DEF IndInv, Owing
<1>4. PICK n : n = fwd'
  OBVIOUS
<1>5. PICK m : m = Replace(fwd, r, q)
  OBVIOUS
<1>6. CASE q.parts # <<>>
  <2>1. n = m /\ dlq' = dlq /\ disk' = disk
    BY <1>1, <1>4, <1>5, <1>6 DEF Answered, Onward, Replace
  <2>2. /\ Sound(m, {}) /\ m.requests = (fwd.requests \ {r}) \cup {q}
        /\ m.lane = fwd.lane /\ m.ops = fwd.ops /\ m.walPending = fwd.walPending
    BY <1>0, <1>2, <1>5, <1>6, ReplaceKept
  <2>3. Drains(m, m, {})
    BY DEF Drains
  <2>4. \A p \in m.requests : p.acc \subseteq consumed'
    BY <1>3, <2>2
  <2>5. Queue(m)
    BY <2>2 DEF IndInv, Queue, PutsPending
  <2>6. /\ ToSet(m.lane) \cup disk' \cup promised' \subseteq 1 .. next' - 1
        /\ next' \in 1 .. MaxEvents + 1
    BY <2>1, <2>2 DEF IndInv, Known, Seen
  <2>7. \A i \in DOMAIN m.ops :
           /\ m.ops[i].ids \subseteq 1 .. next' - 1
           /\ IF m.ops[i].kind = "put"
              THEN /\ m.ops[i].ids \cap promised' = {}
                   /\ m.ops[i].written => m.ops[i].ids \subseteq disk'
              ELSE m.ops[i].ids \subseteq consumed' \cup dlq'
    BY <2>1, <2>2 DEF IndInv, Known, Owing, Seen
  <2>8. Drains(m, fwd', {}) /\ Sound(fwd', {}) /\ dlq' \subseteq Ids /\ {} \subseteq consumed'
    BY <1>0, <1>4, <2>1, <2>2, <2>3
  <2> QED
    BY <2>4, <2>5, <2>6, <2>7, <2>8, NextInd
<1>7. CASE q.parts = <<>>
  <2>1. n = FinishBatch(m, q, due, at, expired) /\ dlq' = dlq \cup q.rej /\ disk' = disk \ q.rej
    BY <1>1, <1>4, <1>5, <1>7 DEF Answered, Onward, Replace
  <2>2. PICK w : w = Without(m, q)
    OBVIOUS
  <2>3. /\ m \in Memory /\ Sound(w, ToSet(q.batch)) /\ Carries(fwd, w, {})
        /\ w.retries = fwd.retries
    BY <1>0, <1>2, <1>5, <2>2, ReplaceSound
  <2>4. due \in Seq(BOOLEAN) /\ Len(due) <= Len(w.retries) /\ at \in 1 .. Len(w.retries) + 1
    <3>1. /\ due \in Seq(BOOLEAN) /\ Len(due) \in 0 .. Len(fwd.retries)
          /\ fwd.retries \in Seq(Seq(Ids))
      BY <1>0, DueFacts, MemoryFacts
    <3> QED
      BY <2>3, <3>1 DEF Places
  <2>5. Sound(n, {}) /\ Drains(w, n, q.acc)
    BY <1>2, <2>1, <2>2, <2>3, <2>4, FinishSound
  <2>6. Drains(fwd, w, {})
    BY <2>3, CarriesDrains
  <2>7. Drains(fwd, n, {} \cup q.acc)
    BY <2>5, <2>6, DrainsOn
  <2>8. {} \cup q.acc = q.acc /\ q.rej \subseteq ToSet(fwd.lane) /\ q.rej \subseteq Ids
    BY <1>0, <1>2 DEF Outcome, Request
  <2>9. Drains(fwd, fwd', q.acc) /\ Sound(fwd', {})
    BY <1>4, <2>5, <2>7, <2>8
  <2>10. dlq \subseteq dlq' /\ dlq' \subseteq Ids
    BY <1>0, <2>1, <2>8
  <2> QED
    BY <1>3, <2>1, <2>8, <2>9, <2>10, DrainsInd
<1> QED
  BY <1>6, <1>7

(* A request is answered, item by item or as a whole.                      *)
LEMMA AnswerInd ==
    ASSUME IndInv, Answer PROVE IndInv'
<1>0. PICK r \in fwd.requests, due \in Due(fwd) : \E at \in Places(due) :
        \/ \E n \in 0 .. Len(Head(r.parts)), stored \in BOOLEAN :
             \E rejected \in SUBSET ToSet(Head(r.parts)) :
                Reply(r, n, rejected, stored, due, at)
        \/ \E stored, expired \in BOOLEAN : Lost(r, stored, due, at, expired)
        \/ \E stored \in BOOLEAN : Dropped(r, stored, due, at)
        \/ Refused(r, due, at)
  BY Zenon DEF Answer
<1>1. PICK at \in Places(due) :
        \/ \E n \in 0 .. Len(Head(r.parts)), stored \in BOOLEAN :
             \E rejected \in SUBSET ToSet(Head(r.parts)) :
                Reply(r, n, rejected, stored, due, at)
        \/ \E stored, expired \in BOOLEAN : Lost(r, stored, due, at, expired)
        \/ \E stored \in BOOLEAN : Dropped(r, stored, due, at)
        \/ Refused(r, due, at)
  BY <1>0, Zenon
<1>2. r \in Request /\ Answers(r) /\ consumed \subseteq Ids
  <2>1. fwd \in Memory
    BY DEF IndInv, Sound
  <2> QED
    BY <2>1, MemoryFacts DEF IndInv, Known, Sound, Wire
<1>3. PICK part : part = Head(r.parts)
  OBVIOUS
<1>4. /\ part \in Seq(Ids) /\ IsInjective(part) /\ ToSet(part) \subseteq Ids
      /\ r.again \in Seq(Ids) /\ Len(part) \in Nat
  <2>1. part \in Seq(Ids) /\ IsInjective(part) /\ ToSet(part) \subseteq Ids
    BY <1>2, <1>3, AgainFacts
  <2> QED
    BY <1>2, <2>1 DEF Request
<1>5. PICK e : e = {}
  OBVIOUS
<1>6. PICK no \in BOOLEAN : no = FALSE
  OBVIOUS
<1>7. ASSUME NEW n \in 0 .. Len(part), NEW stored \in BOOLEAN, NEW rejected \in SUBSET ToSet(part),
             Reply(r, n, rejected, stored, due, at)
      PROVE  IndInv'
  <2>1. PICK prefix : prefix = SubSeq(part, 1, n)
    OBVIOUS
  <2>2. PICK suffix : suffix = SubSeq(part, n + 1, Len(part))
    OBVIOUS
  <2>3. PICK a : a = ToSet(prefix) \ rejected
    OBVIOUS
  <2>4. /\ suffix \in Seq(Ids) /\ IsInjective(suffix) /\ ToSet(suffix) \subseteq ToSet(part)
        /\ ToSet(prefix) \subseteq ToSet(part)
    <3>1. 1 \in Nat \ {0} /\ n + 1 \in Nat \ {0} /\ Len(part) \in 0 .. Len(part)
      BY <1>4
    <3> QED
      BY <1>4, <2>1, <2>2, <3>1, PartFacts
  <2>5. ToSet(prefix) \cap ToSet(suffix) = {}
    BY <1>4, <2>1, <2>2, PartsApart
  <2>6. /\ rejected \subseteq ToSet(prefix)
        /\ consumed' = consumed \cup a \cup (IF stored THEN ToSet(suffix) ELSE {})
        /\ Answered(r, [r EXCEPT !.acc = @ \cup a, !.rej = @ \cup rejected,
                                 !.again = @ \o suffix], due, at, FALSE)
        /\ promised' = promised /\ next' = next
    BY <1>3, <1>7, <2>1, <2>2, <2>3, Zenon DEF Reply
  <2>7. Answered(r, Graded(r, a, rejected, suffix), due, at, no)
    BY <1>6, <2>6 DEF Graded
  <2>8. /\ a \cup rejected \cup ToSet(suffix) \subseteq ToSet(part)
        /\ (a \cup rejected) \cap ToSet(suffix) = {}
    BY <2>3, <2>4, <2>5, <2>6
  <2>9. consumed \subseteq consumed' /\ consumed' \subseteq Ids /\ a \subseteq consumed'
    BY <1>2, <1>4, <2>4, <2>6, <2>8
  <2> QED
    BY <1>3, <1>6, <2>4, <2>6, <2>7, <2>8, <2>9, AnsweredInd
<1>8. ASSUME NEW stored \in BOOLEAN, NEW expired \in BOOLEAN, Lost(r, stored, due, at, expired)
      PROVE  IndInv'
  <2>1. Answered(r, [r EXCEPT !.again = @ \o part], due, at, expired)
    BY <1>3, <1>8 DEF Lost
  <2>2. [r EXCEPT !.again = @ \o part] = Graded(r, e, e, part)
    BY <1>2, <1>5 DEF Graded, Request
  <2>3. Answered(r, Graded(r, e, e, part), due, at, expired)
    BY <2>1, <2>2
  <2>4. /\ consumed \subseteq consumed' /\ consumed' \subseteq Ids
        /\ promised' = promised /\ next' = next
    BY <1>2, <1>3, <1>4, <1>8 DEF Lost
  <2>5. /\ e \cup e \cup ToSet(part) \subseteq ToSet(part) /\ (e \cup e) \cap ToSet(part) = {}
        /\ e \subseteq consumed'
    BY <1>5
  <2> QED
    BY <1>3, <1>4, <2>3, <2>4, <2>5, AnsweredInd
<1>9. ASSUME NEW stored \in BOOLEAN, Dropped(r, stored, due, at) PROVE IndInv'
  <2>1. PICK s : s = <<>>
    OBVIOUS
  <2>2. s \in Seq(Ids) /\ IsInjective(s) /\ ToSet(s) = {}
    BY <2>1, EmptyFacts
  <2>3. r = Graded(r, e, e, s)
    <3>1. r.again \o s = r.again /\ r.acc \cup e = r.acc /\ r.rej \cup e = r.rej
      BY <1>4, <1>5, <2>1
    <3> QED
      BY <1>2, <3>1 DEF Graded, Request
  <2>4. Answered(r, Graded(r, e, e, s), due, at, no)
    BY <1>6, <1>9, <2>3 DEF Dropped
  <2>5. /\ consumed \subseteq consumed' /\ consumed' \subseteq Ids
        /\ promised' = promised /\ next' = next
    BY <1>2, <1>3, <1>4, <1>9 DEF Dropped
  <2>6. /\ e \cup e \cup ToSet(s) \subseteq ToSet(part) /\ (e \cup e) \cap ToSet(s) = {}
        /\ e \subseteq consumed'
    BY <1>5, <2>2
  <2> QED
    BY <1>3, <1>6, <2>2, <2>4, <2>5, <2>6, AnsweredInd
<1>10. ASSUME Refused(r, due, at) PROVE IndInv'
  <2>1. PICK s : s = <<>>
    OBVIOUS
  <2>2. s \in Seq(Ids) /\ IsInjective(s) /\ ToSet(s) = {}
    BY <2>1, EmptyFacts
  <2>3. PICK j : j = ToSet(part)
    OBVIOUS
  <2>4. [r EXCEPT !.rej = @ \cup j] = Graded(r, e, j, s)
    <3>1. r.again \o s = r.again /\ r.acc \cup e = r.acc
      BY <1>4, <1>5, <2>1
    <3> QED
      BY <1>2, <3>1 DEF Graded, Request
  <2>5. Answered(r, Graded(r, e, j, s), due, at, no)
    <3>1. Answered(r, [r EXCEPT !.rej = @ \cup j], due, at, no)
      BY <1>3, <1>6, <1>10, <2>3 DEF Refused
    <3> QED
      BY <2>4, <3>1
  <2>6. /\ consumed \subseteq consumed' /\ consumed' \subseteq Ids
        /\ promised' = promised /\ next' = next
    BY <1>2, <1>10 DEF Refused
  <2>7. /\ e \cup j \cup ToSet(s) \subseteq ToSet(part) /\ (e \cup j) \cap ToSet(s) = {}
        /\ e \subseteq consumed'
    BY <1>5, <2>2, <2>3
  <2> QED
    BY <1>3, <1>6, <2>2, <2>5, <2>6, <2>7, AnsweredInd
<1> QED
  BY <1>1, <1>3, <1>7, <1>8, <1>9, <1>10

(* A part that is too large is sent in two halves.                         *)
Halved(r, part, n) ==
    [r EXCEPT !.parts = <<SubSeq(part, 1, n), SubSeq(part, n + 1, Len(part))>> \o Tail(@)]

(* 413: the first part is halved.                                          *)
LEMMA SplitFacts ==
    ASSUME NEW r \in Request, Answers(r), NEW part, part = Head(r.parts),
           NEW n \in 1 .. Len(part) - 1,
           NEW q, q = Halved(r, part, n)
    PROVE  q \in Request /\ q.batch = r.batch /\ q.acc = r.acc /\ Answers(q)
<1>1. /\ part \in Seq(Ids) /\ IsInjective(part)
      /\ ToSet(part) \subseteq ToSet(r.batch) \ (r.acc \cup r.rej \cup ToSet(r.again))
  BY AgainFacts
<1>2. PICK left : left = SubSeq(part, 1, n)
  OBVIOUS
<1>3. PICK right : right = SubSeq(part, n + 1, Len(part))
  OBVIOUS
<1>4. /\ left \in Seq(Ids) /\ IsInjective(left) /\ left # <<>> /\ ToSet(left) \subseteq ToSet(part)
      /\ right \in Seq(Ids) /\ IsInjective(right) /\ right # <<>>
      /\ ToSet(right) \subseteq ToSet(part) /\ ToSet(left) \cap ToSet(right) = {}
  <2>0. PICK k : k = Len(part)
    OBVIOUS
  <2>1. /\ n \in 0 .. Len(part) /\ 1 \in Nat \ {0} /\ n + 1 \in Nat \ {0}
        /\ Len(part) \in 0 .. Len(part) /\ 1 <= n /\ n + 1 <= Len(part)
    <3>1. k \in Nat /\ n \in 1 .. k - 1
      BY <1>1, <2>0
    <3>2. /\ n \in 0 .. k /\ 1 \in Nat \ {0} /\ n + 1 \in Nat \ {0}
          /\ k \in 0 .. k /\ 1 <= n /\ n + 1 <= k
      BY <3>1
    <3> QED
      BY <2>0, <3>2
  <2>2. /\ left \in Seq(Ids) /\ IsInjective(left) /\ left # <<>>
        /\ ToSet(left) \subseteq ToSet(part)
    BY <1>1, <1>2, <2>1, PartFacts
  <2>3. /\ right \in Seq(Ids) /\ IsInjective(right) /\ right # <<>>
        /\ ToSet(right) \subseteq ToSet(part)
    BY <1>1, <1>3, <2>1, PartFacts
  <2>4. ToSet(left) \cap ToSet(right) = {}
    BY <1>1, <1>2, <1>3, <2>1, PartsApart
  <2> QED
    BY <2>2, <2>3, <2>4
<1>5. PICK p : p = <<left, right>> \o Tail(r.parts)
  OBVIOUS
<1>6. /\ p \in Seq(Seq(Ids)) /\ p # <<>> /\ DOMAIN p \subseteq Nat
      /\ \A i \in DOMAIN p : \/ i = 1 /\ p[i] = left
                             \/ i = 2 /\ p[i] = right
                             \/ /\ i > 2 /\ i - 1 \in DOMAIN r.parts /\ i - 1 # 1
                                /\ p[i] = r.parts[i - 1]
      /\ 1 \in DOMAIN r.parts /\ part = r.parts[1]
  <2> DEFINE T == Seq(Ids)
  <2>1. r.parts \in Seq(T) /\ r.parts # <<>> /\ left \in T /\ right \in T
    BY <1>4 DEF Request, Answers
  <2> HIDE DEF T
  <2>2. PICK k : k = Len(r.parts)
    OBVIOUS
  <2>3. k \in Nat /\ k >= 1 /\ DOMAIN r.parts = 1 .. k /\ part = r.parts[1]
    BY <2>1, <2>2
  <2>4. PICK t : t = Tail(r.parts)
    OBVIOUS
  <2>5. t \in Seq(T) /\ Len(t) = k - 1 /\ \A i \in 1 .. k - 1 : t[i] = r.parts[i + 1]
    BY <2>1, <2>2, <2>3, <2>4
  <2>6. PICK h : h = <<left, right>>
    OBVIOUS
  <2>7. h \in Seq(T) /\ Len(h) = 2 /\ h[1] = left /\ h[2] = right
    BY <2>1, <2>6
  <2>8. p = h \o t
    BY <1>5, <2>4, <2>6
  <2>9. /\ p \in Seq(T) /\ DOMAIN p = 1 .. 2 + Len(t)
        /\ \A i \in 1 .. 2 + Len(t) : p[i] = IF i <= 2 THEN h[i] ELSE t[i - 2]
    <3>1. h \in Seq(T) /\ t \in Seq(T)
      BY <2>5, <2>7
    <3>2. /\ h \o t \in Seq(T) /\ DOMAIN (h \o t) = 1 .. Len(h) + Len(t)
          /\ \A i \in 1 .. Len(h) + Len(t) :
                (h \o t)[i] = IF i <= Len(h) THEN h[i] ELSE t[i - Len(h)]
      BY <3>1
    <3> QED
      BY <2>7, <2>8, <3>2
  <2>count. 2 + Len(t) = k + 1
    <3>1. k \in Int /\ Len(t) = k - 1
      BY <2>3, <2>5
    <3> QED
      BY <3>1
  <2>10. \A i \in 1 .. k + 1 : p[i] = IF i <= 2 THEN h[i] ELSE t[i - 2]
    BY <2>9, <2>count
  <2>11. DOMAIN p = 1 .. k + 1
    BY <2>9, <2>count
  <2>12. ASSUME NEW i \in 3 .. k + 1
         PROVE  i - 1 \in DOMAIN r.parts /\ i - 1 # 1 /\ p[i] = r.parts[i - 1]
    <3>0. k \in Int
      BY <2>3
    <3>1. /\ i - 2 \in 1 .. k - 1 /\ (i - 2) + 1 = i - 1 /\ i - 1 \in 1 .. k /\ i - 1 # 1
          /\ ~(i <= 2) /\ i \in 1 .. k + 1
      BY <3>0
    <3>2. p[i] = t[i - 2]
      BY <2>10, <3>1
    <3>3. t[i - 2] = r.parts[(i - 2) + 1]
      BY <2>5, <3>1
    <3> QED
      BY <2>3, <3>1, <3>2, <3>3
  <2>13. p[1] = left /\ p[2] = right
    <3>1. 1 \in 1 .. k + 1 /\ 2 \in 1 .. k + 1
      BY <2>3
    <3>2. p[1] = h[1] /\ p[2] = h[2]
      BY <2>10, <3>1
    <3> QED
      BY <2>7, <3>2
  <2>14. \A i \in DOMAIN p : i = 1 \/ i = 2 \/ (i \in 3 .. k + 1 /\ i > 2)
    <3>1. k \in Int
      BY <2>3
    <3>2. \A i \in 1 .. k + 1 : i = 1 \/ i = 2 \/ (i \in 3 .. k + 1 /\ i > 2)
      BY <3>1
    <3> QED
      BY <2>11, <3>2
  <2>15. p # <<>> /\ DOMAIN p \subseteq Nat /\ 1 \in DOMAIN r.parts
    BY <2>3, <2>9, <2>11
  <2> QED
    BY <2>3, <2>9, <2>12, <2>13, <2>14, <2>15 DEF T
<1>7. /\ q \in Request /\ q.batch = r.batch /\ q.acc = r.acc /\ q.rej = r.rej
      /\ q.again = r.again /\ q.parts = p
  <2>1. q = [r EXCEPT !.parts = p]
    BY <1>2, <1>3, <1>5 DEF Request, Halved
  <2> QED
    BY <1>6, <2>1 DEF Request
<1>8. PICK S : S = ToSet(r.batch) \ (r.acc \cup r.rej \cup ToSet(r.again))
  OBVIOUS
<1>9. \A i \in DOMAIN r.parts :
         /\ r.parts[i] # <<>> /\ IsInjective(r.parts[i]) /\ ToSet(r.parts[i]) \subseteq S
         /\ \A j \in DOMAIN r.parts \ {i} : ToSet(r.parts[i]) \cap ToSet(r.parts[j]) = {}
  BY <1>8 DEF Answers
<1>10. \A i \in DOMAIN r.parts : i # 1 => ToSet(r.parts[i]) \cap ToSet(part) = {}
  BY <1>6, <1>9
<1>11. \A i \in DOMAIN p : p[i] # <<>> /\ IsInjective(p[i]) /\ ToSet(p[i]) \subseteq S
  BY <1>1, <1>4, <1>6, <1>8, <1>9
<1>12. ASSUME NEW i \in DOMAIN p, NEW j \in DOMAIN p \ {i}
       PROVE  ToSet(p[i]) \cap ToSet(p[j]) = {}
  <2>0. ASSUME NEW k \in DOMAIN p
        PROVE  \/ k = 1 /\ p[k] = left
               \/ k = 2 /\ p[k] = right
               \/ \E l \in DOMAIN r.parts : l # 1 /\ l = k - 1 /\ p[k] = r.parts[l]
    BY <1>6
  <2>1. CASE /\ \E l \in DOMAIN r.parts : l # 1 /\ l = i - 1 /\ p[i] = r.parts[l]
             /\ \E l \in DOMAIN r.parts : l # 1 /\ l = j - 1 /\ p[j] = r.parts[l]
    <3>1. i - 1 # j - 1
      BY <1>6
    <3> QED
      BY <1>9, <2>1, <3>1
  <2>2. CASE /\ \E l \in DOMAIN r.parts : l # 1 /\ l = i - 1 /\ p[i] = r.parts[l]
             /\ p[j] = left \/ p[j] = right
    BY <1>4, <1>10, <2>2
  <2>3. CASE /\ \E l \in DOMAIN r.parts : l # 1 /\ l = j - 1 /\ p[j] = r.parts[l]
             /\ p[i] = left \/ p[i] = right
    BY <1>4, <1>10, <2>3
  <2>4. CASE (i = 1 /\ p[i] = left /\ j = 2 /\ p[j] = right)
             \/ (i = 2 /\ p[i] = right /\ j = 1 /\ p[j] = left)
    BY <1>4, <2>4
  <2> QED
    BY <2>0, <2>1, <2>2, <2>3, <2>4
<1>13. Answers(q)
  <2>1. /\ q.batch # <<>> /\ q.parts # <<>> /\ IsInjective(q.again)
        /\ q.acc \cup q.rej \cup ToSet(q.again) \subseteq ToSet(q.batch)
        /\ (q.acc \cup q.rej) \cap ToSet(q.again) = {}
    BY <1>6, <1>7 DEF Answers
  <2>2. S = ToSet(q.batch) \ (q.acc \cup q.rej \cup ToSet(q.again))
    BY <1>7, <1>8
  <2> QED
    BY <1>7, <1>11, <1>12, <2>1, <2>2, SMTT(60) DEF Answers
<1> QED
  BY <1>7, <1>13

(* A batch is too large and is split.                                      *)
LEMMA TooLargeInd ==
    ASSUME IndInv, NEW r \in fwd.requests, TooLarge(r) PROVE IndInv'
<1>0. fwd \in Memory /\ Sound(fwd, {}) /\ r \in Request /\ Answers(r)
  <2>1. fwd \in Memory /\ Sound(fwd, {})
    BY DEF IndInv, Sound
  <2> QED
    BY <2>1, MemoryFacts DEF Sound, Wire
<1>1. PICK part : part = Head(r.parts)
  OBVIOUS
<1>2. Len(part) \in Nat /\ Len(part) > 1
  <2>1. part \in Seq(Ids)
    BY <1>0, <1>1, AgainFacts
  <2> QED
    BY <1>1, <2>1 DEF TooLarge
<1>3. PICK n : n = (Len(part) + 1) \div 2
  OBVIOUS
<1>4. n \in 1 .. Len(part) - 1
  BY <1>2, <1>3
<1>5. PICK q : q = Halved(r, part, n)
  OBVIOUS
<1>6. q \in Request /\ q.batch = r.batch /\ q.acc = r.acc /\ Answers(q)
  BY <1>0, <1>1, <1>4, <1>5, SplitFacts
<1>7. PICK m : m = Replace(fwd, r, q)
  OBVIOUS
<1>8. /\ fwd' = m /\ disk' = disk /\ dlq' = dlq /\ consumed' = consumed
      /\ promised' = promised /\ next' = next
  BY <1>1, <1>3, <1>5, <1>7 DEF TooLarge, Replace, Halved
<1>9. /\ Sound(m, {}) /\ m.requests = (fwd.requests \ {r}) \cup {q}
      /\ m.lane = fwd.lane /\ m.ops = fwd.ops /\ m.walPending = fwd.walPending
  BY <1>0, <1>6, <1>7, ReplaceKept
<1>10. Drains(m, m, {})
  BY DEF Drains
<1>11. Drains(m, fwd', {}) /\ Sound(fwd', {})
  BY <1>8, <1>9, <1>10
<1>12. Queue(m)
  BY <1>9 DEF IndInv, Queue, PutsPending
<1>13. /\ ToSet(m.lane) \cup disk' \cup promised' \subseteq 1 .. next' - 1
       /\ next' \in 1 .. MaxEvents + 1
  BY <1>8, <1>9 DEF IndInv, Known, Seen
<1>14. \A i \in DOMAIN m.ops :
          /\ m.ops[i].ids \subseteq 1 .. next' - 1
          /\ IF m.ops[i].kind = "put"
             THEN /\ m.ops[i].ids \cap promised' = {}
                  /\ m.ops[i].written => m.ops[i].ids \subseteq disk'
             ELSE m.ops[i].ids \subseteq consumed' \cup dlq'
  BY <1>8, <1>9 DEF IndInv, Known, Owing, Seen
<1>15. /\ \A p \in m.requests : p.acc \subseteq consumed'
       /\ {} \subseteq consumed' /\ consumed' \subseteq Ids /\ dlq' \subseteq Ids
  BY <1>6, <1>8, <1>9 DEF IndInv, Known, Owing
<1> QED
  BY <1>11, <1>12, <1>13, <1>14, <1>15, NextInd

(* Shutdown aborts what is under way.                                      *)
LEMMA AbortEventWorkInd ==
    ASSUME IndInv, AbortEventWork PROVE IndInv'
<1>0. fwd \in Memory /\ Sound(fwd, {})
  BY DEF IndInv, Sound
<1>1. PICK o : o = fwd'
  OBVIOUS
<1>2. PICK A : A = UNION {r.acc : r \in fwd.requests}
  OBVIOUS
<1>3. PICK J : J = UNION {r.rej : r \in fwd.requests}
  OBVIOUS
<1>4. /\ o = Aborted(fwd) /\ dlq' = dlq \cup J /\ disk' = disk \ J
      /\ consumed' = consumed /\ promised' = promised /\ next' = next
  BY <1>1, <1>3 DEF AbortEventWork
<1>5. Sound(o, {}) /\ \E n : n = Staged(fwd, "aborted") /\ Drains(n, o, A)
  <2>1. /\ Sound(o, {})
        /\ \E n : n = Staged(fwd, "aborted")
                  /\ Drains(n, o, UNION {r.acc : r \in fwd.requests})
    BY <1>0, <1>4, AbortedSound
  <2> QED
    BY <1>2, <2>1
<1>6. PICK n : n = Staged(fwd, "aborted") /\ Drains(n, o, A)
  BY <1>5
<1>7. /\ n.ops = fwd.ops /\ n.lane = fwd.lane
      /\ n.walPending = fwd.walPending /\ n.requests = fwd.requests
  BY <1>0, <1>6 DEF Staged, Memory
<1>8. \A r \in fwd.requests : r.acc \subseteq consumed /\ r.rej \subseteq ToSet(fwd.lane)
  <2>1. \A r \in fwd.requests : ToSet(r.batch) \subseteq ToSet(fwd.lane)
    BY <1>0, HeldIds DEF Sound, Exact, Spooled
  <2>2. \A r \in fwd.requests : r.rej \subseteq ToSet(r.batch)
    BY <1>0 DEF Sound, Wire, Answers
  <2> QED
    BY <2>1, <2>2 DEF IndInv, Owing
<1>9. A \subseteq consumed /\ J \subseteq ToSet(fwd.lane)
  BY <1>2, <1>3, <1>8
<1>10. ToSet(fwd.lane) \subseteq Ids
  BY <1>0, MemoryFacts, ElementFacts
<1>11. /\ \A q \in n.requests : q.acc \subseteq consumed'
       /\ A \subseteq consumed' /\ consumed \subseteq consumed' /\ consumed' \subseteq Ids
       /\ dlq \subseteq dlq' /\ dlq' \subseteq Ids
  BY <1>4, <1>7, <1>8, <1>9, <1>10 DEF IndInv, Known
<1>12. Drains(n, fwd', A) /\ Sound(fwd', {})
  BY <1>1, <1>5, <1>6
<1> QED
  BY <1>4, <1>7, <1>9, <1>11, <1>12, DrainsInd

(* The process ends, or starts with the records on disk.                   *)
LEMMA ProcessInd ==
    ASSUME IndInv, Exit \/ (\E taken \in SUBSET fwd.requests : Crash(taken)) \/ Restart
    PROVE  IndInv'
<1>0. fwd \in Memory /\ Sound(fwd, {})
  BY DEF IndInv, Sound
<1>1. PICK m : m = fwd'
  OBVIOUS
<1>2. PICK ids \in SUBSET disk : \E g \in {"up", "down"} : m = Fresh(g, ids)
  <2>1. {} \in SUBSET disk /\ disk \in SUBSET disk
    OBVIOUS
  <2> QED
    BY <1>1, <2>1, Zenon DEF Exit, Crash, Restart, Off
<1>3. PICK g \in {"up", "down"} : m = Fresh(g, ids)
  BY <1>2
<1>4. disk \subseteq Seen /\ Seen \subseteq Ids
  BY ForwarderAssumption DEF IndInv, Known, Seen, Ids
<1>5. /\ Sound(m, {}) /\ Queue(m) /\ ToSet(m.lane) = ids /\ m.ops = <<>> /\ m.requests = {}
  BY <1>3, <1>4, FreshSound
<1>6. /\ disk' = disk /\ dlq' = dlq /\ promised' = promised /\ next' = next
      /\ consumed \subseteq consumed' /\ consumed' \subseteq Ids
  <2>1. CASE Exit \/ Restart
    BY <2>1 DEF Exit, Restart, IndInv, Known
  <2>2. CASE \E taken \in SUBSET fwd.requests : Crash(taken)
    <3>1. PICK taken \in SUBSET fwd.requests : Crash(taken)
      BY <2>2
    <3>2. \A r \in taken : ToSet(Head(r.parts)) \subseteq Ids
      <4>1. \A r \in taken : r \in Request /\ Answers(r)
        BY <1>0, MemoryFacts DEF Sound, Wire
      <4> QED
        BY <4>1, AgainFacts
    <3> QED
      BY <3>1, <3>2 DEF Crash, IndInv, Known
  <2> QED
    BY <2>1, <2>2
<1>7. Drains(m, m, {})
  BY DEF Drains
<1>8. DOMAIN m.ops = {}
  BY <1>5
<1>9. /\ Drains(m, fwd', {}) /\ Sound(fwd', {})
      /\ ToSet(m.lane) \cup disk' \cup promised' \subseteq 1 .. next' - 1
      /\ dlq' \subseteq Ids /\ next' \in 1 .. MaxEvents + 1 /\ {} \subseteq consumed'
  BY <1>1, <1>4, <1>5, <1>6, <1>7 DEF IndInv, Known, Seen
<1>10. \A i \in DOMAIN m.ops :
         /\ m.ops[i].ids \subseteq 1 .. next' - 1
         /\ IF m.ops[i].kind = "put"
            THEN /\ m.ops[i].ids \cap promised' = {}
                 /\ m.ops[i].written => m.ops[i].ids \subseteq disk'
            ELSE m.ops[i].ids \subseteq consumed' \cup dlq'
  BY <1>8
<1>11. \A q \in m.requests : q.acc \subseteq consumed'
  BY <1>5
<1> QED
  BY <1>5, <1>6, <1>9, <1>10, <1>11, NextInd

(* Every step preserves the invariant.                                     *)
LEMMA NextHolds ==
    ASSUME IndInv, [Next]_vars PROVE IndInv'
<1>1. CASE Observe
  BY <1>1, ObserveInd
<1>2. CASE SpoolWrite
  BY <1>2, SpoolWriteInd
<1>3. CASE \E due \in Due(fwd) : PutDone(due)
  BY <1>3, PutDoneInd
<1>4. CASE AckDone
  BY <1>4, AckDoneInd
<1>5. CASE SpoolError
  BY <1>5, SpoolErrorInd
<1>6. CASE \E due \in Due(fwd) : PumpTimer(due)
  BY <1>6, PumpTimerInd
<1>7. CASE \E due \in Due(fwd) : Replay(due)
  BY <1>7, ReplayInd
<1>8. CASE Answer
  BY <1>8, AnswerInd
<1>9. CASE \E r \in fwd.requests : TooLarge(r)
  BY <1>9, TooLargeInd
<1>10. CASE \E due \in Due(fwd) : Shutdown(due)
  BY <1>10, ShutdownInd
<1>11. CASE AbortEventWork
  BY <1>11, AbortEventWorkInd
<1>12. CASE Exit \/ (\E taken \in SUBSET fwd.requests : Crash(taken)) \/ Restart
  BY <1>12, ProcessInd
<1>13. CASE UNCHANGED vars
  <2>1. /\ fwd' = fwd /\ disk' = disk /\ dlq' = dlq /\ consumed' = consumed
        /\ promised' = promised /\ next' = next
    BY <1>13 DEF vars
  <2>2. Carries(fwd, fwd', {})
    BY <2>1 DEF Carries
  <2>3. Sound(fwd', {})
    BY <2>1 DEF IndInv
  <2> QED
    BY <2>1, <2>2, <2>3, QuietInd
<1> QED
  BY <1>1, <1>2, <1>3, <1>4, <1>5, <1>6, <1>7, <1>8, <1>9, <1>10, <1>11, <1>12, <1>13, Zenon
     DEF Next

(* The gauges are exact between two callbacks, what is outstanding is in   *)
(* the spool, and the spool's queue and the disk agree with what has been  *)
(* promised and acknowledged.                                              *)
THEOREM Invariance == Spec => []IndInv
<1>1. Init => IndInv
  BY InitInd
<1>2. IndInv /\ [Next]_vars => IndInv'
  BY NextHolds
<1> QED
  BY <1>1, <1>2, PTL DEF Spec

-----------------------------------------------------------------------------
(* The properties.                                                         *)

(* The state is well typed; every event is outstanding at most once and    *)
(* the gauges count the outstanding events exactly, and these are all in   *)
(* the spool (trackOutstanding, settleOutstanding, pumpDurableSpool).      *)
THEOREM TypeCorrect == Spec => []TypeOK
<1>1. IndInv => TypeOK
  <2> SUFFICES ASSUME IndInv PROVE TypeOK
    OBVIOUS
  <2>1. fwd \in Memory /\ Exact(fwd, {}) /\ Spooled(fwd) /\ Wire(fwd) /\ Queue(fwd) /\ Known
    BY DEF IndInv, Sound
  <2>2. /\ fwd.stage \in {"up", "closing", "aborted", "down"}
        /\ fwd.lane \in Batches /\ fwd.pending \in Batches
        /\ fwd.active \subseteq Ids /\ fwd.ops \in Seq(Operation)
        /\ fwd.requests \in SUBSET Request /\ fwd.retries \in Seq(Batches)
    BY <2>1, MemoryFacts DEF Batches
  <2>3. \A i \in DOMAIN fwd.ops :
           fwd.ops[i] \in [kind : {"put", "ack"}, ids : SUBSET Ids, written : BOOLEAN]
    <3>1. \A i \in DOMAIN fwd.ops : fwd.ops[i] \in Operation
      BY <2>2
    <3> QED
      BY <3>1 DEF Operation
  <2>4. \A i \in DOMAIN fwd.retries : fwd.retries[i] \in Batches \ {<<>>}
    <3>1. \A i \in DOMAIN fwd.retries : fwd.retries[i] # <<>>
      BY <2>1 DEF Exact
    <3> DEFINE T == Batches
    <3>2. fwd.retries \in Seq(T)
      BY <2>2
    <3> HIDE DEF T
    <3>3. \A i \in DOMAIN fwd.retries : fwd.retries[i] \in T
      BY <3>2
    <3> QED
      BY <3>1, <3>3 DEF T
  <2>5. ASSUME NEW r \in fwd.requests
        PROVE  /\ r.batch \in Batches \ {<<>>}
               /\ r.parts # <<>>
               /\ \A i \in DOMAIN r.parts : r.parts[i] \in Batches \ {<<>>}
    <3>1. r \in Request /\ Answers(r)
      BY <2>1, <2>2 DEF Wire
    <3> DEFINE T == Batches
    <3>2. r.parts \in Seq(T) /\ r.batch \in T
      BY <3>1 DEF Request, Batches
    <3> HIDE DEF T
    <3>3. \A i \in DOMAIN r.parts : r.parts[i] \in T
      BY <3>2
    <3>4. r.batch # <<>> /\ r.parts # <<>> /\ \A i \in DOMAIN r.parts : r.parts[i] # <<>>
      BY <3>1 DEF Answers
    <3> QED
      BY <3>2, <3>3, <3>4 DEF T
  <2>6. fwd.retryOwned \subseteq fwd.active /\ fwd.walPending = PutsPending(fwd)
    BY <2>1 DEF Exact, Queue
  <2>7. disk \subseteq Ids /\ dlq \subseteq Ids /\ consumed \subseteq Ids /\ promised \subseteq Ids
    <3>1. Seen \subseteq Ids
      BY <2>1, ForwarderAssumption DEF Known, Seen, Ids
    <3> QED
      BY <2>1, <3>1 DEF Known
  <2>8. OutstandingExact
    <3>1. fwd.active = Held(fwd) \cup {}
      BY <2>1 DEF Exact
    <3> QED
      BY <2>1, <3>1 DEF Exact, OutstandingExact
  <2>9. OutstandingIsSpooled
    BY <2>1 DEF Spooled, OutstandingIsSpooled
  <2> QED
    BY <2>2, <2>3, <2>4, <2>5, <2>6, <2>7, <2>8, <2>9 DEF TypeOK
<1> QED
  BY <1>1, Invariance, PTL

(* Admission keeps the outstanding limit, and leaves the slots reserved    *)
(* for protected traffic to it (makeQueueRoom, admitDurableEvent).         *)
THEOREM ReserveAlwaysHolds == Spec => []ReserveHolds
<1>1. IndInv => ReserveHolds
  <2> SUFFICES ASSUME IndInv PROVE ReserveHolds
    OBVIOUS
  <2>1. Reserve(fwd) /\ fwd.active \in SUBSET Ids
    BY MemoryFacts DEF IndInv, Sound
  <2>2. {id \in fwd.active : Priority[id] < ProtectedPriority} = fwd.active \cap Low
    BY <2>1 DEF Low
  <2> QED
    BY <2>1, <2>2 DEF Reserve, ReserveHolds
<1> QED
  BY <1>1, Invariance, PTL

(* What the answers of the last part of a batch do to the files.           *)
LEMMA AnswerFiles ==
    ASSUME Answer
    PROVE  /\ promised' = promised /\ consumed \subseteq consumed'
           /\ \E J : dlq' = dlq \cup J /\ disk' = disk \ J
<1>1. ASSUME NEW r, NEW q, NEW due, NEW at, NEW expired, Answered(r, q, due, at, expired)
      PROVE  \E J : dlq' = dlq \cup J /\ disk' = disk \ J
  <2>1. (dlq' = dlq /\ disk' = disk) \/ \E J : dlq' = dlq \cup J /\ disk' = disk \ J
    BY <1>1, Zenon DEF Answered
  <2>2. dlq \cup {} = dlq /\ disk \ {} = disk
    OBVIOUS
  <2> QED
    BY <2>1, <2>2
<1>2. PICK r \in fwd.requests, due \in Due(fwd) : \E at \in Places(due) :
        \/ \E n \in 0 .. Len(Head(r.parts)), stored \in BOOLEAN :
             \E rejected \in SUBSET ToSet(Head(r.parts)) :
                Reply(r, n, rejected, stored, due, at)
        \/ \E stored, expired \in BOOLEAN : Lost(r, stored, due, at, expired)
        \/ \E stored \in BOOLEAN : Dropped(r, stored, due, at)
        \/ Refused(r, due, at)
  BY Zenon DEF Answer
<1>3. PICK at \in Places(due) :
        \/ \E n \in 0 .. Len(Head(r.parts)), stored \in BOOLEAN :
             \E rejected \in SUBSET ToSet(Head(r.parts)) :
                Reply(r, n, rejected, stored, due, at)
        \/ \E stored, expired \in BOOLEAN : Lost(r, stored, due, at, expired)
        \/ \E stored \in BOOLEAN : Dropped(r, stored, due, at)
        \/ Refused(r, due, at)
  BY <1>2, Zenon
<1>5. ASSUME NEW n, NEW stored, NEW rejected, Reply(r, n, rejected, stored, due, at)
      PROVE  /\ promised' = promised /\ consumed \subseteq consumed'
             /\ \E q, expired : Answered(r, q, due, at, expired)
  BY <1>5, Zenon DEF Reply
<1>6. ASSUME NEW stored, NEW expired, Lost(r, stored, due, at, expired)
      PROVE  /\ promised' = promised /\ consumed \subseteq consumed'
             /\ \E q, x : Answered(r, q, due, at, x)
  BY <1>6, Zenon DEF Lost
<1>7. ASSUME NEW stored, Dropped(r, stored, due, at)
      PROVE  /\ promised' = promised /\ consumed \subseteq consumed'
             /\ \E q, x : Answered(r, q, due, at, x)
  BY <1>7, Zenon DEF Dropped
<1>8. ASSUME Refused(r, due, at)
      PROVE  /\ promised' = promised /\ consumed \subseteq consumed'
             /\ \E q, x : Answered(r, q, due, at, x)
  BY <1>8, Zenon DEF Refused
<1> QED
  BY <1>1, <1>3, <1>5, <1>6, <1>7, <1>8

(* Each step, seen as a step of EventDelivery.                             *)
LEMMA StepDelivers ==
    ASSUME IndInv, Next
    PROVE  /\ promised \subseteq promised' /\ consumed \cup dlq \subseteq consumed' \cup dlq'
           /\ (promised' \cap disk') \ (promised \cap disk) = promised' \ promised
           /\ (promised \cap disk) \ (promised' \cap disk') \subseteq consumed' \cup dlq'
<1> DEFINE Quiet ==
             /\ promised' = promised /\ disk' = disk
             /\ consumed \subseteq consumed' /\ dlq' = dlq
           Cleared ==
             /\ promised' = promised /\ consumed \subseteq consumed'
             /\ \E J : dlq' = dlq \cup J /\ disk' = disk \ J
<1>1. CASE SpoolWrite
  <2>1. /\ promised' = promised /\ consumed' = consumed /\ dlq' = dlq
        /\ fwd \in Memory /\ Queue(fwd) /\ fwd.ops # <<>>
        /\ disk' = IF Head(fwd.ops).kind = "put" THEN disk \cup Head(fwd.ops).ids
                   ELSE disk \ Head(fwd.ops).ids
    BY <1>1 DEF SpoolWrite, IndInv, Sound
  <2>2. Head(fwd.ops) = fwd.ops[1] /\ 1 \in DOMAIN fwd.ops
    BY <2>1, TailQueue
  <2>3. IF Head(fwd.ops).kind = "put" THEN Head(fwd.ops).ids \cap promised = {}
        ELSE Head(fwd.ops).ids \subseteq consumed \cup dlq
    BY <2>2 DEF IndInv, Owing
  <2> QED
    BY <2>1, <2>3
<1>2. ASSUME NEW due \in Due(fwd), PutDone(due)
      PROVE  /\ promised \subseteq promised' /\ consumed \cup dlq \subseteq consumed' \cup dlq'
             /\ (promised' \cap disk') \ (promised \cap disk) = promised' \ promised
             /\ (promised \cap disk) \ (promised' \cap disk') \subseteq consumed' \cup dlq'
  <2>1. /\ promised' = promised \cup Head(fwd.ops).ids /\ consumed' = consumed /\ dlq' = dlq
        /\ disk' = disk /\ fwd \in Memory /\ Queue(fwd) /\ fwd.ops # <<>>
        /\ Head(fwd.ops).kind = "put" /\ Head(fwd.ops).written
    BY <1>2 DEF PutDone, IndInv, Sound
  <2>2. Head(fwd.ops) = fwd.ops[1] /\ 1 \in DOMAIN fwd.ops
    BY <2>1, TailQueue
  <2>3. Head(fwd.ops).ids \cap promised = {} /\ Head(fwd.ops).ids \subseteq disk
    BY <2>1, <2>2 DEF IndInv, Owing
  <2> QED
    BY <2>1, <2>3
<1>3. CASE Answer
  <2>1. Cleared
    BY <1>3, AnswerFiles
  <2> QED
    BY <2>1
<1>4. CASE AbortEventWork
  <2>1. Cleared
    BY <1>4 DEF AbortEventWork
  <2> QED
    BY <2>1
<1>5. CASE \/ Observe \/ AckDone \/ SpoolError \/ (\E due \in Due(fwd) : PumpTimer(due))
           \/ (\E due \in Due(fwd) : Replay(due)) \/ (\E r \in fwd.requests : TooLarge(r))
           \/ (\E due \in Due(fwd) : Shutdown(due)) \/ Exit
           \/ (\E taken \in SUBSET fwd.requests : Crash(taken)) \/ Restart
  <2>1. Quiet
    BY <1>5 DEF Observe, AckDone, SpoolError, PumpTimer, Replay, TooLarge, Shutdown, Exit, Crash,
                Restart
  <2> QED
    BY <2>1
<1> QED
  BY <1>1, <1>2, <1>3, <1>4, <1>5 DEF Next

(* The forwarder implements EventDelivery: what was reported durable       *)
(* leaves the spool file only when the API has taken it or the dead-letter *)
(* file holds it.                                                          *)
THEOREM Implements == Spec => OwedUntilDelivered
<1>1. Init => Delivery!Init
  BY DEF Init, Delivery!Init
<1>2. IndInv /\ IndInv' /\ [Next]_vars => [Delivery!Next]_Delivery!vars
  <2> SUFFICES ASSUME IndInv, IndInv', [Next]_vars PROVE [Delivery!Next]_Delivery!vars
    OBVIOUS
  <2>1. CASE Next
    <3>1. /\ promised \subseteq promised' /\ consumed \cup dlq \subseteq consumed' \cup dlq'
          /\ (promised' \cap disk') \ (promised \cap disk) = promised' \ promised
          /\ (promised \cap disk) \ (promised' \cap disk') \subseteq consumed' \cup dlq'
      BY <2>1, StepDelivers
    <3>2. promised' \subseteq Ids /\ consumed' \cup dlq' \subseteq Ids
      BY ForwarderAssumption DEF IndInv, Known, Seen, Ids
    <3> QED
      BY <3>1, <3>2 DEF Delivery!Next
  <2>2. CASE UNCHANGED vars
    BY <2>2 DEF vars, Delivery!vars
  <2> QED
    BY <2>1, <2>2
<1> QED
  BY <1>1, <1>2, Invariance, PTL DEF Spec, OwedUntilDelivered, Delivery!Spec
=============================================================================
