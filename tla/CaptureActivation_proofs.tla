---------------------- MODULE CaptureActivation_proofs ----------------------
(***************************************************************************)
(* Proofs about CaptureActivation, for any set of cgroups, any time to     *)
(* live and time of grace, any number of incidents of every kind and any   *)
(* order of them: the type invariant, with what the published file says of *)
(* the publisher, and that no drop is without authority.                   *)
(*                                                                         *)
(* The forwarder's functions of the publisher's record come first: each    *)
(* keeps PubOK, which says how long a rule's decision may be good, and is  *)
(* a Moves, which says that a grant ends or stays with what it was given   *)
(* for.  The invariant has a part for each actor: the publisher and its    *)
(* files, the acknowledgements and what is under way, the reports of       *)
(* Central, and the grants.  Acknowledgements and reports are ordered by   *)
(* the file and the Collector's process they are of: none that is under    *)
(* way is older than the newest report, so that only the acknowledgement   *)
(* of the enforcing file itself can be reported after the grant.           *)
(***************************************************************************)
EXTENDS CaptureActivation, WellFoundedInduction, TLAPS

(* The types of the records.                                               *)
Modes == {"preview", "enforce"}
Versions == 0..(MaxIncidents + 1)
EntryKinds == {"none", "rule", "agent", "shared"}
Acks == [inst : Nat, pub : Nat, epoch : Nat, at : Nat, ok : BOOLEAN]
Grants == [inst : Nat, epoch : Nat, intents : [Scopes -> EntryKinds \X Versions \X Versions],
           exp : Nat]
Publishers ==
    [id : Nat, entries : [Scopes -> EntryType], pend : [Scopes -> Times], dirty : BOOLEAN,
     syncPv : Nat, mode : Modes, grant : Grants, pending : Acks, pinned : Nat, read : Acks,
     lkg : BOOLEAN, lastGood : Nat, lkgExp : Nat]
Files ==
    [pub : Nat, epoch : Nat, mode : Modes, grant : Grants, exp : Nat, good : Nat,
     entries : [Scopes -> EntryType]]
Policies == [pv : Versions, rules : [Scopes -> Versions], exp : Times]

(* Two assignments of decisions mean the same.                             *)
SameIntent(e, f) == e.kind = f.kind /\ e.pv = f.pv /\ e.rev = f.rev
Alike(A, B) == \A s \in Scopes : SameIntent(A[s], B[s])

(* What is known of a publisher's record q: a rule's decision is no longer *)
(* good than what the last loaded policy, at time g, allows.               *)
Grounded(q, g) ==
    \A s \in Scopes : IsRule(q.entries[s]) =>
        /\ 0 < q.lastGood /\ q.lastGood <= g
        /\ q.entries[s].exp <= g + LkgTtl /\ q.pend[s] <= g + LkgTtl
PubOK(q, g) ==
    /\ q \in Publishers /\ q.id >= 1 /\ q.lastGood <= now /\ g \in Nat
    /\ (q.mode = "enforce") <=> (q.grant # NoGrant)
    /\ Grounded(q, g)

(* What the publisher's own steps may do: a grant ends or stays with what  *)
(* it was given for, and what is not to be flushed has not changed.        *)
Moves(q, r) ==
    /\ r.id = q.id /\ r.read = q.read /\ r.lastGood = q.lastGood
    /\ r.pending \in {q.pending, NoAck}
    /\ r.grant \in {q.grant, NoGrant}
    /\ r.grant # NoGrant => Alike(r.entries, q.entries)
    /\ ~r.dirty => ~q.dirty /\ r.grant = q.grant /\ Alike(r.entries, q.entries)

(* The bounds that the clock and the constants give.                       *)
ClockOK == now \in 1..MaxTime

-----------------------------------------------------------------------------
(* A decision with another expiry.                                         *)
Until(e, x) == [e EXCEPT !.exp = x]

(* Decisions are records of five fields, of which the expiry may change.   *)
LEMMA EntryFacts ==
    ASSUME NEW e \in EntryType
    PROVE  /\ e.kind \in EntryKinds /\ e.pv \in Versions /\ e.rev \in Versions
           /\ e.exp \in Times /\ e.action \in {"none", "keep", "sample", "drop"}
           /\ \A x \in Times : /\ Until(e, x) \in EntryType /\ Until(e, x).exp = x
                               /\ Until(e, x).action = e.action
                               /\ SameIntent(Until(e, x), e)
           /\ [e EXCEPT !.action = "sample"] \in EntryType
           /\ [e EXCEPT !.action = "sample"].exp = e.exp
           /\ SameIntent([e EXCEPT !.action = "sample"], e)
  BY DEF EntryType, EntryKinds, Versions, SameIntent, Until

(* A decision is put together from parts of the right types.               *)
LEMMA EntryMade ==
    ASSUME NEW k \in EntryKinds, NEW v \in Versions, NEW r \in Versions,
           NEW a \in {"none", "keep", "sample", "drop"}, NEW x \in Times
    PROVE  /\ Entry(k, v, r, a, x) \in EntryType
           /\ Entry(k, v, r, a, x).kind = k /\ Entry(k, v, r, a, x).exp = x
           /\ Entry(k, v, r, a, x).rev = r /\ Entry(k, v, r, a, x).action = a
  BY DEF EntryType, EntryKinds, Versions, Entry

(* There is time for a lease and for the time of grace.                    *)
LEMMA TimeFacts ==
    ASSUME ClockOK
    PROVE  /\ now \in Nat /\ now >= 1 /\ Ttl \in Nat /\ Ttl >= 1 /\ LkgTtl \in Nat /\ Lead \in Nat
           /\ Ttl <= LkgTtl /\ MaxTime \in Nat /\ Times \subseteq Nat /\ 0 \in Times
           /\ now \in Times /\ now + Ttl \in Times
           /\ \A g \in Nat : g <= now => g + LkgTtl \in Times /\ g + Ttl \in Times
           /\ \A x \in Times : x \in Nat
           /\ \A x \in Times, y \in Times : Greater(x, y) \in Times
  BY TimeAssumption DEF ClockOK, Times, Greater

(* The decision for nothing.                                               *)
LEMMA NoEntryFacts ==
    /\ NoEntry \in EntryType /\ NoEntry.kind = "none" /\ NoEntry.exp = 0 /\ NoEntry.rev = 0
    /\ NoEntry.pv = 0
<1>1. 0 \in Times /\ 0 \in Versions
  BY TimeAssumption, BoundAssumption DEF Times, Versions
<1>2. QED
  BY <1>1 DEF NoEntry, Entry, EntryType, Versions

(* To be alike is an equivalence.                                          *)
LEMMA AlikeFacts ==
    /\ \A A : Alike(A, A)
    /\ \A A, B : Alike(A, B) => Alike(B, A)
    /\ \A A, B, C : Alike(A, B) /\ Alike(B, C) => Alike(A, C)
  BY DEF Alike, SameIntent

(* Assignments that are alike have the same intents, and conversely.       *)
LEMMA AlikeIntents ==
    ASSUME NEW A, NEW B
    PROVE  Alike(A, B) <=> Intents(A) = Intents(B)
<1>1. ASSUME Alike(A, B) PROVE Intents(A) = Intents(B)
  BY <1>1 DEF Alike, SameIntent, Intents, Intent
<1>2. ASSUME Intents(A) = Intents(B), NEW s \in Scopes PROVE SameIntent(A[s], B[s])
  <2>1. Intents(A)[s] = Intent(A[s]) /\ Intents(B)[s] = Intent(B[s])
    BY DEF Intents
  <2>2. Intent(A[s]) = Intent(B[s])
    BY <1>2, <2>1
  <2>3. QED
    BY <2>2 DEF Intent, SameIntent
<1>3. QED
  BY <1>1, <1>2 DEF Alike

(* The intents of an assignment are of the type a grant has for them.      *)
LEMMA IntentsType ==
    ASSUME NEW A \in [Scopes -> EntryType]
    PROVE  Intents(A) \in [Scopes -> EntryKinds \X Versions \X Versions]
<1>1. \A s \in Scopes : Intent(A[s]) \in EntryKinds \X Versions \X Versions
  BY EntryFacts DEF Intent
<1>2. QED
  BY <1>1 DEF Intents

(* The empty grant, acknowledgement and file are of their types.           *)
LEMMA NothingTyped ==
    /\ NoGrant \in Grants /\ NoAck \in Acks /\ NoFile \in Files
    /\ NoGrant.inst = 0 /\ NoAck.inst = 0 /\ NoAck.epoch = 0 /\ NoAck.pub = 0 /\ ~NoAck.ok
<1>1. [s \in Scopes |-> NoEntry] \in [Scopes -> EntryType]
  BY NoEntryFacts
<1>2. Intents([s \in Scopes |-> NoEntry]) \in [Scopes -> EntryKinds \X Versions \X Versions]
  BY <1>1, IntentsType
<1>3. NoGrant \in Grants /\ NoGrant.inst = 0
  BY <1>2 DEF NoGrant, Grants
<1>4. NoAck \in Acks /\ NoAck.inst = 0 /\ NoAck.epoch = 0 /\ NoAck.pub = 0 /\ ~NoAck.ok
  BY DEF NoAck, Acks
<1>5. QED
  BY <1>1, <1>3, <1>4 DEF NoFile, Files, Modes

(* What the publisher does to itself composes.                             *)
LEMMA MovesRefl ==
    ASSUME NEW q
    PROVE  Moves(q, q)
  BY AlikeFacts DEF Moves

(* What is a move after a move is one.                                     *)
LEMMA MovesCompose ==
    ASSUME NEW q, NEW r, NEW t, Moves(q, r), Moves(r, t)
    PROVE  Moves(q, t)
<1>1. /\ t.id = q.id /\ t.read = q.read /\ t.lastGood = q.lastGood
      /\ t.pending \in {q.pending, NoAck} /\ t.grant \in {q.grant, NoGrant}
  BY DEF Moves
<1>2. t.grant # NoGrant => Alike(t.entries, q.entries)
  <2>1. SUFFICES ASSUME t.grant # NoGrant PROVE Alike(t.entries, q.entries)
    OBVIOUS
  <2>2. Alike(t.entries, r.entries) /\ r.grant # NoGrant
    BY <2>1 DEF Moves
  <2>3. Alike(r.entries, q.entries)
    BY <2>2 DEF Moves
  <2>4. QED
    BY <2>2, <2>3, AlikeFacts, Zenon
<1>3. ~t.dirty => ~q.dirty /\ t.grant = q.grant /\ Alike(t.entries, q.entries)
  <2>1. SUFFICES ASSUME ~t.dirty PROVE ~q.dirty /\ t.grant = q.grant /\ Alike(t.entries, q.entries)
    OBVIOUS
  <2>2. ~r.dirty /\ t.grant = r.grant /\ Alike(t.entries, r.entries)
    BY <2>1, Zenon DEF Moves
  <2>3. ~q.dirty /\ r.grant = q.grant /\ Alike(r.entries, q.entries)
    BY <2>2, Zenon DEF Moves
  <2>4. QED
    BY <2>2, <2>3, AlikeFacts, Zenon
<1>4. QED
  BY <1>1, <1>2, <1>3, Zenon DEF Moves
-----------------------------------------------------------------------------
(* A publisher's record that is to be flushed and has no grant is one the  *)
(* publisher may always move to.                                           *)
Reset(q, r) ==
    /\ r.id = q.id /\ r.read = q.read /\ r.lastGood = q.lastGood
    /\ r.dirty /\ r.grant = NoGrant /\ r.pending = NoAck

(* Taking the grant back is a move.                                        *)
LEMMA ResetMoves ==
    ASSUME NEW q, NEW r, Reset(q, r)
    PROVE  Moves(q, r)
  BY DEF Reset, Moves

(* Every change marks the record for the next flush.                       *)
LEMMA AdvancedOK ==
    ASSUME NEW q, NEW g, PubOK(q, g)
    PROVE  /\ PubOK(Advanced(q), g) /\ Moves(q, Advanced(q)) /\ Advanced(q).dirty
           /\ Advanced(q) = [q EXCEPT !.dirty = TRUE]
           /\ Advanced(q).grant = q.grant /\ Advanced(q).entries = q.entries
<1> DEFINE r == [q EXCEPT !.dirty = TRUE]
<1>1. /\ r \in Publishers /\ r.dirty /\ r.id = q.id /\ r.read = q.read /\ r.lastGood = q.lastGood
      /\ r.pending = q.pending /\ r.grant = q.grant /\ r.entries = q.entries /\ r.mode = q.mode
      /\ r.pend = q.pend
  BY DEF PubOK, Publishers
<1>2. Advanced(q) = r
  BY DEF Advanced
<1> HIDE DEF r
<1>3. PubOK(r, g)
  BY <1>1 DEF PubOK, Grounded
<1>4. Moves(q, r)
  BY <1>1, AlikeFacts DEF Moves
<1>5. QED
  BY <1>1, <1>2, <1>3, <1>4 DEF r

(* revokeActivation leaves a preview without a grant.                      *)
LEMMA RevokedOK ==
    ASSUME NEW q, NEW g, PubOK(q, g)
    PROVE  /\ PubOK(Revoked(q), g)
           /\ Revoked(q).id = q.id /\ Revoked(q).read = q.read
           /\ Revoked(q).lastGood = q.lastGood /\ Revoked(q).dirty = q.dirty
           /\ Revoked(q).grant = NoGrant /\ Revoked(q).pending = NoAck
           /\ Revoked(q).entries = q.entries /\ Revoked(q).lkg = q.lkg
<1> DEFINE r == Revoked(q)
<1>1. /\ r \in Publishers /\ r.id = q.id /\ r.read = q.read /\ r.lastGood = q.lastGood
      /\ r.dirty = q.dirty /\ r.grant = NoGrant /\ r.pending = NoAck /\ r.entries = q.entries
      /\ r.pend = q.pend /\ r.mode = "preview" /\ r.lkg = q.lkg
  BY NothingTyped DEF PubOK, Publishers, Revoked, Modes
<1> HIDE DEF r
<1>2. PubOK(r, g)
  BY <1>1 DEF PubOK, Grounded
<1>3. QED
  BY <1>1, <1>2 DEF r

(* The two together, in the order the code has them here and there.        *)
LEMMA TakenBack ==
    ASSUME NEW q, NEW g, PubOK(q, g)
    PROVE  /\ PubOK(Advanced(Revoked(q)), g) /\ Reset(q, Advanced(Revoked(q)))
           /\ PubOK(Revoked(Advanced(q)), g) /\ Reset(q, Revoked(Advanced(q)))
<1>1. PubOK(Revoked(q), g)
  BY RevokedOK
<1>2. /\ PubOK(Advanced(Revoked(q)), g) /\ Moves(Revoked(q), Advanced(Revoked(q)))
      /\ Advanced(Revoked(q)).dirty /\ Advanced(Revoked(q)).grant = Revoked(q).grant
  BY <1>1, AdvancedOK
<1>3. Reset(q, Advanced(Revoked(q)))
  BY <1>2, RevokedOK DEF Moves, Reset
<1>4. PubOK(Advanced(q), g) /\ Moves(q, Advanced(q)) /\ Advanced(q).dirty
  BY AdvancedOK
<1>5. PubOK(Revoked(Advanced(q)), g) /\ Reset(q, Revoked(Advanced(q)))
  BY <1>4, RevokedOK DEF Moves, Reset
<1>6. QED
  BY <1>2, <1>3, <1>5

(* What is taken out of the decisions leaves the others as they are.       *)
LEMMA WithoutOK ==
    ASSUME NEW q, NEW g, NEW G, PubOK(q, g), ClockOK
    PROVE  /\ PubOK(Without(q, G), g)
           /\ Without(q, G).id = q.id /\ Without(q, G).read = q.read
           /\ Without(q, G).lastGood = q.lastGood
<1> DEFINE r == Without(q, G)
           ents == [s \in Scopes |-> IF s \in G THEN NoEntry ELSE q.entries[s]]
           pd == [s \in Scopes |-> IF s \in G THEN 0 ELSE q.pend[s]]
<1>1. ents \in [Scopes -> EntryType] /\ pd \in [Scopes -> Times]
  <2>1. q.entries \in [Scopes -> EntryType] /\ q.pend \in [Scopes -> Times] /\ 0 \in Times
    BY TimeFacts DEF PubOK, Publishers
  <2>2. QED
    BY <2>1, NoEntryFacts
<1>2. r = [q EXCEPT !.entries = ents, !.pend = pd]
  BY DEF Without
<1>3. \A s \in Scopes : (ents[s] = q.entries[s] /\ pd[s] = q.pend[s]) \/ ents[s] = NoEntry
  OBVIOUS
<1> HIDE DEF ents, pd, r
<1>4. /\ r \in Publishers /\ r.id = q.id /\ r.read = q.read /\ r.lastGood = q.lastGood
      /\ r.grant = q.grant /\ r.mode = q.mode /\ r.entries = ents /\ r.pend = pd
  BY <1>1, <1>2 DEF PubOK, Publishers
<1>5. Grounded(r, g)
  BY <1>3, <1>4, NoEntryFacts DEF PubOK, Grounded, IsRule
<1>6. PubOK(r, g)
  BY <1>4, <1>5 DEF PubOK
<1>7. QED
  BY <1>4, <1>6 DEF r

(* prune: what has expired goes, and with it the grant.                    *)
LEMMA PrunedOK ==
    ASSUME NEW q, NEW g, PubOK(q, g), ClockOK
    PROVE  PubOK(Pruned(q), g) /\ (Pruned(q) = q \/ Reset(q, Pruned(q)))
<1> DEFINE w == Without(q, Expired(q))
<1>1. PubOK(w, g) /\ w.id = q.id /\ w.read = q.read /\ w.lastGood = q.lastGood
  BY WithoutOK
<1> HIDE DEF w
<1>2. PubOK(Advanced(Revoked(w)), g) /\ Reset(w, Advanced(Revoked(w)))
  BY <1>1, TakenBack
<1>3. Reset(q, Advanced(Revoked(w)))
  BY <1>1, <1>2 DEF Reset
<1>4. Pruned(q) = q \/ Pruned(q) = Advanced(Revoked(w))
  BY DEF Pruned, w
<1>5. QED
  BY <1>2, <1>3, <1>4

(* refreshSafety: nor does a grant outlive its time.                       *)
LEMMA SafeOK ==
    ASSUME NEW q, NEW g, PubOK(q, g), ClockOK
    PROVE  /\ PubOK(Safe(q), g)
           /\ Safe(q) = q \/ Reset(q, Safe(q))
           /\ Moves(q, Safe(q))
<1> DEFINE r == Pruned(q)
<1>1. PubOK(r, g) /\ (r = q \/ Reset(q, r))
  BY PrunedOK
<1>2. Safe(q) = r \/ Safe(q) = Advanced(Revoked(r))
  BY DEF Safe
<1> HIDE DEF r
<1>3. PubOK(Advanced(Revoked(r)), g) /\ Reset(r, Advanced(Revoked(r)))
  BY <1>1, TakenBack
<1>4. Reset(q, Advanced(Revoked(r)))
  BY <1>1, <1>3 DEF Reset
<1>5. QED
  BY <1>1, <1>2, <1>3, <1>4, ResetMoves, MovesRefl

(* applyPendingExpiryRefreshes: decisions last longer, and mean the same.  *)
LEMMA WithPendingOK ==
    ASSUME NEW q, NEW g, PubOK(q, g), ClockOK
    PROVE  PubOK(WithPending(q), g) /\ Moves(q, WithPending(q))
<1> DEFINE r == WithPending(q)
           due(s) == q.pend[s] > now /\ q.entries[s] # NoEntry
           ents == [s \in Scopes |-> IF due(s)
                       THEN [q.entries[s] EXCEPT !.exp = Greater(q.pend[s], q.entries[s].exp)]
                       ELSE q.entries[s]]
           pd == [s \in Scopes |-> 0]
<1>1. CASE q.lkg
  BY <1>1, MovesRefl DEF WithPending
<1>2. CASE ~q.lkg
  <2>1. r = [q EXCEPT !.entries = ents, !.pend = pd]
    BY <1>2 DEF WithPending
  <2>2. q.entries \in [Scopes -> EntryType] /\ q.pend \in [Scopes -> Times]
    BY DEF PubOK, Publishers
  <2>3. \A s \in Scopes : ents[s] \in EntryType /\ SameIntent(ents[s], q.entries[s])
                          /\ (ents[s].exp = q.entries[s].exp \/ ents[s].exp = q.pend[s])
    <3>1. SUFFICES ASSUME NEW s \in Scopes
                   PROVE  ents[s] \in EntryType /\ SameIntent(ents[s], q.entries[s])
                          /\ (ents[s].exp = q.entries[s].exp \/ ents[s].exp = q.pend[s])
      OBVIOUS
    <3>2. q.entries[s] \in EntryType /\ q.pend[s] \in Times /\ q.entries[s].exp \in Times
      BY <2>2, EntryFacts
    <3>3. Greater(q.pend[s], q.entries[s].exp) \in Times
          /\ Greater(q.pend[s], q.entries[s].exp) \in {q.pend[s], q.entries[s].exp}
      BY <3>2, TimeFacts DEF Greater
    <3>4. CASE due(s)
      <4>1. PICK x \in Times : x = Greater(q.pend[s], q.entries[s].exp)
        BY <3>3
      <4>2. ents[s] = Until(q.entries[s], x)
        BY <3>4, <4>1 DEF Until
      <4>3. /\ Until(q.entries[s], x) \in EntryType /\ Until(q.entries[s], x).exp = x
            /\ SameIntent(Until(q.entries[s], x), q.entries[s])
        BY <3>2, <4>1, EntryFacts
      <4> HIDE DEF ents
      <4>4. QED
        BY <4>1, <4>2, <4>3, <3>3
    <3>5. CASE ~due(s)
      <4>1. ents[s] = q.entries[s]
        BY <3>5
      <4>2. QED
        BY <4>1, <3>2 DEF SameIntent
    <3>6. QED
      BY <3>4, <3>5
  <2>4. ents \in [Scopes -> EntryType] /\ pd \in [Scopes -> Times]
    BY <2>3, TimeFacts
  <2>5. \A s \in Scopes : pd[s] = 0
    OBVIOUS
  <2> HIDE DEF ents, pd, r
  <2>6. /\ r \in Publishers /\ r.id = q.id /\ r.read = q.read /\ r.lastGood = q.lastGood
        /\ r.grant = q.grant /\ r.mode = q.mode /\ r.entries = ents /\ r.pend = pd
        /\ r.dirty = q.dirty /\ r.pending = q.pending
    BY <2>1, <2>4 DEF PubOK, Publishers
  <2>7. Alike(r.entries, q.entries)
    BY <2>3, <2>6 DEF Alike
  <2>8. Moves(q, r)
    BY <2>6, <2>7 DEF Moves
  <2>9. Grounded(r, g)
    <3>1. ASSUME NEW s \in Scopes, IsRule(r.entries[s])
          PROVE  /\ 0 < r.lastGood /\ r.lastGood <= g
                 /\ r.entries[s].exp <= g + LkgTtl /\ r.pend[s] <= g + LkgTtl
      <4>1. IsRule(q.entries[s])
        BY <3>1, <2>3, <2>6 DEF IsRule, SameIntent
      <4>2. /\ 0 < q.lastGood /\ q.lastGood <= g
            /\ q.entries[s].exp <= g + LkgTtl /\ q.pend[s] <= g + LkgTtl
        BY <4>1 DEF PubOK, Grounded
      <4>3. r.entries[s].exp <= g + LkgTtl
        BY <4>2, <2>3, <2>6
      <4>4. r.pend[s] = 0 /\ q.lastGood \in Nat /\ LkgTtl \in Nat
        BY <2>5, <2>6, TimeFacts DEF PubOK, Publishers
      <4>5. r.pend[s] <= g + LkgTtl
        <5>1. q.pend[s] \in Nat
          BY <2>2, TimeFacts
        <5>2. g \in Nat
          BY DEF PubOK
        <5>3. QED
          BY <4>2, <4>4, <5>1, <5>2
      <4>6. QED
        BY <4>2, <4>3, <4>5, <2>6
    <3>2. QED
      BY <3>1 DEF Grounded
  <2>10. PubOK(r, g)
    BY <2>6, <2>9 DEF PubOK
  <2>11. QED
    BY <2>8, <2>10 DEF r
<1>3. QED
  BY <1>1, <1>2
(* An expiry that is not due yet is put aside.                             *)
LEMMA StagedOK ==
    ASSUME NEW q, NEW g, PubOK(q, g), ClockOK, NEW s \in Scopes, NEW x \in Times,
           IsRule(q.entries[s]) => x <= g + LkgTtl
    PROVE  PubOK(Staged(q, s, x), g) /\ Moves(q, Staged(q, s, x))
<1> DEFINE r == Staged(q, s, x)
           pd == [q.pend EXCEPT ![s] = Greater(q.pend[s], x)]
<1>1. q.pend \in [Scopes -> Times] /\ q.pend[s] \in Times
  BY DEF PubOK, Publishers
<1>2. Greater(q.pend[s], x) \in Times /\ Greater(q.pend[s], x) \in {q.pend[s], x}
  BY <1>1, TimeFacts DEF Greater
<1>3. pd \in [Scopes -> Times] /\ \A t \in Scopes : t # s => pd[t] = q.pend[t]
  BY <1>1, <1>2
<1>4. pd[s] \in {q.pend[s], x}
  BY <1>1, <1>2
<1>5. r = [q EXCEPT !.pend = pd]
  BY <1>1 DEF Staged, PubOK, Publishers
<1> HIDE DEF pd, r
<1>6. /\ r \in Publishers /\ r.id = q.id /\ r.read = q.read /\ r.lastGood = q.lastGood
      /\ r.grant = q.grant /\ r.mode = q.mode /\ r.entries = q.entries /\ r.pend = pd
      /\ r.dirty = q.dirty /\ r.pending = q.pending
  BY <1>3, <1>5 DEF PubOK, Publishers
<1>7. Moves(q, r)
  BY <1>6, AlikeFacts DEF Moves
<1>8. Grounded(r, g)
  BY <1>3, <1>4, <1>6 DEF PubOK, Grounded
<1>9. PubOK(r, g)
  BY <1>6, <1>8 DEF PubOK
<1>10. QED
  BY <1>7, <1>9 DEF r

(* A decision takes the place of another.                                  *)
Placed(q, s, e) == [Advanced(q) EXCEPT !.pend[s] = 0, !.entries[s] = e]

(* What takes the place is no longer good than the policy allows.          *)
LEMMA PlacedOK ==
    ASSUME NEW q, NEW g, PubOK(q, g), ClockOK, NEW s \in Scopes, NEW e \in EntryType,
           IsRule(e) => 0 < q.lastGood /\ q.lastGood <= g /\ e.exp <= g + LkgTtl
    PROVE  /\ PubOK(Placed(q, s, e), g)
           /\ Placed(q, s, e).id = q.id /\ Placed(q, s, e).read = q.read
           /\ Placed(q, s, e).lastGood = q.lastGood /\ Placed(q, s, e).dirty
           /\ Placed(q, s, e).pending = q.pending /\ Placed(q, s, e).grant = q.grant
<1> DEFINE r == Placed(q, s, e)
           ents == [q.entries EXCEPT ![s] = e]
           pd == [q.pend EXCEPT ![s] = 0]
<1>1. q.entries \in [Scopes -> EntryType] /\ q.pend \in [Scopes -> Times] /\ 0 \in Times
  BY TimeFacts DEF PubOK, Publishers
<1>2. /\ ents \in [Scopes -> EntryType] /\ pd \in [Scopes -> Times]
      /\ ents[s] = e /\ pd[s] = 0
      /\ \A t \in Scopes : t # s => ents[t] = q.entries[t] /\ pd[t] = q.pend[t]
  BY <1>1
<1>3. r = [q EXCEPT !.dirty = TRUE, !.pend = pd, !.entries = ents]
  BY <1>1 DEF Placed, Advanced, PubOK, Publishers
<1> HIDE DEF ents, pd, r
<1>4. /\ r \in Publishers /\ r.id = q.id /\ r.read = q.read /\ r.lastGood = q.lastGood
      /\ r.grant = q.grant /\ r.mode = q.mode /\ r.entries = ents /\ r.pend = pd
      /\ r.dirty /\ r.pending = q.pending
  BY <1>2, <1>3 DEF PubOK, Publishers
<1>5. g \in Nat /\ LkgTtl \in Nat
  BY TimeFacts DEF PubOK
<1>6. Grounded(r, g)
  <2>1. ASSUME NEW t \in Scopes, IsRule(r.entries[t])
        PROVE  /\ 0 < r.lastGood /\ r.lastGood <= g
               /\ r.entries[t].exp <= g + LkgTtl /\ r.pend[t] <= g + LkgTtl
    <3>1. CASE t = s
      BY <2>1, <3>1, <1>2, <1>4, <1>5
    <3>2. CASE t # s
      BY <2>1, <3>2, <1>2, <1>4 DEF PubOK, Grounded
    <3>3. QED
      BY <3>1, <3>2
  <2>2. QED
    BY <2>1 DEF Grounded
<1>7. PubOK(r, g)
  BY <1>4, <1>6 DEF PubOK
<1>8. QED
  BY <1>4, <1>7 DEF r

(* What becomes of a decision is the new one, or that a rule and an agent  *)
(* share the cgroup.                                                       *)
LEMMA SelectedOK ==
    ASSUME NEW e, NEW f \in EntryType, ClockOK
    PROVE  /\ Selected(e, f) \in EntryType
           /\ Selected(e, f) = f \/ Selected(e, f).kind = "shared"
<1>1. now + Ttl \in Times /\ 0 \in Versions
  BY TimeFacts, BoundAssumption DEF Versions
<1>2. /\ Entry("shared", 0, 0, "keep", now + Ttl) \in EntryType
      /\ Entry("shared", 0, 0, "keep", now + Ttl).kind = "shared"
  BY <1>1, EntryMade DEF EntryKinds
<1>3. QED
  BY <1>2 DEF Selected

(* observeDecision: a change takes the grant back, a refresh that is due   *)
(* does too, and one that is not only waits.                               *)
LEMMA ObservedOK ==
    ASSUME NEW q, NEW g, PubOK(q, g), ClockOK, NEW s \in Scopes, NEW f \in EntryType,
           IsRule(f) => 0 < q.lastGood /\ q.lastGood <= g /\ f.exp <= g + LkgTtl
    PROVE  PubOK(Observed(q, s, f), g) /\ Moves(q, Observed(q, s, f))
<1> DEFINE e == q.entries[s]
           sel == Selected(e, f)
           changed == Intent(e) # Intent(sel)
           later == e # NoEntry /\ sel.exp > e.exp
           due == later /\ e.exp - now <= Lead
           r == Placed(q, s, sel)
           t == IF changed \/ q.mode = "enforce" THEN Revoked(r) ELSE r
<1>1. sel \in EntryType /\ (sel = f \/ sel.kind = "shared")
  BY SelectedOK
<1>2. IsRule(sel) => sel = f
  BY <1>1 DEF IsRule
<1>3. Observed(q, s, f) = IF changed \/ due THEN Pruned(WithPending(t))
                          ELSE IF later THEN Staged(q, s, sel.exp) ELSE q
  BY DEF Observed, Placed
<1>4. CASE changed \/ due
  <2> HIDE DEF sel, changed, due
  <2>1. /\ PubOK(r, g) /\ r.id = q.id /\ r.read = q.read /\ r.lastGood = q.lastGood
        /\ r.dirty /\ r.pending = q.pending /\ r.grant = q.grant
    BY <1>1, <1>2, PlacedOK
  <2> HIDE DEF r
  <2>2. PubOK(Revoked(r), g) /\ Reset(q, Revoked(r))
    BY <2>1, RevokedOK DEF Reset
  <2>3. ASSUME ~(changed \/ q.mode = "enforce") PROVE Moves(q, r)
    <3>1. q.grant = NoGrant
      BY <2>3 DEF PubOK, Publishers, Modes
    <3>2. QED
      BY <2>1, <3>1 DEF Moves
  <2>4. t = Revoked(r) \/ (~(changed \/ q.mode = "enforce") /\ t = r)
    BY DEF t
  <2>5. PubOK(t, g) /\ Moves(q, t)
    BY <2>1, <2>2, <2>3, <2>4, ResetMoves
  <2> HIDE DEF t
  <2>6. PubOK(WithPending(t), g) /\ Moves(q, WithPending(t))
    BY <2>5, WithPendingOK, MovesCompose
  <2>7. PubOK(Pruned(WithPending(t)), g) /\ Moves(WithPending(t), Pruned(WithPending(t)))
    BY <2>6, PrunedOK, ResetMoves, MovesRefl
  <2>8. Moves(q, Pruned(WithPending(t)))
    BY <2>6, <2>7, MovesCompose
  <2>9. QED
    BY <1>3, <1>4, <2>7, <2>8
<1>5. CASE ~(changed \/ due) /\ later
  <2>1. sel.exp \in Times
    BY <1>1, EntryFacts
  <2>2. IsRule(e) => sel.exp <= g + LkgTtl
    <3>1. SUFFICES ASSUME IsRule(e) PROVE sel.exp <= g + LkgTtl
      OBVIOUS
    <3>2. sel.kind = e.kind
      <4> HIDE DEF sel, e
      <4>1. QED
        BY <1>5 DEF Intent
    <3>3. IsRule(sel)
      BY <3>1, <3>2 DEF IsRule
    <3>4. QED
      BY <1>2, <3>3
  <2>3. PubOK(Staged(q, s, sel.exp), g) /\ Moves(q, Staged(q, s, sel.exp))
    BY <2>1, <2>2, StagedOK
  <2>4. QED
    BY <1>3, <1>5, <2>3
<1>6. CASE ~(changed \/ due) /\ ~later
  BY <1>3, <1>6, MovesRefl
<1>7. QED
  BY <1>4, <1>5, <1>6

(* observeDecision with what the kernel does anyway only takes out.        *)
LEMMA ObservedDefaultOK ==
    ASSUME NEW q, NEW g, PubOK(q, g), ClockOK, NEW s
    PROVE  PubOK(ObservedDefault(q, s), g) /\ Moves(q, ObservedDefault(q, s))
<1> DEFINE w == Without(q, {s})
<1>1. PubOK(w, g) /\ w.id = q.id /\ w.read = q.read /\ w.lastGood = q.lastGood
  BY WithoutOK
<1>2. ObservedDefault(q, s) = Revoked(Advanced(w)) \/ ObservedDefault(q, s) = q
  BY DEF ObservedDefault
<1> HIDE DEF w
<1>3. PubOK(Revoked(Advanced(w)), g) /\ Reset(w, Revoked(Advanced(w)))
  BY <1>1, TakenBack
<1>4. Reset(q, Revoked(Advanced(w)))
  BY <1>1, <1>3 DEF Reset
<1>5. QED
  BY <1>2, <1>3, <1>4, ResetMoves, MovesRefl

(* The version that has been synchronized is of no consequence here.       *)
LEMMA SyncedOK ==
    ASSUME NEW q, NEW g, PubOK(q, g), NEW v \in Nat
    PROVE  /\ PubOK([q EXCEPT !.syncPv = v], g) /\ Moves(q, [q EXCEPT !.syncPv = v])
<1> DEFINE r == [q EXCEPT !.syncPv = v]
<1>1. /\ r \in Publishers /\ r.dirty = q.dirty /\ r.id = q.id /\ r.read = q.read
      /\ r.lastGood = q.lastGood /\ r.pending = q.pending /\ r.grant = q.grant
      /\ r.entries = q.entries /\ r.mode = q.mode /\ r.pend = q.pend
  BY DEF PubOK, Publishers
<1> HIDE DEF r
<1>2. PubOK(r, g)
  BY <1>1 DEF PubOK, Grounded
<1>3. Moves(q, r)
  BY <1>1, AlikeFacts DEF Moves
<1>4. QED
  BY <1>2, <1>3 DEF r

(* What a policy no longer decides goes.                                   *)
LEMMA RemovedOK ==
    ASSUME NEW q, NEW g, PubOK(q, g), ClockOK, NEW policy, policy.pv \in Nat
    PROVE  PubOK(Removed(q, policy), g) /\ Moves(q, Removed(q, policy))
<1> DEFINE gone == {s \in Scopes : q.syncPv # policy.pv /\ IsRule(q.entries[s])
                                     /\ policy.rules[s] = 0}
           r == [q EXCEPT !.syncPv = policy.pv]
           w == Without(r, gone)
<1>1. Removed(q, policy) = IF gone = {} THEN r ELSE Revoked(Advanced(w))
  BY DEF Removed
<1>2. PubOK(r, g) /\ Moves(q, r)
  BY SyncedOK
<1> HIDE DEF r, gone
<1>3. PubOK(w, g) /\ w.id = r.id /\ w.read = r.read /\ w.lastGood = r.lastGood
  BY <1>2, WithoutOK
<1> HIDE DEF w
<1>4. PubOK(Revoked(Advanced(w)), g) /\ Reset(w, Revoked(Advanced(w)))
  BY <1>3, TakenBack
<1>5. Reset(r, Revoked(Advanced(w)))
  BY <1>3, <1>4 DEF Reset
<1>6. Moves(q, Revoked(Advanced(w)))
  BY <1>2, <1>5, ResetMoves, MovesCompose
<1>7. QED
  BY <1>1, <1>2, <1>4, <1>6
-----------------------------------------------------------------------------
(* A set of numbers that is not empty has a least one.                     *)
LEMMA LeastExists ==
    ASSUME NEW S \in SUBSET Nat, S # {}
    PROVE  \E x \in S : \A y \in S : x <= y
<1>1. PICK x \in S : \A y \in S : ~(<<y, x>> \in OpToRel(<, Nat))
  BY NatLessThanWellFounded, WFMin
<1>2. \A y \in S : x <= y
  <2>1. SUFFICES ASSUME NEW y \in S, y < x PROVE FALSE
    OBVIOUS
  <2>2. <<y, x>> \in {ss \in Nat \X Nat : ss[1] < ss[2]}
    BY <2>1
  <2>3. QED
    BY <1>1, <2>2 DEF OpToRel
<1>3. QED
  BY <1>2

(* The greatest number of a set up to m that m is in.                      *)
LEMMA MaxIs ==
    ASSUME NEW m \in Nat, NEW T \in SUBSET (1..m), m \in T
    PROVE  Max(T) = m
<1>1. m \in T /\ \A y \in T : m >= y
  OBVIOUS
<1>2. Max(T) \in T /\ \A y \in T : Max(T) >= y
  BY <1>1, Zenon DEF Max
<1> DEFINE x == Max(T)
<1>3. x \in T /\ x >= m
  BY <1>1, <1>2
<1> HIDE DEF x
<1>4. x = m
  BY <1>3
<1>5. QED
  BY <1>4 DEF x

(* One decision of a synchronization.                                      *)
Turn(a, s, policy) ==
    IF policy.rules[s] = 0 THEN a ELSE Observed(a, s, Decision(policy, s, "drop"))

Turning(h, n, a, policy) ==
    h = [T \in SUBSET (1..n) |->
            IF T = {} THEN a ELSE Turn(h[T \ {Max(T)}], Inventory[Max(T)], policy)]

(* The synchronization is defined for every policy.                        *)
LEMMA TurningExists ==
    ASSUME NEW a, NEW policy, NEW n \in Nat
    PROVE  \E h : Turning(h, n, a, policy)
<1> DEFINE bad == {m \in Nat : \A h : ~Turning(h, m, a, policy)}
<1>1. SUFFICES ASSUME bad # {} PROVE FALSE
  OBVIOUS
<1>2. PICK m \in bad : \A k \in bad : m <= k
  BY <1>1, LeastExists
<1>3. m # 0
  <2>1. SUBSET (1..0) = {{}}
    OBVIOUS
  <2> DEFINE h == [T \in {{}} |-> a]
  <2>2. h = [T \in {{}} |-> IF T = {} THEN a ELSE Turn(h[T \ {Max(T)}], Inventory[Max(T)], policy)]
    <3> HIDE DEF Turning
    <3>1. \A T \in {{}} : h[T] = IF T = {} THEN a
                                 ELSE Turn(h[T \ {Max(T)}], Inventory[Max(T)], policy)
      OBVIOUS
    <3>2. QED
      BY <3>1
  <2>3. Turning(h, 0, a, policy)
    BY <2>1, <2>2, Zenon DEF Turning
  <2>4. QED
    BY <2>3, <1>2, Zenon
<1>4. m - 1 \in Nat /\ m - 1 \notin bad /\ m \in Nat
  BY <1>2, <1>3
<1>5. PICK f : Turning(f, m - 1, a, policy)
  BY <1>4
<1> DEFINE g == [T \in SUBSET (1..m) |-> IF m \in T THEN Turn(f[T \ {m}], Inventory[m], policy)
                                         ELSE f[T]]
<1>6. ASSUME NEW T \in SUBSET (1..m)
      PROVE  g[T] = IF T = {} THEN a ELSE Turn(g[T \ {Max(T)}], Inventory[Max(T)], policy)
  <2>1. g[T] = IF m \in T THEN Turn(f[T \ {m}], Inventory[m], policy) ELSE f[T]
    OBVIOUS
  <2>2. CASE m \in T
    <3>1. Max(T) = m
      BY <2>2, <1>4, MaxIs
    <3>2. T \ {m} \in SUBSET (1..m) /\ m \notin T \ {m}
      OBVIOUS
    <3>3. g[T \ {m}] = f[T \ {m}]
      BY <3>2
    <3>4. T # {}
      BY <2>2
    <3> HIDE DEF g
    <3>5. QED
      BY <2>1, <2>2, <3>1, <3>3, <3>4
  <2>3. CASE m \notin T
    <3>1. T \in SUBSET (1..(m - 1))
      BY <2>3, <1>4
    <3>2. f[T] = IF T = {} THEN a ELSE Turn(f[T \ {Max(T)}], Inventory[Max(T)], policy)
      BY <1>5, <3>1 DEF Turning
    <3>3. /\ T \ {Max(T)} \in SUBSET (1..m) /\ m \notin T \ {Max(T)}
      BY <2>3
    <3>4. g[T \ {Max(T)}] = f[T \ {Max(T)}]
      BY <3>3
    <3> HIDE DEF g
    <3>5. QED
      BY <2>1, <2>3, <3>2, <3>4
  <2>4. QED
    BY <2>2, <2>3
<1>7. DOMAIN g = SUBSET (1..m) /\ g = [T \in SUBSET (1..m) |-> g[T]]
  OBVIOUS
<1> HIDE DEF g
<1>8. g = [T \in SUBSET (1..m) |->
            IF T = {} THEN a ELSE Turn(g[T \ {Max(T)}], Inventory[Max(T)], policy)]
  BY <1>6, <1>7, Zenon
<1>9. Turning(g, m, a, policy)
  BY <1>8, Zenon DEF Turning
<1>10. QED
  BY <1>9, <1>2, Zenon

(* A synchronization ends in every set that its beginning is in and no turn leaves. *)
LEMMA SynchronizedIn ==
    ASSUME NEW q, NEW policy, NEW I, Removed(q, policy) \in I,
           \A a \in I : \A s \in Scopes : Turn(a, s, policy) \in I
    PROVE  Synchronized(q, policy) \in I
<1> DEFINE N == Len(Inventory)
           b == Removed(q, policy)
           h == CHOOSE h : Turning(h, N, b, policy)
<1>1. N \in Nat /\ DOMAIN Inventory = 1..N /\ \A i \in 1..N : Inventory[i] \in Scopes
  BY InventoryAssumption
<1>2. Turning(h, N, b, policy)
  BY <1>1, TurningExists
<1>3. Synchronized(q, policy) = h[1..N]
  BY <1>1 DEF Synchronized, FoldLeft, MapThenFoldSet, Turning, Turn
<1> HIDE DEF h, N, b
<1> DEFINE bad == {m \in 0..N : h[1..m] \notin I}
<1>4. SUFFICES ASSUME bad # {} PROVE FALSE
  BY <1>1, <1>3
<1>5. PICK m \in bad : \A k \in bad : m <= k
  <2>1. bad \in SUBSET Nat
    BY <1>1
  <2>2. QED
    BY <1>4, <2>1, LeastExists
<1>6. 1..m \in SUBSET (1..N) /\ m \in Nat /\ m <= N
  BY <1>1, <1>5
<1>7. h[1..m] = IF 1..m = {} THEN b ELSE Turn(h[(1..m) \ {Max(1..m)}], Inventory[Max(1..m)], policy)
  BY <1>2, <1>6 DEF Turning
<1>8. m # 0
  BY <1>5, <1>7 DEF b
<1>9. Max(1..m) = m /\ 1..m # {} /\ (1..m) \ {m} = 1..(m - 1) /\ m - 1 \in 0..N
  <2>1. m \in 1..m
    BY <1>6, <1>8
  <2>2. (1..m) \ {m} = 1..(m - 1) /\ m - 1 \in 0..N
    BY <1>1, <1>6, <1>8
  <2>3. QED
    BY <1>6, <2>1, <2>2, MaxIs
<1>10. h[1..(m - 1)] \in I
  BY <1>5, <1>6, <1>9
<1>11. Inventory[m] \in Scopes
  BY <1>1, <1>6, <1>8
<1>12. h[1..m] \in I
  BY <1>7, <1>9, <1>10, <1>11
<1>13. QED
  BY <1>5, <1>12
(* What a rule decides under a loaded policy.                              *)
LEMMA DecisionOK ==
    ASSUME NEW policy \in Policies, NEW s \in Scopes, NEW a \in {"drop", "sample"}
    PROVE  /\ Decision(policy, s, a) \in EntryType
           /\ Decision(policy, s, a).exp = policy.exp
<1>1. policy.pv \in Versions /\ policy.rules[s] \in Versions /\ policy.exp \in Times
  BY DEF Policies
<1>2. QED
  BY <1>1, EntryMade DEF Decision, EntryKinds

(* synchronizePolicyDecisions, however many decisions there are.           *)
LEMMA SynchronizedOK ==
    ASSUME NEW q, NEW g, PubOK(q, g), ClockOK, NEW policy \in Policies,
           0 < q.lastGood, q.lastGood <= g, policy.exp <= g + LkgTtl
    PROVE  PubOK(Synchronized(q, policy), g) /\ Moves(q, Synchronized(q, policy))
<1> DEFINE I == {r \in Publishers : PubOK(r, g) /\ Moves(q, r)}
<1>1. \A r : PubOK(r, g) /\ Moves(q, r) => r \in I
  BY DEF PubOK
<1>2. policy.pv \in Nat
  BY BoundAssumption DEF Policies, Versions
<1>3. Removed(q, policy) \in I
  BY <1>1, <1>2, RemovedOK
<1>4. ASSUME NEW a \in I, NEW s \in Scopes
      PROVE  Turn(a, s, policy) \in I
  <2>1. PubOK(a, g) /\ Moves(q, a) /\ a.lastGood = q.lastGood
    BY <1>4 DEF Moves
  <2>2. Decision(policy, s, "drop") \in EntryType /\ Decision(policy, s, "drop").exp = policy.exp
    BY DecisionOK
  <2>3. /\ PubOK(Observed(a, s, Decision(policy, s, "drop")), g)
        /\ Moves(a, Observed(a, s, Decision(policy, s, "drop")))
    BY <2>1, <2>2, ObservedOK
  <2>4. Moves(q, Observed(a, s, Decision(policy, s, "drop")))
    BY <2>1, <2>3, MovesCompose
  <2>5. QED
    BY <1>1, <1>4, <2>3, <2>4 DEF Turn
<1>5. Synchronized(q, policy) \in I
  <2> HIDE DEF I
  <2>1. QED
    BY <1>3, <1>4, SynchronizedIn
<1>6. QED
  BY <1>5

(* The same and the acknowledgement that has been read: what any step of   *)
(* the forwarder but the grant does to the publisher's record.             *)
Follows(q, r) ==
    /\ r.id = q.id
    /\ r.pending \in {q.pending, NoAck, ack}
    /\ r.grant \in {q.grant, NoGrant}
    /\ r.grant # NoGrant => Alike(r.entries, q.entries)
    /\ ~r.dirty => ~q.dirty /\ r.grant = q.grant /\ Alike(r.entries, q.entries)

(* A move follows, with no acknowledgement read.                           *)
LEMMA MovesFollow ==
    ASSUME NEW q, NEW r, Moves(q, r)
    PROVE  Follows(q, r)
  BY DEF Moves, Follows

(* What moves after what follows, follows.                                 *)
LEMMA FollowsMoves ==
    ASSUME NEW q, NEW r, NEW t, Follows(q, r), Moves(r, t)
    PROVE  Follows(q, t)
<1>1. /\ t.id = q.id /\ t.pending \in {q.pending, NoAck, ack} /\ t.grant \in {q.grant, NoGrant}
  BY DEF Moves, Follows
<1>2. t.grant # NoGrant => Alike(t.entries, q.entries)
  <2>1. SUFFICES ASSUME t.grant # NoGrant PROVE Alike(t.entries, q.entries)
    OBVIOUS
  <2>2. Alike(t.entries, r.entries) /\ r.grant # NoGrant
    BY <2>1 DEF Moves
  <2>3. Alike(r.entries, q.entries)
    BY <2>2 DEF Follows
  <2>4. QED
    BY <2>2, <2>3, AlikeFacts, Zenon
<1>3. ~t.dirty => ~q.dirty /\ t.grant = q.grant /\ Alike(t.entries, q.entries)
  <2>1. SUFFICES ASSUME ~t.dirty PROVE ~q.dirty /\ t.grant = q.grant /\ Alike(t.entries, q.entries)
    OBVIOUS
  <2>2. ~r.dirty /\ t.grant = r.grant /\ Alike(t.entries, r.entries)
    BY <2>1, Zenon DEF Moves
  <2>3. ~q.dirty /\ r.grant = q.grant /\ Alike(r.entries, q.entries)
    BY <2>2, Zenon DEF Follows
  <2>4. QED
    BY <2>2, <2>3, AlikeFacts, Zenon
<1>4. QED
  BY <1>1, <1>2, <1>3, Zenon DEF Follows

(* markControlPlaneReady: the policy that was loaded is good from now on.  *)
LEMMA ReadyOK ==
    ASSUME NEW q, NEW g, PubOK(q, g), g <= now, ClockOK
    PROVE  PubOK(Ready(q), now) /\ Follows(q, Ready(q)) /\ Ready(q).lastGood = now
<1> DEFINE r == Ready(q)
<1>1. /\ r \in Publishers /\ r.id = q.id /\ r.lastGood = now
      /\ r.dirty = q.dirty /\ r.grant = q.grant /\ r.pending = q.pending /\ r.entries = q.entries
      /\ r.pend = q.pend /\ r.mode = q.mode
  BY TimeFacts DEF PubOK, Publishers, Ready
<1> HIDE DEF r
<1>2. Grounded(r, now)
  <2>1. ASSUME NEW s \in Scopes, IsRule(r.entries[s])
        PROVE  /\ 0 < r.lastGood /\ r.lastGood <= now
               /\ r.entries[s].exp <= now + LkgTtl /\ r.pend[s] <= now + LkgTtl
    <3>1. q.entries[s].exp <= g + LkgTtl /\ q.pend[s] <= g + LkgTtl
      BY <1>1, <2>1 DEF PubOK, Grounded
    <3>2. q.entries[s].exp \in Nat /\ q.pend[s] \in Nat /\ g \in Nat
      BY EntryFacts, TimeFacts DEF PubOK, Publishers
    <3>3. QED
      BY <1>1, <3>1, <3>2, TimeFacts
  <2>2. QED
    BY <2>1 DEF Grounded
<1>3. PubOK(r, now)
  BY <1>1, <1>2, TimeFacts DEF PubOK
<1>4. Follows(q, r)
  BY <1>1, AlikeFacts DEF Follows
<1>5. QED
  BY <1>1, <1>3, <1>4 DEF r

(* degradeToLastKnownGood: the decisions last as long as the last good     *)
(* policy allows, without a grant.                                         *)
LEMMA DegradedOK ==
    ASSUME NEW q, NEW g, PubOK(q, g), ClockOK
    PROVE  /\ PubOK(Degraded(q), g) /\ Follows(q, Degraded(q))
           /\ Degraded(q).lastGood = q.lastGood
<1> DEFINE until == IF q.lastGood > 0 THEN q.lastGood + LkgTtl ELSE now
           kept(s) == IF q.entries[s] = NoEntry \/ until <= now THEN NoEntry
                      ELSE [q.entries[s] EXCEPT !.exp = until]
           ents == [s \in Scopes |-> kept(s)]
           pd == [s \in Scopes |-> 0]
           r0 == [q EXCEPT !.lkg = TRUE, !.lkgExp = until]
           r == [r0 EXCEPT !.entries = ents, !.pend = pd]
<1>1. Degraded(q) \in {q, Safe(q), Revoked(Advanced(r))}
  BY DEF Degraded
<1>2. /\ q.entries \in [Scopes -> EntryType] /\ q.lastGood \in Nat /\ g \in Nat /\ LkgTtl \in Nat
      /\ q.lastGood <= now
  BY TimeFacts DEF PubOK, Publishers
<1>3. until \in Times /\ until \in Nat
  BY <1>2, TimeFacts
<1>4. q.lastGood > 0 => until = q.lastGood + LkgTtl
  OBVIOUS
<1> HIDE DEF until
<1>5. ASSUME NEW s \in Scopes
      PROVE  /\ kept(s) \in EntryType
             /\ IsRule(kept(s)) => kept(s).exp = until /\ IsRule(q.entries[s])
  <2>1. kept(s) = NoEntry \/ kept(s) = Until(q.entries[s], until)
    BY DEF Until
  <2>2. /\ Until(q.entries[s], until) \in EntryType /\ Until(q.entries[s], until).exp = until
        /\ SameIntent(Until(q.entries[s], until), q.entries[s])
    BY <1>2, <1>3, EntryFacts
  <2> HIDE DEF kept
  <2>3. QED
    BY <2>1, <2>2, NoEntryFacts DEF IsRule, SameIntent
<1>6. /\ ents \in [Scopes -> EntryType] /\ pd \in [Scopes -> Times]
      /\ \A s \in Scopes : ents[s] = kept(s) /\ pd[s] = 0
  BY <1>5, TimeFacts
<1> HIDE DEF ents, pd, kept
<1>7. /\ r \in Publishers /\ r.id = q.id /\ r.read = q.read /\ r.lastGood = q.lastGood
      /\ r.grant = q.grant /\ r.mode = q.mode /\ r.entries = ents /\ r.pend = pd
      /\ r.dirty = q.dirty /\ r.pending = q.pending
  BY <1>3, <1>6 DEF PubOK, Publishers
<1> HIDE DEF r
<1>8. Grounded(r, g)
  <2>1. ASSUME NEW s \in Scopes, IsRule(r.entries[s])
        PROVE  /\ 0 < r.lastGood /\ r.lastGood <= g
               /\ r.entries[s].exp <= g + LkgTtl /\ r.pend[s] <= g + LkgTtl
    <3>1. IsRule(q.entries[s]) /\ r.entries[s].exp = until /\ r.pend[s] = 0
      BY <2>1, <1>5, <1>6, <1>7
    <3>2. 0 < q.lastGood /\ q.lastGood <= g
      BY <3>1 DEF PubOK, Grounded
    <3>3. QED
      BY <3>1, <3>2, <1>2, <1>4, <1>7
  <2>2. QED
    BY <2>1 DEF Grounded
<1>9. PubOK(r, g)
  BY <1>7, <1>8 DEF PubOK
<1>10. PubOK(Revoked(Advanced(r)), g) /\ Reset(r, Revoked(Advanced(r)))
  BY <1>9, TakenBack
<1>11. Reset(q, Revoked(Advanced(r)))
  BY <1>7, <1>10 DEF Reset
<1>12. PubOK(Safe(q), g) /\ Moves(q, Safe(q))
  BY SafeOK
<1>13. QED
  <2>1. Moves(q, Degraded(q))
    BY <1>1, <1>11, <1>12, ResetMoves, MovesRefl
  <2>2. QED
    BY <1>1, <1>10, <1>12, <2>1, MovesFollow DEF Moves
-----------------------------------------------------------------------------
(* What is known of a published file when the last policy is of time g: it *)
(* enforces with a grant, within the time of the grant, and a rule's       *)
(* decision is no longer good in it than the policy allows.                *)
FileOK(f, g) ==
    /\ f \in Files /\ g \in Nat
    /\ (f.mode = "enforce") <=> (f.grant # NoGrant)
    /\ f.mode = "enforce" => f.exp <= f.grant.exp
    /\ f.exp <= now + Ttl /\ f.good <= now
    /\ f.epoch = 0 => f.mode = "preview" /\ f.pub = 0
    /\ \A s \in Scopes :
          /\ f.entries[s].exp <= f.exp
          /\ IsRule(f.entries[s]) =>
                0 < f.good /\ f.good <= g /\ f.entries[s].exp <= g + LkgTtl

(* snapshot, wireEntry: what is written says what the publisher means.     *)
LEMMA SnapshotOK ==
    ASSUME NEW q, NEW g, PubOK(q, g), ClockOK, file.epoch \in Nat
    PROVE  /\ FileOK(Snapshot(q), g)
           /\ Snapshot(q).pub = q.id /\ Snapshot(q).epoch = file.epoch + 1
           /\ Snapshot(q).mode = q.mode /\ Snapshot(q).grant = q.grant
           /\ Alike(Snapshot(q).entries, q.entries)
<1> DEFINE envelope == IF q.grant # NoGrant THEN Lesser(now + Ttl, q.grant.exp) ELSE now + Ttl
           wire(s) == IF q.entries[s] = NoEntry THEN NoEntry
                      ELSE [q.entries[s] EXCEPT !.exp = Lesser(@, envelope)]
           ents == [s \in Scopes |-> wire(s)]
           good == IF q.lastGood > 0 THEN q.lastGood ELSE now
           f == Snapshot(q)
<1>1. f = [pub |-> q.id, epoch |-> file.epoch + 1, mode |-> q.mode, grant |-> q.grant,
           exp |-> envelope, good |-> good, entries |-> ents]
  BY DEF Snapshot
<1>2. /\ q.entries \in [Scopes -> EntryType] /\ q.lastGood \in Nat /\ q.lastGood <= now
      /\ q.grant \in Grants /\ q.grant.exp \in Nat /\ q.mode \in Modes /\ q.id \in Nat
      /\ g \in Nat
  BY DEF PubOK, Publishers, Grants
<1>3. now \in Nat /\ Ttl \in Nat /\ LkgTtl \in Nat /\ now >= 1
  BY TimeFacts
<1>4. /\ envelope \in Nat /\ envelope <= now + Ttl
      /\ q.grant # NoGrant => envelope <= q.grant.exp
  BY <1>2, <1>3 DEF Lesser
<1>5. good \in Nat /\ good <= now /\ (q.lastGood > 0 => good = q.lastGood)
  BY <1>2, <1>3
<1> HIDE DEF envelope, good
<1>6. ASSUME NEW s \in Scopes
      PROVE  /\ wire(s) \in EntryType /\ SameIntent(wire(s), q.entries[s])
             /\ wire(s).exp <= envelope /\ wire(s).exp <= q.entries[s].exp
  <2>1. q.entries[s] \in EntryType /\ q.entries[s].exp \in Times /\ q.entries[s].exp \in Nat
    BY <1>2, EntryFacts, TimeFacts
  <2>2. CASE q.entries[s] = NoEntry
    BY <2>2, <1>4, NoEntryFacts DEF SameIntent
  <2>3. CASE q.entries[s] # NoEntry
    <3>1. PICK x : x = Lesser(q.entries[s].exp, envelope)
      OBVIOUS
    <3>2. x \in Times /\ x <= envelope /\ x <= q.entries[s].exp
      BY <2>1, <3>1, <1>4, <1>3, TimeAssumption DEF Lesser, Times
    <3>3. wire(s) = Until(q.entries[s], x)
      BY <2>3, <3>1 DEF Until
    <3>4. /\ Until(q.entries[s], x) \in EntryType /\ Until(q.entries[s], x).exp = x
          /\ SameIntent(Until(q.entries[s], x), q.entries[s])
      BY <2>1, <3>2, EntryFacts
    <3> HIDE DEF wire
    <3>5. QED
      BY <3>2, <3>3, <3>4
  <2>4. QED
    BY <2>2, <2>3
<1>7. ents \in [Scopes -> EntryType] /\ \A s \in Scopes : ents[s] = wire(s)
  BY <1>6
<1> HIDE DEF ents, wire, f
<1>8. /\ f \in Files /\ f.pub = q.id /\ f.epoch = file.epoch + 1 /\ f.mode = q.mode
      /\ f.grant = q.grant /\ f.exp = envelope /\ f.good = good /\ f.entries = ents
  BY <1>1, <1>2, <1>4, <1>5, <1>7 DEF Files
<1>9. Alike(f.entries, q.entries)
  BY <1>6, <1>7, <1>8 DEF Alike
<1>10. ASSUME NEW s \in Scopes
       PROVE  /\ f.entries[s].exp <= f.exp
              /\ IsRule(f.entries[s]) =>
                    0 < f.good /\ f.good <= g /\ f.entries[s].exp <= g + LkgTtl
  <2>1. f.entries[s] = wire(s)
    BY <1>7, <1>8
  <2>2. f.entries[s].exp <= f.exp
    BY <1>6, <1>8, <2>1
  <2>3. ASSUME IsRule(f.entries[s])
        PROVE  0 < f.good /\ f.good <= g /\ f.entries[s].exp <= g + LkgTtl
    <3>1. IsRule(q.entries[s])
      BY <1>6, <2>1, <2>3 DEF IsRule, SameIntent
    <3>2. 0 < q.lastGood /\ q.lastGood <= g /\ q.entries[s].exp <= g + LkgTtl
      BY <3>1 DEF PubOK, Grounded
    <3>3. f.entries[s].exp \in Nat /\ q.entries[s].exp \in Nat
      BY <1>2, <1>6, <2>1, EntryFacts, TimeFacts
    <3>4. f.entries[s].exp <= q.entries[s].exp
      BY <1>6, <2>1
    <3>5. QED
      BY <3>2, <3>3, <3>4, <1>2, <1>3, <1>5, <1>8
  <2>4. QED
    BY <2>2, <2>3
<1>11. FileOK(f, g)
  BY <1>2, <1>4, <1>5, <1>8, <1>10, file.epoch + 1 # 0 DEF FileOK, PubOK
<1>12. QED
  BY <1>8, <1>9, <1>11 DEF f

(* acceptCentralMaterialization: the grant ends with the preview it is for.*)
LEMMA GrantedOK ==
    ASSUME NEW q, NEW g, PubOK(q, g), ClockOK, NEW a \in Acks, a.inst >= 1, file \in Files
    PROVE  /\ PubOK(Granted(q, a), g)
           /\ Granted(q, a).id = q.id /\ Granted(q, a).dirty /\ Granted(q, a).pending = NoAck
           /\ Granted(q, a).entries = q.entries /\ Granted(q, a).mode = "enforce"
           /\ Granted(q, a).grant.inst = a.inst /\ Granted(q, a).grant.exp <= file.exp
<1> DEFINE gr == [inst |-> a.inst, epoch |-> a.epoch, intents |-> Intents(file.entries),
                  exp |-> Lesser(now + Ttl, file.exp)]
           t == [q EXCEPT !.mode = "enforce", !.pending = NoAck, !.grant = gr]
<1>1. Granted(q, a) = Advanced(t)
  BY DEF Granted
<1>2. /\ a.inst \in Nat /\ a.epoch \in Nat /\ file.exp \in Nat
      /\ file.entries \in [Scopes -> EntryType] /\ now + Ttl \in Nat
  BY TimeFacts DEF Acks, Files
<1>3. Intents(file.entries) \in [Scopes -> EntryKinds \X Versions \X Versions]
  BY <1>2, IntentsType
<1>4. /\ gr \in Grants /\ gr.inst = a.inst /\ gr.exp <= file.exp
  BY <1>2, <1>3 DEF Grants, Lesser
<1> HIDE DEF gr
<1>5. gr # NoGrant
  BY <1>4, NothingTyped
<1>6. /\ t \in Publishers /\ t.id = q.id /\ t.lastGood = q.lastGood /\ t.entries = q.entries
      /\ t.pend = q.pend /\ t.mode = "enforce" /\ t.grant = gr /\ t.pending = NoAck
  BY <1>4, NothingTyped DEF PubOK, Publishers, Modes
<1> HIDE DEF t
<1>7. PubOK(t, g)
  BY <1>5, <1>6 DEF PubOK, Grounded
<1>8. /\ PubOK(Advanced(t), g) /\ Moves(t, Advanced(t)) /\ Advanced(t).dirty
      /\ Advanced(t).grant = t.grant /\ Advanced(t).entries = t.entries
  BY <1>7, AdvancedOK
<1>9. Advanced(t).mode = "enforce"
  BY <1>5, <1>6, <1>8 DEF PubOK
<1>10. QED
  BY <1>1, <1>4, <1>6, <1>8, <1>9 DEF Moves

(* consumeAckFile: what is read becomes pending, or it ends something.     *)
LEMMA ConsumedOK ==
    ASSUME NEW q, NEW g, PubOK(q, g), ClockOK, ack \in Acks
    PROVE  /\ PubOK(Consumed(q), g) /\ Follows(q, Consumed(q))
           /\ Consumed(q).lastGood = q.lastGood
<1> DEFINE r == [q EXCEPT !.read = ack]
           renewed == [r EXCEPT !.pending = NoAck, !.pinned = 0]
           taken == [r EXCEPT !.pending = ack, !.pinned = ack.inst]
<1>1. Consumed(q) \in {q, r, Advanced(Revoked(r)), Advanced(renewed), taken}
  BY DEF Consumed
<1>2. ack.inst \in Nat
  BY DEF Acks
<1>3. /\ r \in Publishers /\ r.id = q.id /\ r.lastGood = q.lastGood /\ r.dirty = q.dirty
      /\ r.grant = q.grant /\ r.pending = q.pending /\ r.entries = q.entries /\ r.pend = q.pend
      /\ r.mode = q.mode
  BY DEF PubOK, Publishers
<1>4. /\ renewed \in Publishers /\ renewed.id = q.id /\ renewed.lastGood = q.lastGood
      /\ renewed.dirty = q.dirty /\ renewed.grant = q.grant /\ renewed.pending = NoAck
      /\ renewed.entries = q.entries /\ renewed.pend = q.pend /\ renewed.mode = q.mode
  BY NothingTyped DEF PubOK, Publishers
<1>5. /\ taken \in Publishers /\ taken.id = q.id /\ taken.lastGood = q.lastGood
      /\ taken.dirty = q.dirty /\ taken.grant = q.grant /\ taken.pending = ack
      /\ taken.entries = q.entries /\ taken.pend = q.pend /\ taken.mode = q.mode
  BY <1>2 DEF PubOK, Publishers
<1> HIDE DEF r, renewed, taken
<1>6. PubOK(r, g) /\ PubOK(renewed, g) /\ PubOK(taken, g)
  BY <1>3, <1>4, <1>5 DEF PubOK, Grounded
<1>7. Follows(q, q) /\ Follows(q, r) /\ Follows(q, renewed) /\ Follows(q, taken)
  BY <1>3, <1>4, <1>5, AlikeFacts DEF Follows
<1>8. /\ PubOK(Advanced(Revoked(r)), g) /\ Moves(r, Advanced(Revoked(r)))
      /\ PubOK(Advanced(renewed), g) /\ Moves(renewed, Advanced(renewed))
  BY <1>6, TakenBack, ResetMoves, AdvancedOK
<1>9. Follows(q, Advanced(Revoked(r))) /\ Follows(q, Advanced(renewed))
  BY <1>7, <1>8, FollowsMoves
<1>10. Consumed(q).lastGood = q.lastGood
  BY <1>1, <1>3, <1>4, <1>5, <1>8 DEF Moves
<1>11. QED
  BY <1>1, <1>6, <1>7, <1>8, <1>9, <1>10

(* restoreExistingSnapshot: a new publisher means what the file says, and  *)
(* has no grant.                                                           *)
LEMMA RestoredOK ==
    ASSUME NEW g, FileOK(file, g), ClockOK, p.id \in Nat
    PROVE  /\ PubOK(Restored, g)
           /\ Restored.id = p.id + 1 /\ Restored.grant = NoGrant /\ Restored.pending = NoAck
           /\ ~Restored.dirty => \A s \in Scopes : Restored.entries[s] = NoEntry
<1> DEFINE kept(e) == IF ~Live(e) THEN NoEntry
                      ELSE IF IsRule(e) THEN [e EXCEPT !.action = "sample"] ELSE e
           ents == [s \in Scopes |-> kept(file.entries[s])]
           pd == [s \in Scopes |-> 0]
           r == Restored
<1>1. r = Publisher(p.id + 1, ents, file.good)
  BY DEF Restored
<1>2. /\ file.entries \in [Scopes -> EntryType] /\ file.good \in Nat /\ g \in Nat
      /\ LkgTtl \in Nat
  BY TimeFacts DEF FileOK, Files
<1>3. ASSUME NEW s \in Scopes
      PROVE  /\ ents[s] \in EntryType
             /\ IsRule(ents[s]) => IsRule(file.entries[s]) /\ ents[s].exp = file.entries[s].exp
  <2>1. PICK e : e = file.entries[s]
    OBVIOUS
  <2>2. e \in EntryType /\ ents[s] = kept(e)
    BY <1>2, <2>1
  <2>3. CASE ~Live(e)
    BY <2>2, <2>3, NoEntryFacts DEF IsRule
  <2>4. CASE Live(e)
    BY <2>1, <2>2, <2>4, EntryFacts DEF IsRule, SameIntent
  <2>5. QED
    BY <2>3, <2>4
<1>4. ents \in [Scopes -> EntryType] /\ pd \in [Scopes -> Times] /\ \A s \in Scopes : pd[s] = 0
  BY <1>3, TimeFacts
<1>5. r = [id |-> p.id + 1, entries |-> ents, pend |-> pd,
           dirty |-> \E s \in Scopes : ents[s] # NoEntry, syncPv |-> 0, mode |-> "preview",
           grant |-> NoGrant, pending |-> NoAck, pinned |-> 0, read |-> NoAck, lkg |-> FALSE,
           lastGood |-> file.good, lkgExp |-> 0]
  BY <1>1 DEF Publisher
<1> HIDE DEF ents, pd, r
<1>6. (\E s \in Scopes : ents[s] # NoEntry) \in BOOLEAN
  OBVIOUS
<1>7. r \in Publishers
  BY <1>2, <1>4, <1>5, <1>6, NothingTyped DEF Publishers, Modes
<1>8. /\ r.id = p.id + 1 /\ r.grant = NoGrant /\ r.pending = NoAck /\ r.entries = ents
      /\ r.pend = pd /\ r.mode = "preview" /\ r.lastGood = file.good
      /\ r.dirty = \E s \in Scopes : ents[s] # NoEntry
  BY <1>5
<1>9. Grounded(r, g)
  BY <1>2, <1>3, <1>4, <1>8 DEF Grounded, FileOK
<1>10. PubOK(r, g)
  BY <1>7, <1>8, <1>9, <1>2 DEF PubOK, FileOK
<1>11. QED
  BY <1>8, <1>10 DEF r
-----------------------------------------------------------------------------
(* The invariant.                                                          *)
States == {"none", "sent", "accepted", "failed"}
Posts == [state : States, ack : Acks, entries : [Scopes -> EntryType]]
Keys == [pub : Nat, inst : Nat, epoch : Nat]
Reports == [key : Keys, at : Nat, ack : Acks, entries : [Scopes -> EntryType]]
Collectors == [inst : Nat, seen : Nat, on : BOOLEAN, file : Files]

(* The types, and the policy the forwarder holds.                          *)
Types ==
    /\ ClockOK /\ incidents \in 0..MaxIncidents
    /\ pv \in 1..(incidents + 1) /\ rules \in [Scopes -> Versions]
    /\ pol \in Policies /\ post \in Posts /\ waiting \in BOOLEAN
    /\ goodAt \in Nat /\ goodAt <= now
    /\ pol.exp > 0 =>
          0 < p.lastGood /\ p.lastGood <= goodAt /\ pol.exp <= goodAt + LkgTtl

(* What is not to be flushed is in the file f, unless there was nothing.   *)
CurrentFor(q, f) ==
    ~q.dirty =>
        /\ f.pub = q.id => /\ f.mode = q.mode /\ f.grant = q.grant
                           /\ Alike(f.entries, q.entries)
        /\ f.pub # q.id => \A s \in Scopes : q.entries[s].kind = "none"

PublisherInv ==
    /\ PubOK(p, goodAt) /\ FileOK(file, goodAt) /\ FileOK(collector.file, goodAt)
    /\ file.pub <= p.id /\ collector.file.epoch <= file.epoch
    /\ CurrentFor(p, file)

(* An acknowledgement belongs to a process of the Collector and a file     *)
(* that there have been.  One of the present file by the present process   *)
(* says that the file has been applied; one of an enforcing file comes     *)
(* from the process the grant names or a later one.                        *)
KeyOf(a) == [pub |-> a.pub, inst |-> a.inst, epoch |-> a.epoch]
Later(k, l) == k.epoch > l.epoch \/ (k.epoch = l.epoch /\ k.inst > l.inst)
NotBefore(k, l) == k.epoch > l.epoch \/ (k.epoch = l.epoch /\ k.inst >= l.inst)
KnownAck(y) ==
    /\ y \in Acks
    /\ y.epoch <= file.epoch /\ y.inst <= collector.inst
    /\ y.epoch = file.epoch => y.pub = file.pub
    /\ y.ok => y.inst >= 1
    /\ y.epoch = file.epoch /\ y.inst = collector.inst => file = collector.file
    /\ y.epoch = file.epoch /\ file.mode = "enforce" => y.inst >= file.grant.inst
AckInv ==
    /\ collector \in Collectors /\ collector.inst >= 1
    /\ KnownAck(ack) /\ KnownAck(p.pending) /\ KnownAck(post.ack)
    /\ NotBefore(ack, p.pending) /\ NotBefore(ack, post.ack)
    /\ p.pending # NoAck /\ post # NoPost => NotBefore(p.pending, post.ack)
    /\ post.state = "none" => post = NoPost

(* Central's reports come in the order of files and of processes, and none *)
(* is known before the newest.  A report of the present file was accepted  *)
(* when the file had been written.                                         *)
ReportOK(r) ==
    /\ r.key.epoch <= file.epoch
    /\ r.key.epoch = file.epoch => r.key.pub = file.pub /\ file.exp <= r.at + Ttl
    /\ post # NoPost /\ r.key.epoch = post.ack.epoch => r.key.pub = post.ack.pub
Ordered == \A i, j \in DOMAIN reports : i < j => Later(reports[i].key, reports[j].key)
ReportInv ==
    /\ reports \in Seq(Reports) /\ Ordered
    /\ \A i \in DOMAIN reports : ReportOK(reports[i])
    /\ reports # <<>> =>
          /\ NotBefore(ack, reports[1].key)
          /\ p.pending # NoAck => NotBefore(p.pending, reports[1].key)
          /\ post # NoPost => NotBefore(post.ack, reports[1].key)
    /\ post.state = "accepted" =>
          /\ reports # <<>>
          /\ reports[1].key = KeyOf(post.ack) /\ reports[1].entries = post.entries

(* A report backs a grant and the decisions under it.                      *)
Backs(r, gr, entries) ==
    /\ r.key.inst = gr.inst /\ gr.exp <= r.at + Ttl
    /\ \A s \in Scopes : IsRule(entries[s]) => r.entries[s].rev = entries[s].rev

(* The newest report backs the grant that the publisher has, and the one   *)
(* in the file until it is applied.  What is enforced is backed by one of  *)
(* the two newest: the acknowledgement of the enforcing file itself may    *)
(* have been reported since, and nothing else.                             *)
GrantOK(q, po) ==
    q.mode = "enforce" =>
        /\ po = NoPost /\ q.grant.inst <= collector.inst
        /\ reports # <<>> /\ Backs(reports[1], q.grant, q.entries)
FileGrant ==
    file.mode = "enforce" =>
        /\ file.grant.inst <= collector.inst
        /\ post # NoPost => post.ack.epoch = file.epoch
        /\ file.grant.inst = collector.inst /\ file # collector.file =>
              reports # <<>> /\ Backs(reports[1], file.grant, file.entries)
Enforcement ==
    collector.on =>
        /\ ack.epoch = collector.file.epoch
        /\ collector.file.mode = "enforce" /\ collector.file.grant.inst = collector.inst
        /\ post # NoPost => post.ack.epoch >= collector.file.epoch
        /\ p.pending.epoch = ack.epoch => KeyOf(p.pending) = KeyOf(ack)
        /\ post.ack.epoch = ack.epoch => KeyOf(post.ack) = KeyOf(ack)
        /\ \E i \in DOMAIN reports :
              /\ i <= 2 /\ Backs(reports[i], collector.file.grant, collector.file.entries)
              /\ i = 2 => reports[1].key = KeyOf(ack)
GrantInv == GrantOK(p, post) /\ FileGrant /\ Enforcement

CaptureInv == Types /\ PublisherInv /\ AckInv /\ ReportInv /\ GrantInv

-----------------------------------------------------------------------------
(* Nothing has been acknowledged by no acknowledgement.                    *)
LEMMA NoAckKnown ==
    ASSUME PublisherInv, AckInv
    PROVE  KnownAck(NoAck) /\ NotBefore(ack, NoAck)
<1>1. /\ file \in Files /\ file.epoch \in Nat
      /\ file.epoch = 0 => file.mode = "preview" /\ file.pub = 0
  BY DEF PublisherInv, FileOK, Files
<1>2. collector.inst >= 1 /\ collector.inst \in Nat /\ ack.epoch \in Nat /\ ack.inst \in Nat
  BY DEF AckInv, Collectors, KnownAck, Acks
<1>3. QED
  BY <1>1, <1>2, NothingTyped DEF KnownAck, NotBefore

(* A later policy makes no file worse.                                     *)
LEMMA FileLasts ==
    ASSUME NEW f, NEW g, NEW h \in Nat, FileOK(f, g), g <= h, ClockOK
    PROVE  FileOK(f, h)
<1>1. /\ g \in Nat /\ LkgTtl \in Nat /\ f.good \in Nat /\ f.entries \in [Scopes -> EntryType]
  BY TimeFacts DEF FileOK, Files
<1>2. \A s \in Scopes : f.entries[s].exp \in Nat
  BY <1>1, EntryFacts, TimeFacts
<1>3. \A s \in Scopes : IsRule(f.entries[s]) =>
          0 < f.good /\ f.good <= h /\ f.entries[s].exp <= h + LkgTtl
  BY <1>1, <1>2 DEF FileOK
<1>4. QED
  BY <1>3 DEF FileOK

(* The steps of the forwarder leave what the others have alone.            *)
Undisturbed ==
    /\ now' = now /\ reports' = reports /\ ack' = ack /\ collector' = collector
    /\ goodAt' \in Nat /\ goodAt <= goodAt' /\ goodAt' <= now

(* What is under way stays, ends, or begins with the pending acknowledgement.*)
NextPost(r) ==
    \/ post' = post
    \/ post' = NoPost
    \/ /\ post = NoPost /\ post'.state = "sent" /\ post'.ack = r.pending
       /\ r.pending # NoAck /\ r.pending.epoch = file.epoch

(* The fields of no report.                                                *)
LEMMA NoPostFacts == NoPost.state = "none" /\ NoPost.ack = NoAck /\ NoPost \in Posts
  BY NoEntryFacts, NothingTyped DEF NoPost, Posts, States

(* What a publisher's record says holds in the next state too.             *)
LEMMA PubLater ==
    ASSUME PubOK(p', goodAt'), now' = now
    PROVE  PubOK(p, goodAt)'
  BY DEF PubOK, Grounded

(* What the files say holds in the next state too.                         *)
LEMMA FileLater ==
    ASSUME FileOK(file', goodAt'), FileOK(collector'.file, goodAt'), now' = now
    PROVE  FileOK(file, goodAt)' /\ FileOK(collector.file, goodAt)'
  BY DEF FileOK

(* The record changes and nothing is written.                              *)
LEMMA Unwritten ==
    ASSUME PublisherInv, AckInv, ReportInv, GrantInv, ClockOK, Undisturbed, NEW r,
           PubOK(r, goodAt'), r.id >= p.id, r.pending \in {p.pending, NoAck, ack},
           CurrentFor(r, file), GrantOK(r, post'), NextPost(r),
           p' = r, file' = file
    PROVE  PublisherInv' /\ AckInv' /\ ReportInv' /\ GrantInv'
<1> USE DEF Undisturbed
<1>1. PublisherInv'
  <2>1. FileOK(file, goodAt') /\ FileOK(collector.file, goodAt')
    BY FileLasts DEF PublisherInv
  <2>2. PubOK(p, goodAt)' /\ FileOK(file, goodAt)' /\ FileOK(collector.file, goodAt)'
    BY <2>1, PubLater, FileLater
  <2>3. file.pub \in Nat /\ p.id \in Nat /\ r.id \in Nat
    BY DEF PublisherInv, FileOK, Files, PubOK, Publishers
  <2>4. file.pub <= r.id
    BY <2>3 DEF PublisherInv
  <2>5. CurrentFor(p, file)'
    BY DEF CurrentFor, Alike
  <2>6. QED
    BY <2>2, <2>4, <2>5 DEF PublisherInv
<1>2. post'.ack \in {post.ack, NoAck, r.pending}
  BY NoPostFacts DEF NextPost
<1>3. \A y : KnownAck(y) => KnownAck(y)'
  BY DEF KnownAck
<1>4. KnownAck(r.pending) /\ KnownAck(post'.ack) /\ KnownAck(NoAck)
  BY <1>2, NoAckKnown DEF AckInv
<1>5. /\ \A y \in {ack, p.pending, post.ack, r.pending, post'.ack, NoAck} :
            y.epoch \in Nat /\ y.inst \in Nat
  BY <1>4 DEF AckInv, KnownAck, Acks
<1>6. NotBefore(ack, r.pending) /\ NotBefore(ack, post'.ack)
  <2>1. NotBefore(ack, ack) /\ NotBefore(ack, NoAck)
    BY <1>5, NoAckKnown DEF NotBefore
  <2>2. NotBefore(ack, r.pending)
    BY <2>1 DEF AckInv
  <2>3. QED
    BY <2>1, <2>2, <1>2 DEF AckInv
<1>7. r.pending # NoAck /\ post' # NoPost => NotBefore(r.pending, post'.ack)
  <2>1. NotBefore(r.pending, r.pending)
    BY <1>5 DEF NotBefore
  <2>2. QED
    BY <2>1 DEF AckInv, NextPost
<1>8. AckInv'
  <2>1. post'.state = "none" => post' = NoPost
    BY DEF AckInv, NextPost
  <2>2. KnownAck(ack)' /\ KnownAck(p.pending)' /\ KnownAck(post.ack)'
    <3>1. KnownAck(ack)' /\ (KnownAck(r.pending) => KnownAck(p.pending)')
          /\ (KnownAck(post'.ack) => KnownAck(post.ack)')
      BY DEF KnownAck, AckInv
    <3>2. QED
      BY <3>1, <1>4
  <2>3. NotBefore(ack, p.pending)' /\ NotBefore(ack, post.ack)'
        /\ (p'.pending # NoAck /\ post' # NoPost => NotBefore(p.pending, post.ack)')
    BY <1>6, <1>7 DEF NotBefore
  <2>4. QED
    BY <2>1, <2>2, <2>3 DEF AckInv
<1>9. ReportInv'
  <2>1. \A i \in DOMAIN reports : ReportOK(reports[i])'
    <3>1. SUFFICES ASSUME NEW i \in DOMAIN reports, post' # NoPost, post' # post,
                          reports[i].key.epoch = post'.ack.epoch
                   PROVE  reports[i].key.pub = post'.ack.pub
      BY DEF ReportInv, ReportOK
    <3>2. post'.ack = r.pending /\ r.pending.epoch = file.epoch
      BY <3>1 DEF NextPost
    <3>3. r.pending.pub = file.pub
      BY <3>2, <1>4 DEF KnownAck
    <3>4. reports[i].key.pub = file.pub
      BY <3>1, <3>2 DEF ReportInv, ReportOK
    <3>5. QED
      BY <3>2, <3>3, <3>4
  <2>2. ASSUME reports # <<>>
        PROVE  /\ NotBefore(ack, reports[1].key)
               /\ r.pending # NoAck => NotBefore(r.pending, reports[1].key)
               /\ post' # NoPost => NotBefore(post'.ack, reports[1].key)
    <3>1. NotBefore(ack, reports[1].key)
      BY <2>2 DEF ReportInv
    <3>2. r.pending # NoAck => NotBefore(r.pending, reports[1].key)
      BY <2>2, <3>1 DEF ReportInv
    <3>3. post' # NoPost => NotBefore(post'.ack, reports[1].key)
      BY <2>2, <3>2 DEF ReportInv, NextPost
    <3>4. QED
      BY <3>1, <3>2, <3>3
  <2>3. post'.state = "accepted" => post' = post
    BY NoPostFacts DEF NextPost
  <2>4. Ordered'
    BY DEF ReportInv, Ordered
  <2>5. QED
    BY <2>1, <2>2, <2>3, <2>4 DEF ReportInv, NotBefore, KeyOf
<1>10. GrantOK(p, post)'
  BY DEF GrantOK, Backs
<1>11. FileGrant'
  <2>1. post' # NoPost => post' = post \/ post'.ack.epoch = file.epoch
    BY DEF NextPost
  <2>2. QED
    BY <2>1 DEF GrantInv, FileGrant, Backs
<1>12. Enforcement'
  <2>1. SUFFICES ASSUME collector.on PROVE Enforcement'
    BY DEF Enforcement
  <2>2. ack.epoch = collector.file.epoch /\ collector.file.epoch # 0
    BY <2>1 DEF GrantInv, Enforcement, PublisherInv, FileOK
  <2>3. collector.file.epoch \in Nat /\ file.epoch \in Nat /\ collector.file.epoch <= file.epoch
    BY DEF PublisherInv, FileOK, Files
  <2>4. post' # NoPost => post'.ack.epoch >= collector.file.epoch
    BY <2>1, <2>3 DEF NextPost, GrantInv, Enforcement
  <2>5. r.pending.epoch = ack.epoch => KeyOf(r.pending) = KeyOf(ack)
    BY <2>1, <2>2, NothingTyped DEF GrantInv, Enforcement
  <2>6. post'.ack.epoch = ack.epoch => KeyOf(post'.ack) = KeyOf(ack)
    BY <2>1, <2>2, <2>5, <1>2, NothingTyped DEF GrantInv, Enforcement
  <2>7. QED
    BY <2>1, <2>4, <2>5, <2>6 DEF GrantInv, Enforcement, KeyOf, Backs
<1>13. QED
  BY <1>1, <1>8, <1>9, <1>10, <1>11, <1>12 DEF GrantInv
(* The record is written.                                                  *)
LEMMA Written ==
    ASSUME PublisherInv, AckInv, ReportInv, GrantInv, ClockOK, Undisturbed, NEW t,
           PubOK(t, goodAt'), t.id >= p.id, t.pending \in {p.pending, NoAck, ack},
           GrantOK(t, post'), post' \in {post, NoPost},
           p' = [t EXCEPT !.dirty = FALSE], file' = Snapshot(t)
    PROVE  PublisherInv' /\ AckInv' /\ ReportInv' /\ GrantInv'
<1> USE DEF Undisturbed
<1> DEFINE f == Snapshot(t)
           r == [t EXCEPT !.dirty = FALSE]
<1>1. /\ r \in Publishers /\ r.id = t.id /\ r.lastGood = t.lastGood /\ r.entries = t.entries
      /\ r.pend = t.pend /\ r.mode = t.mode /\ r.grant = t.grant /\ r.pending = t.pending
      /\ ~r.dirty
  BY DEF PubOK, Publishers
<1>2. file.epoch \in Nat
  BY DEF PublisherInv, FileOK, Files
<1>3. /\ FileOK(f, goodAt') /\ f.pub = t.id /\ f.epoch = file.epoch + 1 /\ f.mode = t.mode
      /\ f.grant = t.grant /\ Alike(f.entries, t.entries)
  BY <1>2, SnapshotOK
<1>4. p' = r /\ file' = f
  OBVIOUS
<1> HIDE DEF r, f
<1>5. PubOK(r, goodAt')
  BY <1>1 DEF PubOK, Grounded
<1>6. PublisherInv'
  <2>1. FileOK(collector.file, goodAt')
    BY FileLasts DEF PublisherInv
  <2>2. PubOK(p, goodAt)' /\ FileOK(file, goodAt)' /\ FileOK(collector.file, goodAt)'
    BY <1>3, <1>4, <1>5, <2>1, PubLater, FileLater
  <2>3. CurrentFor(r, f)
    BY <1>1, <1>3 DEF CurrentFor
  <2>4. CurrentFor(p, file)'
    BY <1>4, <2>3 DEF CurrentFor, Alike
  <2>5. collector.file.epoch <= f.epoch /\ f.pub <= r.id
    <3>1. collector.file.epoch \in Nat /\ collector.file.epoch <= file.epoch /\ t.id \in Nat
      BY DEF PublisherInv, FileOK, Files, PubOK, Publishers
    <3>2. QED
      BY <1>1, <1>2, <1>3, <3>1
  <2>6. QED
    BY <1>4, <2>2, <2>4, <2>5 DEF PublisherInv
<1>7. post'.ack \in {post.ack, NoAck}
  BY NoPostFacts
<1>8. \A y : KnownAck(y) => KnownAck(y)' /\ y.epoch # f.epoch
  <2>1. ASSUME NEW y, KnownAck(y) PROVE y.epoch <= file.epoch /\ y.epoch \in Nat
    BY <2>1 DEF KnownAck, Acks
  <2>2. ASSUME NEW y, KnownAck(y) PROVE y.epoch <= f.epoch /\ y.epoch # f.epoch
    BY <2>1, <2>2, <1>2, <1>3
  <2>3. QED
    BY <1>4, <2>2 DEF KnownAck
<1>9. KnownAck(ack) /\ KnownAck(t.pending) /\ KnownAck(post'.ack) /\ KnownAck(NoAck)
  BY <1>7, NoAckKnown DEF AckInv
<1>10. \A y \in {ack, p.pending, post.ack, t.pending, post'.ack, NoAck} :
            y.epoch \in Nat /\ y.inst \in Nat
  BY <1>9 DEF AckInv, KnownAck, Acks
<1>11. NotBefore(ack, t.pending) /\ NotBefore(ack, post'.ack)
  <2>1. NotBefore(ack, ack) /\ NotBefore(ack, NoAck)
    BY <1>10, NoAckKnown DEF NotBefore
  <2>2. QED
    BY <2>1, <1>7 DEF AckInv
<1>12. t.pending # NoAck /\ post' # NoPost => NotBefore(t.pending, post'.ack)
  BY DEF AckInv
<1>13. AckInv'
  <2>1. post'.state = "none" => post' = NoPost
    BY DEF AckInv
  <2>2. KnownAck(ack)' /\ KnownAck(p.pending)' /\ KnownAck(post.ack)'
    <3>1. /\ KnownAck(ack)'
          /\ KnownAck(t.pending) => KnownAck(p.pending)'
          /\ KnownAck(post'.ack) => KnownAck(post.ack)'
      BY <1>1, <1>4, <1>8, <1>9 DEF KnownAck
    <3>2. QED
      BY <3>1, <1>9
  <2>3. NotBefore(ack, p.pending)' /\ NotBefore(ack, post.ack)'
        /\ (p'.pending # NoAck /\ post' # NoPost => NotBefore(p.pending, post.ack)')
    BY <1>1, <1>4, <1>11, <1>12 DEF NotBefore
  <2>4. QED
    BY <2>1, <2>2, <2>3 DEF AckInv
<1>14. ReportInv'
  <2>1. \A i \in DOMAIN reports : ReportOK(reports[i])'
    <3>1. SUFFICES ASSUME NEW i \in DOMAIN reports PROVE ReportOK(reports[i])'
      OBVIOUS
    <3>2. reports[i].key.epoch \in Nat /\ reports[i].key.epoch <= file.epoch
      <4>1. reports[i] \in Reports
        BY DEF ReportInv
      <4>2. QED
        BY <4>1 DEF ReportInv, ReportOK, Reports, Keys
    <3>3. reports[i].key.epoch <= f.epoch /\ reports[i].key.epoch # f.epoch
      BY <3>2, <1>2, <1>3
    <3>4. post' # NoPost /\ reports[i].key.epoch = post'.ack.epoch =>
              reports[i].key.pub = post'.ack.pub
      BY DEF ReportInv, ReportOK
    <3>5. QED
      BY <1>4, <3>3, <3>4 DEF ReportOK
  <2>2. ASSUME reports # <<>>
        PROVE  /\ NotBefore(ack, reports[1].key)
               /\ t.pending # NoAck => NotBefore(t.pending, reports[1].key)
               /\ post' # NoPost => NotBefore(post'.ack, reports[1].key)
    BY <2>2 DEF ReportInv
  <2>3. post'.state = "accepted" => post' = post
    BY NoPostFacts
  <2>4. Ordered'
    BY DEF ReportInv, Ordered
  <2>5. QED
    BY <1>1, <1>4, <2>1, <2>2, <2>3, <2>4 DEF ReportInv, NotBefore, KeyOf
<1>15. GrantOK(p, post)'
  BY <1>1, <1>4 DEF GrantOK, Backs
<1>16. FileGrant'
  <2>1. ASSUME f.mode = "enforce"
        PROVE  /\ f.grant.inst <= collector.inst /\ post' = NoPost
               /\ reports # <<>> /\ Backs(reports[1], f.grant, f.entries)
    <3>1. /\ post' = NoPost /\ t.grant.inst <= collector.inst
          /\ reports # <<>> /\ Backs(reports[1], t.grant, t.entries)
      BY <1>3, <2>1 DEF GrantOK
    <3>2. \A s \in Scopes : /\ IsRule(f.entries[s]) => IsRule(t.entries[s])
                            /\ f.entries[s].rev = t.entries[s].rev
      BY <1>3 DEF Alike, SameIntent, IsRule
    <3>3. QED
      BY <1>3, <3>1, <3>2 DEF Backs
  <2>2. QED
    BY <1>4, <2>1 DEF FileGrant, Backs
<1>17. Enforcement'
  <2>1. SUFFICES ASSUME collector.on PROVE Enforcement'
    BY DEF Enforcement
  <2>2. ack.epoch = collector.file.epoch /\ collector.file.epoch # 0
    BY <2>1 DEF GrantInv, Enforcement, PublisherInv, FileOK
  <2>3. t.pending.epoch = ack.epoch => KeyOf(t.pending) = KeyOf(ack)
    BY <2>1, <2>2, NothingTyped DEF GrantInv, Enforcement
  <2>4. post'.ack.epoch = ack.epoch => KeyOf(post'.ack) = KeyOf(ack)
    BY <2>1, <2>2, <1>7, NothingTyped DEF GrantInv, Enforcement
  <2>5. QED
    BY <1>1, <1>4, <2>1, <2>3, <2>4 DEF GrantInv, Enforcement, KeyOf, Backs
<1>18. QED
  BY <1>6, <1>13, <1>14, <1>15, <1>16, <1>17 DEF GrantInv

(* What follows the record of the publisher keeps its grant backed and is  *)
(* current if the record was.                                              *)
LEMMA FollowerOK ==
    ASSUME NEW q, NEW r, NEW g, NEW h, PubOK(q, g), PubOK(r, h), Follows(q, r)
    PROVE  /\ CurrentFor(q, file) => CurrentFor(r, file)
           /\ \A po : GrantOK(q, po) => GrantOK(r, po)
<1>1. q.mode \in Modes /\ r.mode \in Modes
  BY DEF PubOK, Publishers
<1>2. r.grant = q.grant => r.mode = q.mode
  BY <1>1 DEF PubOK, Modes
<1>3. ASSUME CurrentFor(q, file), ~r.dirty
      PROVE  /\ file.pub = r.id => /\ file.mode = r.mode /\ file.grant = r.grant
                                   /\ Alike(file.entries, r.entries)
             /\ file.pub # r.id => \A s \in Scopes : r.entries[s].kind = "none"
  <2>1. ~q.dirty /\ r.grant = q.grant /\ Alike(r.entries, q.entries) /\ r.id = q.id
    BY <1>3 DEF Follows
  <2>2. Alike(q.entries, r.entries)
    BY <2>1, AlikeFacts, Zenon
  <2>3. ASSUME file.pub = r.id
        PROVE  /\ file.mode = r.mode /\ file.grant = r.grant
               /\ Alike(file.entries, r.entries)
    <3>1. file.mode = q.mode /\ file.grant = q.grant /\ Alike(file.entries, q.entries)
      BY <1>3, <2>1, <2>3 DEF CurrentFor
    <3>2. Alike(file.entries, r.entries)
      BY <2>2, <3>1, AlikeFacts, Zenon
    <3>3. QED
      BY <1>2, <2>1, <3>1, <3>2
  <2>4. ASSUME file.pub # r.id PROVE \A s \in Scopes : r.entries[s].kind = "none"
    <3>1. \A s \in Scopes : q.entries[s].kind = "none"
      BY <1>3, <2>1, <2>4 DEF CurrentFor
    <3>2. QED
      BY <2>1, <3>1 DEF Alike, SameIntent
  <2>5. QED
    BY <2>3, <2>4
<1>4. ASSUME NEW po, GrantOK(q, po), r.mode = "enforce"
      PROVE  /\ po = NoPost /\ r.grant.inst <= collector.inst
             /\ reports # <<>> /\ Backs(reports[1], r.grant, r.entries)
  <2>1. r.grant = q.grant /\ Alike(r.entries, q.entries) /\ q.mode = "enforce"
    BY <1>4 DEF PubOK, Follows
  <2>2. \A s \in Scopes : /\ IsRule(r.entries[s]) => IsRule(q.entries[s])
                          /\ r.entries[s].rev = q.entries[s].rev
    BY <2>1 DEF Alike, SameIntent, IsRule
  <2>3. QED
    BY <1>4, <2>1, <2>2 DEF GrantOK, Backs
<1>5. QED
  BY <1>3, <1>4 DEF CurrentFor, GrantOK

(* flush, whatever becomes of the write.                                   *)
LEMMA Flushed ==
    ASSUME PublisherInv, AckInv, ReportInv, GrantInv, ClockOK, Undisturbed, NEW q,
           PubOK(q, goodAt'), q.id >= p.id, q.pending \in {p.pending, NoAck, ack},
           CurrentFor(q, file), GrantOK(q, post'), post' \in {post, NoPost}, Flush(q)
    PROVE  /\ PublisherInv' /\ AckInv' /\ ReportInv' /\ GrantInv'
           /\ p'.lastGood = q.lastGood
           /\ incidents' = incidents \/ Incident("fault")
<1> DEFINE t == Safe(q)
<1>1. PubOK(t, goodAt') /\ Moves(q, t)
  BY SafeOK
<1>2. /\ t.id >= p.id /\ t.pending \in {p.pending, NoAck, ack} /\ t.lastGood = q.lastGood
      /\ Follows(q, t)
  BY <1>1, MovesFollow DEF Moves
<1>3. CurrentFor(t, file) /\ GrantOK(t, post')
  BY <1>1, <1>2, FollowerOK
<1>4. NextPost(q) /\ NextPost(t)
  BY DEF NextPost
<1>5. CASE ~q.dirty /\ p' = q /\ UNCHANGED <<file, incidents>>
  <2>1. PublisherInv' /\ AckInv' /\ ReportInv' /\ GrantInv'
    BY <1>4, <1>5, Unwritten
  <2>2. QED
    BY <2>1, <1>5
<1>6. CASE q.dirty /\ Fault /\ p' = Safe(q) /\ UNCHANGED file
  <2>1. PublisherInv' /\ AckInv' /\ ReportInv' /\ GrantInv'
    <3> HIDE DEF t
    <3>1. p' = t /\ file' = file
      BY <1>6 DEF t
    <3>2. QED
      BY <1>1, <1>2, <1>3, <1>4, <3>1, Unwritten
  <2>2. QED
    BY <2>1, <1>2, <1>6 DEF Fault
<1>7. CASE /\ q.dirty
           /\ \E safe \in {Safe(q)} :
                 p' = [safe EXCEPT !.dirty = FALSE] /\ file' = Snapshot(safe)
           /\ UNCHANGED incidents
  <2>1. p' = [t EXCEPT !.dirty = FALSE] /\ file' = Snapshot(t)
    BY <1>7
  <2> HIDE DEF t
  <2>2. PublisherInv' /\ AckInv' /\ ReportInv' /\ GrantInv'
    BY <1>1, <1>2, <1>3, <2>1, Written
  <2>3. p'.lastGood = t.lastGood
    BY <1>1, <2>1 DEF PubOK, Publishers
  <2>4. QED
    BY <2>2, <2>3, <1>2, <1>7
<1>8. QED
  BY <1>5, <1>6, <1>7 DEF Flush
-----------------------------------------------------------------------------
(* One lemma for each action.  An action counts one incident or none.      *)
Counted ==
    incidents' = incidents \/ (incidents < MaxIncidents /\ incidents' = incidents + 1)

(* A count that fits in fewer incidents fits in more.                      *)
LEMMA CountFits ==
    ASSUME NEW v, NEW k \in Nat, NEW l \in Nat, k <= l, v \in 1..(k + 1)
    PROVE  v \in 1..(l + 1)
  OBVIOUS

(* The types when the clock, Central and the policy stay as they are.      *)
LEMMA TypesKept ==
    ASSUME Types, now' = now, pv' = pv, rules' = rules, pol' = pol, goodAt' = goodAt,
           post' \in Posts, waiting' \in BOOLEAN, p'.lastGood = p.lastGood, Counted
    PROVE  Types'
<1>1. incidents' \in 0..MaxIncidents /\ incidents <= incidents' /\ incidents' \in Nat
      /\ incidents \in Nat
  BY BoundAssumption DEF Types, Counted
<1>2. pv \in 1..(incidents' + 1)
  <2>1. pv \in 1..(incidents + 1)
    BY DEF Types
  <2>2. QED
    BY <1>1, <2>1, CountFits
<1>3. QED
  BY <1>1, <1>2 DEF Types, ClockOK

(* What only Central, the policy or a timer changes is in no other part.   *)
LEMMA RestKept ==
    ASSUME PublisherInv, AckInv, ReportInv, GrantInv,
           UNCHANGED <<now, reports, p, file, ack, post, collector, goodAt>>
    PROVE  PublisherInv' /\ AckInv' /\ ReportInv' /\ GrantInv'
<1>1. PublisherInv'
  BY DEF PublisherInv, PubOK, Grounded, FileOK, CurrentFor, Alike
<1>2. AckInv'
  BY DEF AckInv, KnownAck, NotBefore
<1>3. ReportInv'
  BY DEF ReportInv, ReportOK, Ordered, NotBefore, KeyOf
<1>4. GrantInv'
  BY DEF GrantInv, GrantOK, FileGrant, Enforcement, Backs, KeyOf
<1>5. QED
  BY <1>1, <1>2, <1>3, <1>4

(* Central publishes, revises or withdraws a rule.                         *)
LEMMA ChangeKeeps ==
    ASSUME CaptureInv, NEW s \in Scopes, Change(s)
    PROVE  CaptureInv'
<1> USE DEF CaptureInv, Change, reporter
<1>1. /\ incidents \in Nat /\ incidents < MaxIncidents /\ incidents' = incidents + 1
      /\ MaxIncidents \in Nat /\ pv \in 1..(incidents + 1)
  BY BoundAssumption DEF Incident, Types
<1>2. /\ pv' \in 1..(incidents' + 1) /\ incidents' \in 0..MaxIncidents
      /\ pv + 1 \in Versions /\ 0 \in Versions
  BY <1>1 DEF Versions
<1>3. rules' \in [Scopes -> Versions]
  BY <1>2 DEF Types
<1>4. Types'
  BY <1>2, <1>3 DEF Types, ClockOK
<1>5. QED
  BY <1>4, RestKept

(* The reporter may report again.                                          *)
LEMMA RetryDueKeeps ==
    ASSUME CaptureInv, RetryDue
    PROVE  CaptureInv'
<1> USE DEF CaptureInv, RetryDue, central
<1>1. Types'
  BY TypesKept DEF Types, Counted
<1>2. QED
  BY <1>1, RestKept

(* Nothing happens.                                                        *)
LEMMA StutterKeeps ==
    ASSUME CaptureInv, UNCHANGED vars
    PROVE  CaptureInv'
<1> USE DEF CaptureInv, vars, central, reporter
<1>1. Types'
  BY TypesKept DEF Types, Counted
<1>2. QED
  BY <1>1, RestKept

(* An event or a heartbeat is handled.                                     *)
LEMMA HandledKeeps ==
    ASSUME CaptureInv, NEW q, PubOK(q, goodAt), Moves(p, q), Handled(q), Counted
    PROVE  CaptureInv'
<1> USE DEF CaptureInv, Handled, central, reporter
<1>1. q.lastGood = p.lastGood /\ q.id = p.id /\ q.pending \in {p.pending, NoAck}
  BY DEF Moves
<1>2. Types'
  BY <1>1, TypesKept DEF Types
<1>3. PubOK(p, goodAt) /\ Follows(p, q) /\ p.id \in Nat
  BY MovesFollow DEF PublisherInv, PubOK, Publishers
<1>4. CurrentFor(q, file) /\ GrantOK(q, post')
  BY <1>3, FollowerOK DEF PublisherInv, GrantInv
<1>5. Undisturbed /\ NextPost(q) /\ ClockOK
  BY DEF Undisturbed, NextPost, Types
<1>6. QED
  BY <1>1, <1>2, <1>3, <1>4, <1>5, Unwritten

(* An event in which an agent is seen.                                     *)
LEMMA AgentEventKeeps ==
    ASSUME CaptureInv, NEW s \in Scopes, AgentEvent(s)
    PROVE  CaptureInv'
<1> DEFINE e == Entry("agent", 0, 0, "keep", now + Ttl)
<1>1. ClockOK /\ PubOK(p, goodAt) /\ Incident("agent")
  BY DEF CaptureInv, Types, PublisherInv, AgentEvent
<1>2. now + Ttl \in Times /\ 0 \in Versions
  BY <1>1, TimeFacts, BoundAssumption DEF Versions
<1>3. e \in EntryType /\ e.kind = "agent"
  BY <1>2, EntryMade DEF EntryKinds
<1>4. Handled(Observed(p, s, e))
  BY DEF AgentEvent
<1> HIDE DEF e
<1>5. ~IsRule(e)
  BY <1>3 DEF IsRule
<1>6. PubOK(Observed(p, s, e), goodAt) /\ Moves(p, Observed(p, s, e))
  BY <1>1, <1>3, <1>5, ObservedOK
<1>7. Counted
  BY <1>1 DEF Counted, Incident
<1>8. QED
  BY <1>4, <1>6, <1>7, HandledKeeps

(* An event of a workload that a rule decides.                             *)
LEMMA RuleEventKeeps ==
    ASSUME CaptureInv, NEW s \in Scopes, RuleEvent(s)
    PROVE  CaptureInv'
<1> DEFINE e == Decision(pol, s, "sample")
<1>1. ClockOK /\ PubOK(p, goodAt) /\ pol \in Policies /\ pol.exp > now
  BY DEF CaptureInv, Types, PublisherInv, RuleEvent
<1>2. e \in EntryType /\ e.exp = pol.exp
  BY <1>1, DecisionOK
<1>3. 0 < p.lastGood /\ p.lastGood <= goodAt /\ pol.exp <= goodAt + LkgTtl
  <2>1. pol.exp \in Nat /\ pol.exp > 0
    BY <1>1, TimeFacts DEF Policies
  <2>2. QED
    BY <2>1 DEF CaptureInv, Types
<1>4. Handled(Observed(p, s, e)) /\ Counted
  BY DEF RuleEvent, Counted
<1> HIDE DEF e
<1>5. PubOK(Observed(p, s, e), goodAt) /\ Moves(p, Observed(p, s, e))
  BY <1>1, <1>2, <1>3, ObservedOK
<1>6. QED
  BY <1>4, <1>5, HandledKeeps

(* An event of a workload that nothing is known of.                        *)
LEMMA OtherEventKeeps ==
    ASSUME CaptureInv, NEW s \in Scopes, OtherEvent(s)
    PROVE  CaptureInv'
<1>1. ClockOK /\ PubOK(p, goodAt)
  BY DEF CaptureInv, Types, PublisherInv
<1>2. Handled(ObservedDefault(p, s)) /\ Counted
  BY DEF OtherEvent, Counted
<1>3. PubOK(ObservedDefault(p, s), goodAt) /\ Moves(p, ObservedDefault(p, s))
  BY <1>1, ObservedDefaultOK
<1>4. QED
  BY <1>2, <1>3, HandledKeeps

(* The heartbeat takes back what has expired.                              *)
LEMMA HeartbeatKeeps ==
    ASSUME CaptureInv, Heartbeat
    PROVE  CaptureInv'
<1>1. ClockOK /\ PubOK(p, goodAt)
  BY DEF CaptureInv, Types, PublisherInv
<1>2. Handled(Safe(p)) /\ Counted
  BY DEF Heartbeat, Counted
<1>3. PubOK(Safe(p), goodAt) /\ Moves(p, Safe(p))
  BY <1>1, SafeOK
<1>4. QED
  BY <1>2, <1>3, HandledKeeps

(* Central is away: the last known good decisions stay, without a grant.   *)
LEMMA PolicyFailedKeeps ==
    ASSUME CaptureInv, PolicyFailed
    PROVE  CaptureInv'
<1> DEFINE q == Degraded(p)
<1>1. ClockOK /\ PubOK(p, goodAt) /\ p.id \in Nat
  BY DEF CaptureInv, Types, PublisherInv, PubOK, Publishers
<1>2. PubOK(q, goodAt) /\ Follows(p, q) /\ q.lastGood = p.lastGood
  BY <1>1, DegradedOK
<1>3. p' = q /\ Counted
  BY DEF PolicyFailed, Counted, Fault, Incident
<1> HIDE DEF q
<1>4. /\ UNCHANGED <<now, central, pol, file, ack, reporter, collector, goodAt>>
  BY DEF PolicyFailed
<1>5. CurrentFor(q, file) /\ GrantOK(q, post')
  BY <1>1, <1>2, <1>4, FollowerOK DEF CaptureInv, PublisherInv, GrantInv, reporter
<1>6. Undisturbed /\ NextPost(q)
  BY <1>4 DEF Undisturbed, NextPost, CaptureInv, Types, central, reporter
<1>7. Types'
  BY <1>2, <1>3, <1>4, TypesKept DEF CaptureInv, Types, central, reporter
<1>8. q.id >= p.id /\ q.pending \in {p.pending, NoAck, ack}
  BY <1>1, <1>2 DEF Follows
<1>9. PubOK(q, goodAt') /\ file' = file
  BY <1>2, <1>4
<1>10. PublisherInv' /\ AckInv' /\ ReportInv' /\ GrantInv'
  BY <1>1, <1>3, <1>5, <1>6, <1>8, <1>9, Unwritten DEF CaptureInv
<1>11. QED
  BY <1>7, <1>10 DEF CaptureInv

(* A flush of what follows the publisher's record.                         *)
LEMMA FlushKeeps ==
    ASSUME CaptureInv, NEW q, PubOK(q, goodAt'), Follows(p, q), Flush(q),
           goodAt' \in Nat, goodAt <= goodAt', goodAt' <= now,
           UNCHANGED <<now, central, ack, reporter, collector>>
    PROVE  /\ PublisherInv' /\ AckInv' /\ ReportInv' /\ GrantInv'
           /\ p'.lastGood = q.lastGood /\ Counted
<1>1. PubOK(p, goodAt) /\ p.id \in Nat /\ ClockOK
  BY DEF CaptureInv, PublisherInv, PubOK, Publishers, Types
<1>2. CurrentFor(q, file) /\ GrantOK(q, post')
  BY <1>1, FollowerOK DEF CaptureInv, PublisherInv, GrantInv, reporter
<1>3. q.id >= p.id /\ q.pending \in {p.pending, NoAck, ack}
  BY <1>1 DEF Follows
<1>4. Undisturbed /\ post' \in {post, NoPost}
  BY DEF Undisturbed, central, reporter
<1>5. QED
  BY <1>1, <1>2, <1>3, <1>4, Flushed DEF CaptureInv, Counted, Incident

(* The timer of the flush.                                                 *)
LEMMA FlushTimerKeeps ==
    ASSUME CaptureInv, FlushTimer
    PROVE  CaptureInv'
<1>1. PubOK(p, goodAt) /\ goodAt \in Nat /\ goodAt <= now
  BY DEF CaptureInv, PublisherInv, Types
<1>2. Follows(p, p)
  BY MovesRefl, MovesFollow
<1>3. Flush(p) /\ UNCHANGED <<now, central, pol, ack, reporter, collector, goodAt>>
  BY DEF FlushTimer
<1>4. /\ PublisherInv' /\ AckInv' /\ ReportInv' /\ GrantInv'
      /\ p'.lastGood = p.lastGood /\ Counted
  BY <1>1, <1>2, <1>3, FlushKeeps
<1>5. Types'
  BY <1>3, <1>4, TypesKept DEF CaptureInv, Types, central, reporter
<1>6. QED
  BY <1>4, <1>5 DEF CaptureInv

(* The loaded policy is applied to new identities.                         *)
LEMMA IdentityRefreshedKeeps ==
    ASSUME CaptureInv, IdentityRefreshed
    PROVE  CaptureInv'
<1> DEFINE q == Synchronized(p, pol)
<1>1. /\ PubOK(p, goodAt) /\ goodAt \in Nat /\ goodAt <= now /\ ClockOK /\ pol \in Policies
      /\ pol.exp > now
  BY DEF CaptureInv, PublisherInv, Types, IdentityRefreshed
<1>2. 0 < p.lastGood /\ p.lastGood <= goodAt /\ pol.exp <= goodAt + LkgTtl
  <2>1. pol.exp \in Nat /\ pol.exp > 0
    BY <1>1, TimeFacts DEF Policies
  <2>2. QED
    BY <2>1 DEF CaptureInv, Types
<1>3. PubOK(q, goodAt) /\ Moves(p, q) /\ q.lastGood = p.lastGood
  BY <1>1, <1>2, SynchronizedOK DEF Moves
<1>4. Flush(q) /\ UNCHANGED <<now, central, pol, ack, reporter, collector, goodAt>>
  BY DEF IdentityRefreshed
<1> HIDE DEF q
<1>5. /\ PublisherInv' /\ AckInv' /\ ReportInv' /\ GrantInv'
      /\ p'.lastGood = q.lastGood /\ Counted
  BY <1>1, <1>3, <1>4, MovesFollow, FlushKeeps
<1>6. Types'
  BY <1>3, <1>4, <1>5, TypesKept DEF CaptureInv, Types, central, reporter
<1>7. QED
  BY <1>5, <1>6 DEF CaptureInv

(* A policy is loaded and published.                                       *)
LEMMA PolicyLoadedKeeps ==
    ASSUME CaptureInv, PolicyLoaded
    PROVE  CaptureInv'
<1> DEFINE r == Ready(p)
           q == Synchronized(r, pol')
<1>1. /\ PubOK(p, goodAt) /\ goodAt \in Nat /\ goodAt <= now /\ ClockOK
      /\ now \in Nat /\ now >= 1 /\ now + Ttl \in Times /\ now + Ttl <= now + LkgTtl
    <2>1. PubOK(p, goodAt) /\ goodAt \in Nat /\ goodAt <= now /\ ClockOK
      BY DEF CaptureInv, PublisherInv, Types
    <2>2. QED
      BY <2>1, TimeFacts
<1>2. /\ pol' = [pv |-> pv, rules |-> rules, exp |-> now + Ttl] /\ goodAt' = now
      /\ Flush(q) /\ UNCHANGED <<now, central, ack, reporter, collector>>
  BY DEF PolicyLoaded
<1>3. pol' \in Policies /\ pol'.exp = now + Ttl
  <2>1. pv \in Versions
    BY BoundAssumption DEF CaptureInv, Types, Versions
  <2>2. QED
    BY <1>1, <1>2, <2>1 DEF CaptureInv, Types, Policies
<1>4. PubOK(r, now) /\ Follows(p, r) /\ r.lastGood = now
  BY <1>1, ReadyOK
<1> HIDE DEF r
<1>5. PubOK(q, now) /\ Moves(r, q) /\ q.lastGood = now
  BY <1>1, <1>3, <1>4, SynchronizedOK DEF Moves
<1> HIDE DEF q
<1>6. Follows(p, q)
  BY <1>4, <1>5, FollowsMoves
<1>7. /\ PublisherInv' /\ AckInv' /\ ReportInv' /\ GrantInv'
      /\ p'.lastGood = now /\ Counted
  BY <1>1, <1>2, <1>5, <1>6, FlushKeeps
<1>8. Types'
  <2>1. /\ incidents' \in 0..MaxIncidents /\ incidents <= incidents' /\ incidents' \in Nat
        /\ incidents \in Nat
    BY <1>7, BoundAssumption DEF CaptureInv, Types, Counted
  <2>2. pv' \in 1..(incidents' + 1)
    <3>1. pv \in 1..(incidents + 1) /\ pv' = pv
      BY <1>2 DEF CaptureInv, Types, central
    <3>2. pv \in 1..(incidents' + 1)
      BY <2>1, <3>1, CountFits
    <3>3. QED
      BY <3>1, <3>2
  <2>3. /\ now' = now /\ rules' = rules /\ post' = post /\ waiting' = waiting
        /\ goodAt' = now /\ p'.lastGood = now /\ pol'.exp = now + Ttl
    BY <1>2, <1>3, <1>7 DEF central, reporter
  <2>4. /\ goodAt' \in Nat /\ goodAt' <= now' /\ 0 < p'.lastGood /\ p'.lastGood <= goodAt'
        /\ pol'.exp <= goodAt' + LkgTtl
    BY <1>1, <2>3
  <2>5. QED
    BY <1>1, <1>3, <2>1, <2>2, <2>3, <2>4 DEF CaptureInv, Types, ClockOK
<1>9. QED
  BY <1>7, <1>8 DEF CaptureInv
-----------------------------------------------------------------------------
(* A report that is refused or lost has been made all the same.            *)
LEMMA PostFailedKeeps ==
    ASSUME CaptureInv, post.state \in {"sent", "accepted"},
           post' = [post EXCEPT !.state = "failed"], Counted,
           UNCHANGED <<now, central, pol, p, file, ack, waiting, collector, goodAt>>
    PROVE  CaptureInv'
<1> USE DEF CaptureInv, central
<1>1. /\ post' \in Posts /\ post'.state = "failed" /\ post'.ack = post.ack
      /\ post # NoPost /\ post' # NoPost
  BY NoPostFacts DEF Types, Posts, States
<1>2. Types'
  BY <1>1, TypesKept DEF Types
<1>3. PublisherInv'
  BY DEF PublisherInv, PubOK, Grounded, FileOK, CurrentFor, Alike
<1>4. AckInv'
  BY <1>1 DEF AckInv, KnownAck, NotBefore
<1>5. ReportInv'
  BY <1>1 DEF ReportInv, ReportOK, Ordered, NotBefore
<1>6. GrantInv'
  BY <1>1 DEF GrantInv, GrantOK, FileGrant, Enforcement, Backs, KeyOf
<1>7. QED
  BY <1>2, <1>3, <1>4, <1>5, <1>6

(* The newest reports, when one is put before the others: two of them at   *)
(* least are kept.                                                         *)
LEMMA PrefixFacts ==
    ASSUME NEW r \in Reports, NEW L \in Seq(Reports)
    PROVE  /\ Prefix(<<r>> \o L) \in Seq(Reports) /\ Prefix(<<r>> \o L) # <<>>
           /\ Prefix(<<r>> \o L)[1] = r
           /\ \A i \in DOMAIN Prefix(<<r>> \o L) : i # 1 =>
                 i - 1 \in DOMAIN L /\ Prefix(<<r>> \o L)[i] = L[i - 1]
           /\ L # <<>> => 2 \in DOMAIN Prefix(<<r>> \o L)
<1> DEFINE M == <<r>> \o L
           n == Lesser(MaxReports, Len(M))
<1>1. /\ M \in Seq(Reports) /\ Len(M) = Len(L) + 1 /\ M[1] = r /\ Len(L) \in Nat
      /\ \A i \in 2..Len(M) : i - 1 \in DOMAIN L /\ M[i] = L[i - 1]
      /\ L # <<>> => Len(L) >= 1
  OBVIOUS
<1>2. /\ n \in 1..Len(M) /\ n \in Nat /\ (L # <<>> => n >= 2)
  BY <1>1, TimeAssumption DEF Lesser
<1> HIDE DEF n
<1>3. Prefix(M) = SubSeq(M, 1, n)
  BY DEF Prefix, n
<1> HIDE DEF M
<1>4. /\ SubSeq(M, 1, n) \in Seq(Reports) /\ Len(SubSeq(M, 1, n)) = n
      /\ DOMAIN SubSeq(M, 1, n) = 1..n /\ \A i \in 1..n : SubSeq(M, 1, n)[i] = M[i]
  BY <1>1, <1>2
<1>5. Prefix(M) # <<>>
  BY <1>2, <1>3, <1>4
<1>6. \A i \in 1..n : i # 1 => i \in 2..Len(M)
  BY <1>1, <1>2
<1>7. /\ Prefix(M) \in Seq(Reports) /\ Prefix(M) # <<>> /\ Prefix(M)[1] = r
      /\ \A i \in DOMAIN Prefix(M) : i # 1 => i - 1 \in DOMAIN L /\ Prefix(M)[i] = L[i - 1]
      /\ L # <<>> => 2 \in DOMAIN Prefix(M)
  BY <1>1, <1>2, <1>3, <1>4, <1>5, <1>6
<1>8. QED
  BY <1>7 DEF M

(* What the newest report and the others are, in one place.                *)
LEMMA NewestFirst ==
    ASSUME Types, ReportInv, AckInv, post # NoPost, NEW i \in DOMAIN reports
    PROVE  /\ NotBefore(post.ack, reports[i].key)
           /\ reports[i].key = KeyOf(post.ack) => i = 1
           /\ reports[i].key # KeyOf(post.ack) => Later(KeyOf(post.ack), reports[i].key)
<1>1. /\ reports \in Seq(Reports) /\ reports # <<>> /\ 1 \in DOMAIN reports
      /\ i \in Nat /\ i >= 1 /\ reports[i] \in Reports /\ reports[1] \in Reports
  <2>1. reports \in Seq(Reports)
    BY DEF ReportInv
  <2>2. QED
    BY <2>1
<1>2. /\ reports[i].key \in Keys /\ reports[1].key \in Keys /\ post.ack \in Acks
  BY <1>1 DEF Types, Posts, Reports
<1>3. NotBefore(post.ack, reports[1].key)
  BY <1>1 DEF ReportInv
<1>4. i # 1 => Later(reports[1].key, reports[i].key)
  BY <1>1 DEF ReportInv, Ordered
<1>5. reports[i].key.epoch = post.ack.epoch => reports[i].key.pub = post.ack.pub
  BY DEF ReportInv, ReportOK
<1>6. NotBefore(post.ack, reports[i].key)
  BY <1>2, <1>3, <1>4 DEF NotBefore, Later, Keys, Acks
<1>7. reports[i].key = KeyOf(post.ack) => i = 1
  BY <1>2, <1>3, <1>4 DEF NotBefore, Later, Keys, Acks, KeyOf
<1>8. reports[i].key # KeyOf(post.ack) => Later(KeyOf(post.ack), reports[i].key)
  <2>1. SUFFICES ASSUME ~Later(KeyOf(post.ack), reports[i].key)
                 PROVE  reports[i].key = KeyOf(post.ack)
    OBVIOUS
  <2>2. reports[i].key.epoch = post.ack.epoch /\ reports[i].key.inst = post.ack.inst
    BY <1>2, <1>6, <2>1 DEF NotBefore, Later, Keys, Acks, KeyOf
  <2>3. QED
    BY <1>2, <1>5, <2>2 DEF Keys, KeyOf
<1>9. QED
  BY <1>6, <1>7, <1>8

(* Central accepts a report, for the first time or again.                  *)
LEMMA ReportMaterializationKeeps ==
    ASSUME CaptureInv, ReportMaterialization
    PROVE  CaptureInv'
<1> USE DEF CaptureInv, central
<1>1. /\ post.state = "sent"
      /\ UNCHANGED <<now, pv, rules, pol, p, file, ack, waiting, collector, goodAt, incidents>>
      /\ Counted
  BY DEF ReportMaterialization, Counted
<1>2. CASE ~Allowed
  BY <1>1, <1>2, PostFailedKeeps DEF ReportMaterialization
<1>3. CASE Allowed
  <2> DEFINE r == [key |-> Report, at |-> now, ack |-> post.ack, entries |-> post.entries]
  <2>1. /\ post' = [post EXCEPT !.state = "accepted"]
        /\ reports' = IF Known # {} THEN reports ELSE Prefix(<<r>> \o reports)
    BY <1>3 DEF ReportMaterialization
  <2>2. /\ post' \in Posts /\ post'.state = "accepted" /\ post'.ack = post.ack
        /\ post'.entries = post.entries /\ post # NoPost /\ post' # NoPost
    BY <1>1, <2>1, NoPostFacts DEF Types, Posts, States
  <2>3. Types'
    BY <1>1, <2>2, TypesKept DEF Types
  <2>4. PublisherInv'
    BY <1>1 DEF PublisherInv, PubOK, Grounded, FileOK, CurrentFor, Alike
  <2>5. AckInv'
    BY <1>1, <2>2 DEF AckInv, KnownAck, NotBefore
  <2>6. Report = KeyOf(post.ack) /\ reports \in Seq(Reports) /\ p.mode # "enforce"
    BY <2>2 DEF Report, KeyOf, ReportInv, GrantInv, GrantOK
  <2>7. KnownAck(post.ack) /\ post.ack \in Acks /\ file \in Files
    BY DEF AckInv, KnownAck, PublisherInv, FileOK
  <2>8. CASE Known # {}
    <3>1. reports' = reports
      BY <2>1, <2>8
    <3>2. PICK i \in DOMAIN reports : reports[i].key = KeyOf(post.ack)
                                      /\ reports[i].entries = post.entries
      <4>1. PICK x \in ToSet(reports) : x.key = Report
        BY <2>8 DEF Known
      <4>2. x.entries = post.entries
        BY <1>3, <4>1 DEF Allowed, Known
      <4>3. QED
        BY <2>6, <4>1, <4>2 DEF ToSet
    <3>3. i = 1 /\ reports # <<>>
      BY <2>2, <2>6, <3>2, NewestFirst
    <3>4. ReportInv'
      BY <1>1, <2>2, <3>1, <3>2, <3>3 DEF ReportInv, ReportOK, Ordered, NotBefore, KeyOf
    <3>5. GrantInv'
      BY <1>1, <2>2, <2>6, <3>1 DEF GrantInv, GrantOK, FileGrant, Enforcement, Backs, KeyOf
    <3>6. QED
      BY <2>3, <2>4, <2>5, <3>4, <3>5
  <2>9. CASE Known = {}
    <3>1. r \in Reports /\ r.key = KeyOf(post.ack) /\ r.at = now /\ r.entries = post.entries
      BY <2>6, <2>7, TimeFacts DEF Reports, Keys, KeyOf, Acks, Types, Posts
    <3>2. reports' = Prefix(<<r>> \o reports)
      BY <2>1, <2>9
    <3> HIDE DEF r
    <3>3. /\ reports' \in Seq(Reports) /\ reports' # <<>> /\ reports'[1] = r
          /\ 1 \in DOMAIN reports'
          /\ \A i \in DOMAIN reports' : i # 1 =>
                i - 1 \in DOMAIN reports /\ reports'[i] = reports[i - 1]
          /\ reports # <<>> => 2 \in DOMAIN reports'
      <4>1. /\ reports' \in Seq(Reports) /\ reports' # <<>> /\ reports'[1] = r
            /\ \A i \in DOMAIN reports' : i # 1 =>
                  i - 1 \in DOMAIN reports /\ reports'[i] = reports[i - 1]
            /\ reports # <<>> => 2 \in DOMAIN reports'
        BY <2>6, <3>1, <3>2, PrefixFacts
      <4>2. 1 \in DOMAIN reports'
        BY <4>1
      <4>3. QED
        BY <4>1, <4>2
    <3>4. \A i \in DOMAIN reports : reports[i].key # KeyOf(post.ack)
      BY <2>6, <2>9 DEF Known, ToSet
    <3>5. \A i \in DOMAIN reports : Later(KeyOf(post.ack), reports[i].key)
      BY <2>2, <3>4, NewestFirst
    <3>6. \A i, j \in DOMAIN reports' : i < j => Later(reports'[i].key, reports'[j].key)
      <4>1. SUFFICES ASSUME NEW i \in DOMAIN reports', NEW j \in DOMAIN reports', i < j
                     PROVE  Later(reports'[i].key, reports'[j].key)
        OBVIOUS
      <4>2. i \in Nat /\ j \in Nat /\ i >= 1 /\ j # 1
        BY <3>3, <4>1
      <4>3. j - 1 \in DOMAIN reports /\ reports'[j] = reports[j - 1]
        BY <3>3, <4>2
      <4>4. CASE i = 1
        BY <3>1, <3>3, <3>5, <4>3, <4>4
      <4>5. CASE i # 1
        <5>1. i - 1 \in DOMAIN reports /\ reports'[i] = reports[i - 1] /\ i - 1 < j - 1
          BY <3>3, <4>1, <4>2, <4>5
        <5>2. QED
          BY <4>3, <5>1 DEF ReportInv, Ordered
      <4>6. QED
        BY <4>4, <4>5
    <3>7. ASSUME NEW i \in DOMAIN reports' PROVE ReportOK(reports[i])'
      <4>1. CASE i = 1
        <5>1. /\ post.ack.epoch <= file.epoch
              /\ post.ack.epoch = file.epoch => post.ack.pub = file.pub
              /\ file.exp <= now + Ttl
          BY <2>7 DEF KnownAck, PublisherInv, FileOK
        <5>2. r.key.epoch = post.ack.epoch /\ r.key.pub = post.ack.pub
          BY <3>1 DEF KeyOf
        <5>3. QED
          BY <1>1, <2>2, <3>1, <3>3, <4>1, <5>1, <5>2 DEF ReportOK
      <4>2. CASE i # 1
        <5>1. i - 1 \in DOMAIN reports /\ reports'[i] = reports[i - 1]
          BY <3>3, <4>2
        <5>2. ReportOK(reports[i - 1])
          BY <5>1 DEF ReportInv
        <5>3. QED
          BY <1>1, <2>2, <5>1, <5>2 DEF ReportOK
      <4>3. QED
        BY <4>1, <4>2
    <3>8. /\ NotBefore(ack, KeyOf(post.ack))
          /\ p.pending # NoAck => NotBefore(p.pending, KeyOf(post.ack))
          /\ NotBefore(post.ack, KeyOf(post.ack))
      BY <2>2, <2>7 DEF AckInv, NotBefore, KeyOf, Acks
    <3>9. ReportInv'
      <4>1. Ordered'
        BY <3>6 DEF Ordered
      <4>2. \A i \in DOMAIN reports' : ReportOK(reports[i])'
        BY <3>7
      <4>3. /\ NotBefore(ack', reports'[1].key)
            /\ p'.pending # NoAck => NotBefore(p'.pending, reports'[1].key)
            /\ NotBefore(post'.ack, reports'[1].key)
        BY <1>1, <2>2, <3>1, <3>3, <3>8
      <4>4. reports'[1].key = KeyOf(post'.ack) /\ reports'[1].entries = post'.entries
        BY <2>2, <3>1, <3>3
      <4>5. QED
        BY <3>3, <4>1, <4>2, <4>3, <4>4 DEF ReportInv, NotBefore, KeyOf
    <3>10. GrantOK(p, post)'
      BY <1>1, <2>6 DEF GrantOK
    <3>11. FileGrant'
      <4>1. ASSUME file.mode = "enforce"
            PROVE  /\ file.grant.inst <= collector.inst /\ post.ack.epoch = file.epoch
                   /\ ~(file.grant.inst = collector.inst /\ file # collector.file)
        <5>1. file.grant.inst <= collector.inst /\ post.ack.epoch = file.epoch
          BY <2>2, <4>1 DEF GrantInv, FileGrant
        <5>2. post.ack.inst >= file.grant.inst /\ post.ack.inst <= collector.inst
          BY <2>7, <4>1, <5>1 DEF KnownAck
        <5>3. file.grant.inst = collector.inst => post.ack.inst = collector.inst
          BY <2>7, <5>2 DEF Acks, AckInv, Collectors
        <5>4. QED
          BY <2>7, <5>1, <5>3 DEF KnownAck
      <4>2. QED
        BY <1>1, <2>2, <4>1 DEF FileGrant
    <3>12. Enforcement'
      <4>1. SUFFICES ASSUME collector.on PROVE Enforcement'
        BY <1>1 DEF Enforcement
      <4>2. /\ ack.epoch = collector.file.epoch /\ post.ack.epoch >= collector.file.epoch
            /\ post.ack.epoch = ack.epoch => KeyOf(post.ack) = KeyOf(ack)
        BY <2>2, <4>1 DEF GrantInv, Enforcement
      <4>3. KeyOf(post.ack) = KeyOf(ack)
        BY <2>7, <4>2 DEF AckInv, KnownAck, NotBefore, Acks
      <4>4. PICK i \in DOMAIN reports :
                /\ i <= 2
                /\ Backs(reports[i], collector.file.grant, collector.file.entries)
                /\ i = 2 => reports[1].key = KeyOf(ack)
        BY <4>1 DEF GrantInv, Enforcement
      <4>5. i = 1
        <5>1. 1 \in DOMAIN reports /\ i \in Nat /\ i >= 1
          BY <2>6
        <5>2. i # 2
          BY <3>4, <4>3, <4>4, <5>1
        <5>3. QED
          BY <4>4, <5>1, <5>2
      <4>6. 2 \in DOMAIN reports' /\ reports'[2] = reports[1]
        <5>1. reports # <<>>
          BY <4>5
        <5>2. 2 \in DOMAIN reports'
          BY <3>3, <5>1
        <5>3. reports'[2] = reports[2 - 1]
          BY <3>3, <5>2
        <5>4. QED
          BY <5>2, <5>3
      <4>7. Backs(reports'[2], collector.file.grant, collector.file.entries)
        BY <4>4, <4>5, <4>6
      <4>8. reports'[1].key = KeyOf(ack)
        BY <3>1, <3>3, <4>3
      <4>9. \E k \in DOMAIN reports' :
                /\ k <= 2
                /\ Backs(reports'[k], collector.file.grant, collector.file.entries)
                /\ k = 2 => reports'[1].key = KeyOf(ack)
        BY <4>6, <4>7, <4>8
      <4>10. QED
        BY <1>1, <2>2, <4>1, <4>9 DEF GrantInv, Enforcement, Backs, KeyOf
    <3>13. QED
      BY <2>3, <2>4, <2>5, <3>9, <3>10, <3>11, <3>12 DEF GrantInv
  <2>10. QED
    BY <2>8, <2>9
<1>4. QED
  BY <1>2, <1>3

(* The request or the answer is lost.                                      *)
LEMMA ReportLostKeeps ==
    ASSUME CaptureInv, ReportLost
    PROVE  CaptureInv'
<1>1. Counted
  BY DEF ReportLost, Fault, Incident, Counted
<1>2. QED
  BY <1>1, PostFailedKeeps DEF ReportLost
(* What a report carries are decisions.                                    *)
LEMMA BindingsTyped ==
    ASSUME NEW q, NEW g, PubOK(q, g)
    PROVE  Bindings(q) \in [Scopes -> EntryType]
  BY NoEntryFacts DEF Bindings, PubOK, Publishers

(* The reporter's poll: what is read may be reported at once.              *)
LEMMA PollKeeps ==
    ASSUME CaptureInv, Poll
    PROVE  CaptureInv'
<1> DEFINE q == Consumed(p)
           send == post = NoPost /\ ~waiting /\ Reportable(q)
<1> USE DEF CaptureInv
<1>1. /\ p' = q
      /\ post' = IF send THEN [state |-> "sent", ack |-> q.pending, entries |-> Bindings(q)]
                 ELSE post
      /\ UNCHANGED <<now, central, pol, file, ack, waiting, collector, goodAt, incidents>>
      /\ Counted
  BY DEF Poll, Counted
<1>2. /\ ClockOK /\ PubOK(p, goodAt) /\ p.id \in Nat /\ ack \in Acks /\ CurrentFor(p, file)
      /\ GrantOK(p, post)
  BY DEF Types, PublisherInv, PubOK, Publishers, AckInv, KnownAck, GrantInv
<1>3. PubOK(q, goodAt) /\ Follows(p, q) /\ q.lastGood = p.lastGood
  BY <1>2, ConsumedOK
<1>4. send => q.pending # NoAck /\ q.mode = "preview" /\ q.pending.epoch = file.epoch
  BY DEF Reportable, Valid
<1>5. q.pending \in Acks /\ Bindings(q) \in [Scopes -> EntryType]
  BY <1>3, BindingsTyped DEF PubOK, Publishers
<1> HIDE DEF q
<1>6. send => post'.state = "sent" /\ post'.ack = q.pending /\ post = NoPost
  BY <1>1
<1>7. post' \in Posts
  <2>1. CASE send
    <3>1. post' = [state |-> "sent", ack |-> q.pending, entries |-> Bindings(q)]
      BY <1>1, <2>1
    <3>2. QED
      BY <1>5, <3>1 DEF Posts, States
  <2>2. CASE ~send
    BY <1>1, <2>2 DEF Types
  <2>3. QED
    BY <2>1, <2>2
<1>8. NextPost(q)
  BY <1>1, <1>4, <1>6 DEF NextPost
<1>9. CurrentFor(q, file) /\ GrantOK(q, post)
  BY <1>2, <1>3, FollowerOK
<1>10. GrantOK(q, post')
  BY <1>1, <1>4, <1>9 DEF GrantOK
<1>11. Undisturbed
  BY <1>1 DEF Undisturbed, central, Types
<1>12. Types'
  BY <1>1, <1>3, <1>7, TypesKept DEF central, Types
<1>13. q.id >= p.id /\ q.pending \in {p.pending, NoAck, ack} /\ PubOK(q, goodAt')
  BY <1>1, <1>2, <1>3 DEF Follows
<1>14. QED
  BY <1>1, <1>2, <1>8, <1>9, <1>10, <1>11, <1>12, <1>13, Unwritten

(* The grant, when the answer still is about what is published.            *)
LEMMA GrantGiven ==
    ASSUME CaptureInv, post.state = "accepted", Acceptable(p, post.ack, post.entries)
    PROVE  /\ PubOK(Granted(p, post.ack), goodAt) /\ Granted(p, post.ack).id = p.id
           /\ Granted(p, post.ack).pending = NoAck /\ Granted(p, post.ack).dirty
           /\ Granted(p, post.ack).lastGood = p.lastGood
           /\ GrantOK(Granted(p, post.ack), NoPost)
<1> DEFINE q == Granted(p, post.ack)
<1> USE DEF CaptureInv
<1>1. /\ ClockOK /\ PubOK(p, goodAt) /\ post.ack \in Acks /\ file \in Files
      /\ KnownAck(post.ack)
  BY DEF Types, PublisherInv, FileOK, AckInv, KnownAck
<1>2. post.ack.ok /\ post.ack.epoch = file.epoch
  BY DEF Acceptable, Valid
<1>3. post.ack.inst >= 1 /\ post.ack.inst <= collector.inst
  BY <1>1, <1>2 DEF KnownAck
<1>4. /\ PubOK(q, goodAt) /\ q.id = p.id /\ q.dirty /\ q.pending = NoAck
      /\ q.entries = p.entries /\ q.grant.inst = post.ack.inst /\ q.grant.exp <= file.exp
  BY <1>1, <1>3, GrantedOK
<1>5. q.lastGood = p.lastGood
  BY <1>1 DEF Granted, Advanced, PubOK, Publishers
<1> HIDE DEF q
<1>6. /\ reports # <<>> /\ 1 \in DOMAIN reports /\ reports[1] \in Reports
      /\ reports[1].key = KeyOf(post.ack) /\ reports[1].entries = post.entries
  <2>1. reports # <<>> /\ reports \in Seq(Reports)
    BY DEF ReportInv
  <2>2. QED
    BY <2>1 DEF ReportInv
<1>7. file.exp <= reports[1].at + Ttl /\ reports[1].key.inst = post.ack.inst
  BY <1>2, <1>6 DEF ReportInv, ReportOK, KeyOf
<1>8. q.grant.exp <= reports[1].at + Ttl
  <2>1. q.grant.exp \in Nat /\ file.exp \in Nat /\ reports[1].at \in Nat /\ Ttl \in Nat
    BY <1>1, <1>4, <1>6, TimeFacts DEF PubOK, Publishers, Grants, Files, Reports
  <2>2. QED
    BY <1>4, <1>7, <2>1
<1>9. \A s \in Scopes : IsRule(q.entries[s]) => reports[1].entries[s].rev = q.entries[s].rev
  BY <1>4, <1>6 DEF Acceptable, RuleScopes
<1>10. GrantOK(q, NoPost)
  BY <1>3, <1>4, <1>6, <1>7, <1>8, <1>9 DEF GrantOK, Backs
<1>11. QED
  BY <1>4, <1>5, <1>10 DEF q

(* The answer to the report, with a grant or without.                      *)
LEMMA AnsweredKeeps ==
    ASSUME CaptureInv, Answered
    PROVE  CaptureInv'
<1> USE DEF CaptureInv
<1>1. /\ post' = NoPost /\ UNCHANGED <<now, central, pol, ack, collector, goodAt>>
  BY DEF Answered
<1>2. /\ ClockOK /\ PubOK(p, goodAt) /\ p.id \in Nat /\ CurrentFor(p, file)
      /\ GrantOK(p, post) /\ PubOK(p, goodAt')
  BY <1>1 DEF Types, PublisherInv, PubOK, Publishers, GrantInv, Grounded
<1>3. Undisturbed /\ NoPost \in Posts
  BY <1>1, NoPostFacts DEF Undisturbed, central, Types
<1>4. CASE post.state = "accepted" /\ Acceptable(p, post.ack, post.entries)
  <2> DEFINE q == Granted(p, post.ack)
  <2>1. Flush(q) /\ waiting' = FALSE
    BY <1>4 DEF Answered
  <2>2. /\ PubOK(q, goodAt) /\ q.id = p.id /\ q.pending = NoAck /\ q.dirty
        /\ q.lastGood = p.lastGood /\ GrantOK(q, NoPost)
    BY <1>4, GrantGiven
  <2> HIDE DEF q
  <2>3. CurrentFor(q, file) /\ PubOK(q, goodAt') /\ q.id >= p.id
    BY <1>1, <1>2, <2>2 DEF CurrentFor
  <2>4. /\ PublisherInv' /\ AckInv' /\ ReportInv' /\ GrantInv'
        /\ p'.lastGood = q.lastGood
        /\ incidents' = incidents \/ Incident("fault")
    BY <1>1, <1>2, <1>3, <2>1, <2>2, <2>3, Flushed
  <2>5. Types'
    BY <1>1, <1>3, <2>1, <2>2, <2>4, TypesKept DEF Types, central, Counted, Incident
  <2>6. QED
    BY <2>4, <2>5
<1>5. CASE ~(post.state = "accepted" /\ Acceptable(p, post.ack, post.entries))
  <2>1. waiting' = TRUE /\ UNCHANGED <<p, file, incidents>>
    BY <1>5 DEF Answered
  <2>2. GrantOK(p, post') /\ NextPost(p)
    BY <1>1, <1>2 DEF GrantOK, NextPost
  <2>3. PublisherInv' /\ AckInv' /\ ReportInv' /\ GrantInv'
    BY <1>2, <1>3, <2>1, <2>2, Unwritten
  <2>4. Types'
    BY <1>1, <1>3, <2>1, TypesKept DEF Types, central, Counted
  <2>5. QED
    BY <2>3, <2>4
<1>6. QED
  BY <1>4, <1>5

(* The forwarder is started again.                                         *)
LEMMA RestartKeeps ==
    ASSUME CaptureInv, Restart
    PROVE  CaptureInv'
<1> DEFINE t == Restored
<1> USE DEF CaptureInv
<1>1. /\ post' = NoPost /\ waiting' = FALSE
      /\ UNCHANGED <<now, central, ack, collector, goodAt>>
      /\ pol' = [pv |-> 0, rules |-> [s \in Scopes |-> 0], exp |-> 0] /\ Counted
  BY DEF Restart, Fault, Incident, Counted
<1>2. ClockOK /\ p.id \in Nat /\ file.pub \in Nat /\ file.pub <= p.id /\ FileOK(file, goodAt)
  BY DEF Types, PublisherInv, PubOK, Publishers, FileOK, Files
<1>3. /\ PubOK(t, goodAt) /\ t.id = p.id + 1 /\ t.grant = NoGrant /\ t.pending = NoAck
      /\ ~t.dirty => \A s \in Scopes : t.entries[s] = NoEntry
  BY <1>2, RestoredOK
<1>4. IF t.dirty THEN p' = [t EXCEPT !.dirty = FALSE] /\ file' = Snapshot(t)
      ELSE p' = t /\ file' = file
  BY DEF Restart
<1> HIDE DEF t
<1>5. /\ PubOK(t, goodAt') /\ t.id >= p.id /\ t.mode # "enforce" /\ t.id # file.pub
  BY <1>1, <1>2, <1>3 DEF PubOK
<1>6. Undisturbed /\ GrantOK(t, post') /\ NextPost(t) /\ NoPost \in Posts
  BY <1>1, <1>5, NoPostFacts DEF Undisturbed, central, Types, GrantOK, NextPost
<1>7. CurrentFor(t, file)
  BY <1>3, <1>5, NoEntryFacts DEF CurrentFor
<1>8. PublisherInv' /\ AckInv' /\ ReportInv' /\ GrantInv'
  <2>1. CASE t.dirty
    BY <1>1, <1>2, <1>3, <1>4, <1>5, <1>6, <2>1, Written
  <2>2. CASE ~t.dirty
    BY <1>2, <1>3, <1>4, <1>5, <1>6, <1>7, <2>2, Unwritten
  <2>3. QED
    BY <2>1, <2>2
<1>9. Types'
  <2>1. pol' \in Policies /\ ~(pol'.exp > 0)
    <3>1. 0 \in Versions /\ 0 \in Times
      BY <1>2, TimeFacts, BoundAssumption DEF Versions
    <3>2. QED
      BY <1>1, <3>1 DEF Policies
  <2>2. incidents' \in 0..MaxIncidents /\ incidents <= incidents' /\ incidents' \in Nat
        /\ incidents \in Nat
    BY <1>1, BoundAssumption DEF Types, Counted
  <2>3. pv' \in 1..(incidents' + 1)
    <3>1. pv \in 1..(incidents + 1) /\ pv' = pv
      BY <1>1 DEF Types, central
    <3>2. pv \in 1..(incidents' + 1)
      BY <2>2, <3>1, CountFits
    <3>3. QED
      BY <3>1, <3>2
  <2>4. QED
    BY <1>1, <1>6, <2>1, <2>2, <2>3 DEF Types, ClockOK, central
<1>10. QED
  BY <1>8, <1>9

(* The Collector applies a file: it had none of that epoch, and if it      *)
(* enforces, nobody has heard of it before.                                *)
LEMMA CollectorApplyKeeps ==
    ASSUME CaptureInv, CollectorApply
    PROVE  CaptureInv'
<1> DEFINE enforced == /\ file.mode = "enforce" /\ file.grant.inst = collector.inst
                       /\ file.grant.epoch = collector.seen
                       /\ file.grant.intents = Intents(file.entries)
                       /\ now < file.grant.exp
           good == now < file.exp /\ (file.mode = "preview" \/ enforced)
<1> USE DEF CaptureInv, central, reporter
<1>1. /\ file # collector.file
      /\ collector' = [collector EXCEPT !.file = file, !.on = enforced,
                           !.seen = IF file.mode = "preview" /\ good THEN file.epoch ELSE @]
      /\ ack' = [inst |-> collector.inst, pub |-> file.pub, epoch |-> file.epoch,
                 at |-> now, ok |-> good]
      /\ UNCHANGED <<now, central, pol, p, file, reporter, goodAt, incidents>>
  BY DEF CollectorApply
<1>2. /\ collector \in Collectors /\ collector.inst >= 1 /\ file \in Files /\ now \in Nat
      /\ file.epoch \in Nat /\ file.pub \in Nat /\ collector.inst \in Nat
  BY TimeFacts DEF AckInv, PublisherInv, FileOK, Files, Types, Collectors
<1>3. enforced \in BOOLEAN /\ good \in BOOLEAN
  OBVIOUS
<1>4. enforced => file.mode = "enforce" /\ file.grant.inst = collector.inst
  OBVIOUS
<1> HIDE DEF enforced, good
<1>5. /\ collector' \in Collectors /\ collector'.inst = collector.inst
      /\ collector'.file = file /\ collector'.on = enforced
  BY <1>1, <1>2, <1>3 DEF Collectors
<1>6. /\ ack' \in Acks /\ ack'.inst = collector.inst /\ ack'.pub = file.pub
      /\ ack'.epoch = file.epoch
  BY <1>1, <1>2, <1>3 DEF Acks
<1>7. Types'
  BY <1>1, TypesKept DEF Types, Counted
<1>8. PublisherInv'
  <2>1. FileOK(collector.file, goodAt)' /\ file.epoch <= file.epoch
    BY <1>1, <1>2, <1>5 DEF PublisherInv, FileOK
  <2>2. QED
    BY <1>1, <1>5, <2>1 DEF PublisherInv, PubOK, Grounded, FileOK, CurrentFor, Alike
<1>9. ASSUME NEW y, KnownAck(y)
      PROVE  /\ KnownAck(y)'
             /\ y.epoch <= file.epoch /\ (y.epoch = file.epoch => y.inst <= collector.inst)
  BY <1>1, <1>5, <1>9 DEF KnownAck
<1>10. \A y : KnownAck(y) => NotBefore(ack', y)
  <2>1. ASSUME NEW y, KnownAck(y) PROVE NotBefore(ack', y)
    <3>1. y.epoch \in Nat /\ y.inst \in Nat
      BY <2>1 DEF KnownAck, Acks
    <3>2. QED
      BY <1>2, <1>6, <1>9, <2>1, <3>1 DEF NotBefore
  <2>2. QED
    BY <2>1
<1>11. KnownAck(ack)'
  <2>1. file.mode = "enforce" => collector.inst >= file.grant.inst
    <3>1. file.grant.inst \in Nat
      BY <1>2 DEF Files, Grants
    <3>2. QED
      BY <1>2, <3>1 DEF GrantInv, FileGrant
  <2>2. QED
    BY <1>1, <1>2, <1>5, <1>6, <2>1 DEF KnownAck
<1>12. AckInv'
  <2>1. KnownAck(p.pending) /\ KnownAck(post.ack)
    BY DEF AckInv
  <2>2. KnownAck(p.pending)' /\ KnownAck(post.ack)'
    <3>1. /\ KnownAck(p.pending) => KnownAck(p.pending)'
          /\ KnownAck(post.ack) => KnownAck(post.ack)'
      BY <1>1, <1>5 DEF KnownAck
    <3>2. QED
      BY <2>1, <3>1
  <2>3. NotBefore(ack', p.pending) /\ NotBefore(ack', post.ack)
    BY <1>10, <2>1
  <2>4. QED
    BY <1>1, <1>2, <1>5, <1>11, <2>2, <2>3 DEF AckInv, NotBefore
<1>13. ReportInv'
  <2>1. ASSUME reports # <<>> PROVE NotBefore(ack', reports[1].key)
    <3>1. 1 \in DOMAIN reports /\ reports[1] \in Reports
      <4>1. reports \in Seq(Reports)
        BY DEF ReportInv
      <4>2. QED
        BY <2>1, <4>1
    <3>2. /\ reports[1].key.epoch \in Nat /\ reports[1].key.inst \in Nat
          /\ reports[1].key.epoch <= file.epoch
      BY <3>1 DEF ReportInv, ReportOK, Reports, Keys
    <3>3. /\ NotBefore(ack, reports[1].key) /\ ack.epoch \in Nat /\ ack.inst \in Nat
          /\ ack.epoch <= file.epoch /\ ack.inst <= collector.inst
      BY <2>1 DEF ReportInv, AckInv, KnownAck, Acks
    <3>4. reports[1].key.epoch = file.epoch => collector.inst >= reports[1].key.inst
      BY <1>2, <3>2, <3>3 DEF NotBefore
    <3>5. QED
      BY <1>2, <1>6, <3>2, <3>4 DEF NotBefore
  <2>2. QED
    BY <1>1, <2>1 DEF ReportInv, ReportOK, Ordered, NotBefore, KeyOf
<1>14. GrantOK(p, post)' /\ FileGrant'
  BY <1>1, <1>5 DEF GrantInv, GrantOK, FileGrant, Backs
<1>15. Enforcement'
  <2>1. SUFFICES ASSUME enforced PROVE Enforcement'
    BY <1>5 DEF Enforcement
  <2>2. file.mode = "enforce" /\ file.grant.inst = collector.inst
    BY <1>4, <2>1
  <2>3. /\ post # NoPost => post.ack.epoch = file.epoch
        /\ reports # <<>> /\ Backs(reports[1], file.grant, file.entries)
    BY <1>1, <2>2 DEF GrantInv, FileGrant
  <2>4. ASSUME NEW y, KnownAck(y) PROVE y.epoch # file.epoch
    <3>1. SUFFICES ASSUME y.epoch = file.epoch PROVE FALSE
      OBVIOUS
    <3>2. y.inst >= collector.inst /\ y.inst <= collector.inst /\ y.inst \in Nat
      BY <2>2, <2>4, <3>1 DEF KnownAck, Acks
    <3>3. QED
      BY <1>1, <1>2, <2>4, <3>1, <3>2 DEF KnownAck
  <2>5. p.pending.epoch # file.epoch /\ post.ack.epoch # file.epoch
    BY <2>4 DEF AckInv
  <2>6. 1 \in DOMAIN reports
    <3>1. reports \in Seq(Reports)
      BY DEF ReportInv
    <3>2. QED
      BY <2>3, <3>1
  <2>7. \E i \in DOMAIN reports :
            /\ i <= 2 /\ Backs(reports[i], file.grant, file.entries)
            /\ i = 2 => reports[1].key = KeyOf(ack')
    BY <2>3, <2>6
  <2>8. post # NoPost => post.ack.epoch >= file.epoch
    BY <1>2, <2>3
  <2>9. QED
    BY <1>1, <1>5, <1>6, <2>2, <2>5, <2>7, <2>8 DEF Enforcement, Backs, KeyOf
<1>16. QED
  BY <1>7, <1>8, <1>12, <1>13, <1>14, <1>15 DEF GrantInv

(* Nothing is in no file.                                                  *)
LEMMA NoFileOK ==
    ASSUME NEW g \in Nat, ClockOK
    PROVE  FileOK(NoFile, g) /\ NoFile.epoch = 0 /\ NoFile.pub = 0 /\ NoFile.mode = "preview"
<1>1. /\ NoFile \in Files /\ NoFile.epoch = 0 /\ NoFile.pub = 0 /\ NoFile.mode = "preview"
      /\ NoFile.grant = NoGrant /\ NoFile.exp = 0 /\ NoFile.good = 0
      /\ \A s \in Scopes : NoFile.entries[s] = NoEntry
  BY NothingTyped DEF NoFile
<1>2. QED
  BY <1>1, NoEntryFacts, TimeFacts DEF FileOK, IsRule

(* The Collector dies and is started: a new process, without a file.       *)
LEMMA CollectorRestartKeeps ==
    ASSUME CaptureInv, CollectorRestart
    PROVE  CaptureInv'
<1> USE DEF CaptureInv, central, reporter
<1>1. /\ collector' = [inst |-> collector.inst + 1, seen |-> 0, on |-> FALSE, file |-> NoFile]
      /\ UNCHANGED <<now, central, pol, p, file, ack, reporter, goodAt>> /\ Counted
  BY DEF CollectorRestart, Fault, Incident, Counted
<1>2. collector.inst \in Nat /\ collector.inst >= 1 /\ ClockOK /\ goodAt \in Nat
      /\ file.epoch \in Nat /\ file \in Files
  BY DEF AckInv, Collectors, Types, PublisherInv, FileOK, Files
<1>3. FileOK(NoFile, goodAt) /\ NoFile.epoch = 0 /\ NoFile.mode = "preview"
  BY <1>2, NoFileOK
<1>4. /\ collector' \in Collectors /\ collector'.inst = collector.inst + 1
      /\ collector'.file = NoFile /\ ~collector'.on
  BY <1>1, <1>2, NothingTyped DEF Collectors
<1>5. Types'
  BY <1>1, TypesKept DEF Types
<1>6. PublisherInv'
  <2>1. FileOK(collector.file, goodAt)' /\ collector'.file.epoch <= file.epoch
    BY <1>1, <1>2, <1>3, <1>4 DEF FileOK
  <2>2. QED
    BY <1>1, <2>1 DEF PublisherInv, PubOK, Grounded, FileOK, CurrentFor, Alike
<1>7. ASSUME NEW y, KnownAck(y)
      PROVE  y.inst <= collector.inst + 1 /\ y.inst # collector.inst + 1
  <2>1. y.inst \in Nat /\ y.inst <= collector.inst
    BY <1>7 DEF KnownAck, Acks
  <2>2. QED
    BY <1>2, <2>1
<1>8. AckInv'
  <2>1. KnownAck(ack) /\ KnownAck(p.pending) /\ KnownAck(post.ack)
    BY DEF AckInv
  <2>2. KnownAck(ack)' /\ KnownAck(p.pending)' /\ KnownAck(post.ack)'
    <3>1. \A y \in {ack, p.pending, post.ack} :
              y.inst <= collector.inst + 1 /\ y.inst # collector.inst + 1
      BY <1>7, <2>1
    <3>2. QED
      BY <1>1, <1>4, <2>1, <3>1 DEF KnownAck
  <2>3. QED
    BY <1>1, <1>2, <1>4, <2>2 DEF AckInv, NotBefore
<1>9. ReportInv'
  BY <1>1 DEF ReportInv, ReportOK, Ordered, NotBefore, KeyOf
<1>10. GrantOK(p, post)'
  <2>1. ASSUME p.mode = "enforce" PROVE p.grant.inst <= collector.inst + 1
    <3>1. p.grant.inst \in Nat
      BY DEF PublisherInv, PubOK, Publishers, Grants
    <3>2. QED
      BY <1>2, <2>1, <3>1 DEF GrantInv, GrantOK
  <2>2. QED
    BY <1>1, <1>4, <2>1 DEF GrantInv, GrantOK, Backs
<1>11. FileGrant'
  <2>1. ASSUME file.mode = "enforce"
        PROVE  file.grant.inst <= collector.inst + 1 /\ file.grant.inst # collector.inst + 1
    <3>1. file.grant.inst \in Nat
      BY <1>2 DEF Files, Grants
    <3>2. QED
      BY <1>2, <2>1, <3>1 DEF GrantInv, FileGrant
  <2>2. QED
    BY <1>1, <1>4, <2>1 DEF GrantInv, FileGrant
<1>12. Enforcement'
  BY <1>4 DEF Enforcement
<1>13. QED
  BY <1>5, <1>6, <1>8, <1>9, <1>10, <1>11, <1>12 DEF GrantInv

(* The clock goes on.                                                      *)
LEMMA TickKeeps ==
    ASSUME CaptureInv, Tick
    PROVE  CaptureInv'
<1> USE DEF CaptureInv, central, reporter
<1>1. /\ now < MaxTime /\ now' = now + 1 /\ Counted
      /\ UNCHANGED <<central, pol, p, file, ack, reporter, collector, goodAt>>
  BY DEF Tick, Fault, Incident, Counted
<1>2. /\ ClockOK /\ now \in Nat /\ MaxTime \in Nat /\ Ttl \in Nat /\ goodAt \in Nat
      /\ goodAt <= now
  BY TimeFacts DEF Types
<1>3. ClockOK' /\ goodAt <= now + 1
  BY <1>1, <1>2 DEF ClockOK
<1>4. Types'
  <2>1. incidents' \in 0..MaxIncidents /\ incidents <= incidents' /\ incidents' \in Nat
        /\ incidents \in Nat
    BY <1>1, BoundAssumption DEF Types, Counted
  <2>2. pv \in 1..(incidents' + 1)
    <3>1. pv \in 1..(incidents + 1)
      BY DEF Types
    <3>2. QED
      BY <2>1, <3>1, CountFits
  <2>3. QED
    BY <1>1, <1>3, <2>1, <2>2 DEF Types
<1>5. PubOK(p, goodAt)'
  <2>1. p.lastGood <= now + 1
    <3>1. p.lastGood \in Nat /\ p.lastGood <= now
      BY DEF PublisherInv, PubOK, Publishers
    <3>2. QED
      BY <1>2, <3>1
  <2>2. QED
    BY <1>1, <2>1 DEF PublisherInv, PubOK, Grounded
<1>6. ASSUME NEW f, FileOK(f, goodAt)
      PROVE  f.exp <= (now + 1) + Ttl /\ f.good <= now + 1
  <2>1. f.exp \in Nat /\ f.good \in Nat /\ f.exp <= now + Ttl /\ f.good <= now
    BY <1>6 DEF FileOK, Files
  <2>2. QED
    BY <1>2, <2>1
<1>7. FileOK(file, goodAt)' /\ FileOK(collector.file, goodAt)'
  <2>1. /\ file.exp <= (now + 1) + Ttl /\ file.good <= now + 1
        /\ collector.file.exp <= (now + 1) + Ttl /\ collector.file.good <= now + 1
    BY <1>6 DEF PublisherInv
  <2>2. QED
    BY <1>1, <2>1 DEF PublisherInv, FileOK
<1>8. PublisherInv'
  BY <1>1, <1>5, <1>7 DEF PublisherInv, CurrentFor, Alike
<1>9. AckInv'
  BY <1>1 DEF AckInv, KnownAck, NotBefore
<1>10. ReportInv'
  BY <1>1 DEF ReportInv, ReportOK, Ordered, NotBefore, KeyOf
<1>11. GrantInv'
  BY <1>1 DEF GrantInv, GrantOK, FileGrant, Enforcement, Backs, KeyOf
<1>12. QED
  BY <1>4, <1>8, <1>9, <1>10, <1>11
-----------------------------------------------------------------------------
(* The start: nothing is published, acknowledged or reported.              *)
LEMMA CaptureStarts ==
    ASSUME Init
    PROVE  CaptureInv
<1> DEFINE ents == [s \in Scopes |-> NoEntry]
           pd == [s \in Scopes |-> 0]
           any == \E s \in Scopes : ents[s] # NoEntry
<1> USE DEF Init
<1>1. /\ ClockOK /\ 0 \in Times /\ 0 \in Versions /\ 1 \in Versions /\ MaxIncidents \in Nat
  BY TimeAssumption, BoundAssumption DEF ClockOK, Times, Versions
<1>2. ents \in [Scopes -> EntryType] /\ pd \in [Scopes -> Times]
      /\ \A s \in Scopes : ents[s] = NoEntry
  BY <1>1, NoEntryFacts
<1>3. p = [id |-> 1, entries |-> ents, pend |-> pd,
           dirty |-> any, syncPv |-> 0, mode |-> "preview",
           grant |-> NoGrant, pending |-> NoAck, pinned |-> 0, read |-> NoAck, lkg |-> FALSE,
           lastGood |-> 0, lkgExp |-> 0]
  BY DEF Publisher
<1>4. any \in BOOLEAN
  OBVIOUS
<1> HIDE DEF ents, pd, any, Init
<1>5. /\ p \in Publishers /\ p.id = 1 /\ p.entries = ents /\ p.mode = "preview"
      /\ p.grant = NoGrant /\ p.pending = NoAck /\ p.lastGood = 0
  BY <1>2, <1>3, <1>4, NothingTyped DEF Publishers, Modes
<1> USE DEF Init
<1>6. PubOK(p, goodAt)
  BY <1>2, <1>5, NoEntryFacts DEF PubOK, Grounded, IsRule
<1>7. Types
  <2>1. pol \in Policies /\ pol.exp = 0
    BY <1>1 DEF Policies
  <2>2. /\ rules \in [Scopes -> Versions] /\ incidents \in 0..MaxIncidents
        /\ pv \in 1..(incidents + 1) /\ goodAt \in Nat /\ goodAt <= now
    BY <1>1
  <2>3. post \in Posts /\ waiting \in BOOLEAN
    BY NoPostFacts
  <2>4. QED
    BY <1>1, <2>1, <2>2, <2>3 DEF Types
<1>8. FileOK(NoFile, goodAt) /\ NoFile.epoch = 0 /\ NoFile.pub = 0 /\ NoFile.mode = "preview"
      /\ NoFile \in Files
  BY <1>1, NoFileOK DEF FileOK
<1>9. PublisherInv
  <2>1. CurrentFor(p, file)
    BY <1>2, <1>5, <1>8, NoEntryFacts DEF CurrentFor
  <2>2. QED
    BY <1>5, <1>6, <1>8, <2>1 DEF PublisherInv
<1>10. /\ collector = [inst |-> 1, seen |-> 0, on |-> FALSE, file |-> NoFile]
       /\ collector \in Collectors /\ collector.inst = 1 /\ ~collector.on
  BY <1>8 DEF Collectors
<1>11. KnownAck(NoAck) /\ NotBefore(NoAck, NoAck)
  BY <1>8, <1>10, NothingTyped DEF KnownAck, NotBefore
<1>12. AckInv
  BY <1>5, <1>10, <1>11, NoPostFacts DEF AckInv
<1>13. ReportInv
  <2>1. reports = <<>> /\ <<>> \in Seq(Reports) /\ DOMAIN <<>> = {}
    OBVIOUS
  <2>2. QED
    BY <2>1, NoPostFacts DEF ReportInv, Ordered
<1>14. GrantInv
  BY <1>5, <1>8, <1>10 DEF GrantInv, GrantOK, FileGrant, Enforcement
<1>15. QED
  BY <1>7, <1>9, <1>12, <1>13, <1>14 DEF CaptureInv

(* Every step of the forwarder, of Central and of the Collector keeps the  *)
(* invariant: what is enforced is backed by one of Central's two newest    *)
(* reports, whatever is still under way.                                   *)
THEOREM CaptureInductive == Spec => []CaptureInv
<1>1. Init => CaptureInv
  BY CaptureStarts
<1>2. CaptureInv /\ [Next]_vars => CaptureInv'
  <2>1. SUFFICES ASSUME CaptureInv, [Next]_vars PROVE CaptureInv'
    OBVIOUS
  <2>2. ASSUME NEW s \in Scopes, Change(s) \/ AgentEvent(s) \/ RuleEvent(s) \/ OtherEvent(s)
        PROVE  CaptureInv'
    BY <2>1, <2>2, ChangeKeeps, AgentEventKeeps, RuleEventKeeps, OtherEventKeeps
  <2>3. CASE ReportMaterialization \/ ReportLost
    BY <2>1, <2>3, ReportMaterializationKeeps, ReportLostKeeps
  <2>4. CASE PolicyLoaded \/ PolicyFailed \/ IdentityRefreshed
    BY <2>1, <2>4, PolicyLoadedKeeps, PolicyFailedKeeps, IdentityRefreshedKeeps
  <2>5. CASE Heartbeat \/ FlushTimer
    BY <2>1, <2>5, HeartbeatKeeps, FlushTimerKeeps
  <2>6. CASE Poll \/ Answered \/ RetryDue
    BY <2>1, <2>6, PollKeeps, AnsweredKeeps, RetryDueKeeps
  <2>7. CASE Restart \/ CollectorApply \/ CollectorRestart
    BY <2>1, <2>7, RestartKeeps, CollectorApplyKeeps, CollectorRestartKeeps
  <2>8. CASE Tick
    BY <2>1, <2>8, TickKeeps
  <2>9. CASE UNCHANGED vars
    BY <2>1, <2>9, StutterKeeps
  <2>10. QED
    BY <2>1, <2>2, <2>3, <2>4, <2>5, <2>6, <2>7, <2>8, <2>9 DEF Next
<1>3. QED
  BY <1>1, <1>2, PTL DEF Spec

(* Type correctness: the file says what the publisher means unless it is   *)
(* to be flushed, and it enforces exactly with a grant.                    *)
THEOREM CaptureTypeCorrect == Spec => []TypeOK
<1>1. CaptureInv => TypeOK
  <2>1. SUFFICES ASSUME CaptureInv PROVE TypeOK
    OBVIOUS
  <2>2. /\ now \in 1..MaxTime /\ rules \in [Scopes -> Versions] /\ waiting \in BOOLEAN
        /\ post.state \in States
    BY <2>1 DEF CaptureInv, Types, ClockOK, Posts
  <2>3. pv \in 1..(MaxIncidents + 1)
    <3>1. incidents \in Nat /\ incidents <= MaxIncidents /\ pv \in 1..(incidents + 1)
      BY <2>1, BoundAssumption DEF CaptureInv, Types
    <3>2. QED
      BY <3>1, CountFits, BoundAssumption
  <2>4. /\ p.entries \in [Scopes -> EntryType] /\ p.pend \in [Scopes -> Times]
        /\ (p.mode = "enforce") <=> (p.grant # NoGrant)
        /\ file.entries \in [Scopes -> EntryType]
    BY <2>1 DEF CaptureInv, PublisherInv, PubOK, Publishers, FileOK, Files
  <2>5. FileIsCurrent
    <3>1. CurrentFor(p, file)
      BY <2>1 DEF CaptureInv, PublisherInv
    <3>2. Alike(file.entries, p.entries) <=> Intents(file.entries) = Intents(p.entries)
      BY AlikeIntents
    <3>3. QED
      BY <3>1, <3>2 DEF CurrentFor, FileIsCurrent
  <2>6. QED
    BY <2>2, <2>3, <2>4, <2>5 DEF TypeOK, States, Versions
<1>2. QED
  BY <1>1, CaptureInductive, PTL

(* What the node drops has Central's acceptance of that rule for that      *)
(* process of the Collector, in time, from a policy in time, and no agent  *)
(* is known to the Collector in the cgroup.                                *)
THEOREM DropIsAuthorisedHolds == Spec => []DropIsAuthorised
<1>1. CaptureInv => DropIsAuthorised
  <2>1. SUFFICES ASSUME CaptureInv, NEW s \in Scopes, Drops(s)
                 PROVE  /\ \E r \in ToSet(reports) :
                              /\ r.key.inst = collector.inst /\ now < r.at + Ttl
                              /\ r.entries[s].rev = collector.file.entries[s].rev
                        /\ now < goodAt + LkgTtl
                        /\ ~(IsAgent(p.entries[s]) /\ ~p.dirty /\ file = collector.file)
    BY DEF DropIsAuthorised
  <2> DEFINE f == collector.file
  <2>2. collector.on /\ IsRule(f.entries[s]) /\ now < f.entries[s].exp
    BY <2>1 DEF Drops
  <2>3. /\ FileOK(f, goodAt) /\ CurrentFor(p, file) /\ Enforcement /\ reports \in Seq(Reports)
        /\ ClockOK
    BY <2>1 DEF CaptureInv, PublisherInv, GrantInv, ReportInv, Types
  <2>4. f.mode = "enforce" /\ f.grant.inst = collector.inst
    BY <2>2, <2>3 DEF Enforcement
  <2>5. PICK i \in DOMAIN reports : Backs(reports[i], f.grant, f.entries)
    BY <2>2, <2>3 DEF Enforcement
  <2>6. /\ now \in Nat /\ Ttl \in Nat /\ LkgTtl \in Nat /\ goodAt \in Nat /\ f.exp \in Nat
        /\ f.grant.exp \in Nat /\ f.entries[s].exp \in Nat
    <3>1. f \in Files /\ goodAt \in Nat
      BY <2>3 DEF FileOK
    <3>2. f.entries[s] \in EntryType /\ f.exp \in Nat /\ f.grant.exp \in Nat
      BY <3>1 DEF Files, Grants
    <3>3. QED
      BY <2>3, <3>1, <3>2, EntryFacts, TimeFacts
  <2>7. /\ f.entries[s].exp <= f.exp /\ f.exp <= f.grant.exp
        /\ f.entries[s].exp <= goodAt + LkgTtl
    BY <2>2, <2>3, <2>4 DEF FileOK
  <2>8. /\ reports[i].key.inst = collector.inst /\ f.grant.exp <= reports[i].at + Ttl
        /\ reports[i].entries[s].rev = f.entries[s].rev
    BY <2>2, <2>4, <2>5 DEF Backs
  <2>9. reports[i] \in ToSet(reports) /\ reports[i].at \in Nat
    <3>1. reports[i] \in Reports
      BY <2>3
    <3>2. QED
      BY <3>1 DEF ToSet, Reports
  <2>10. now < reports[i].at + Ttl
    BY <2>2, <2>6, <2>7, <2>8, <2>9
  <2>11. now < goodAt + LkgTtl
    BY <2>2, <2>6, <2>7
  <2>12. ~(IsAgent(p.entries[s]) /\ ~p.dirty /\ file = f)
    <3>1. SUFFICES ASSUME IsAgent(p.entries[s]), ~p.dirty, file = f PROVE FALSE
      OBVIOUS
    <3>2. file.pub = p.id => SameIntent(file.entries[s], p.entries[s])
      BY <2>3, <3>1 DEF CurrentFor, Alike
    <3>3. file.pub # p.id => p.entries[s].kind = "none"
      BY <2>3, <3>1 DEF CurrentFor
    <3>4. QED
      BY <2>2, <3>1, <3>2, <3>3 DEF IsAgent, IsRule, SameIntent
  <2>13. QED
    BY <2>8, <2>9, <2>10, <2>11, <2>12
<1>2. QED
  BY <1>1, CaptureInductive, PTL
=============================================================================
