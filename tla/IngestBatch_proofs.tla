------------------------ MODULE IngestBatch_proofs -------------------------
(***************************************************************************)
(* Proofs about IngestBatch, for any number of events and requests, any    *)
(* mixes and any failures: the type invariant, that nothing is seen before *)
(* it is durable, and that what is acknowledged is done.                   *)
(***************************************************************************)
EXTENDS IngestBatch, WellFoundedInduction, TLAPS

Records == [pc : Pcs, events : SUBSET Events, replay : BOOLEAN, awaited : BOOLEAN,
            dup : SUBSET Events, left : SUBSET Events, ok : SUBSET Events]

(* What an answer says of its items is so: `ok' is durable, and published  *)
(* unless it is a duplicate.                                               *)
Settled(ok, dup) ==
    /\ ok \cap Retained \subseteq stored
    /\ ok \cap Structural \subseteq facts
    /\ (ok \ dup) \cap Of("async") \subseteq jobs
    /\ (ok \ dup) \cap Retained \subseteq canonical

(* A request relies on what it has done in the steps before.               *)
Early    == {"prepare", "classify", "facts", "persist"}
PastFacts   == {"persist", "commit", "acquire", "apply", "jobs", "canonical"}
PastPersist == PastFacts \ {"persist"}

RequestOK(q) ==
    /\ q.pc = "idle" <=> q.events = {}
    /\ q.dup \subseteq q.events /\ q.dup \subseteq stored
    /\ q.ok \subseteq q.events
    /\ q.left \subseteq New(q)
    /\ q.pc \in Early => q.left = {}
    /\ q.pc \in PastFacts => q.events \cap Structural \subseteq facts
    /\ q.pc \in PastPersist => New(q) \subseteq stored
    /\ q.pc = "canonical" => New(q) \cap Of("async") \subseteq jobs
    /\ q.pc \in {"acquire", "apply"} => q.left # {} /\ kind[Current(q)] = "alerting"
    /\ q.pc = "answer" => q.awaited /\ Settled(q.ok, q.dup)

(* A remembered answer stays true, because nothing durable is taken back.  *)
CacheOK(c) ==
    /\ c.events \in SUBSET Events /\ c.dup \subseteq c.events /\ c.dup \subseteq stored
    /\ Settled(c.events, c.dup)

StoreInv ==
    /\ kind \in Mixes
    /\ stored \subseteq Retained /\ facts \subseteq Structural
    /\ effect \in [Of("alerting") -> {"none", "pending", "expired", "applied"}]
    /\ faults \in 0 .. MaxFaults
    /\ NothingBeforeStored
    /\ \A c \in cache : CacheOK(c)

(* The forwarder waits for one answer about an event at a time, and only   *)
(* about events that are unsettled.                                        *)
ClientInv ==
    /\ Settled(accepted, {}) /\ Settled(replayed, replayed)
    /\ accepted \cap replayed = {}
    /\ \A r \in Requests :
          request[r].awaited => request[r].events \cap Acknowledged = {}
    /\ \A r, s \in Requests :
          r # s /\ request[r].awaited /\ request[s].awaited
             => request[r].events \cap request[s].events = {}

RequestInv ==
    /\ request \in [Requests -> Records]
    /\ \A r \in Requests : RequestOK(request[r])

IndInv == StoreInv /\ RequestInv /\ ClientInv

(* Nothing durable or published is taken back.                             *)
Grow ==
    /\ stored \subseteq stored' /\ facts \subseteq facts'
    /\ jobs \subseteq jobs' /\ canonical \subseteq canonical'
    /\ UNCHANGED kind

-----------------------------------------------------------------------------
(* A set of numbers has a least element, and Min returns it.               *)
LEMMA MinFacts ==
    ASSUME NEW S \in SUBSET Nat, S # {}
    PROVE  Min(S) \in S /\ \A y \in S : Min(S) <= y
<1>1. PICK x \in S : \A y \in S : ~(<<y, x>> \in OpToRel(<, Nat))
  BY NatLessThanWellFounded, WFMin
<1>2. \A y \in S : x <= y
  <2> SUFFICES ASSUME NEW y \in S, y < x PROVE FALSE
    OBVIOUS
  <2>1. <<y, x>> \in {ss \in Nat \X Nat : ss[1] < ss[2]}
    OBVIOUS
  <2> QED
    BY <1>1, <2>1 DEF OpToRel
<1> QED
  BY <1>2 DEF Min

(* The kinds are disjoint and constant.                                    *)
LEMMA KindFacts ==
    ASSUME kind \in Mixes
    PROVE  /\ Events \subseteq Nat
           /\ Retained \subseteq Events /\ Structural \subseteq Events
           /\ Retained \cap Structural = {}
           /\ Of("async") \subseteq Retained /\ Of("alerting") \subseteq Retained
           /\ \A e \in Of("alerting") : kind[e] = "alerting"
BY IngestAssumption DEF Events, Retained, Structural, Of, Kinds

(* What a request has done stays done.                                     *)
LEMMA GrowKeeps ==
    ASSUME Grow
    PROVE  /\ Retained' = Retained /\ Structural' = Structural
           /\ \A k : Of(k)' = Of(k)
           /\ \A ok, dup : Settled(ok, dup) => Settled(ok, dup)'
           /\ \A q : New(q)' = New(q)
           /\ \A q : RequestOK(q) => RequestOK(q)'
           /\ \A c : CacheOK(c) => CacheOK(c)'
<1>1. Retained' = Retained /\ Structural' = Structural /\ \A k : Of(k)' = Of(k)
  BY DEF Grow, Retained, Structural, Of
<1>2. \A ok, dup : Settled(ok, dup) => Settled(ok, dup)'
  BY <1>1 DEF Grow, Settled
<1>3. \A q : New(q)' = New(q)
  BY <1>1 DEF New
<1>4. \A q : RequestOK(q) => RequestOK(q)'
  BY <1>1, <1>2, <1>3 DEF Grow, RequestOK, Current
<1>5. \A c : CacheOK(c) => CacheOK(c)'
  BY <1>2 DEF Grow, CacheOK
<1> QED
  BY <1>1, <1>2, <1>3, <1>4, <1>5

(* A step of one request, to a record that is all right then.              *)
LEMMA RequestStep ==
    ASSUME IndInv, Grow, UNCHANGED client,
           NEW r \in Requests, NEW q \in Records, RequestOK(q)',
           request' = [request EXCEPT ![r] = q],
           q.awaited => request[r].awaited /\ q.events = request[r].events
    PROVE  RequestInv' /\ ClientInv'
<1>1. /\ request' \in [Requests -> Records] /\ request'[r] = q
      /\ \A s \in Requests \ {r} : request'[s] = request[s]
  BY DEF IndInv, RequestInv
<1>2. RequestInv'
  <2> SUFFICES ASSUME NEW s \in Requests PROVE RequestOK(request[s])'
    BY <1>1 DEF RequestInv
  <2>1. CASE s = r
    <3>1. PICK x : x = request'[s]
      OBVIOUS
    <3> QED
      BY <2>1, <3>1, <1>1
  <2>2. CASE s # r
    <3>1. PICK x : x = request[s] /\ x = request'[s]
      BY <1>1, <2>2
    <3>2. RequestOK(x)
      BY <3>1 DEF IndInv, RequestInv
    <3> QED
      BY <3>1, <3>2, GrowKeeps
  <2> QED
    BY <2>1, <2>2
<1>3. Acknowledged' = Acknowledged /\ UNCHANGED <<accepted, replayed>>
  BY DEF client, Acknowledged
<1>4. Settled(accepted, {})' /\ Settled(replayed, replayed)'
  BY <1>3 DEF IndInv, ClientInv, Grow, Settled, Retained, Structural, Of
<1>5. ClientInv'
  BY <1>1, <1>3, <1>4 DEF IndInv, ClientInv
<1> QED
  BY <1>2, <1>5

(* The records a step may leave a request with.                            *)
LEMMA RecordFacts ==
    ASSUME IndInv, NEW r \in Requests
    PROVE  /\ request[r] \in Records /\ RequestOK(request[r])
           /\ Idle \in Records
           /\ \A p \in Pcs, l \in SUBSET Events :
                 [request[r] EXCEPT !.pc = p, !.left = l] \in Records
           /\ \A p \in Pcs : [request[r] EXCEPT !.pc = p] \in Records
BY DEF IndInv, RequestInv, Records, Idle, Pcs

(* Reply: whatever it answers has to be so.                                *)
LEMMA ReplyStep ==
    ASSUME IndInv, Grow, UNCHANGED client, NEW r \in Requests,
           NEW ok \in SUBSET Events, NEW dup \in SUBSET Events,
           ok \subseteq request[r].events, dup \subseteq request[r].events,
           dup \subseteq stored', Settled(ok, dup)', Reply(r, ok, dup)
    PROVE  RequestInv' /\ ClientInv'
<1>1. PICK q : q = IF request[r].awaited /\ ok # {}
                   THEN [request[r] EXCEPT !.pc = "answer", !.ok = ok, !.dup = dup, !.left = {}]
                   ELSE Idle
  OBVIOUS
<1>2. request' = [request EXCEPT ![r] = q]
  BY <1>1 DEF Reply
<1>3. q \in Records
  <2>1. \A x \in Records :
           [x EXCEPT !.pc = "answer", !.ok = ok, !.dup = dup, !.left = {}] \in Records
    BY DEF Records, Pcs
  <2> QED
    BY <1>1, <2>1, RecordFacts
<1>4. RequestOK(q)'
  <2>1. CASE request[r].awaited /\ ok # {}
    <3>1. /\ q.pc = "answer" /\ q.ok = ok /\ q.dup = dup /\ q.left = {} /\ q.awaited
          /\ q.events = request[r].events
      BY <1>1, <2>1, RecordFacts DEF Records
    <3> QED
      BY <2>1, <3>1 DEF RequestOK, Early, PastFacts, PastPersist
  <2>2. CASE ~(request[r].awaited /\ ok # {})
    BY <1>1, <2>2 DEF RequestOK, Idle, Early, PastFacts, PastPersist
  <2> QED
    BY <2>1, <2>2
<1>5. q.awaited => request[r].awaited /\ q.events = request[r].events
  BY <1>1, RecordFacts DEF Idle, Records
<1> QED
  BY <1>2, <1>3, <1>4, <1>5, RequestStep

(* A request that fails answers nothing.                                   *)
LEMMA FinishNothing ==
    ASSUME IndInv, Grow, UNCHANGED client, NEW r \in Requests, Finish(r, {})
    PROVE  RequestInv' /\ ClientInv'
<1>1. PICK dup : dup = request[r].dup
  OBVIOUS
<1>2. /\ dup \in SUBSET Events /\ dup \subseteq request[r].events /\ dup \subseteq stored'
  BY <1>1, RecordFacts DEF Records, RequestOK, Grow
<1>3. Settled({}, dup)'
  BY DEF Settled
<1> QED
  BY <1>1, <1>2, <1>3, ReplyStep DEF Finish

(* A step to the next one, that does nothing else to the request.          *)
LEMMA GotoStep ==
    ASSUME IndInv, Grow, UNCHANGED client, NEW r \in Requests, NEW pc \in Pcs,
           Goto(r, pc), request[r].pc # "idle", pc \notin {"idle", "acquire", "answer"},
           request[r].left = {}, pc # "apply",
           pc \in PastFacts => request[r].events \cap Structural \subseteq facts',
           pc \in PastPersist => New(request[r]) \subseteq stored',
           pc = "canonical" => New(request[r]) \cap Of("async") \subseteq jobs'
    PROVE  RequestInv' /\ ClientInv'
<1>1. PICK q : q = [request[r] EXCEPT !.pc = pc]
  OBVIOUS
<1>2. /\ request' = [request EXCEPT ![r] = q] /\ q \in Records
  BY <1>1, RecordFacts DEF Goto
<1>3. /\ q.pc = pc /\ q.left = {} /\ q.awaited = request[r].awaited /\ q.ok = request[r].ok
      /\ q.events = request[r].events /\ q.dup = request[r].dup
  BY <1>1, RecordFacts DEF Records
<1>4. New(q)' = New(request[r]) /\ Structural' = Structural /\ Of("async")' = Of("async")
  BY <1>3, GrowKeeps DEF New
<1>5. RequestOK(q)'
  BY <1>3, <1>4, RecordFacts DEF RequestOK, Grow
<1> QED
  BY <1>2, <1>3, <1>5, RequestStep

-----------------------------------------------------------------------------
(* Steps that leave the stores and the process alone.                      *)
LEMMA StoresStay ==
    ASSUME IndInv, UNCHANGED <<kind, stores, process>>, faults' \in 0 .. MaxFaults
    PROVE  StoreInv' /\ Grow
<1>1. Grow
  BY DEF stores, Grow
<1>2. \A c \in cache' : CacheOK(c)'
  BY <1>1, GrowKeeps DEF IndInv, StoreInv, process
<1>3. NothingBeforeStored'
  BY DEF IndInv, StoreInv, NothingBeforeStored, stores, process
<1> QED
  BY <1>1, <1>2, <1>3, GrowKeeps DEF IndInv, StoreInv, stores

(* A failure is counted.                                                   *)
LEMMA FaultFacts ==
    ASSUME IndInv, NEW part, Fault(part)
    PROVE  faults' \in 0 .. MaxFaults
BY IngestAssumption DEF IndInv, StoreInv, Fault

(* The forwarder sends unsettled events it is not waiting for already.     *)
LEMMA SendKeeps ==
    ASSUME IndInv, UNCHANGED kind, NEW r \in Requests, NEW S \in SUBSET Events,
           NEW replay \in BOOLEAN, Send(r, S, replay)
    PROVE  IndInv'
<1>1. StoreInv' /\ Grow
  BY StoresStay DEF Send, IndInv, StoreInv
<1>2. PICK q : q = [Idle EXCEPT !.pc = "prepare", !.events = S, !.awaited = TRUE,
                                !.replay = replay]
  OBVIOUS
<1>3. /\ q \in Records /\ q.pc = "prepare" /\ q.events = S /\ q.dup = {} /\ q.ok = {}
      /\ q.left = {}
  BY <1>2 DEF Idle, Records, Pcs
<1>4. RequestOK(q)'
  BY <1>3 DEF Send, RequestOK, PastFacts, PastPersist
<1>5. /\ request' \in [Requests -> Records] /\ request'[r] = q
      /\ \A s \in Requests \ {r} : request'[s] = request[s]
  BY <1>2, <1>3 DEF Send, IndInv, RequestInv
<1>6. RequestInv'
  <2> SUFFICES ASSUME NEW s \in Requests PROVE RequestOK(request[s])'
    BY <1>5 DEF RequestInv
  <2>1. PICK x : x = request'[s]
    OBVIOUS
  <2>2. RequestOK(x)'
    <3>1. CASE s = r
      BY <2>1, <3>1, <1>4, <1>5
    <3>2. CASE s # r
      BY <2>1, <3>2, <1>1, <1>5, GrowKeeps DEF IndInv, RequestInv
    <3> QED
      BY <3>1, <3>2
  <2> QED
    BY <2>1, <2>2
<1>7. S \cap Acknowledged = {} /\ \A s \in Requests : request[s].awaited
                                     => S \cap request[s].events = {}
  BY DEF Send, Unsettled, Acknowledged, OnTheWire
<1>8. Acknowledged' = Acknowledged /\ UNCHANGED <<accepted, replayed>>
  BY DEF Send, client, Acknowledged
<1>9. Settled(accepted, {})' /\ Settled(replayed, replayed)'
  BY <1>1, <1>8, GrowKeeps DEF IndInv, ClientInv, Grow, Settled
<1>10. ClientInv'
  BY <1>3, <1>5, <1>7, <1>8, <1>9 DEF IndInv, ClientInv
<1> QED
  BY <1>1, <1>6, <1>10 DEF IndInv

(* The request is given up; an answer under way is not heard.              *)
LEMMA AbandonKeeps ==
    ASSUME IndInv, UNCHANGED kind, NEW r \in Requests, Abandon(r)
    PROVE  IndInv'
<1>1. StoreInv' /\ Grow
  BY StoresStay, FaultFacts DEF Abandon
<1>2. PICK q : q = IF request[r].pc = "answer" THEN Idle
                   ELSE [request[r] EXCEPT !.awaited = FALSE]
  OBVIOUS
<1>3. q \in Records /\ request' = [request EXCEPT ![r] = q]
  <2>1. \A x \in Records : [x EXCEPT !.awaited = FALSE] \in Records
    BY DEF Records
  <2> QED
    BY <1>2, <2>1, RecordFacts DEF Abandon
<1>4. ~q.awaited
  BY <1>2, RecordFacts DEF Records, Idle
<1>5. RequestOK(q)
  <2>1. CASE request[r].pc = "answer"
    BY <1>2, <2>1 DEF RequestOK, Idle, Early, PastFacts, PastPersist
  <2>2. CASE request[r].pc # "answer"
    <3>1. /\ q.pc = request[r].pc /\ q.events = request[r].events /\ q.dup = request[r].dup
          /\ q.ok = request[r].ok /\ q.left = request[r].left
      BY <1>2, <2>2, RecordFacts DEF Records
    <3> QED
      BY <2>2, <3>1, RecordFacts DEF RequestOK, New, Current
  <2> QED
    BY <2>1, <2>2
<1> QED
  BY <1>1, <1>3, <1>4, <1>5, GrowKeeps, RequestStep DEF Abandon, IndInv

(* The answer is received: what it said is so.                             *)
LEMMA ReceiveKeeps ==
    ASSUME IndInv, UNCHANGED kind, NEW r \in Requests, Receive(r)
    PROVE  IndInv'
<1>1. StoreInv' /\ Grow
  BY StoresStay DEF Receive, IndInv, StoreInv
<1>2. PICK ok, dup, events : /\ ok = request[r].ok /\ dup = request[r].dup
                             /\ events = request[r].events
  OBVIOUS
<1>3. /\ Settled(ok, dup) /\ ok \subseteq events /\ dup \subseteq events /\ dup \subseteq stored
      /\ request[r].awaited /\ events \cap Acknowledged = {}
      /\ \A s \in Requests \ {r} : request[s].awaited => events \cap request[s].events = {}
  BY <1>2 DEF Receive, IndInv, RequestInv, RequestOK, ClientInv
<1>4. accepted' = accepted \cup (ok \ dup) /\ replayed' = replayed \cup (ok \cap dup)
  BY <1>2 DEF Receive
<1>5. /\ request' \in [Requests -> Records] /\ request'[r] = Idle
      /\ \A s \in Requests \ {r} : request'[s] = request[s]
  BY RecordFacts DEF Receive, IndInv, RequestInv
<1>6. RequestInv'
  <2> SUFFICES ASSUME NEW s \in Requests PROVE RequestOK(request[s])'
    BY <1>5 DEF RequestInv
  <2>1. PICK x : x = request'[s]
    OBVIOUS
  <2>2. RequestOK(x)
    <3>1. CASE s = r
      BY <2>1, <3>1, <1>5 DEF RequestOK, Idle, Early, PastFacts, PastPersist
    <3>2. CASE s # r
      BY <2>1, <3>2, <1>5 DEF IndInv, RequestInv
    <3> QED
      BY <3>1, <3>2
  <2> QED
    BY <1>1, <2>1, <2>2, GrowKeeps
<1>7. Settled(accepted, {})' /\ Settled(replayed, replayed)'
  BY <1>1, <1>3, <1>4, GrowKeeps DEF IndInv, ClientInv, Grow, Settled
<1>8. /\ Acknowledged' = Acknowledged \cup ok
      /\ (accepted \cap replayed)' = {}
  BY <1>3, <1>4 DEF IndInv, ClientInv, Acknowledged
<1>9. ClientInv'
  BY <1>3, <1>5, <1>7, <1>8 DEF IndInv, ClientInv, Idle
<1> QED
  BY <1>1, <1>6, <1>9 DEF IndInv

-----------------------------------------------------------------------------
(* Steps of a request up to the durable block.                             *)

(* FactsOr skips the facts only if there are none, PersistOr the block.    *)
LEMMA NextPcFacts ==
    ASSUME NEW q \in Records
    PROVE  /\ FactsOr(q) \in {"facts", "persist", "commit"}
           /\ FactsOr(q) # "facts" => q.events \cap Structural = {}
           /\ PersistOr(q) \in {"persist", "commit"}
           /\ FactsOr(q) = "commit" \/ PersistOr(q) = "commit" => New(q) = {}
BY DEF FactsOr, PersistOr

(* A request consults the cached answers first.                            *)
LEMMA PrepareKeeps ==
    ASSUME IndInv, UNCHANGED kind, NEW r \in Requests, Prepare(r)
    PROVE  IndInv'
<1>1. StoreInv' /\ Grow
  BY StoresStay DEF Prepare, IndInv, StoreInv
<1>2. UNCHANGED client /\ request[r].pc = "prepare" /\ request[r].left = {}
  BY RecordFacts DEF Prepare, RequestOK, Early
<1>3. CASE \E c \in cache : c.events = request[r].events
  <2>1. PICK c \in cache : c.events = request[r].events /\ Reply(r, request[r].events, c.dup)
    BY <1>3 DEF Prepare
  <2>2. PICK ok, dup : ok = request[r].events /\ dup = c.dup
    OBVIOUS
  <2>3. CacheOK(c) /\ request[r].events \in SUBSET Events
    BY RecordFacts DEF IndInv, StoreInv, Records
  <2>4. /\ ok \in SUBSET Events /\ dup \in SUBSET Events /\ dup \subseteq ok
        /\ Settled(ok, dup) /\ dup \subseteq stored /\ Reply(r, ok, dup)
    BY <2>1, <2>2, <2>3 DEF CacheOK
  <2>5. Settled(ok, dup)' /\ dup \subseteq stored'
    BY <1>1, <2>4, GrowKeeps DEF Grow
  <2> QED
    BY <1>1, <1>2, <2>2, <2>4, <2>5, ReplyStep DEF IndInv
<1>4. CASE ~\E c \in cache : c.events = request[r].events
  <2>1. PICK pc : pc = IF request[r].replay /\ New(request[r]) # {} THEN "classify"
                       ELSE FactsOr(request[r])
    OBVIOUS
  <2>2. Goto(r, pc)
    BY <1>4, <2>1 DEF Prepare
  <2>3. /\ pc \in {"classify", "facts", "persist", "commit"}
        /\ pc \in {"persist", "commit"} => request[r].events \cap Structural = {}
        /\ pc = "commit" => New(request[r]) = {}
    BY <2>1, NextPcFacts, RecordFacts
  <2>4. pc \in Pcs /\ pc \in PastPersist => pc = "commit"
    BY <2>3 DEF PastPersist, PastFacts
  <2> QED
    BY <1>1, <1>2, <2>2, <2>3, <2>4, GotoStep DEF IndInv, Pcs, PastFacts
<1> QED
  BY <1>3, <1>4

(* Duplicates are events that ClickHouse has.                              *)
LEMMA ClassifyKeeps ==
    ASSUME IndInv, UNCHANGED kind, NEW r \in Requests, Classify(r)
    PROVE  IndInv'
<1>1. StoreInv' /\ Grow
  BY StoresStay DEF Classify, IndInv, StoreInv
<1>2. UNCHANGED client /\ request[r].pc = "classify" /\ request[r].left = {}
  BY RecordFacts DEF Classify, RequestOK, Early
<1>3. PICK after : after = [request[r] EXCEPT !.dup = New(request[r]) \cap stored]
  OBVIOUS
<1>4. /\ after \in Records /\ after.left = {} /\ after.events = request[r].events
      /\ after.dup \subseteq after.events /\ after.dup \subseteq stored
      /\ after.ok = request[r].ok /\ after.awaited = request[r].awaited
  BY <1>2, <1>3, RecordFacts DEF Records, New
<1>5. PICK q : q = [after EXCEPT !.pc = FactsOr(after)]
  OBVIOUS
<1>6. q \in Records /\ request' = [request EXCEPT ![r] = q]
  <2>1. FactsOr(after) \in Pcs
    BY <1>4, NextPcFacts DEF Pcs
  <2> QED
    BY <1>3, <1>4, <1>5, <2>1 DEF Classify, Records
<1>7. /\ q.pc = FactsOr(after) /\ q.left = {} /\ q.events = request[r].events
      /\ q.dup = after.dup /\ q.ok = request[r].ok /\ q.awaited = request[r].awaited
  BY <1>4, <1>5 DEF Records
<1>8. /\ q.pc \in {"facts", "persist", "commit"}
      /\ q.pc # "facts" => q.events \cap Structural = {}
      /\ q.pc = "commit" => New(q) = {}
  BY <1>4, <1>7, NextPcFacts DEF New
<1>9. RequestOK(q)
  BY <1>2, <1>4, <1>7, <1>8, RecordFacts DEF RequestOK, PastFacts, PastPersist
<1> QED
  BY <1>1, <1>2, <1>6, <1>7, <1>9, GrowKeeps, RequestStep DEF IndInv

(* Its facts are stored,                                                   *)
LEMMA PersistFactsKeeps ==
    ASSUME IndInv, UNCHANGED kind, NEW r \in Requests, PersistFacts(r)
    PROVE  IndInv'
<1>1. Grow /\ UNCHANGED client /\ request[r].pc = "facts"
  BY DEF PersistFacts, Grow
<1>2. StoreInv'
  BY <1>1, GrowKeeps DEF PersistFacts, IndInv, StoreInv, NothingBeforeStored, process
<1>3. request[r].left = {} /\ request[r] \in Records
  BY <1>1, RecordFacts DEF RequestOK, Early
<1>4. PICK pc : pc = PersistOr(request[r])
  OBVIOUS
<1>5. /\ pc \in {"persist", "commit"} /\ Goto(r, pc)
      /\ pc = "commit" => New(request[r]) = {}
      /\ request[r].events \cap Structural \subseteq facts'
  BY <1>3, <1>4, NextPcFacts DEF PersistFacts
<1> QED
  BY <1>1, <1>2, <1>3, <1>5, GotoStep DEF IndInv, Pcs, PastFacts, PastPersist

(* After the block everything that is left to commit is durable.           *)
LEMMA PersistKeeps ==
    ASSUME IndInv, UNCHANGED kind, NEW r \in Requests, Persist(r)
    PROVE  IndInv'
<1>1. Grow /\ UNCHANGED client /\ request[r].pc = "persist"
  BY DEF Persist, Grow
<1>2. New(request[r]) \subseteq Retained /\ New(request[r]) \in SUBSET Events
  BY RecordFacts DEF Records, New
<1>3. StoreInv'
  BY <1>1, <1>2, GrowKeeps DEF Persist, IndInv, StoreInv, NothingBeforeStored, process
<1>4. PICK q : q = [request[r] EXCEPT !.pc = "commit", !.left = New(request[r])]
  OBVIOUS
<1>5. q \in Records /\ request' = [request EXCEPT ![r] = q]
  <2>1. request' = [request EXCEPT
           ![r] = [request[r] EXCEPT !.pc = "commit", !.left = New(request[r])]]
    BY RecordFacts DEF Persist, IndInv, RequestInv
  <2> QED
    BY <1>2, <1>4, <2>1, RecordFacts DEF Pcs
<1>6. /\ q.pc = "commit" /\ q.left = New(request[r]) /\ q.events = request[r].events
      /\ q.dup = request[r].dup /\ q.ok = request[r].ok /\ q.awaited = request[r].awaited
  BY <1>4, RecordFacts DEF Records
<1>7. New(q)' = New(request[r]) /\ Structural' = Structural
  BY <1>1, <1>6, GrowKeeps DEF New
<1>8. RequestOK(q)'
  BY <1>1, <1>6, <1>7, RecordFacts
  DEF RequestOK, Grow, Persist, Early, PastFacts, PastPersist
<1> QED
  BY <1>1, <1>3, <1>5, <1>6, <1>8, RequestStep DEF IndInv

(* or are not, and it is answered with a failure.                          *)
LEMMA StoreFailsKeeps ==
    ASSUME IndInv, UNCHANGED kind, NEW r \in Requests, StoreFails(r)
    PROVE  IndInv'
<1>1. Grow /\ UNCHANGED client /\ Finish(r, {}) /\ faults' \in 0 .. MaxFaults
  BY FaultFacts DEF StoreFails, Grow
<1>2. /\ stored' \subseteq Retained /\ facts' \subseteq Structural
  BY DEF StoreFails, New, IndInv, StoreInv
<1>3. StoreInv'
  BY <1>1, <1>2, GrowKeeps
  DEF StoreFails, Grow, IndInv, StoreInv, NothingBeforeStored, process
<1> QED
  BY <1>1, <1>3, FinishNothing DEF IndInv

-----------------------------------------------------------------------------
(* Commit, the ledger and publication.                                     *)

(* The request finishes with all its items and is remembered.              *)
LEMMA FinishAll ==
    ASSUME IndInv, Grow, UNCHANGED client, NEW r \in Requests,
           request[r].pc \in PastPersist,
           New(request[r]) \cap Of("async") \subseteq jobs',
           New(request[r]) \subseteq canonical',
           Finish(r, request[r].events), cache' = Remember(request[r])
    PROVE  RequestInv' /\ ClientInv' /\ \A c \in cache' : CacheOK(c)'
<1>1. PICK events, dup : events = request[r].events /\ dup = request[r].dup
  OBVIOUS
<1>2. \A ok, d : ok \cap Retained' \subseteq stored' /\ ok \cap Structural' \subseteq facts'
                 /\ (ok \ d) \cap Of("async")' \subseteq jobs'
                 /\ (ok \ d) \cap Retained' \subseteq canonical' => Settled(ok, d)'
  BY DEF Settled
<1>3. /\ request[r].events \cap Retained \subseteq stored'
      /\ request[r].events \cap Structural \subseteq facts'
      /\ (request[r].events \ request[r].dup) \cap Of("async") \subseteq jobs'
      /\ (request[r].events \ request[r].dup) \cap Retained \subseteq canonical'
  BY RecordFacts, KindFacts
  DEF IndInv, StoreInv, RequestOK, PastPersist, PastFacts, New, Grow
<1>4. Settled(events, dup)'
  BY <1>1, <1>2, <1>3, GrowKeeps
<1>5. /\ events \in SUBSET Events /\ dup \in SUBSET Events /\ dup \subseteq events
      /\ dup \subseteq stored'
  BY <1>1, RecordFacts DEF Records, RequestOK, Grow
<1>6. RequestInv' /\ ClientInv'
  BY <1>1, <1>4, <1>5, ReplyStep DEF Finish
<1>7. CacheOK([events |-> events, dup |-> dup])'
  BY <1>4, <1>5 DEF CacheOK
<1>8. \A c \in cache' : CacheOK(c)'
  BY <1>1, <1>7, GrowKeeps DEF IndInv, StoreInv, Remember
<1> QED
  BY <1>6, <1>8

(* A step of commit and the ledger, which leaves fewer events to do.       *)
LEMMA LeftStep ==
    ASSUME IndInv, Grow, UNCHANGED client, NEW r \in Requests,
           NEW pc \in {"commit", "acquire", "apply", "jobs"}, NEW left \in SUBSET Events,
           request[r].pc \in {"commit", "acquire", "apply"},
           left \subseteq request[r].left,
           pc \in {"acquire", "apply"} => left # {} /\ kind[Min(left)] = "alerting",
           request' = [request EXCEPT ![r] = [request[r] EXCEPT !.pc = pc, !.left = left]]
    PROVE  RequestInv' /\ ClientInv'
<1>1. PICK q : q = [request[r] EXCEPT !.pc = pc, !.left = left]
  OBVIOUS
<1>2. /\ q \in Records /\ q.pc = pc /\ q.left = left /\ q.events = request[r].events
      /\ q.dup = request[r].dup /\ q.ok = request[r].ok /\ q.awaited = request[r].awaited
  <2>1. PICK x \in Records : x = request[r]
    BY RecordFacts
  <2>2. q = [x EXCEPT !.pc = pc, !.left = left]
    BY <1>1, <2>1
  <2>3. /\ q \in Records /\ q.pc = pc /\ q.left = left /\ q.events = x.events
        /\ q.dup = x.dup /\ q.ok = x.ok /\ q.awaited = x.awaited
    BY <2>2 DEF Records, Pcs
  <2> QED
    BY <2>1, <2>3
<1>3. /\ RequestOK(request[r]) /\ New(q) = New(request[r]) /\ Current(q) = Min(left)
      /\ request[r].pc \in PastPersist /\ request[r].pc \in PastFacts
      /\ pc \notin Early /\ pc # "idle" /\ request[r].pc # "idle"
  BY <1>2, RecordFacts DEF New, Current, Early, PastFacts, PastPersist
<1>4. RequestOK(q)
  BY <1>2, <1>3 DEF RequestOK
<1> QED
  BY <1>1, <1>2, <1>4, GrowKeeps, RequestStep

(* Its events become visible.                                              *)
LEMMA CommitKeeps ==
    ASSUME IndInv, UNCHANGED kind, NEW r \in Requests, Commit(r)
    PROVE  IndInv'
<1> DEFINE fresh == request[r].left \ memory
           due   == fresh \cap Of("alerting")
           gone  == {e \in fresh : \A d \in due : e <= d}
<1>1. Grow /\ UNCHANGED <<client, faults, stores>> /\ request[r].pc = "commit"
  BY DEF Commit, Grow, stores
<1>2. memory' = memory \cup gone
  BY DEF Commit
<1>3. /\ request[r] \in Records /\ RequestOK(request[r])
      /\ request[r].left \subseteq New(request[r]) /\ New(request[r]) \subseteq stored
      /\ request[r].events \cap Structural \subseteq facts
  BY <1>1, RecordFacts DEF RequestOK, PastPersist, PastFacts
<1>4. fresh \subseteq stored /\ gone \subseteq stored /\ due \in SUBSET Nat
  BY <1>3 DEF Records, Events
<1>5. NothingBeforeStored' /\ \A c \in cache : CacheOK(c)'
  <2>1. assets' \subseteq stored \cup facts
    BY <1>3 DEF Commit, IndInv, StoreInv, NothingBeforeStored
  <2>2. memory' \subseteq stored
    BY <1>2, <1>4 DEF IndInv, StoreInv, NothingBeforeStored
  <2> QED
    BY <1>1, <2>1, <2>2, GrowKeeps DEF IndInv, StoreInv, NothingBeforeStored, stores
<1>6. (\A c \in cache' : CacheOK(c)') => StoreInv'
  BY <1>1, <1>5, GrowKeeps DEF IndInv, StoreInv, stores
<1>7. CASE due # {}
  <2>1. PICK left : left = {e \in request[r].left : e >= Min(due)}
    OBVIOUS
  <2>2. /\ Min(due) \in due
        /\ request' = [request EXCEPT ![r].pc = "acquire",
                                      ![r].left = {e \in @ : e >= Min(due)}]
        /\ cache' = cache
    BY <1>4, <1>7, MinFacts DEF Commit
  <2>3. request' = [request EXCEPT ![r] = [request[r] EXCEPT !.pc = "acquire", !.left = left]]
    BY <1>3, <2>1, <2>2 DEF IndInv, RequestInv, Records
  <2>4. /\ left \subseteq request[r].left /\ left \in SUBSET Events /\ left \in SUBSET Nat
        /\ Min(due) \in left /\ \A e \in left : e >= Min(due)
    BY <1>3, <1>4, <2>1, <2>2 DEF Records, Events
  <2>5. Min(left) = Min(due)
    <3>1. PICK first, least : first = Min(due) /\ least = Min(left)
      OBVIOUS
    <3>2. /\ least \in left /\ \A y \in left : least <= y
          /\ first \in left /\ \A y \in left : y >= first
          /\ left \in SUBSET Nat
      BY <2>4, <3>1, MinFacts
    <3>3. least \in Nat /\ first \in Nat /\ least <= first /\ first <= least
      BY <3>2
    <3>4. least = first
      BY <3>3
    <3> QED
      BY <3>1, <3>4
  <2>6. left # {} /\ kind[Min(left)] = "alerting"
    BY <2>2, <2>4, <2>5, KindFacts DEF IndInv, StoreInv
  <2>7. RequestInv' /\ ClientInv'
    BY <1>1, <2>3, <2>4, <2>6, LeftStep
  <2> QED
    BY <1>5, <1>6, <2>2, <2>7 DEF IndInv
<1>8. CASE due = {} /\ New(request[r]) = {}
  <2>1. Finish(r, request[r].events) /\ cache' = Remember(request[r])
    BY <1>8 DEF Commit
  <2>2. RequestInv' /\ ClientInv' /\ \A c \in cache' : CacheOK(c)'
    BY <1>1, <1>8, <2>1, FinishAll DEF PastPersist, PastFacts
  <2> QED
    BY <1>6, <2>2 DEF IndInv
<1>9. CASE due = {} /\ New(request[r]) # {}
  <2>1. request' = [request EXCEPT ![r].pc = "jobs", ![r].left = {}] /\ cache' = cache
    BY <1>9 DEF Commit
  <2>2. request' = [request EXCEPT ![r] = [request[r] EXCEPT !.pc = "jobs", !.left = {}]]
    BY <1>3, <2>1 DEF IndInv, RequestInv, Records
  <2>3. /\ "jobs" \in {"commit", "acquire", "apply", "jobs"}
        /\ {} \in SUBSET Events /\ {} \subseteq request[r].left
        /\ request[r].pc \in {"commit", "acquire", "apply"}
        /\ "jobs" \notin {"acquire", "apply"}
    BY <1>1
  <2>4. RequestInv' /\ ClientInv'
    BY <1>1, <2>2, <2>3, LeftStep
  <2> QED
    BY <1>5, <1>6, <2>1, <2>4 DEF IndInv
<1> QED
  BY <1>7, <1>8, <1>9

(* The effect a request is at is of a durable event.                       *)
LEMMA CurrentFacts ==
    ASSUME IndInv, NEW r \in Requests, request[r].pc \in {"acquire", "apply"}
    PROVE  /\ Current(request[r]) \in request[r].left
           /\ Current(request[r]) \in stored
           /\ Current(request[r]) \in Of("alerting")
           /\ request[r].left \subseteq stored /\ request[r].left \in SUBSET Events
<1>1. /\ request[r].left # {} /\ request[r].left \subseteq New(request[r])
      /\ New(request[r]) \subseteq stored /\ request[r].left \in SUBSET Events
      /\ kind[Current(request[r])] = "alerting"
  BY RecordFacts DEF RequestOK, PastPersist, PastFacts, Records
<1>2. Current(request[r]) \in request[r].left
  BY <1>1, MinFacts DEF Current, Events
<1> QED
  BY <1>1, <1>2 DEF Of

(* A step of the ledger changes the row of a durable event.                *)
LEMMA EffectStep ==
    ASSUME IndInv, UNCHANGED <<kind, stored, facts, jobs, canonical, process>>,
           NEW e \in stored, faults' \in 0 .. MaxFaults,
           NEW to \in {"pending", "expired", "applied"},
           effect' = effect \/ effect' = [effect EXCEPT ![e] = to]
    PROVE  Grow /\ StoreInv'
<1>1. Grow
  BY DEF Grow
<1>2. /\ effect' \in [Of("alerting") -> {"none", "pending", "expired", "applied"}]
      /\ \A d \in DOMAIN effect' : effect'[d] # "none" => d \in stored
  BY DEF IndInv, StoreInv, NothingBeforeStored
<1>3. NothingBeforeStored'
  BY <1>2 DEF IndInv, StoreInv, NothingBeforeStored, process
<1>4. \A c \in cache' : CacheOK(c)'
  BY <1>1, GrowKeeps DEF IndInv, StoreInv, process
<1> QED
  BY <1>1, <1>2, <1>3, <1>4, GrowKeeps DEF IndInv, StoreInv

(* After an effect, what is left does not hold it any more.                *)
LEMMA PastEffect ==
    ASSUME IndInv, Grow, UNCHANGED client, NEW r \in Requests, NEW e \in Events,
           request[r].pc \in {"acquire", "apply"},
           request' = [request EXCEPT ![r].pc = "commit", ![r].left = @ \ {e}]
    PROVE  RequestInv' /\ ClientInv'
<1>1. PICK left : left = request[r].left \ {e}
  OBVIOUS
<1>2. left \in SUBSET Events /\ left \subseteq request[r].left
  BY <1>1, RecordFacts DEF Records
<1>3. request' = [request EXCEPT ![r] = [request[r] EXCEPT !.pc = "commit", !.left = left]]
  BY <1>1, RecordFacts DEF IndInv, RequestInv, Records
<1>4. /\ "commit" \in {"commit", "acquire", "apply", "jobs"}
      /\ "commit" \notin {"acquire", "apply"}
      /\ request[r].pc \in {"commit", "acquire", "apply"}
  OBVIOUS
<1> QED
  BY <1>2, <1>3, <1>4, LeftStep

(* An effect is taken from the ledger,                                     *)
LEMMA AcquireEffectKeeps ==
    ASSUME IndInv, UNCHANGED kind, NEW r \in Requests, AcquireEffect(r)
    PROVE  IndInv'
<1>1. PICK e : e = Current(request[r])
  OBVIOUS
<1>2. /\ request[r].pc = "acquire" /\ e \in stored /\ e \in Of("alerting") /\ e \in Events
      /\ faults' \in 0 .. MaxFaults
  BY <1>1, CurrentFacts DEF AcquireEffect, Of, IndInv, StoreInv
<1>3. Grow /\ StoreInv' /\ UNCHANGED client
  <2>1. effect' = effect \/ effect' = [effect EXCEPT ![e] = "pending"]
    BY <1>1 DEF AcquireEffect
  <2> QED
    BY <1>2, <2>1, EffectStep DEF AcquireEffect
<1>4. CASE Goto(r, "apply")
  <2>1. PICK left : left = request[r].left
    OBVIOUS
  <2>2. /\ left \in SUBSET Events /\ left \subseteq request[r].left /\ left # {}
        /\ kind[Min(left)] = "alerting"
    BY <1>2, <2>1, CurrentFacts, RecordFacts DEF RequestOK, Current
  <2>3. request' = [request EXCEPT ![r] = [request[r] EXCEPT !.pc = "apply", !.left = left]]
    BY <1>4, <2>1, RecordFacts DEF Goto, IndInv, RequestInv, Records
  <2>4. "apply" \in {"commit", "acquire", "apply", "jobs"}
        /\ request[r].pc \in {"commit", "acquire", "apply"}
    BY <1>2
  <2>5. RequestInv' /\ ClientInv'
    BY <1>3, <2>2, <2>3, <2>4, LeftStep
  <2> QED
    BY <1>3, <2>5 DEF IndInv
<1>5. CASE request' = [request EXCEPT ![r].pc = "commit", ![r].left = @ \ {e}]
  BY <1>2, <1>3, <1>5, PastEffect DEF IndInv
<1>6. CASE Finish(r, {})
  BY <1>3, <1>6, FinishNothing DEF IndInv
<1> QED
  BY <1>1, <1>4, <1>5, <1>6 DEF AcquireEffect

(* applied and committed,                                                  *)
LEMMA ApplyEffectKeeps ==
    ASSUME IndInv, UNCHANGED kind, NEW r \in Requests, ApplyEffect(r)
    PROVE  IndInv'
<1>1. PICK e : e = Current(request[r])
  OBVIOUS
<1>2. /\ request[r].pc = "apply" /\ e \in stored /\ e \in Events
      /\ faults' \in 0 .. MaxFaults
  BY <1>1, CurrentFacts DEF ApplyEffect, Of, IndInv, StoreInv
<1>3. Grow /\ StoreInv' /\ UNCHANGED client
  <2>1. effect' = [effect EXCEPT ![e] = "applied"]
    BY <1>1 DEF ApplyEffect
  <2> QED
    BY <1>2, <2>1, EffectStep DEF ApplyEffect
<1>4. request' = [request EXCEPT ![r].pc = "commit", ![r].left = @ \ {e}]
  BY <1>1 DEF ApplyEffect
<1> QED
  BY <1>2, <1>3, <1>4, PastEffect DEF IndInv

(* or fails,                                                               *)
LEMMA EffectFailsKeeps ==
    ASSUME IndInv, UNCHANGED kind, NEW r \in Requests, EffectFails(r)
    PROVE  IndInv'
<1>1. PICK e : e = Current(request[r])
  OBVIOUS
<1>2. request[r].pc \in {"acquire", "apply"} /\ e \in stored /\ faults' \in 0 .. MaxFaults
  BY <1>1, CurrentFacts, FaultFacts DEF EffectFails
<1>3. \/ effect' = effect
      \/ effect' = [effect EXCEPT ![e] = "pending"]
      \/ effect' = [effect EXCEPT ![e] = "applied"]
  BY <1>1 DEF EffectFails
<1>4. Grow /\ StoreInv'
  BY <1>2, <1>3, EffectStep DEF EffectFails
<1> QED
  BY <1>4, FinishNothing DEF EffectFails, IndInv

(* and its lease may run out.                                              *)
LEMMA LeaseExpiresKeeps ==
    ASSUME IndInv, UNCHANGED kind, NEW e, LeaseExpires(e)
    PROVE  IndInv'
<1>1. e \in stored /\ faults' \in 0 .. MaxFaults
  BY DEF LeaseExpires, IndInv, StoreInv, NothingBeforeStored
<1>2. Grow /\ StoreInv'
  BY <1>1, EffectStep DEF LeaseExpires
<1>3. RequestInv'
  BY <1>2, GrowKeeps DEF LeaseExpires, IndInv, RequestInv
<1>4. ClientInv'
  BY <1>2, GrowKeeps DEF LeaseExpires, client, Grow, Settled, Acknowledged, IndInv, ClientInv
<1> QED
  BY <1>2, <1>3, <1>4 DEF IndInv

-----------------------------------------------------------------------------
(* Publication.                                                            *)
LEMMA PublishFacts ==
    ASSUME IndInv, NEW r \in Requests, request[r].pc \in {"jobs", "canonical"}
    PROVE  /\ New(request[r]) \subseteq stored /\ New(request[r]) \in SUBSET Events
           /\ request[r].events \cap Structural \subseteq facts
           /\ request[r].pc = "canonical" => New(request[r]) \cap Of("async") \subseteq jobs
           /\ request[r].dup \subseteq stored
BY RecordFacts DEF RequestOK, PastPersist, PastFacts, Records, New

(* Judgment jobs are queued,                                               *)
LEMMA PublishJobsKeeps ==
    ASSUME IndInv, UNCHANGED kind, NEW r \in Requests, PublishJobs(r)
    PROVE  IndInv'
<1>1. Grow /\ UNCHANGED client /\ request[r].pc = "jobs" /\ UNCHANGED faults
  BY DEF PublishJobs, Grow
<1>2. StoreInv'
  BY <1>1, PublishFacts, GrowKeeps
  DEF PublishJobs, IndInv, StoreInv, NothingBeforeStored, process
<1>3. PICK q : q = [request[r] EXCEPT !.pc = "canonical"]
  OBVIOUS
<1>4. /\ q \in Records /\ q.pc = "canonical" /\ q.left = request[r].left
      /\ q.events = request[r].events
      /\ q.dup = request[r].dup /\ q.ok = request[r].ok /\ q.awaited = request[r].awaited
  <2>1. PICK x \in Records : x = request[r]
    BY RecordFacts
  <2>2. /\ q = [x EXCEPT !.pc = "canonical"] /\ q \in Records
    BY <1>3, <2>1 DEF Records, Pcs
  <2> QED
    BY <2>1, <2>2 DEF Records
<1>5. New(q)' = New(request[r]) /\ Of("async")' = Of("async") /\ Structural' = Structural
  BY <1>1, <1>4, GrowKeeps DEF New
<1>6. New(request[r]) \cap Of("async") \subseteq jobs'
  BY DEF PublishJobs
<1>7. RequestOK(q)'
  <2>1. /\ request[r].dup \subseteq request[r].events /\ request[r].dup \subseteq stored'
        /\ request[r].ok \subseteq request[r].events
        /\ request[r].left \subseteq New(request[r]) /\ request[r].events # {}
    BY <1>1, RecordFacts DEF RequestOK, Grow
  <2>2. /\ request[r].events \cap Structural \subseteq facts'
        /\ New(request[r]) \subseteq stored'
    BY <1>1, PublishFacts DEF Grow
  <2> QED
    BY <1>4, <1>5, <1>6, <2>1, <2>2 DEF RequestOK, Early
<1> QED
  BY <1>1, <1>2, <1>3, <1>4, <1>7, RequestStep DEF PublishJobs, Goto, IndInv

(* and canonical records published.                                        *)
LEMMA PublishCanonicalKeeps ==
    ASSUME IndInv, UNCHANGED kind, NEW r \in Requests, PublishCanonical(r)
    PROVE  IndInv'
<1>1. /\ Grow /\ UNCHANGED client /\ request[r].pc = "canonical" /\ UNCHANGED faults
      /\ Finish(r, request[r].events) /\ cache' = Remember(request[r])
  BY DEF PublishCanonical, Grow
<1>2. NothingBeforeStored'
  BY <1>1, PublishFacts DEF PublishCanonical, IndInv, StoreInv, NothingBeforeStored
<1>3. /\ New(request[r]) \cap Of("async") \subseteq jobs'
      /\ New(request[r]) \subseteq canonical'
  BY <1>1, PublishFacts DEF PublishCanonical
<1>4. RequestInv' /\ ClientInv' /\ \A c \in cache' : CacheOK(c)'
  BY <1>1, <1>3, FinishAll DEF PastPersist, PastFacts
<1>5. StoreInv'
  BY <1>1, <1>2, <1>4, GrowKeeps DEF PublishCanonical, IndInv, StoreInv
<1> QED
  BY <1>4, <1>5 DEF IndInv

(* What is answered before the first retained event is not retained, or a  *)
(* duplicate.                                                              *)
LEMMA PublishFailsKeeps ==
    ASSUME IndInv, UNCHANGED kind, NEW r \in Requests, PublishFails(r)
    PROVE  IndInv'
<1>1. Grow /\ UNCHANGED client /\ request[r].pc \in {"jobs", "canonical"}
      /\ faults' \in 0 .. MaxFaults
  BY FaultFacts DEF PublishFails, Grow
<1>2. jobs' \subseteq stored /\ canonical' \subseteq stored
  BY <1>1, PublishFacts DEF PublishFails, IndInv, StoreInv, NothingBeforeStored
<1>3. StoreInv'
  BY <1>1, <1>2, GrowKeeps
  DEF PublishFails, IndInv, StoreInv, NothingBeforeStored, process
<1>4. PICK ok, dup : /\ ok = {e \in request[r].events : \A n \in New(request[r]) : e < n}
                     /\ dup = request[r].dup
  OBVIOUS
<1>5. /\ ok \in SUBSET Events /\ ok \subseteq request[r].events
      /\ dup \in SUBSET Events /\ dup \subseteq request[r].events
      /\ dup \subseteq stored /\ request[r].events \cap Structural \subseteq facts
      /\ request[r].events \in SUBSET Nat
  <2>1. PICK x \in Records : x = request[r]
    BY RecordFacts
  <2>2. x.events \in SUBSET Events /\ x.dup \subseteq x.events
    BY <2>1, RecordFacts DEF Records, RequestOK
  <2>3. request[r].dup \subseteq stored /\ request[r].events \cap Structural \subseteq facts
    BY <1>1, PublishFacts
  <2>4. Events \subseteq Nat
    BY DEF Events
  <2> QED
    BY <1>4, <2>1, <2>2, <2>3, <2>4
<1>6. ok \cap New(request[r]) = {}
  BY <1>4, <1>5
<1>7. ok \cap Retained \subseteq dup
  BY <1>4, <1>5, <1>6 DEF New
<1>8. Settled(ok, dup)
  BY <1>5, <1>7, KindFacts DEF Settled, IndInv, StoreInv
<1>9. Settled(ok, dup)' /\ dup \subseteq stored'
  BY <1>1, <1>5, <1>8, GrowKeeps DEF Grow
<1>10. Reply(r, ok, dup)
  BY <1>4 DEF PublishFails, Finish
<1>11. RequestInv' /\ ClientInv'
  BY <1>1, <1>5, <1>9, <1>10, ReplyStep
<1> QED
  BY <1>3, <1>11 DEF IndInv

(* A restart forgets, and what hydrate restores is durable.                *)
LEMMA RestartApiKeeps ==
    ASSUME IndInv, UNCHANGED kind, RestartApi
    PROVE  IndInv'
<1>1. Grow /\ faults' \in 0 .. MaxFaults
  BY FaultFacts DEF RestartApi, Grow, stores
<1>2. StoreInv'
  BY <1>1, GrowKeeps DEF RestartApi, IndInv, StoreInv, NothingBeforeStored, stores
<1>3. Idle \in Records
  BY DEF Idle, Records, Pcs
<1>4. RequestOK(Idle)'
  BY DEF RequestOK, Idle, Early, PastFacts, PastPersist
<1>5. RequestInv'
  BY <1>3, <1>4 DEF RestartApi, RequestInv
<1>6. ClientInv'
  BY <1>1, GrowKeeps
  DEF RestartApi, client, Grow, Settled, Acknowledged, Idle, IndInv, ClientInv
<1> QED
  BY <1>2, <1>5, <1>6 DEF IndInv

-----------------------------------------------------------------------------
(* The invariant holds initially,                                          *)
LEMMA InitHolds == Init => IndInv
<1> SUFFICES ASSUME Init PROVE IndInv
  OBVIOUS
<1>1. StoreInv
  BY IngestAssumption DEF Init, StoreInv, NothingBeforeStored
<1>2. Idle \in Records /\ RequestOK(Idle)
  BY DEF Idle, Records, Pcs, RequestOK, Early, PastFacts, PastPersist
<1>3. RequestInv
  BY <1>2 DEF Init, RequestInv
<1>4. ClientInv
  BY DEF Init, ClientInv, Settled, Acknowledged, Idle
<1> QED
  BY <1>1, <1>3, <1>4 DEF IndInv

(* every step preserves it,                                                *)
LEMMA NextKeeps == IndInv /\ [Next]_vars => IndInv'
<1> SUFFICES ASSUME IndInv, [Next]_vars PROVE IndInv'
  OBVIOUS
<1>1. CASE UNCHANGED vars
  <2>1. StoreInv' /\ Grow
    BY <1>1, StoresStay DEF vars, IndInv, StoreInv
  <2>2. RequestInv' /\ ClientInv'
    BY <1>1, <2>1, GrowKeeps
    DEF vars, client, IndInv, RequestInv, ClientInv, Grow, Settled, Acknowledged
  <2> QED
    BY <2>1, <2>2 DEF IndInv
<1>2. ASSUME NEW r \in Requests, UNCHANGED kind,
             Step(r) \/ Abandon(r) \/ StoreFails(r) \/ EffectFails(r) \/ PublishFails(r)
      PROVE  IndInv'
  BY <1>2, PrepareKeeps, ClassifyKeeps, PersistFactsKeeps, PersistKeeps, CommitKeeps,
     AcquireEffectKeeps, ApplyEffectKeeps, PublishJobsKeeps, PublishCanonicalKeeps,
     ReceiveKeeps, AbandonKeeps, StoreFailsKeeps, EffectFailsKeeps, PublishFailsKeeps
  DEF Step
<1> QED
  BY <1>1, <1>2, SendKeeps, LeaseExpiresKeeps, RestartApiKeeps DEF Next, SomeStep, SendAny

(* and so it always holds.                                                 *)
LEMMA Inductive == Spec => []IndInv
BY InitHolds, NextKeeps, PTL DEF Spec

(* The state is well typed.                                                *)
THEOREM TypeCorrect == Spec => []TypeOK
<1>1. IndInv => TypeOK
  <2> SUFFICES ASSUME IndInv PROVE TypeOK
    OBVIOUS
  <2>1. \A r \in Requests :
          LET q == request[r] IN
          /\ q.pc \in Pcs
          /\ {q.replay, q.awaited} \subseteq BOOLEAN
          /\ q.dup \subseteq q.events /\ q.ok \subseteq q.events
          /\ q.left \subseteq New(q)
          /\ q.pc \in {"acquire", "apply"} => kind[Current(q)] = "alerting"
          /\ q.pc = "idle" <=> q.events = {}
    BY RecordFacts DEF Records, RequestOK
  <2> QED
    BY <2>1 DEF IndInv, StoreInv, ClientInv, TypeOK
<1> QED
  BY <1>1, Inductive, PTL

(* Nothing is in memory, queued, materialized or raised for an event       *)
(* before it is durable.                                                   *)
THEOREM NothingIsBeforeStored == Spec => []NothingBeforeStored
<1>1. IndInv => NothingBeforeStored
  BY DEF IndInv, StoreInv
<1> QED
  BY <1>1, Inductive, PTL

(* What the forwarder may delete from its spool is durable, and what was   *)
(* acknowledged as processed is published, across timeouts, overlapping    *)
(* retries, half-failed writes, cached answers and restarts.               *)
THEOREM AcknowledgedIsAlwaysDone == Spec => []AcknowledgedIsDone
<1>1. IndInv => AcknowledgedIsDone
  BY DEF IndInv, ClientInv, Settled, AcknowledgedIsDone, Acknowledged
<1> QED
  BY <1>1, Inductive, PTL
=============================================================================
