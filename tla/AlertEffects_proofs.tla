------------------------ MODULE AlertEffects_proofs ------------------------
(***************************************************************************)
(* Proofs about AlertEffects, for any number of replicas and effects, any  *)
(* order of their leases, failures and restarts: an effect is applied once *)
(* and announced only when it stands in the ledger.                        *)
(***************************************************************************)
EXTENDS AlertEffects, TLAPS

WorkSteps == {"boot", "idle", "held", "committed", "failed"}
Works == [step : WorkSteps, effect : Durable \cup {Nobody}, before : Alerts,
          after : Alerts, same : BOOLEAN, tell : BOOLEAN]
Snapshots == [on : BOOLEAN, alert : Alerts]
Entries == [status : {"none", "pending", "applied"}, owner : Replicas \cup {Nobody},
            live : BOOLEAN]

(* The types of one replica's memory, and of what all of them share.       *)
ProcessInv ==
    /\ mem \in [Replicas -> Alerts]
    /\ work \in [Replicas -> Works]
    /\ timer \in [Replicas -> BOOLEAN] /\ asked \in [Replicas -> BOOLEAN]
    /\ saving \in [Replicas -> Snapshots] /\ fetched \in [Replicas -> Snapshots]
    /\ sending \in [Replicas -> Nat]

StoreInv ==
    /\ now \in 0..MaxTime /\ upsets \in 0..MaxUpsets
    /\ row \in Alerts /\ copy \in Alerts
    /\ ledger \in [Durable -> Entries]
    /\ applied \in [Effects -> Nat] /\ told \subseteq Durable /\ lost \in BOOLEAN

(* While an effect holds, it is one of the durable ones and the timer is   *)
(* off; when its transaction has answered, the ledger has it.              *)
WorkInv ==
    \A r \in Replicas :
       /\ work[r].step = "boot" => saving[r].on
       /\ Holding(r) => ~ timer[r] /\ work[r].effect \in Durable
       /\ work[r].step = "committed" => ledger[work[r].effect].status = "applied"

IndInv ==
    /\ ProcessInv /\ StoreInv /\ WorkInv
    /\ EffectAppliedOnce /\ ToldIsCommitted

-----------------------------------------------------------------------------
(* What an event makes of an alert is an alert, and so is what a merge     *)
(* leaves.                                                                 *)
LEMMA AlertFacts ==
    ASSUME NEW alert \in Alerts, NEW rec \in Alerts
    PROVE  /\ \A e \in Effects : Raised(alert, e) \in Alerts
           /\ Merged(alert, rec) \in Alerts /\ Stored(alert, rec) \in Alerts
<1>1. \A e \in Effects : alert.events \cup {e} \in SUBSET Effects
  BY DEF Alerts, NoAlert
<1>2. \A e \in Effects : Raised(alert, e) \in Alerts
  BY <1>1, EffectAssumption DEF Raised, Alerts, NoAlert, Statuses
<1> QED
  BY <1>2 DEF Merged, Stored

(* The values every replica starts from.                                   *)
LEMMA EmptyFacts ==
    NoAlert \in Alerts /\ Nothing \in Snapshots /\ Idle \in Works
    /\ [Idle EXCEPT !.step = "boot"] \in Works
BY DEF Alerts, NoAlert, Nothing, Snapshots, Idle, Works, WorkSteps

(* Nothing is held, leased or told at the start.                           *)
LEMMA InitHolds == Init => IndInv
<1> SUFFICES ASSUME Init PROVE IndInv
  OBVIOUS
<1> USE EmptyFacts
<1>1. ProcessInv
  BY DEF Init, ProcessInv
<1>2. StoreInv
  <2>1. ledger \in [Durable -> Entries]
    BY DEF Init, Entries
  <2>2. now \in 0..MaxTime /\ upsets \in 0..MaxUpsets
    BY BoundAssumption DEF Init
  <2> QED
    BY <2>1, <2>2 DEF Init, StoreInv
<1>3. WorkInv
  BY DEF Init, WorkInv, Holding, Idle
<1>4. EffectAppliedOnce /\ ToldIsCommitted
  BY DEF Init, EffectAppliedOnce, ToldIsCommitted, Durable
<1> QED
  BY <1>1, <1>2, <1>3, <1>4 DEF IndInv

-----------------------------------------------------------------------------
(* The memory of a replica.                                                *)

(* A new object in memory leaves the effects at their steps.               *)
LEMMA ReplaceKeeps ==
    ASSUME ProcessInv, WorkInv, NEW r \in Replicas, NEW alert \in Alerts,
           Replace(r, alert)
    PROVE  /\ mem' \in [Replicas -> Alerts] /\ work' \in [Replicas -> Works]
           /\ \A q \in Replicas : /\ work'[q].step = work[q].step
                                  /\ work'[q].effect = work[q].effect
BY ZenonT(60) DEF ProcessInv, Replace, Works

(* persistSoon arms no timer while an effect holds.                        *)
LEMMA PersistSoonKeeps ==
    ASSUME ProcessInv, WorkInv, NEW r \in Replicas, PersistSoon(r)
    PROVE  /\ timer' \in [Replicas -> BOOLEAN] /\ asked' \in [Replicas -> BOOLEAN]
           /\ \A q \in Replicas : Holding(q) => ~ timer'[q]
BY DEF ProcessInv, WorkInv, PersistSoon

(* One webhook call more, or none.                                         *)
LEMMA SendKeeps ==
    ASSUME ProcessInv, NEW r \in Replicas, NEW on \in BOOLEAN, Send(r, on)
    PROVE  sending' \in [Replicas -> Nat]
BY DEF ProcessInv, Send

(* A step that leaves the ledger alone, no matter which steps the effects  *)
(* take short of "committed".                                              *)
LEMMA LedgerKept ==
    ASSUME StoreInv, EffectAppliedOnce, ToldIsCommitted,
           UNCHANGED <<ledger, told>>,
           \A e \in Durable : applied'[e] = applied[e]
    PROVE  EffectAppliedOnce' /\ ToldIsCommitted'
BY DEF EffectAppliedOnce, ToldIsCommitted

(* The effects of all replicas stay where they are.                        *)
LEMMA WorkKept ==
    ASSUME WorkInv, UNCHANGED <<saving, ledger>>,
           \A q \in Replicas : work'[q].step = work[q].step /\ work'[q].effect = work[q].effect,
           \A q \in Replicas : Holding(q) => ~ timer'[q]
    PROVE  WorkInv'
BY DEF WorkInv, Holding

(* An event of the older protocol.                                         *)
LEMMA ObserveKeeps ==
    ASSUME IndInv, NEW r \in Replicas, NEW e \in Legacy, Observe(r, e)
    PROVE  IndInv'
<1> USE DEF IndInv
<1>1. Replace(r, Raised(mem[r], e)) /\ Raised(mem[r], e) \in Alerts
  BY AlertFacts, EffectAssumption DEF Observe, ProcessInv
<1>2. Send(r, mem[r].status # "acknowledged" /\ Announced(mem[r])) /\ PersistSoon(r)
  BY DEF Observe
<1>3. ProcessInv'
  BY <1>1, <1>2, ReplaceKeeps, PersistSoonKeeps, SendKeeps DEF Observe, ProcessInv
<1>4. applied' \in [Effects -> Nat] /\ \A d \in Durable : applied'[d] = applied[d]
  BY EffectAssumption DEF Observe, StoreInv, Durable
<1>5. StoreInv'
  BY <1>4 DEF Observe, StoreInv, store
<1>6. WorkInv'
  BY <1>1, <1>2, ReplaceKeeps, PersistSoonKeeps, WorkKept DEF Observe, store
<1> QED
  BY <1>3, <1>4, <1>5, <1>6, LedgerKept DEF Observe, store

(* An operator's change.                                                   *)
LEMMA UpdateKeeps ==
    ASSUME IndInv, NEW r \in Replicas, NEW s \in Statuses, Update(r, s)
    PROVE  IndInv'
<1> USE DEF IndInv
<1>1. Replace(r, [mem[r] EXCEPT !.status = s, !.at = now])
      /\ [mem[r] EXCEPT !.status = s, !.at = now] \in Alerts
  BY DEF Update, ProcessInv, StoreInv, Alerts
<1>2. /\ Send(r, \/ s = "resolved" /\ mem[r].status # "resolved"
                 \/ s = "open" /\ mem[r].status = "resolved")
      /\ PersistSoon(r)
  BY DEF Update
<1>3. ProcessInv'
  BY <1>1, <1>2, ReplaceKeeps, PersistSoonKeeps, SendKeeps DEF Update, ProcessInv
<1>5. StoreInv'
  BY BoundAssumption DEF Update, StoreInv, store, history, Upset
<1>6. WorkInv'
  BY <1>1, <1>2, ReplaceKeeps, PersistSoonKeeps, WorkKept DEF Update, store
<1> QED
  BY <1>3, <1>5, <1>6, LedgerKept DEF Update, store, history

(* The end of a webhook call.                                              *)
LEMMA WebhookKeeps ==
    ASSUME IndInv, NEW r \in Replicas, NEW delivered \in BOOLEAN, WebhookEnds(r, delivered)
    PROVE  IndInv'
<1> USE DEF IndInv
<1>1. sending' \in [Replicas -> Nat]
  BY DEF WebhookEnds, ProcessInv
<1>2. CASE delivered /\ mem[r] # NoAlert
  <2>1. Replace(r, mem[r]) /\ mem[r] \in Alerts /\ PersistSoon(r)
    BY <1>2 DEF WebhookEnds, ProcessInv
  <2>2. ProcessInv' /\ WorkInv'
    BY <1>1, <2>1, ReplaceKeeps, PersistSoonKeeps, WorkKept DEF WebhookEnds, ProcessInv, store
  <2> QED
    BY <2>2, LedgerKept DEF WebhookEnds, StoreInv, store, history
<1>3. CASE ~ (delivered /\ mem[r] # NoAlert)
  <2>1. ProcessInv' /\ WorkInv'
    BY <1>1, <1>3 DEF WebhookEnds, ProcessInv, WorkInv, Holding, store
  <2> QED
    BY <2>1, LedgerKept DEF WebhookEnds, StoreInv, store, history
<1> QED
  BY <1>2, <1>3

-----------------------------------------------------------------------------
(* The durable effect.                                                     *)

(* An effect that is leased was not applied.                               *)
LEMMA PrepareKeeps ==
    ASSUME IndInv, NEW r \in Replicas, NEW e \in Durable, Prepare(r, e)
    PROVE  IndInv'
<1> USE DEF IndInv
<1>1. mem[r] \in Alerts /\ Raised(mem[r], e) \in Alerts
  BY AlertFacts DEF ProcessInv, Durable
<1>2. PICK w \in Works :
         /\ w.step = "held" /\ w.effect = e
         /\ work' = [work EXCEPT ![r] = w]
  <2>1. PICK tell \in BOOLEAN : tell = Announced(mem[r])
    <3>1. Announced(mem[r]) \in BOOLEAN
      BY DEF Announced
    <3> QED
      BY <3>1, Zenon
  <2>2. PICK after \in Alerts : after = Raised(mem[r], e)
    BY <1>1
  <2>3. [step |-> "held", effect |-> e, before |-> mem[r], after |-> after,
         same |-> TRUE, tell |-> tell] \in Works
    BY <1>1 DEF Works, WorkSteps
  <2> QED
    BY <2>1, <2>2, <2>3, Zenon DEF Prepare
<1>3. ProcessInv'
  BY ZenonT(60), <1>1, <1>2 DEF Prepare, ProcessInv
<1>4. ledger' \in [Durable -> Entries] /\ ledger'[e].status # "applied"
      /\ ledger[e].status # "applied" /\ \A d \in Durable \ {e} : ledger'[d] = ledger[d]
  BY DEF Prepare, StoreInv, Entries, Acquirable
<1>5. StoreInv'
  BY <1>4 DEF Prepare, StoreInv, history
<1>6. WorkInv'
  BY <1>2, <1>4 DEF Prepare, ProcessInv, StoreInv, WorkInv, Holding
<1>7. EffectAppliedOnce'
  BY <1>4 DEF Prepare, EffectAppliedOnce, history
<1>8. ToldIsCommitted'
  BY <1>4 DEF Prepare, StoreInv, ToldIsCommitted, history
<1> QED
  BY <1>3, <1>5, <1>6, <1>7, <1>8

(* The transaction writes the alert and the ledger, for an effect that is  *)
(* pending: nobody has applied it before.                                  *)
LEMMA StoreKeeps ==
    ASSUME IndInv, NEW r \in Replicas, work[r].step = "held", Mine(r), Store(r)
    PROVE  /\ work[r].effect \in Durable
           /\ row' \in Alerts /\ ledger' \in [Durable -> Entries]
           /\ applied' \in [Effects -> Nat]
           /\ \A d \in Durable : ledger[d].status = "applied" => ledger'[d].status = "applied"
           /\ ledger'[work[r].effect].status = "applied"
           /\ \A d \in Durable :
                 applied'[d] = IF ledger'[d].status = "applied" THEN 1 ELSE 0
<1> USE DEF IndInv
<1>1. work[r].effect \in Durable /\ work[r].after \in Alerts
  BY DEF WorkInv, Holding, ProcessInv, Works
<1>2. row' \in Alerts
  BY <1>1, AlertFacts DEF Store, StoreInv
<1>3. PICK e \in Durable : e = work[r].effect
  BY <1>1
<1>4. /\ ledger' = [ledger EXCEPT ![e] = [status |-> "applied", owner |-> r, live |-> FALSE]]
      /\ applied' = [applied EXCEPT ![e] = @ + 1]
  BY <1>3 DEF Store
<1>5. ledger' \in [Durable -> Entries] /\ ledger'[e].status = "applied"
      /\ \A d \in Durable \ {e} : ledger'[d] = ledger[d]
  BY <1>4 DEF StoreInv, Entries
<1>6. ledger[e].status = "pending"
  BY <1>3 DEF Mine
<1>7. applied' \in [Effects -> Nat] /\ applied'[e] = applied[e] + 1
      /\ \A d \in Durable \ {e} : applied'[d] = applied[d]
  BY <1>4 DEF StoreInv, Durable
<1> QED
  BY <1>2, <1>3, <1>5, <1>6, <1>7 DEF EffectAppliedOnce

(* An answered effect takes its next step.                                 *)
LEMMA AnsweredKeeps ==
    ASSUME ProcessInv, NEW r \in Replicas, NEW step \in {"committed", "failed"},
           work[r].step = "held", Answered(r, step)
    PROVE  /\ work' \in [Replicas -> Works]
           /\ work'[r].step = step /\ work'[r].effect = work[r].effect
           /\ \A q \in Replicas \ {r} : work'[q] = work[q]
BY DEF ProcessInv, Answered, Works, WorkSteps

(* The transaction commits: the ledger has the effect.                     *)
LEMMA CommitKeeps ==
    ASSUME IndInv, NEW r \in Replicas, Commit(r)
    PROVE  IndInv'
<1> USE DEF IndInv
<1>1. work[r].step = "held" /\ Mine(r) /\ Store(r) /\ Answered(r, "committed")
  BY DEF Commit
<1>2. ProcessInv'
  BY <1>1, AnsweredKeeps DEF Commit, ProcessInv
<1>3. StoreInv'
  BY <1>1, StoreKeeps DEF Commit, StoreInv
<1>4. WorkInv'
  BY <1>1, StoreKeeps, AnsweredKeeps DEF Commit, WorkInv, Holding
<1>5. EffectAppliedOnce' /\ ToldIsCommitted'
  BY <1>1, StoreKeeps DEF Commit, StoreInv, EffectAppliedOnce, ToldIsCommitted
<1> QED
  BY <1>2, <1>3, <1>4, <1>5

(* The transaction finds that the effect is another's.                     *)
LEMMA RefusedKeeps ==
    ASSUME IndInv, NEW r \in Replicas, Refused(r)
    PROVE  IndInv'
<1> USE DEF IndInv
<1>1. work[r].step = "held" /\ Answered(r, "failed")
  BY DEF Refused
<1>2. ProcessInv' /\ WorkInv'
  BY <1>1, AnsweredKeeps DEF Refused, ProcessInv, WorkInv, Holding, store
<1> QED
  BY <1>2, LedgerKept DEF Refused, StoreInv, store, history

(* The answer is a failure, whether the commit happened or not.            *)
LEMMA CommitFailsKeeps ==
    ASSUME IndInv, NEW r \in Replicas, NEW stored \in BOOLEAN, CommitFails(r, stored)
    PROVE  IndInv'
<1> USE DEF IndInv
<1>1. work[r].step = "held" /\ Answered(r, "failed")
  BY DEF CommitFails
<1>2. ProcessInv'
  BY <1>1, AnsweredKeeps DEF CommitFails, ProcessInv
<1>3. upsets' \in 0..MaxUpsets
  BY BoundAssumption DEF CommitFails, StoreInv, Upset
<1>4. CASE stored
  <2>1. Mine(r) /\ Store(r)
    BY <1>4 DEF CommitFails
  <2>2. StoreInv'
    BY <1>1, <1>3, <2>1, StoreKeeps DEF CommitFails, StoreInv
  <2>3. WorkInv'
    BY <1>1, <2>1, StoreKeeps, AnsweredKeeps DEF CommitFails, WorkInv, Holding
  <2>4. EffectAppliedOnce' /\ ToldIsCommitted'
    BY <1>1, <2>1, StoreKeeps DEF CommitFails, StoreInv, EffectAppliedOnce, ToldIsCommitted
  <2> QED
    BY <1>2, <2>2, <2>3, <2>4
<1>5. CASE ~ stored
  <2>1. UNCHANGED <<row, ledger, applied>>
    BY <1>5 DEF CommitFails
  <2>2. StoreInv' /\ WorkInv'
    BY <1>1, <1>3, <2>1, AnsweredKeeps DEF CommitFails, StoreInv, WorkInv, Holding
  <2> QED
    BY <1>2, <2>1, <2>2, LedgerKept DEF CommitFails
<1> QED
  BY <1>4, <1>5

(* The hold ends: what was announced is in the ledger.                     *)
LEMMA SettleKeeps ==
    ASSUME IndInv, NEW r \in Replicas, Settle(r)
    PROVE  IndInv'
<1> USE DEF IndInv
<1>1. Holding(r) /\ work[r].effect \in Durable /\ work[r] \in Works
  BY DEF Settle, Keep, TakeBack, Holding, WorkInv, ProcessInv
<1>2. mem' \in [Replicas -> Alerts] /\ sending' \in [Replicas -> Nat]
      /\ told' \subseteq Durable
      /\ \A e \in told' : ledger[e].status = "applied"
  <2>1. CASE Keep(r)
    BY <1>1, <2>1, SendKeeps DEF Keep, ProcessInv, StoreInv, WorkInv, ToldIsCommitted, Works
  <2>2. CASE TakeBack(r)
    BY <1>1, <2>2 DEF TakeBack, ProcessInv, StoreInv, ToldIsCommitted, Works
  <2> QED
    BY <2>1, <2>2 DEF Settle
<1>3. work' \in [Replicas -> Works] /\ work'[r].step = "idle"
      /\ \A q \in Replicas \ {r} : work'[q] = work[q]
  BY EmptyFacts DEF Settle, ProcessInv, Idle
<1>4. ProcessInv'
  BY <1>2, <1>3 DEF Settle, ProcessInv
<1>5. StoreInv'
  BY <1>2 DEF Settle, StoreInv, store
<1>6. WorkInv'
  BY <1>3 DEF Settle, ProcessInv, WorkInv, Holding, store
<1>7. EffectAppliedOnce' /\ ToldIsCommitted'
  BY <1>2 DEF Settle, EffectAppliedOnce, ToldIsCommitted, store
<1> QED
  BY <1>4, <1>5, <1>6, <1>7

-----------------------------------------------------------------------------
(* Persistence, refresh, leases and restarts.                              *)

(* The timer fires and a drain takes its snapshot.                         *)
LEMMA FireKeeps ==
    ASSUME IndInv, NEW r \in Replicas, Fire(r)
    PROVE  IndInv'
<1> USE DEF IndInv
<1>1. timer' \in [Replicas -> BOOLEAN] /\ \A q \in Replicas : timer'[q] => timer[q]
  BY DEF Fire, ProcessInv
<1>2. asked' \in [Replicas -> BOOLEAN] /\ saving' \in [Replicas -> Snapshots]
      /\ \A q \in Replicas : saving[q].on => saving'[q].on
  <2>1. CASE saving[r].on
    BY <2>1 DEF Fire, ProcessInv
  <2>2. CASE ~ saving[r].on
    <3>1. Snapshot(r) \in Snapshots /\ Snapshot(r).on
      BY DEF Snapshot, Snapshots, ProcessInv
    <3>2. asked' = [asked EXCEPT ![r] = FALSE] /\ saving' = [saving EXCEPT ![r] = Snapshot(r)]
      BY <2>2 DEF Fire
    <3> QED
      BY <3>1, <3>2 DEF ProcessInv
  <2> QED
    BY <2>1, <2>2
<1>3. ProcessInv' /\ WorkInv'
  BY <1>1, <1>2 DEF Fire, ProcessInv, WorkInv, Holding, store
<1> QED
  BY <1>3, LedgerKept DEF Fire, StoreInv, store, history

(* The end of a drain, whatever reached the stores.                        *)
LEMMA SavedKeeps ==
    ASSUME IndInv, NEW r \in Replicas, NEW inRow \in BOOLEAN, NEW inCopy \in BOOLEAN,
           Saved(r, inRow, inCopy), lost' \in BOOLEAN, upsets' \in 0..MaxUpsets
    PROVE  IndInv'
<1> USE DEF IndInv
<1>1. saving[r].alert \in Alerts /\ Snapshot(r) \in Snapshots
  BY DEF ProcessInv, Snapshot, Snapshots
<1>2. row' \in Alerts /\ copy' \in Alerts
  BY <1>1, AlertFacts DEF Saved, StoreInv
<1>3. /\ saving' \in [Replicas -> Snapshots] /\ asked' \in [Replicas -> BOOLEAN]
      /\ (asked[r] => saving'[r].on) /\ \A q \in Replicas \ {r} : saving'[q] = saving[q]
  BY <1>1, EmptyFacts DEF Saved, ProcessInv, Snapshot
<1>4. /\ work' \in [Replicas -> Works]
      /\ \A q \in Replicas : work'[q] = work[q] \/ work'[q] = Idle
      /\ (work'[r].step = "boot" => asked[r])
  BY EmptyFacts DEF Saved, ProcessInv, Idle
<1>5. ProcessInv'
  BY <1>3, <1>4 DEF Saved, ProcessInv
<1>6. StoreInv'
  BY <1>2 DEF Saved, StoreInv
<1>7. WorkInv'
  BY <1>3, <1>4 DEF Saved, WorkInv, Holding, Idle
<1> QED
  BY <1>5, <1>6, <1>7, LedgerKept DEF Saved

(* The refresh reads the row and merges it later.                          *)
LEMMA RefreshKeeps ==
    ASSUME IndInv, NEW r \in Replicas, Load(r) \/ Merge(r)
    PROVE  IndInv'
<1> USE DEF IndInv
<1>1. CASE Load(r)
  <2>1. ProcessInv' /\ WorkInv'
    BY <1>1 DEF Load, ProcessInv, StoreInv, Snapshots, WorkInv, Holding, store
  <2> QED
    BY <1>1, <2>1, LedgerKept DEF Load, StoreInv, store, history
<1>2. CASE Merge(r)
  <2>1. fetched[r].alert \in Alerts
    BY DEF ProcessInv, Snapshots
  <2>2. /\ mem' \in [Replicas -> Alerts] /\ work' \in [Replicas -> Works]
        /\ \A q \in Replicas : /\ work'[q].step = work[q].step
                               /\ work'[q].effect = work[q].effect
    <3>1. CASE Merged(mem[r], fetched[r].alert) = fetched[r].alert
      BY <1>2, <2>1, <3>1, ReplaceKeeps DEF Merge
    <3>2. CASE Merged(mem[r], fetched[r].alert) # fetched[r].alert
      BY <1>2, <3>2 DEF Merge, ProcessInv
    <3> QED
      BY <3>1, <3>2
  <2>3. ProcessInv' /\ WorkInv'
    BY <1>2, <2>2, EmptyFacts DEF Merge, ProcessInv, WorkInv, Holding, store
  <2> QED
    BY <1>2, <2>3, LedgerKept DEF Merge, StoreInv, store, history
<1> QED
  BY <1>1, <1>2

(* A lease runs out; the row stays pending.                                *)
LEMMA ExpireKeeps ==
    ASSUME IndInv, NEW e \in Durable, Expire(e)
    PROVE  IndInv'
<1> USE DEF IndInv
<1>1. ledger' \in [Durable -> Entries]
      /\ \A d \in Durable : ledger'[d].status = ledger[d].status
  BY DEF Expire, StoreInv, Entries
<1>2. ProcessInv' /\ StoreInv'
  BY <1>1, BoundAssumption DEF Expire, ProcessInv, StoreInv, process, history, Upset
<1>3. WorkInv'
  BY <1>1 DEF Expire, WorkInv, Holding, process
<1> QED
  BY <1>1, <1>2, <1>3 DEF Expire, StoreInv, EffectAppliedOnce, ToldIsCommitted, history

(* A new process takes the place of a dead one: the ledger forgets its     *)
(* owner, and no more.                                                     *)
LEMMA RestartKeeps ==
    ASSUME IndInv, NEW r \in Replicas, Restart(r)
    PROVE  IndInv'
<1> USE DEF IndInv
<1>1. Merged(copy, row) \in Alerts
  BY AlertFacts DEF StoreInv
<1>2. ledger' \in [Durable -> Entries]
      /\ \A d \in Durable : ledger'[d].status = ledger[d].status
  BY DEF Restart, StoreInv, Entries
<1>3. mem' \in [Replicas -> Alerts] /\ saving' \in [Replicas -> Snapshots]
      /\ saving'[r].on /\ \A q \in Replicas \ {r} : saving'[q] = saving[q]
  BY <1>1 DEF Restart, ProcessInv, Snapshots
<1>4. work' \in [Replicas -> Works] /\ work'[r].step = "boot"
      /\ \A q \in Replicas \ {r} : work'[q] = work[q]
  BY EmptyFacts DEF Restart, ProcessInv, Idle
<1>5. ProcessInv'
  BY <1>3, <1>4, EmptyFacts DEF Restart, ProcessInv
<1>6. StoreInv'
  BY <1>2, BoundAssumption DEF Restart, StoreInv, history, Upset
<1>7. WorkInv'
  BY <1>2, <1>3, <1>4 DEF Restart, ProcessInv, WorkInv, Holding
<1> QED
  BY <1>2, <1>5, <1>6, <1>7 DEF Restart, StoreInv, EffectAppliedOnce, ToldIsCommitted, history

-----------------------------------------------------------------------------
(* Every step keeps the invariant.                                         *)
LEMMA NextKeeps == IndInv /\ [Next]_vars => IndInv'
<1> SUFFICES ASSUME IndInv, [Next]_vars PROVE IndInv'
  OBVIOUS
<1>1. ASSUME NEW r \in Replicas, NEW e \in Legacy, Observe(r, e) PROVE IndInv'
  BY <1>1, ObserveKeeps
<1>2. ASSUME NEW r \in Replicas, NEW s \in Statuses, Update(r, s) PROVE IndInv'
  BY <1>2, UpdateKeeps
<1>3. ASSUME NEW r \in Replicas, NEW delivered \in BOOLEAN, WebhookEnds(r, delivered)
      PROVE  IndInv'
  BY <1>3, WebhookKeeps
<1>4. ASSUME NEW r \in Replicas, NEW e \in Durable, Prepare(r, e) PROVE IndInv'
  BY <1>4, PrepareKeeps
<1>5. ASSUME NEW r \in Replicas, Commit(r) \/ Refused(r) \/ Settle(r) PROVE IndInv'
  BY <1>5, CommitKeeps, RefusedKeeps, SettleKeeps
<1>6. ASSUME NEW r \in Replicas, NEW stored \in BOOLEAN, CommitFails(r, stored)
      PROVE  IndInv'
  BY <1>6, CommitFailsKeeps
<1>7. ASSUME NEW r \in Replicas, Fire(r) \/ Load(r) \/ Merge(r) PROVE IndInv'
  BY <1>7, FireKeeps, RefreshKeeps
<1>8. ASSUME NEW r \in Replicas, Save(r) PROVE IndInv'
  BY <1>8, SavedKeeps DEF Save, IndInv, StoreInv
<1>9. ASSUME NEW r \in Replicas, NEW inRow \in BOOLEAN, NEW inCopy \in BOOLEAN,
             SaveFails(r, inRow, inCopy)
      PROVE  IndInv'
  <2>1. lost' \in BOOLEAN /\ upsets' \in 0..MaxUpsets
    BY <1>9, BoundAssumption DEF SaveFails, Upset, IndInv, StoreInv
  <2> QED
    BY <1>9, <2>1, SavedKeeps DEF SaveFails
<1>10. ASSUME NEW r \in Replicas, Restart(r) PROVE IndInv'
  BY <1>10, RestartKeeps
<1>11. ASSUME NEW e \in Durable, Expire(e) PROVE IndInv'
  BY <1>11, ExpireKeeps
<1>12. CASE Tick
  <2>1. now' \in 0..MaxTime
    BY <1>12, BoundAssumption DEF Tick, IndInv, StoreInv
  <2>2. UNCHANGED <<process, store, history, upsets>>
    BY <1>12 DEF Tick
  <2> QED
    BY <2>1, <2>2 DEF IndInv, ProcessInv, StoreInv, WorkInv, Holding, EffectAppliedOnce,
                      ToldIsCommitted, process, store, history
<1>13. CASE UNCHANGED vars
  BY <1>13 DEF vars, IndInv, ProcessInv, StoreInv, WorkInv, Holding, EffectAppliedOnce,
               ToldIsCommitted, process, store, history
<1> QED
  BY <1>1, <1>2, <1>3, <1>4, <1>5, <1>6, <1>7, <1>8, <1>9, <1>10, <1>11, <1>12, <1>13 DEF Next

(* The invariant holds throughout.                                         *)
THEOREM Inductive == Spec => []IndInv
<1> QED
  BY InitHolds, NextKeeps, PTL DEF Spec

(* Everything keeps its type, a booting replica saves what it has read,    *)
(* and no timer is armed while an effect holds.                            *)
THEOREM TypeCorrect == Spec => []TypeOK
<1>1. IndInv => TypeOK
  BY DEF IndInv, ProcessInv, StoreInv, WorkInv, TypeOK, Works, WorkSteps, Snapshots,
         Entries, Durable
<1> QED
  BY <1>1, Inductive, PTL

(* commitBusinessEffect and acquireBusinessEffect apply an effect once,    *)
(* whoever leases it, however often it is tried.                           *)
THEOREM EffectIsAppliedOnce == Spec => []EffectAppliedOnce
<1>1. IndInv => EffectAppliedOnce
  BY DEF IndInv
<1> QED
  BY <1>1, Inductive, PTL

(* applyDurableBusinessEffects announces only what stands in the ledger.   *)
THEOREM WhatIsToldIsCommitted == Spec => []ToldIsCommitted
<1>1. IndInv => ToldIsCommitted
  BY DEF IndInv
<1> QED
  BY <1>1, Inductive, PTL
=============================================================================
