---------------------------- MODULE AlertEffects ----------------------------
(***************************************************************************)
(* One alert, the effects that change it and the replicas of the API that  *)
(* keep it (alerting.service.ts, sentry-judge.service.ts and               *)
(* relational-business-store.service.ts).                                  *)
(*                                                                         *)
(* Every replica has the alert in memory.  The effect of a judged event    *)
(* leases its row of the ledger, changes the alert in memory, and holds    *)
(* back persistence and notification until one PostgreSQL transaction has  *)
(* stored the alert and marked the effect applied; if that fails the       *)
(* change is taken back.  Events of the older protocol and operators       *)
(* change the alert directly.  Whatever changes is saved half a second     *)
(* later, and every 15 s a replica merges what PostgreSQL has.  Of two     *)
(* versions the one with the later updatedAt wins, and updatedAt is the    *)
(* event's time for an event and the clock's for an operator.              *)
(*                                                                         *)
(* PostgreSQL is configured.  The events of one alert are equally severe,  *)
(* as they are under the default threshold (critical), and silences,       *)
(* maintenance windows and the incident beside the alert are left out.     *)
(***************************************************************************)
EXTENDS Integers, FiniteSets

CONSTANTS
    Replicas,      \* processes of the API
    Effects,       \* effect keys, one event each
    Legacy,        \* those of events without the idempotency protocol
    At,            \* event.at of each
    Reach,         \* the replicas that may be given it
    MaxTime,       \* bound of the clock
    MaxUpsets      \* bound of the operators' changes, failed calls, expired
                   \* leases and restarts together

ASSUME EffectAssumption ==
    /\ Legacy \subseteq Effects
    /\ At \in [Effects -> 0..MaxTime]
    /\ Reach \in [Effects -> SUBSET Replicas]
ASSUME BoundAssumption == MaxTime \in Nat /\ MaxUpsets \in Nat

Statuses == {"open", "acknowledged", "resolved"}
NoAlert == [status |-> "none", at |-> 0, events |-> {}]
Alerts == [status : Statuses, at : 0..MaxTime, events : SUBSET Effects]
              \cup {NoAlert}
Nobody == "nobody"
Nothing == [on |-> FALSE, alert |-> NoAlert]
Idle == [step |-> "idle", effect |-> Nobody, before |-> NoAlert,
         after |-> NoAlert, same |-> FALSE, tell |-> FALSE]

VARIABLES
    now,       \* Date.now()
    mem,       \* AlertingService.alerts, of each replica
    work,      \* applyDurableBusinessEffects, one at a time per replica
    timer,     \* persistTimer is armed
    asked,     \* persistRequested
    saving,    \* the snapshot that drainPersistence is writing
    fetched,   \* what loadAlerts answered to refreshRelational
    sending,   \* webhook calls under way
    row,       \* anysentry_alerts
    copy,      \* alert_state in ClickHouse
    ledger,    \* anysentry_business_effects
    applied,   \* history: how often an effect took effect
    told,      \* history: effects whose own notification was sent
    lost,      \* history: a save to PostgreSQL failed
    upsets

store == <<row, copy, ledger>>
process == <<mem, work, timer, asked, saving, fetched, sending>>
history == <<applied, told, lost>>
vars == <<now, process, store, history, upsets>>

Durable == Effects \ Legacy
Holding(r) == work[r].step \in {"held", "committed", "failed"}
Serving(r) == work[r].step # "boot"

Upset ==
    /\ upsets < MaxUpsets
    /\ upsets' = upsets + 1

Init ==
    /\ now = 0
    /\ mem = [r \in Replicas |-> NoAlert]
    /\ work = [r \in Replicas |-> Idle]
    /\ timer = [r \in Replicas |-> FALSE]
    /\ asked = [r \in Replicas |-> FALSE]
    /\ saving = [r \in Replicas |-> Nothing]
    /\ fetched = [r \in Replicas |-> Nothing]
    /\ sending = [r \in Replicas |-> 0]
    /\ row = NoAlert /\ copy = NoAlert
    /\ ledger = [e \in Durable |-> [status |-> "none", owner |-> Nobody,
                                    live |-> FALSE]]
    /\ applied = [e \in Effects |-> 0] /\ told = {} /\ lost = FALSE
    /\ upsets = 0

-----------------------------------------------------------------------------
\* Changing the alert in memory

\* The alert after an event: an acknowledged one stays acknowledged, any
\* other is open, and its time is the event's.
Raised(alert, e) ==
    [status |-> IF alert.status = "acknowledged" THEN "acknowledged" ELSE "open",
     at     |-> At[e],
     events |-> alert.events \cup {e}]

\* A new alert, or one that was resolved, is announced.
Announced(alert) == alert.status \in {"none", "resolved"}

(* Mutant: an equally late version does not replace the one in memory. *)
MergedIfLater(alert, rec) ==
    IF rec # NoAlert /\ (alert = NoAlert \/ rec.at > alert.at) THEN rec ELSE alert

\* Of two versions of the alert the later one, and of two equally late ones
\* the one that comes in: in memory
Merged(alert, rec) ==
    IF rec # NoAlert /\ (alert = NoAlert \/ rec.at >= alert.at) THEN rec ELSE alert

\* and in PostgreSQL (ON CONFLICT ... WHERE EXCLUDED.updated_at >= updated_at).
Stored(alert, rec) ==
    IF rec # NoAlert /\ (alert = NoAlert \/ rec.at >= alert.at) THEN rec ELSE alert

\* Memory gets a new object, so an effect that holds finds another one than
\* the one it put there.
Replace(r, alert) ==
    /\ mem' = [mem EXCEPT ![r] = alert]
    /\ work' = [work EXCEPT ![r].same = FALSE]

\* persistSoon
PersistSoon(r) ==
    IF Holding(r) THEN /\ asked' = [asked EXCEPT ![r] = TRUE]
                       /\ UNCHANGED timer
                  ELSE /\ timer' = [timer EXCEPT ![r] = TRUE]
                       /\ UNCHANGED asked

Send(r, on) == sending' = [sending EXCEPT ![r] = IF on THEN @ + 1 ELSE @]

\* An event of the older protocol changes the alert at once.
Observe(r, e) ==
    /\ r \in Reach[e] /\ Serving(r) /\ At[e] <= now /\ applied[e] = 0
    /\ Replace(r, Raised(mem[r], e))
    /\ PersistSoon(r)
    /\ Send(r, mem[r].status # "acknowledged" /\ Announced(mem[r]))
    /\ applied' = [applied EXCEPT ![e] = 1]
    /\ UNCHANGED <<now, saving, fetched, store, told, lost, upsets>>

\* An operator acknowledges, resolves or reopens the alert.
Update(r, status) ==
    /\ Serving(r) /\ mem[r] # NoAlert /\ Upset
    /\ Replace(r, [mem[r] EXCEPT !.status = status, !.at = now])
    /\ PersistSoon(r)
    /\ Send(r, \/ status = "resolved" /\ mem[r].status # "resolved"
               \/ status = "open" /\ mem[r].status = "resolved")
    /\ UNCHANGED <<now, saving, fetched, store, history>>

\* A webhook call ends.  If it was delivered, lastNotificationAt is put into
\* a new object.
WebhookEnds(r, delivered) ==
    /\ sending[r] > 0
    /\ sending' = [sending EXCEPT ![r] = @ - 1]
    /\ IF delivered /\ mem[r] # NoAlert
       THEN Replace(r, mem[r]) /\ PersistSoon(r)
       ELSE UNCHANGED <<mem, work, timer, asked>>
    /\ UNCHANGED <<now, saving, fetched, store, history, upsets>>

-----------------------------------------------------------------------------
\* The durable effect

\* The ledger gives an effect nobody has asked for, or one whose lease has
\* run out.  Any other answer (duplicate, busy) ends the attempt.
Acquirable(e) ==
    \/ ledger[e].status = "none"
    \/ ledger[e].status = "pending" /\ ~ledger[e].live

\* acquireBusinessEffect and, when it answers, prepareDurableBusinessEffects:
\* the persist timer is cancelled, and what it was to save is asked for.
Prepare(r, e) ==
    /\ r \in Reach[e] /\ work[r].step = "idle" /\ At[e] <= now /\ Acquirable(e)
    /\ ledger' = [ledger EXCEPT ![e] = [status |-> "pending", owner |-> r, live |-> TRUE]]
    /\ LET after == Raised(mem[r], e)
       IN /\ mem' = [mem EXCEPT ![r] = after]
          /\ work' = [work EXCEPT ![r] =
                [step |-> "held", effect |-> e, before |-> mem[r], after |-> after,
                 same |-> TRUE, tell |-> Announced(mem[r])]]
    /\ timer' = [timer EXCEPT ![r] = FALSE]
    /\ asked' = [asked EXCEPT ![r] = TRUE]
    /\ UNCHANGED <<now, saving, fetched, sending, row, copy, history, upsets>>

(* Mutant: the transaction trusts the lease it took. *)
MineAnyway(r) == ledger[work[r].effect].status # "none"

\* What the transaction finds under FOR UPDATE.
Mine(r) ==
    LET entry == ledger[work[r].effect]
    IN entry.status = "pending" /\ entry.owner = r

Answered(r, step) == work' = [work EXCEPT ![r].step = step]

\* commitBusinessEffect: the alert and the ledger in one transaction.
Store(r) ==
    LET e == work[r].effect
    IN /\ row' = Stored(row, work[r].after)
       /\ ledger' = [ledger EXCEPT ![e] = [status |-> "applied", owner |-> r, live |-> FALSE]]
       /\ applied' = [applied EXCEPT ![e] = @ + 1]

Commit(r) ==
    /\ work[r].step = "held" /\ Mine(r)
    /\ Store(r)
    /\ Answered(r, "committed")
    /\ UNCHANGED <<now, mem, timer, asked, saving, fetched, sending, copy, told, lost,
                   upsets>>

\* The row belongs to another process, or is applied.
Refused(r) ==
    /\ work[r].step = "held" /\ ~Mine(r)
    /\ Answered(r, "failed")
    /\ UNCHANGED <<now, mem, timer, asked, saving, fetched, sending, store, history,
                   upsets>>

\* The transaction fails, or the connection breaks after it was committed.
CommitFails(r, stored) ==
    /\ work[r].step = "held" /\ Upset
    /\ IF stored THEN Mine(r) /\ Store(r) ELSE UNCHANGED <<row, ledger, applied>>
    /\ Answered(r, "failed")
    /\ UNCHANGED <<now, mem, timer, asked, saving, fetched, sending, copy, told,
                   lost>>

(* Mutant: the notification is sent however the transaction ended. *)
KeepAnyway(r) ==
    LET tell == work[r].tell /\ work[r].same
    IN /\ work[r].step \in {"committed", "failed"}
       /\ Send(r, tell)
       /\ told' = IF tell THEN told \cup {work[r].effect} ELSE told
       /\ UNCHANGED mem

\* commit(): persistence goes on, and the notification is sent if memory still
\* has the object it is about.
Keep(r) ==
    LET tell == work[r].tell /\ work[r].same
    IN /\ work[r].step = "committed"
       /\ Send(r, tell)
       /\ told' = IF tell THEN told \cup {work[r].effect} ELSE told
       /\ UNCHANGED mem

\* rollback(): the alert is put back if memory still has the object.
TakeBack(r) ==
    /\ work[r].step = "failed"
    /\ mem' = [mem EXCEPT ![r] = IF work[r].same THEN work[r].before ELSE @]
    /\ UNCHANGED <<sending, told>>

\* Both end the hold, and what was held back is saved soon.
Settle(r) ==
    /\ Keep(r) \/ TakeBack(r)
    /\ work' = [work EXCEPT ![r] = Idle]
    /\ timer' = [timer EXCEPT ![r] = TRUE]
    /\ UNCHANGED <<now, asked, saving, fetched, store, applied, lost, upsets>>

-----------------------------------------------------------------------------
\* Persistence and refresh

Snapshot(r) == [on |-> TRUE, alert |-> mem[r]]

\* The timer fires: persist() starts a drain or asks the one under way.
Fire(r) ==
    /\ timer[r]
    /\ timer' = [timer EXCEPT ![r] = FALSE]
    /\ IF saving[r].on
       THEN asked' = [asked EXCEPT ![r] = TRUE] /\ UNCHANGED saving
       ELSE /\ asked' = [asked EXCEPT ![r] = FALSE]
            /\ saving' = [saving EXCEPT ![r] = Snapshot(r)]
    /\ UNCHANGED <<now, mem, work, fetched, sending, store, history, upsets>>

\* The two writes of a drain end, each well or not, and it goes on while it
\* is asked to.
Saved(r, inRow, inCopy) ==
    /\ saving[r].on
    /\ row' = IF inRow THEN Stored(row, saving[r].alert) ELSE row
    /\ copy' = IF inCopy THEN saving[r].alert ELSE copy
    /\ saving' = [saving EXCEPT ![r] = IF asked[r] THEN Snapshot(r) ELSE Nothing]
    /\ asked' = [asked EXCEPT ![r] = FALSE]
    /\ work' = [work EXCEPT ![r] =
                   IF @.step = "boot" /\ ~asked[r] THEN Idle ELSE @]
    /\ UNCHANGED <<now, mem, timer, fetched, sending, ledger, applied, told>>

Save(r) == Saved(r, TRUE, TRUE) /\ UNCHANGED <<lost, upsets>>

SaveFails(r, inRow, inCopy) ==
    /\ ~(inRow /\ inCopy) /\ Upset
    /\ Saved(r, inRow, inCopy)
    /\ lost' = (lost \/ ~inRow)

\* refreshRelational: the answer of loadAlerts
Load(r) ==
    /\ Serving(r) /\ ~fetched[r].on /\ row # NoAlert
    /\ fetched' = [fetched EXCEPT ![r] = [on |-> TRUE, alert |-> row]]
    /\ UNCHANGED <<now, mem, work, timer, asked, saving, sending, store, history,
                   upsets>>

\* is merged into memory some time later.
Merge(r) ==
    /\ fetched[r].on
    /\ IF Merged(mem[r], fetched[r].alert) = fetched[r].alert
       THEN Replace(r, fetched[r].alert)
       ELSE UNCHANGED <<mem, work>>
    /\ fetched' = [fetched EXCEPT ![r] = Nothing]
    /\ UNCHANGED <<now, timer, asked, saving, sending, store, history, upsets>>

-----------------------------------------------------------------------------
\* Time, leases and restarts

Tick ==
    /\ now < MaxTime
    /\ now' = now + 1
    /\ UNCHANGED <<process, store, history, upsets>>

\* A lease of 60 s runs out.
Expire(e) ==
    /\ ledger[e].status = "pending" /\ ledger[e].live /\ Upset
    /\ ledger' = [ledger EXCEPT ![e].live = FALSE]
    /\ UNCHANGED <<now, process, row, copy, history>>

\* The process dies and another takes its place: it reads the ClickHouse copy
\* and then PostgreSQL, and saves what it has before it serves.  Its ledger
\* rows stay pending under an owner that is no more.
Restart(r) ==
    /\ Upset
    /\ LET alert == Merged(copy, row)
       IN /\ mem' = [mem EXCEPT ![r] = alert]
          /\ saving' = [saving EXCEPT ![r] = [on |-> TRUE, alert |-> alert]]
    /\ work' = [work EXCEPT ![r] = [Idle EXCEPT !.step = "boot"]]
    /\ timer' = [timer EXCEPT ![r] = FALSE]
    /\ asked' = [asked EXCEPT ![r] = FALSE]
    /\ fetched' = [fetched EXCEPT ![r] = Nothing]
    /\ sending' = [sending EXCEPT ![r] = 0]
    /\ ledger' = [e \in Durable |-> IF ledger[e].owner = r
                                    THEN [ledger[e] EXCEPT !.owner = Nobody]
                                    ELSE ledger[e]]
    /\ UNCHANGED <<now, row, copy, history>>

Next ==
    \/ \E r \in Replicas :
          \/ \E e \in Legacy : Observe(r, e)
          \/ \E s \in Statuses : Update(r, s)
          \/ \E delivered \in BOOLEAN : WebhookEnds(r, delivered)
          \/ \E e \in Durable : Prepare(r, e)
          \/ Commit(r) \/ Refused(r) \/ Settle(r)
          \/ \E stored \in BOOLEAN : CommitFails(r, stored)
          \/ Fire(r) \/ Save(r) \/ Load(r) \/ Merge(r)
          \/ \E inRow, inCopy \in BOOLEAN : SaveFails(r, inRow, inCopy)
          \/ Restart(r)
    \/ \E e \in Durable : Expire(e)
    \/ Tick

\* What a replica has begun and will not leave: the effect in progress, the
\* timer, the save and the webhook calls.  There is only so much of it, so one
\* fairness for all is enough.
Pending(r) ==
    \/ Commit(r) \/ Refused(r) \/ Settle(r) \/ Fire(r) \/ Save(r)
    \/ \E delivered \in BOOLEAN : WebhookEnds(r, delivered)

\* The event loop of a replica runs what is due, and the refresh comes round.
Fairness == \A r \in Replicas : WF_vars(Pending(r)) /\ WF_vars(Load(r) \/ Merge(r))

Spec == Init /\ [][Next]_vars /\ Fairness

-----------------------------------------------------------------------------
(***************************************************************************)
(* While an effect holds, no persist timer is armed: what it changed is    *)
(* not on its way to the stores (prepareDurableBusinessEffects cancels the *)
(* timer, persistSoon only asks).                                          *)
(***************************************************************************)
TypeOK ==
    /\ now \in 0..MaxTime /\ upsets \in 0..MaxUpsets
    /\ mem \in [Replicas -> Alerts] /\ row \in Alerts /\ copy \in Alerts
    /\ timer \in [Replicas -> BOOLEAN] /\ asked \in [Replicas -> BOOLEAN]
    /\ sending \in [Replicas -> Nat] /\ told \subseteq Effects /\ lost \in BOOLEAN
    /\ \A r \in Replicas :
          /\ work[r].step \in {"boot", "idle", "held", "committed", "failed"}
          /\ saving[r].alert \in Alerts /\ fetched[r].alert \in Alerts
          /\ work[r].step = "boot" => saving[r].on
          /\ Holding(r) => ~timer[r]
    /\ \A e \in Durable :
          /\ ledger[e].status \in {"none", "pending", "applied"}
          /\ ledger[e].owner \in Replicas \cup {Nobody}
          /\ applied[e] \in Nat

(***************************************************************************)
(* An effect takes effect at most once, and never without the ledger       *)
(* knowing: not when its lease expires under a slow transaction and a      *)
(* replay at another replica takes it over, not when the process dies, not *)
(* when the answer of the commit is lost (commitBusinessEffect,            *)
(* acquireBusinessEffect).                                                 *)
(***************************************************************************)
EffectAppliedOnce ==
    \A e \in Durable : applied[e] = IF ledger[e].status = "applied" THEN 1 ELSE 0

(***************************************************************************)
(* "notifications may run only after a durable commit"                     *)
(* (scripts/verify-business-effect-transaction.mjs): what is announced of  *)
(* an effect stands in the ledger, whoever owns its lease by then.         *)
(***************************************************************************)
ToldIsCommitted ==
    \A e \in told : ledger[e].status = "applied"

(***************************************************************************)
(* "A 15-second PostgreSQL refresh converges independent API replicas"     *)
(* (docs/data-lifecycle-phase7.md): when nothing new comes, every replica  *)
(* ends with the alert PostgreSQL has, whatever was held, taken back or    *)
(* refused on the way.  A failed save is not repeated (saveAlerts answers  *)
(* false and nobody asks), so it must have been spared one.                *)
(***************************************************************************)
ReplicasConverge == <>[](lost \/ \A r \in Replicas : mem[r] = row)

(***************************************************************************)
(* "Commit the mutable business state and the idempotency ledger in one    *)
(* PostgreSQL transaction": the event of an applied effect is evidence of  *)
(* the alert.  It is not, when an operator's change or another event is    *)
(* later than the event: the upsert passes over the row, the ledger is     *)
(* marked, and the next refresh takes the event from memory too.           *)
(***************************************************************************)
AppliedIsEvidence ==
    \A e \in Durable : ledger[e].status = "applied" => e \in row.events
=============================================================================
