------------------------- MODULE CaptureActivation -------------------------
(***************************************************************************)
(* How an infrastructure rule comes to be enforced on a node, and how long *)
(* (observer-filter-rule-publisher.js, observer-capture-profile-           *)
(* reporter.js, the policy refresh of observer-forward.js, and             *)
(* reportMaterialization of infrastructure-rule.service.ts).               *)
(*                                                                         *)
(* A rule lets the Collector drop the events of a cgroup.  The forwarder   *)
(* loads the policy from Central, keeps one decision for each cgroup and   *)
(* publishes all of them in a file, first as a preview that drops nothing. *)
(* The Collector acknowledges the preview it has applied, the forwarder    *)
(* reports it to Central, and with Central's acceptance it publishes the   *)
(* same decisions with a grant that names that preview and that process of *)
(* the Collector.  Every change of what is intended takes the grant back.  *)
(* Agents come in between: a cgroup in which an agent is seen is kept.     *)
(* While Central is away the last known good decisions stay, for a time.   *)
(*                                                                         *)
(* The capture mode is enforce and the rules are enforced drop rules; the  *)
(* decisions that drop nothing (probable agents, investigations, sampling) *)
(* and the limits of the file are left out.  The Collector is not in this  *)
(* repository: it does what the verification of the handshake expects.     *)
(***************************************************************************)
EXTENDS Integers, SequencesExt

CONSTANTS
    Scopes,       \* cgroups
    Inventory,    \* the order in which a synchronization goes through them
    Ttl,          \* ttlMs, ackMaxAgeMs, POLICY_TTL_MS, MATERIALIZATION_TTL_MS
    Lead,         \* ttlRefreshLeadMs
    LkgTtl,       \* lkgTtlMs
    MaxReports,   \* MAX_REPORTS
    MaxTime,      \* bound of the clock
    Kinds,        \* the kinds of incident: subset of {"change", "agent", "fault"}
    MaxIncidents  \* bound of Central's changes of rules, of the events in which an
                  \* agent is seen, of the failed calls and of the restarts together

ASSUME InventoryAssumption == Inventory \in Seq(Scopes) /\ ToSet(Inventory) = Scopes
\* Two reports at least: the acknowledgement of an enforcing file may be reported
\* after the one that its grant is for.
ASSUME TimeAssumption ==
    /\ Ttl \in Nat \ {0} /\ Lead \in 0..(Ttl - 1) /\ LkgTtl \in Nat /\ LkgTtl >= Ttl
    /\ MaxReports \in Nat /\ MaxReports >= 2 /\ MaxTime \in Nat \ {0}
ASSUME BoundAssumption == MaxIncidents \in Nat /\ Kinds \subseteq {"change", "agent", "fault"}

(***************************************************************************)
(* The decision for a cgroup.  "rule": what a rule decides, with policy    *)
(* version and revision; "agent": an agent was seen; "shared": both.  The  *)
(* action is policyAction.  A time or a version of 0 stands for none.      *)
(***************************************************************************)
Entry(kind, version, rev, action, exp) ==
    [kind |-> kind, pv |-> version, rev |-> rev, action |-> action, exp |-> exp]
NoEntry == Entry("none", 0, 0, "none", 0)
IsAgent(e) == e.kind \in {"agent", "shared"}
IsRule(e) == e.kind = "rule"
Intent(e) == <<e.kind, e.pv, e.rev>>
Intents(entries) == [s \in Scopes |-> Intent(entries[s])]

NoGrant == [inst |-> 0, epoch |-> 0, intents |-> Intents([s \in Scopes |-> NoEntry]),
            exp |-> 0]
NoAck == [inst |-> 0, pub |-> 0, epoch |-> 0, at |-> 0, ok |-> FALSE]
NoFile == [pub |-> 0, epoch |-> 0, mode |-> "preview", grant |-> NoGrant, exp |-> 0,
           good |-> 0, entries |-> [s \in Scopes |-> NoEntry]]
NoPost == [state |-> "none", ack |-> NoAck, entries |-> [s \in Scopes |-> NoEntry]]

VARIABLES
    now,         \* Date.now(), from 1 on
    pv,          \* Central: policyVersion
    rules,       \* Central: the revision of the rule for a cgroup
    reports,     \* Central: the accepted reports, the newest first
    pol,         \* InfrastructurePolicyRegistry
    asked,       \* the policy was asked for since the clock moved
    p,           \* FilterRulePublisher
    file,        \* the published snapshot
    ack,         \* the Collector's acknowledgement file
    post,        \* CaptureProfileReporter: the report under way
    waiting,     \* CaptureProfileReporter: retryAt lies ahead
    collector,   \* the Collector's process and what it has applied
    goodAt,      \* history: when the node last loaded a policy
    incidents    \* how many of the bounded incidents have happened

central == <<pv, rules, reports>>
reporter == <<post, waiting>>
vars ==
    <<now, central, pol, asked, p, file, ack, reporter, collector, goodAt, incidents>>

Lesser(a, b) == IF a <= b THEN a ELSE b
Greater(a, b) == IF a >= b THEN a ELSE b

Incident(kind) ==
    kind \in Kinds /\ incidents < MaxIncidents /\ incidents' = incidents + 1
Fault == Incident("fault")

Publisher(id, entries, good) ==
    [id |-> id, entries |-> entries,
     pend |-> [s \in Scopes |-> 0],       \* pendingExpiryRefreshes
     dirty |-> \E s \in Scopes : entries[s] # NoEntry,
     syncPv |-> 0,                        \* synchronizedPolicyVersion
     mode |-> "preview", grant |-> NoGrant,
     pending |-> NoAck,                   \* pendingPreviewAck
     pinned |-> 0,                        \* pinnedPreviewGeneration
     read |-> NoAck,                      \* lastAckFingerprint
     lkg |-> FALSE, lastGood |-> good, lkgExp |-> 0]

Init ==
    /\ now = 1
    /\ pv = 1 /\ rules = [s \in Scopes |-> 1] /\ reports = <<>>
    /\ pol = [pv |-> 0, rules |-> [s \in Scopes |-> 0], exp |-> 0]
    /\ asked = FALSE
    /\ p = Publisher(1, [s \in Scopes |-> NoEntry], 0)
    /\ file = NoFile /\ ack = NoAck /\ post = NoPost /\ waiting = FALSE
    /\ collector = [inst |-> 1, seen |-> 0, on |-> FALSE, file |-> NoFile]
    /\ goodAt = 0 /\ incidents = 0

-----------------------------------------------------------------------------
\* FilterRulePublisher: functions of the publisher's record q

\* Every change advances the version, so each publication has an epoch of its own.
\* A version that is not published shows nowhere: the epochs alone are counted.
Advanced(q) == [q EXCEPT !.dirty = TRUE]

\* revokeActivation
Revoked(q) ==
    [q EXCEPT !.mode = "preview", !.grant = NoGrant, !.pending = NoAck, !.pinned = 0]

Live(e) == e # NoEntry /\ e.exp > now
Without(q, gone) ==
    [q EXCEPT !.entries = [s \in Scopes |-> IF s \in gone THEN NoEntry ELSE q.entries[s]],
              !.pend = [s \in Scopes |-> IF s \in gone THEN 0 ELSE q.pend[s]]]

Expired(q) == {s \in Scopes : q.entries[s] # NoEntry /\ ~Live(q.entries[s])}

(* Mutant: what has expired goes, and nothing is published. *)
PrunedQuietly(q) ==
    IF Expired(q) = {} THEN q ELSE Revoked(Without(q, Expired(q)))

\* prune
Pruned(q) ==
    IF Expired(q) = {} THEN q ELSE Advanced(Revoked(Without(q, Expired(q))))

\* refreshSafety
Safe(q) ==
    LET r == Pruned(q)
    IN IF r.grant # NoGrant /\ r.grant.exp <= now THEN Advanced(Revoked(r)) ELSE r

\* applyPendingExpiryRefreshes
WithPending(q) ==
    IF q.lkg THEN q
    ELSE [q EXCEPT !.entries = [s \in Scopes |->
                                   IF q.pend[s] > now /\ q.entries[s] # NoEntry
                                   THEN [q.entries[s] EXCEPT !.exp =
                                            Greater(q.pend[s], q.entries[s].exp)]
                                   ELSE q.entries[s]],
                   !.pend = [s \in Scopes |-> 0]]

Staged(q, s, exp) == [q EXCEPT !.pend[s] = Greater(@, exp)]

\* What becomes of the decision for a cgroup: an agent and a rule make it shared.
Selected(previous, next) ==
    IF Live(previous) /\ IsAgent(previous) # IsAgent(next)
    THEN Entry("shared", 0, 0, "keep", now + Ttl)
    ELSE next

\* observeDecision
Observed(q, s, next) ==
    LET previous == q.entries[s]
        selected == Selected(previous, next)
        changed == Intent(previous) # Intent(selected)
        later == previous # NoEntry /\ selected.exp > previous.exp
        due == later /\ previous.exp - now <= Lead
        r == [Advanced(q) EXCEPT !.pend[s] = 0, !.entries[s] = selected]
    IN IF changed \/ due
       THEN Pruned(WithPending(IF changed \/ q.mode = "enforce" THEN Revoked(r) ELSE r))
       ELSE IF later THEN Staged(q, s, selected.exp)
       ELSE q

\* observeDecision with what the kernel does by default anyway
ObservedDefault(q, s) ==
    IF s \in Expired(q) THEN Revoked(Advanced(Without(q, {s}))) ELSE q

\* The decision of a loaded policy, materializeCaptureProfile
Decision(policy, s, action) ==
    Entry("rule", policy.pv, policy.rules[s], action, policy.exp)

\* synchronizePolicyDecisions: what is no longer decided goes, then each decision
\* is observed.  The expiries that the code means to stage before are not: it
\* compares an entry, which has a ttlMs, with a decision that has none yet.
Removed(q, policy) ==
    LET gone == {s \in Scopes : q.syncPv # policy.pv /\ IsRule(q.entries[s])
                                  /\ policy.rules[s] = 0}
        r == [q EXCEPT !.syncPv = policy.pv]
    IN IF gone = {} THEN r ELSE Revoked(Advanced(Without(r, gone)))

Synchronized(q, policy) ==
    LET Observe(acc, s) ==
            IF policy.rules[s] = 0 THEN acc
            ELSE Observed(acc, s, Decision(policy, s, "drop"))
    IN FoldLeft(Observe, Removed(q, policy), Inventory)

\* markControlPlaneReady
Ready(q) == [q EXCEPT !.lkg = FALSE, !.lastGood = now, !.lkgExp = 0]

(* Mutant: the time of grace runs from now. *)
DegradedFromNow(q) ==
    LET r == [q EXCEPT !.lkg = TRUE, !.lkgExp = now + LkgTtl]
        Kept(s) == IF q.entries[s] = NoEntry THEN NoEntry
                   ELSE [q.entries[s] EXCEPT !.exp = now + LkgTtl]
    IN IF q.lkg \/ \A s \in Scopes : q.entries[s] = NoEntry THEN q
       ELSE Revoked(Advanced([r EXCEPT !.entries = [s \in Scopes |-> Kept(s)],
                                       !.pend = [s \in Scopes |-> 0]]))

\* degradeToLastKnownGood
Degraded(q) ==
    LET until == IF q.lastGood > 0 THEN q.lastGood + LkgTtl ELSE now
        r == [q EXCEPT !.lkg = TRUE, !.lkgExp = until]
        Kept(s) == IF q.entries[s] = NoEntry \/ until <= now THEN NoEntry
                   ELSE [q.entries[s] EXCEPT !.exp = until]
    IN IF \A s \in Scopes : q.entries[s] = NoEntry THEN q
       ELSE IF q.lkg THEN (IF q.lkgExp <= now THEN Safe(q) ELSE q)
       ELSE Revoked(Advanced([r EXCEPT !.entries = [s \in Scopes |-> Kept(s)],
                                       !.pend = [s \in Scopes |-> 0]]))

\* snapshot, wireEntry: nothing on the wire outlives the envelope or the grant.
Snapshot(q) ==
    LET envelope == IF q.grant # NoGrant THEN Lesser(now + Ttl, q.grant.exp) ELSE now + Ttl
    IN [pub |-> q.id, epoch |-> file.epoch + 1, mode |-> q.mode, grant |-> q.grant,
        exp |-> envelope, good |-> IF q.lastGood > 0 THEN q.lastGood ELSE now,
        entries |-> [s \in Scopes |->
                        IF q.entries[s] = NoEntry THEN NoEntry
                        ELSE [q.entries[s] EXCEPT !.exp = Lesser(@, envelope)]]]

\* validateAck, against lastPublishedSnapshot
Valid(q, a) ==
    /\ a.ok /\ file.pub = q.id
    /\ a.pub = q.id /\ a.epoch = file.epoch
    /\ now - a.at <= Ttl

\* consumeAckFile
Consumed(q) ==
    LET r == [q EXCEPT !.read = ack]
    IN IF ack = q.read THEN q
       ELSE IF q.mode = "enforce"
       THEN IF Valid(q, ack) /\ q.grant.inst = ack.inst THEN r ELSE Advanced(Revoked(r))
       ELSE IF ~Valid(q, ack) THEN r
       ELSE IF q.pinned \notin {0, ack.inst}
       THEN Advanced([r EXCEPT !.pending = NoAck, !.pinned = 0])
       ELSE [r EXCEPT !.pending = ack, !.pinned = ack.inst]

\* materializationReport: the decisions of now under the acknowledgement of the file
RuleScopes(entries) == {s \in Scopes : IsRule(entries[s])}
Bindings(q) == [s \in Scopes |-> IF IsRule(q.entries[s]) THEN q.entries[s] ELSE NoEntry]
Reportable(q) ==
    /\ q.pending # NoAck /\ q.mode = "preview" /\ Valid(q, q.pending)
    /\ RuleScopes(q.entries) # {}

\* acceptCentralMaterialization
Granted(q, a) ==
    Advanced([q EXCEPT !.mode = "enforce", !.pending = NoAck,
                       !.grant = [inst |-> a.inst, epoch |-> a.epoch,
                                  intents |-> Intents(file.entries),
                                  exp |-> Lesser(now + Ttl, file.exp)]])
Acceptable(q, a, accepted) ==
    /\ Valid(q, a) /\ q.pending = a /\ q.pinned = a.inst /\ q.mode = "preview"
    /\ RuleScopes(q.entries) # {}
    /\ \A s \in RuleScopes(q.entries) :
           /\ accepted[s].rev = q.entries[s].rev
           /\ q.entries[s].action = "drop"

\* The constructor: restoreExistingSnapshot takes the action of the wire, which
\* never is "drop", for the policyAction that wireEntry has left out.
Restored ==
    LET Kept(e) == IF ~Live(e) THEN NoEntry
                   ELSE IF IsRule(e) THEN [e EXCEPT !.action = "sample"] ELSE e
    IN Publisher(p.id + 1, [s \in Scopes |-> Kept(file.entries[s])], file.good)

-----------------------------------------------------------------------------
\* Central: infrastructure-rule.service.ts

\* A rule is published, revised or withdrawn.
Change(s) ==
    /\ Incident("change")
    /\ pv' = pv + 1
    /\ \E revision \in {0, pv + 1} : rules' = [rules EXCEPT ![s] = revision]
    /\ rules' # rules
    /\ UNCHANGED <<now, reports, pol, asked, p, file, ack, reporter, collector, goodAt>>

\* reportMaterialization: every binding must be the rule's, with the rule's action.
Report == [pub |-> post.ack.pub, inst |-> post.ack.inst, epoch |-> post.ack.epoch]
Known == {r \in ToSet(reports) : r.key = Report}
Prefix(list) == SubSeq(list, 1, Lesser(MaxReports, Len(list)))
Fitting ==
    /\ now - post.ack.at <= Ttl
    /\ \A s \in RuleScopes(post.entries) :
           /\ post.entries[s].rev = rules[s]
           /\ post.entries[s].action = "drop"
           /\ post.entries[s].exp > now

(* Mutant: a report that is known already is refused. *)
AllowedOnce == Fitting /\ Known = {}

Allowed ==
    /\ Fitting
    /\ \A r \in Known : r.ack = post.ack /\ r.entries = post.entries

ReportMaterialization ==
    /\ post.state = "sent"
    /\ IF Allowed
       THEN /\ post' = [post EXCEPT !.state = "accepted"]
            /\ reports' = IF Known # {} THEN reports
                          ELSE Prefix(<<[key |-> Report, at |-> now, ack |-> post.ack,
                                         entries |-> post.entries]>> \o reports)
       ELSE post' = [post EXCEPT !.state = "failed"] /\ UNCHANGED reports
    /\ UNCHANGED <<now, pv, rules, pol, asked, p, file, ack, waiting, collector, goodAt,
                   incidents>>

\* The request or the answer is lost: a timeout.
ReportLost ==
    /\ post.state \in {"sent", "accepted"} /\ Fault
    /\ post' = [post EXCEPT !.state = "failed"]
    /\ UNCHANGED <<now, central, pol, asked, p, file, ack, waiting, collector, goodAt>>

-----------------------------------------------------------------------------
\* The forwarder

\* flush of the publisher's record q; a write that fails leaves it dirty.
Flush(q) ==
    \/ ~q.dirty /\ p' = q /\ UNCHANGED <<file, incidents>>
    \/ /\ q.dirty
       /\ \E safe \in {Safe(q)} :
             p' = [safe EXCEPT !.dirty = FALSE] /\ file' = Snapshot(safe)
       /\ UNCHANGED incidents
    \/ q.dirty /\ Fault /\ p' = Safe(q) /\ UNCHANGED file

\* refreshInfrastructurePolicy, synchronizeInfrastructurePolicyRules
PolicyDue == ~asked \/ pol.pv # pv
PolicyLoaded ==
    /\ PolicyDue
    /\ pol' = [pv |-> pv, rules |-> rules, exp |-> now + Ttl]
    /\ asked' = TRUE /\ goodAt' = now
    /\ Flush(Synchronized(Ready(p), pol'))
    /\ UNCHANGED <<now, central, ack, reporter, collector>>

\* Central is away: an incident when it begins, however long it lasts.
PolicyFailed ==
    /\ ~asked
    /\ IF p.lkg THEN UNCHANGED incidents ELSE Fault
    /\ asked' = TRUE
    /\ p' = Degraded(p)
    /\ UNCHANGED <<now, central, pol, file, ack, reporter, collector, goodAt>>

\* A snapshot of the identities has been loaded.
IdentityRefreshed ==
    /\ pol.exp > now
    /\ Synchronized(p, pol) # p
    /\ Flush(Synchronized(p, pol))
    /\ UNCHANGED <<now, central, pol, asked, ack, reporter, collector, goodAt>>

Handled(q) ==
    /\ q # p /\ p' = q
    /\ UNCHANGED <<now, central, pol, asked, file, ack, reporter, collector, goodAt>>

\* An event of a cgroup, handleEvent and FilterRulePublisher.observe: of an agent,
\* of a workload a rule decides, or of one that nothing is known of.
AgentEvent(s) ==
    /\ Incident("agent")
    /\ Handled(Observed(p, s, Entry("agent", 0, 0, "keep", now + Ttl)))

\* compileCaptureDecision has put the action of the wire in the decision.
RuleEvent(s) ==
    /\ pol.exp > now /\ pol.rules[s] # 0
    /\ Handled(Observed(p, s, Decision(pol, s, "sample"))) /\ UNCHANGED incidents

OtherEvent(s) ==
    /\ ~(pol.exp > now /\ pol.rules[s] # 0)
    /\ Handled(ObservedDefault(p, s)) /\ UNCHANGED incidents

\* The metrics of the heartbeat call refreshSafety.
Heartbeat == Handled(Safe(p)) /\ UNCHANGED incidents

\* The timer of schedule, armed whenever there is something to publish.
FlushTimer ==
    /\ p.dirty /\ Flush(p)
    /\ UNCHANGED <<now, central, pol, asked, ack, reporter, collector, goodAt>>

\* CaptureProfileReporter.poll
Poll ==
    LET q == Consumed(p)
        send == post = NoPost /\ ~waiting /\ Reportable(q)
    IN /\ q # p \/ send
       /\ p' = q
       /\ post' = IF send THEN [state |-> "sent", ack |-> q.pending, entries |-> Bindings(q)]
                  ELSE post
       /\ UNCHANGED <<now, central, pol, asked, file, ack, waiting, collector, goodAt,
                      incidents>>

\* The answer to the report
Answered ==
    /\ post.state \in {"accepted", "failed"}
    /\ post' = NoPost
    /\ IF post.state = "accepted" /\ Acceptable(p, post.ack, post.entries)
       THEN Flush(Granted(p, post.ack)) /\ waiting' = FALSE
       ELSE waiting' = TRUE /\ UNCHANGED <<p, file, incidents>>
    /\ UNCHANGED <<now, central, pol, asked, ack, collector, goodAt>>

\* retryAt has come.
RetryDue ==
    /\ waiting /\ waiting' = FALSE
    /\ UNCHANGED <<now, central, pol, asked, p, file, ack, post, collector, goodAt,
                   incidents>>

\* The forwarder dies and is started: what it has published is what it knows.
Restart ==
    /\ Fault
    /\ IF Restored.dirty
       THEN p' = [Restored EXCEPT !.dirty = FALSE] /\ file' = Snapshot(Restored)
       ELSE p' = Restored /\ UNCHANGED file
    /\ pol' = [pv |-> 0, rules |-> [s \in Scopes |-> 0], exp |-> 0]
    /\ asked' = FALSE /\ post' = NoPost /\ waiting' = FALSE
    /\ UNCHANGED <<now, central, ack, collector, goodAt>>

-----------------------------------------------------------------------------
\* The Collector (external) and time

\* A file is applied: a preview as it is; drops only with a grant that names this
\* process and the preview it has applied, for the same intents.
CollectorApply ==
    LET enforced == /\ file.mode = "enforce" /\ file.grant.inst = collector.inst
                    /\ file.grant.epoch = collector.seen
                    /\ file.grant.intents = Intents(file.entries)
                    /\ now < file.grant.exp
        ok == now < file.exp /\ (file.mode = "preview" \/ enforced)
    IN /\ file # collector.file
       /\ collector' = [collector EXCEPT !.file = file, !.on = enforced,
                            !.seen = IF file.mode = "preview" /\ ok THEN file.epoch ELSE @]
       /\ ack' = [inst |-> collector.inst, pub |-> file.pub, epoch |-> file.epoch,
                  at |-> now, ok |-> ok]
       /\ UNCHANGED <<now, central, pol, asked, p, file, reporter, goodAt, incidents>>

CollectorRestart ==
    /\ Fault
    /\ collector' = [inst |-> collector.inst + 1, seen |-> 0, on |-> FALSE, file |-> NoFile]
    /\ UNCHANGED <<now, central, pol, asked, p, file, ack, reporter, goodAt>>

\* A step of the clock is much longer than the forwarder's own timers and calls, and
\* than the Collector takes to apply a file unless something is wrong with it.
Idle == ~p.dirty /\ post = NoPost /\ ~waiting /\ Consumed(p) = p
Tick ==
    /\ now < MaxTime /\ asked /\ Idle
    /\ IF file = collector.file THEN UNCHANGED incidents ELSE Fault
    /\ now' = now + 1 /\ asked' = FALSE
    /\ UNCHANGED <<central, pol, p, file, ack, reporter, collector, goodAt>>

Reporter == Poll \/ ReportMaterialization \/ Answered \/ RetryDue

Next ==
    \/ \E s \in Scopes : Change(s) \/ AgentEvent(s) \/ RuleEvent(s) \/ OtherEvent(s)
    \/ ReportMaterialization \/ ReportLost \/ PolicyLoaded \/ PolicyFailed
    \/ IdentityRefreshed \/ Heartbeat \/ FlushTimer \/ Poll \/ Answered \/ RetryDue
    \/ Restart \/ CollectorApply \/ CollectorRestart \/ Tick

\* The timers fire, the calls end and the Collector reads the file.  The first
\* conjunct is WF_vars(PolicyLoaded), written out: the action is enabled exactly
\* when PolicyDue holds, and evaluating that is what TLC is slow at.
Fairness ==
    /\ []<>(~PolicyDue) \/ []<><<PolicyLoaded>>_vars
    /\ WF_vars(FlushTimer) /\ WF_vars(Heartbeat) /\ WF_vars(Reporter)
    /\ WF_vars(CollectorApply) /\ SF_vars(Tick)

Spec == Init /\ [][Next]_vars /\ Fairness

-----------------------------------------------------------------------------
\* What the node drops: the Collector enforces, and the decision has not expired.
Drops(s) ==
    /\ collector.on /\ IsRule(collector.file.entries[s])
    /\ now < collector.file.entries[s].exp

\* Type correctness.  The published file says what the publisher means unless it is
\* to be flushed, and it enforces exactly with a grant.
Times == 0..(MaxTime + LkgTtl)
EntryType == [kind : {"none", "rule", "agent", "shared"}, pv : 0..(MaxIncidents + 1),
              rev : 0..(MaxIncidents + 1), action : {"none", "keep", "sample", "drop"},
              exp : Times]
FileIsCurrent ==
    (~p.dirty /\ file.pub = p.id) =>
        /\ file.mode = p.mode /\ file.grant = p.grant
        /\ Intents(file.entries) = Intents(p.entries)
TypeOK ==
    /\ now \in 1..MaxTime /\ pv \in 1..(MaxIncidents + 1)
    /\ rules \in [Scopes -> 0..(MaxIncidents + 1)]
    /\ p.entries \in [Scopes -> EntryType] /\ p.pend \in [Scopes -> Times]
    /\ file.entries \in [Scopes -> EntryType]
    /\ post.state \in {"none", "sent", "accepted", "failed"} /\ waiting \in BOOLEAN
    /\ (p.mode = "enforce") <=> (p.grant # NoGrant)
    /\ FileIsCurrent

\* Whatever the order of changes, acknowledgements, answers and restarts, a drop has
\* Central's acceptance of that very rule for that very process of the Collector,
\* not older than its TTL, the node has loaded a policy within LkgTtl, and a cgroup
\* whose agent is in the file that the Collector has is not dropped.
DropIsAuthorised ==
    \A s \in Scopes : Drops(s) =>
        /\ \E r \in ToSet(reports) :
              /\ r.key.inst = collector.inst /\ now < r.at + Ttl
              /\ r.entries[s].rev = collector.file.entries[s].rev
        /\ now < goodAt + LkgTtl
        /\ ~(IsAgent(p.entries[s]) /\ ~p.dirty /\ file = collector.file)

\* The node has just loaded the policy, and holds what it says.
Current ==
    /\ goodAt = now
    /\ \A s \in RuleScopes(p.entries) :
           p.entries[s].action = "drop" /\ p.entries[s].exp <= pol.exp

\* In the end every rule is enforced that no agent stands against.
RuleIsEnforced ==
    <>[](Current => \A s \in Scopes :
            rules[s] # 0 /\ ~IsAgent(p.entries[s]) => Drops(s))

\* "A same-intent lease refresh still needs Preview -> ACK -> Central -> Grant"
\* (observer-filter-rule-publisher.js:194): and it comes to the grant.  It does not
\* when an event of the cgroup refreshes the decision, or after a restart.
RefreshIsGranted ==
    <>[](goodAt = now => \A s \in Scopes :
            rules[s] # 0 /\ ~IsAgent(p.entries[s]) => Drops(s))
=============================================================================
