--------------------------- MODULE TemporalEpisode ---------------------------
(***************************************************************************)
(* The temporal episode builder of the Flink job                           *)
(* (TemporalEpisodeBuilderFunction.java) for one key, an agent session.    *)
(*                                                                         *)
(* The operator keeps a bounded set of facts.  Each fact it accepts makes  *)
(* it ask the matcher again: complete chains are published at once,        *)
(* incomplete ones wait for more evidence until a processing-time timer is *)
(* due.  What has been matched is remembered, so that a candidate and the  *)
(* fact that ends it make one episode.                                     *)
(*                                                                         *)
(* Flink is modelled by what the job asks of it (AnySentryStreamJob.java): *)
(* a checkpoint holds the state, the timers and the position in the input  *)
(* and flushes the sink; a restart falls back to it, reads the same input  *)
(* again and takes back nothing that has been published.  The watermark is *)
(* the whole job's, so that an event-time timer of this key may fire at    *)
(* any moment, in the order of the timers.                                 *)
(***************************************************************************)
EXTENDS TemporalMatcher

CONSTANTS
    Inputs,          \* the orders in which the facts may arrive
    Lateness,        \* ALLOWED_LATENESS_MS
    Settle,          \* AMBIGUOUS_SETTLE_MS
    MaxFiles,        \* MAX_ACTIVE_FILE_CANDIDATES
    MaxFacts,        \* MAX_FACTS
    MaxAmbiguous,    \* MAX_AMBIGUOUS_CANDIDATES
    MaxClock,        \* bound of the processing-time clock
    MaxRestarts      \* bound of the restarts

ASSUME BuilderAssumption ==
    /\ Inputs \subseteq Seq(Signals) /\ Inputs # {}
    /\ Lateness \in Nat /\ Settle \in Nat \ {0}
    /\ MaxFiles \in Nat /\ MaxFacts \in Nat \ {0} /\ MaxAmbiguous \in Nat
    /\ MaxClock \in Nat /\ MaxRestarts \in Nat

\* The matcher is a function of the facts; its answers for all the sets that an
\* input can leave behind (the comparison makes TLC work them out once).
FactSets == UNION {SUBSET {i[n] : n \in DOMAIN i} : i \in Inputs}
Tabulated(f) == CHOOSE g \in {f} : g = f
Complete == Tabulated([F \in FactSets |-> Deterministic(F)])
Incomplete == Tabulated([F \in FactSets |-> Ambiguous(F)])

VARIABLES
    input,       \* the facts of this key in the order of the partition
    op,          \* the keyed state, its timers and the position in the input
    saved,       \* the last checkpoint of op
    buffer,      \* episodes the sink has taken and not yet flushed
    published,   \* episodes in the topic
    clock,       \* processing time
    restarts     \* restarts so far

builderVars == <<input, op, saved, buffer, published, clock, restarts>>

Fresh ==
    [pos |-> 0,                   \* facts of the input consumed
     facts |-> {},                \* temporal-facts
     maximum |-> 0,               \* temporal-maximum-event-time
     active |-> {},               \* temporal-active-files
     pending |-> <<>>,            \* temporal-pending-ambiguous: key -> due time
     matchedCandidates |-> {},    \* temporal-matched-candidates
     matchedTerminals |-> {},     \* temporal-matched-terminals
     emitted |-> {},              \* temporal-emitted-episodes
     timers |-> {},               \* processing-time timers
     eventTimers |-> {}]          \* event-time timers, by the fact's time

BuilderInit ==
    /\ input \in Inputs
    /\ op = Fresh /\ saved = Fresh
    /\ buffer = {} /\ published = {}
    /\ clock = 0 /\ restarts = 0

-----------------------------------------------------------------------------
\* The steps both handlers are made of, each from one state to the next

\* candidateSeed, boundedFileCandidate, relevant
Seed(s) == Signal[s].op \in {"download", "file_read", "persistence_write"}
Bounded(s) ==
    Signal[s].op \notin {"target_discovery", "destroy", "sandbox_probe", "privilege_change"}
Relevant(s) ==
    \/ File(s) # None
    \/ Signal[s].op \in {"egress", "sandbox_probe", "privilege_change",
                         "target_discovery", "destroy"}

ActiveFiles(F) == {File(s) : s \in {t \in F : Seed(t) /\ File(t) # None}}

(* Mutant: the files are not looked at again. *)
WithFactsOnly(o, F) == [o EXCEPT !.facts = F]

\* facts.remove and rebuildActiveFiles
WithFacts(o, F) == [o EXCEPT !.facts = F, !.active = ActiveFiles(F)]

Pruned(o, threshold) ==
    IF threshold <= 0 THEN o
    ELSE WithFacts(o, {s \in o.facts : Time(s) >= threshold})

\* The facts that MaxFacts newer ones push out.
BoundFacts(o) ==
    IF Cardinality(o.facts) <= MaxFacts THEN o
    ELSE WithFacts(o, {s \in o.facts :
                          Cardinality({t \in o.facts : s < t}) < MaxFacts})

Episode(m) == [type |-> m.type, entity |-> m.entity, evidence |-> m.evidence]

New(o, M) ==
    {m \in M : /\ CandidateKey(m) \notin o.matchedCandidates
               /\ TerminalKey(m) \notin o.matchedTerminals}

(* Mutant: only complete chains are put out. *)
EmitComplete(o, M) ==
    [o EXCEPT !.emitted = @ \cup {Episode(m) : m \in {n \in New(o, M) : n.path = "rule"}},
              !.matchedCandidates = @ \cup {CandidateKey(m) : m \in New(o, M)},
              !.matchedTerminals = @ \cup {TerminalKey(m) : m \in New(o, M)}]

\* emitMatch for each match of a set: no two of them share a key.
Emit(o, M) ==
    [o EXCEPT !.emitted = @ \cup {Episode(m) : m \in New(o, M)},
              !.matchedCandidates = @ \cup {CandidateKey(m) : m \in New(o, M)},
              !.matchedTerminals = @ \cup {TerminalKey(m) : m \in New(o, M)}]

Without(pending, keys) == [k \in DOMAIN pending \ keys |-> pending[k]]

\* emitDeterministicMatches
EmitDeterministic(o) ==
    LET M == Complete[o.facts]
    IN Emit([o EXCEPT !.pending = Without(@, {TerminalKey(m) : m \in M})], M)

\* The terminals that begin to wait for more evidence; when there are too many
\* of them, which ones depends on the order of the files.
NewlyAmbiguous(o) ==
    {TerminalKey(m) : m \in {n \in Incomplete[o.facts] :
        /\ CandidateKey(n) \notin o.matchedCandidates
        /\ TerminalKey(n) \notin o.matchedTerminals
        /\ TerminalKey(n) \notin DOMAIN o.pending}}

Room(o) == MaxAmbiguous - Cardinality(DOMAIN o.pending)

(* Mutant: no timer is set. *)
AwaitUntimed(o, keys) ==
    IF keys = {} THEN o
    ELSE [o EXCEPT !.pending = [k \in DOMAIN @ \cup keys |->
                                   IF k \in keys THEN clock + Settle ELSE @[k]]]

Await(o, keys) ==
    IF keys = {} THEN o
    ELSE [o EXCEPT !.pending = [k \in DOMAIN @ \cup keys |->
                                   IF k \in keys THEN clock + Settle ELSE @[k]],
                   !.timers = @ \cup {clock + Settle}]

-----------------------------------------------------------------------------
\* The operator

Arriving == input[op.pos + 1]
HasInput == op.pos < Len(input)
Consumed == [op EXCEPT !.pos = @ + 1]
TooLate(s) == op.maximum > 0 /\ Time(s) < op.maximum - Lateness

\* A fact about a file nobody has opened a candidate for, or one file too many.
Unadmitted(s) ==
    /\ Bounded(s) /\ File(s) # None /\ File(s) \notin op.active
    /\ ~ Seed(s) \/ Cardinality(op.active) >= MaxFiles

\* A fact that leaves no trace: irrelevant, known, late (it goes to the dead
\* letters), or not admitted.
Ignore ==
    /\ HasInput
    /\ LET s == Arriving IN
          ~ Relevant(s) \/ s \in op.facts \/ TooLate(s) \/ Unadmitted(s)
    /\ op' = Consumed
    /\ UNCHANGED <<input, saved, buffer, published, clock, restarts>>

\* The state after a fact has been kept and the old ones are gone.
Kept(s) ==
    LET top == IF Time(s) > op.maximum THEN Time(s) ELSE op.maximum
        put == [Consumed EXCEPT
                  !.facts = @ \cup {s},
                  !.active = IF Bounded(s) /\ File(s) # None THEN @ \cup {File(s)} ELSE @,
                  !.maximum = top,
                  !.eventTimers = @ \cup {Time(s)}]
    IN BoundFacts(Pruned(put, top - Window - Lateness))

Keep ==
    /\ HasInput
    /\ LET s == Arriving IN
          /\ Relevant(s) /\ s \notin op.facts /\ ~ TooLate(s) /\ ~ Unadmitted(s)
          /\ \E k \in {Kept(s)} : \E o \in {EmitDeterministic(k)} :
             \E new \in {NewlyAmbiguous(o)} : \E keys \in SUBSET new :
                /\ Cardinality(keys) = IF Cardinality(new) <= Room(o)
                                       THEN Cardinality(new) ELSE Room(o)
                /\ op' = Await(o, keys)
    /\ buffer' = buffer \cup (op'.emitted \ op.emitted)
    /\ UNCHANGED <<input, saved, published, clock, restarts>>

\* onTimer in processing time, at the time it was registered for.
SettleAmbiguous ==
    \E t \in op.timers :
       /\ t <= clock /\ \A u \in op.timers : t <= u
       /\ \E o \in {EmitDeterministic([op EXCEPT !.timers = @ \ {t}])} :
          \E due \in {{k \in DOMAIN o.pending : o.pending[k] <= t}} :
             op' = Emit([o EXCEPT !.pending = Without(@, due)],
                        {m \in Incomplete[o.facts] : TerminalKey(m) \in due})
       /\ buffer' = buffer \cup (op'.emitted \ op.emitted)
       /\ UNCHANGED <<input, saved, published, clock, restarts>>

\* onTimer in event time: the watermark passes the timers up to t, and what is
\* older than the fact that set the last of them goes.  Timers that would remove
\* nothing are left until one does.
ExpireFacts ==
    \E t \in op.eventTimers :
       /\ \E s \in op.facts : Time(s) < t
       /\ op' = Pruned([op EXCEPT !.eventTimers = {u \in @ : u > t}], t)
       /\ UNCHANGED <<input, saved, buffer, published, clock, restarts>>

-----------------------------------------------------------------------------
\* The job around it

\* A checkpoint flushes the sink.  After the last restart nobody would use it.
Checkpoint ==
    /\ restarts < MaxRestarts
    /\ saved # op
    /\ saved' = op
    /\ published' = published \cup buffer
    /\ buffer' = {}
    /\ UNCHANGED <<input, op, clock, restarts>>

\* Some of what the sink held has reached the topic, the rest is lost.
Restart ==
    /\ restarts < MaxRestarts
    /\ restarts' = restarts + 1
    /\ op' = saved
    /\ \E sent \in SUBSET buffer : published' = published \cup sent
    /\ buffer' = {}
    /\ UNCHANGED <<input, saved, clock>>

\* Time passes up to its bound, and then as long as a timer is not due.
TimePasses ==
    /\ clock < MaxClock \/ \E t \in op.timers : t > clock
    /\ clock' = clock + 1
    /\ UNCHANGED <<input, op, saved, buffer, published, restarts>>

BuilderNext ==
    \/ Ignore \/ Keep \/ SettleAmbiguous \/ ExpireFacts
    \/ Checkpoint \/ Restart \/ TimePasses

(***************************************************************************)
(* The operator goes through its input, due timers fire, time passes.      *)
(***************************************************************************)
BuilderFairness ==
    /\ WF_builderVars(Ignore \/ Keep)
    /\ WF_builderVars(SettleAmbiguous)
    /\ WF_builderVars(TimePasses)

BuilderSpec == BuilderInit /\ [][BuilderNext]_builderVars /\ BuilderFairness

-----------------------------------------------------------------------------
(* Types and bounds, and: the active files are exactly those of the seeds that
   are kept, and what waits for more evidence has a timer that will ask again. *)
BuilderTypeOK ==
    /\ clock \in Nat /\ restarts \in 0..MaxRestarts
    /\ \A o \in {op, saved} :
          /\ o.pos \in 0..Len(input)
          /\ o.facts \subseteq Signals /\ Cardinality(o.facts) <= MaxFacts
          /\ o.active = ActiveFiles(o.facts) /\ Cardinality(o.active) <= MaxFiles
          /\ Cardinality(DOMAIN o.pending) <= MaxAmbiguous
          /\ \A k \in DOMAIN o.pending : o.pending[k] \in o.timers
          /\ \A s \in o.facts : Time(s) <= o.maximum
    /\ saved.emitted \subseteq published

\* The complete chains of a file rule that end in a fact, by its definition.
DownloadChains(F, f, x) ==
    LET S == OfFile(F, f) IN
    {c \in Of(S, {"download"}) \X Of(S, Writes) \X Of(S, {"chmod"}) :
        /\ Time(c[1]) < Time(c[2]) /\ Time(c[2]) < Time(c[3]) /\ Time(c[3]) < Time(x)
        /\ Time(x) - Time(c[1]) <= Window}

ExfiltrationChains(F, f, x) ==
    LET S == OfFile(F, f) IN
    {c \in Of(S, {"file_read"}) \X Of(S, Transforms) :
        /\ Time(c[1]) < Time(c[2]) /\ Time(c[2]) < Time(x)
        /\ Time(x) - Time(c[1]) <= Window}

\* The last execution of a file and the last egress, with every chain of the kept
\* facts that they complete.
ChainsOf(F) ==
    UNION {{<<"download_execute", f, x, DownloadChains(F, f, x)>> :
               x \in Ends(OfFile(F, f), {"execute"})}
           \cup {<<"sensitive_data_exfiltration", f, x, ExfiltrationChains(F, f, x)>> :
               x \in Ends(F, {"egress"})} : f \in Files}
KeptChains == Tabulated([F \in FactSets |-> {k \in ChainsOf(F) : k[4] # {}}])

(* "repeated facts for the same file prefer the most recent complete ordered
   candidate" (docs/temporal-episode-v1.md:79): walking backwards from the latest
   execution or egress without a second try finds a chain whenever the kept facts
   hold one, in whatever order they came, and no kept chain stays unclaimed. *)
KeptChainIsClaimed ==
    \A k \in KeptChains[op.facts] :
       \/ <<k[1], k[2], k[3]>> \in op.matchedTerminals
       \/ \E c \in k[4] : <<k[1], k[2], c>> \in op.matchedCandidates

(* "a matched candidate cannot be completed by another terminal event" and "one
   terminal event cannot complete multiple candidates for the same rule and file"
   (docs/temporal-episode-v1.md:80-81): of the episodes that one history of the
   state has made, complete or judged incomplete after the wait, no two share a
   candidate or a terminal, and nothing waits for a terminal that is over. And what
   the state holds to be reported has been reported, or the sink still has it: a
   terminal is never closed by an episode that a restart has lost. *)
OneEpisodePerTerminal ==
    /\ \A a, b \in op.emitted :
          \/ a = b
          \/ CandidateKey(a) # CandidateKey(b) /\ TerminalKey(a) # TerminalKey(b)
    /\ \A e \in op.emitted : TerminalKey(e) \notin DOMAIN op.pending
    /\ \A k \in op.matchedTerminals :
          \E e \in published \cup buffer : TerminalKey(e) = k

(* Every fact is consumed and no candidate waits for ever, restarts included. *)
EveryCandidateSettles == <>[](op.pos = Len(input) /\ op.pending = <<>>)

\* The n-th fact of the input is not behind by more than the lateness, or it has
\* been delivered before.
InTime(n) ==
    \/ \A k \in 1..n : Time(input[n]) >= Time(input[k]) - Lateness
    \/ \E k \in 1..(n - 1) : input[k] = input[n]

(* "allowed out-of-order arrival: 30 seconds" (docs/temporal-episode-v1.md:75): when
   every fact of the input came within the lateness, a complete download chain
   among them makes a deterministic episode. *)
OutOfOrderIsMatched ==
    LET F == {input[n] : n \in DOMAIN input} IN
    (op.pos = Len(input) /\ \A n \in DOMAIN input : InTime(n)) =>
       \A f \in Files, x \in Of(F, {"execute"}) :
          (File(x) = f /\ DownloadChains(F, f, x) # {}) =>
             \E e \in op.emitted :
                e.type = "download_execute" /\ e.entity = f /\ Len(e.evidence) = 4
=============================================================================
