--------------------------- MODULE TemporalMatcher ---------------------------
(***************************************************************************)
(* The temporal rules of the Flink job (TemporalEpisodeMatcher.java): given *)
(* the facts of one agent session, which chains of behaviour do they show?  *)
(*                                                                         *)
(* Every rule starts from the latest fact that can end its chain and walks *)
(* backwards, taking for each stage the latest fact strictly before the    *)
(* one chosen last.  There is no second try: a choice that turns out wrong *)
(* (another process, outside the window) ends the search.                  *)
(*                                                                         *)
(* A signal is its index in Signal, which numbers the facts in the order   *)
(* of eventTime, then eventId.  "persistence_write" is a file_write at that stage; target *)
(* stands for the path or destination a rule compares; privileged says     *)
(* that the signal is sensitive, external or dangerous; scope is the       *)
(* process scope (host, boot, container, root pid), all of it known.       *)
(***************************************************************************)
EXTENDS Integers, Sequences, FiniteSets

CONSTANTS
    Signal,   \* the facts: Signal[i] is a record
    Files,    \* fileInstanceId
    Scopes,   \* process scopes
    Targets,  \* resources and destinations
    Within,   \* <<scope, path>>: the path lies in the scope
    Window    \* WINDOW_MS

None == 0

Operations ==
    {"download", "file_write", "persistence_write", "chmod", "execute", "file_read",
     "encode", "compress", "egress", "persistence_activate", "sandbox_probe",
     "privilege_change", "target_discovery", "destroy", "remote_connect",
     "remote_execute", "remote_copy"}

ASSUME SignalAssumption ==
    /\ Signal \in Seq([op : Operations, time : Nat \ {0}, file : Files \cup {None},
                       scope : Scopes \cup {None}, target : Targets \cup {None},
                       privileged : BOOLEAN])
    /\ \A i, j \in DOMAIN Signal : i < j => Signal[i].time <= Signal[j].time
    /\ Window \in Nat
    /\ Within \subseteq Targets \X Targets

Signals == DOMAIN Signal
Time(s) == Signal[s].time
File(s) == Signal[s].file
Target(s) == Signal[s].target
Scope(s) == Signal[s].scope

Of(F, ops) == {s \in F : Signal[s].op \in ops}
OfFile(F, f) == {s \in F : File(s) = f}
Ends(F, ops) == {s \in Of(F, ops) : \A t \in Of(F, ops) : t <= s}

(* Mutant: the earliest fact is taken. *)
EarliestBefore(s, F, next) ==
    /\ Time(s) < Time(next)
    /\ \A t \in F : Time(t) < Time(next) => s <= t

\* latestBefore: s is the last fact of F that is strictly earlier than next; facts of
\* the same moment do not count.
LatestBefore(s, F, next) ==
    /\ Time(s) < Time(next)
    /\ \A t \in F : Time(t) < Time(next) => t <= s

SameTarget(s, t) == Target(s) # None /\ Target(s) = Target(t)
WithinPath(s, t) == <<Target(s), Target(t)>> \in Within
SameFile(s, t) == File(s) # None /\ File(s) = File(t)
SameScope(evidence) ==
    \A i \in DOMAIN evidence :
        Scope(evidence[i]) # None /\ Scope(evidence[i]) = Scope(evidence[1])
InWindow(evidence) == Time(evidence[Len(evidence)]) - Time(evidence[1]) <= Window

\* privilegedConsequence
Privileged(F) == {s \in F : Signal[s].privileged \/ Signal[s].op = "destroy"}

Match(type, entity, evidence, path) ==
    [type |-> type, entity |-> entity, evidence |-> evidence, path |-> path]

-----------------------------------------------------------------------------
\* The deterministic rules: the evidence each of them chooses, if any

Writes == {"file_write", "persistence_write"}
Transforms == {"encode", "compress"}
RemoteActions == {"remote_execute", "remote_copy"}

DownloadExecute(F, f) ==
    LET S == OfFile(F, f) IN
    {e \in Of(S, {"download"}) \X Of(S, Writes) \X Of(S, {"chmod"}) \X Ends(S, {"execute"}) :
        /\ LatestBefore(e[3], Of(S, {"chmod"}), e[4])
        /\ LatestBefore(e[2], Of(S, Writes), e[3])
        /\ LatestBefore(e[1], Of(S, {"download"}), e[2])
        /\ InWindow(e)}

SensitiveExfiltration(F, f) ==
    LET S == OfFile(F, f) IN
    {e \in Of(S, {"file_read"}) \X Of(S, Transforms) \X Ends(F, {"egress"}) :
        /\ LatestBefore(e[2], Of(S, Transforms), e[3])
        /\ LatestBefore(e[1], Of(S, {"file_read"}), e[2])
        /\ InWindow(e)}

Persistence(F) ==
    {e \in Of(F, {"persistence_write"}) \X Ends(F, {"persistence_activate"}) :
        /\ SameTarget(e[1], e[2])
        /\ LatestBefore(e[1], {s \in Of(F, {"persistence_write"}) : SameTarget(s, e[2])}, e[2])
        /\ InWindow(e) /\ SameScope(e)}

SandboxBreakout(F) ==
    {e \in Of(F, {"sandbox_probe"}) \X Of(F, {"privilege_change"}) \X Privileged(F) :
        /\ \A t \in Privileged(F) : t <= e[3]
        /\ LatestBefore(e[2], Of(F, {"privilege_change"}), e[3])
        /\ LatestBefore(e[1], Of(F, {"sandbox_probe"}), e[2])
        /\ InWindow(e) /\ SameScope(e)}

DestructiveBehavior(F) ==
    LET Covers(s, e) == WithinPath(s, e[2]) /\ WithinPath(s, e[3]) IN
    {e \in Of(F, {"target_discovery"}) \X Of(F, {"destroy"}) \X Ends(F, {"destroy"}) :
        /\ LatestBefore(e[2], Of(F, {"destroy"}), e[3])
        /\ Covers(e[1], e)
        /\ LatestBefore(e[1], {s \in Of(F, {"target_discovery"}) : Covers(s, e)}, e[2])
        /\ InWindow(e) /\ SameScope(e)}

LateralMovement(F) ==
    LET Connects(s, e) == SameTarget(s, e[3]) /\ SameFile(s, e[3]) IN
    {e \in Of(F, {"file_read"}) \X Of(F, {"remote_connect"}) \X Ends(F, RemoteActions) :
        /\ Connects(e[2], e)
        /\ LatestBefore(e[2], {s \in Of(F, {"remote_connect"}) : Connects(s, e)}, e[3])
        /\ SameFile(e[1], e[2])
        /\ LatestBefore(e[1], {s \in Of(F, {"file_read"}) : SameFile(s, e[2])}, e[2])
        /\ InWindow(e) /\ SameScope(e)}

PathOf(e) == <<"path", Target(e[1])>>
LateralOf(e) == <<"lateral", File(e[1]), Target(e[Len(e)])>>
ProcessOf(e) == <<"process", Scope(e[1])>>

\* match(): at most one match per rule, and per file for the file rules.
Deterministic(F) ==
    (UNION {{Match("download_execute", f, e, "rule") : e \in DownloadExecute(F, f)}
            \cup {Match("sensitive_data_exfiltration", f, e, "rule") :
                     e \in SensitiveExfiltration(F, f)} : f \in Files})
    \cup {Match("persistence_installation", <<"persistence", Target(e[2])>>, e, "rule") :
              e \in Persistence(F)}
    \cup {Match("sandbox_privilege_breakout", ProcessOf(e), e, "rule") : e \in SandboxBreakout(F)}
    \cup {Match("destructive_behavior", PathOf(e), e, "rule") : e \in DestructiveBehavior(F)}
    \cup {Match("lateral_movement", LateralOf(e), e, "rule") : e \in LateralMovement(F)}

-----------------------------------------------------------------------------
\* The incomplete chains that go to the composite judge: the beginning and the
\* end of a rule whose complete chain is not there.

AmbiguousDownload(F, f) ==
    LET S == OfFile(F, f) IN
    {e \in Of(S, {"download"}) \X Ends(S, {"execute"}) :
        /\ LatestBefore(e[1], Of(S, {"download"}), e[2])
        /\ InWindow(e) /\ DownloadExecute(F, f) = {}}

AmbiguousExfiltration(F, f) ==
    LET S == OfFile(F, f) IN
    {e \in Of(S, {"file_read"}) \X Ends(F, {"egress"}) :
        /\ LatestBefore(e[1], Of(S, {"file_read"}), e[2])
        /\ InWindow(e) /\ SensitiveExfiltration(F, f) = {}}

AmbiguousPersistence(F) ==
    {e \in Of(F, {"persistence_write"}) \X Ends(F, {"persistence_activate"}) :
        /\ LatestBefore(e[1], Of(F, {"persistence_write"}), e[2])
        /\ InWindow(e) /\ SameScope(e) /\ Persistence(F) = {}}

AmbiguousSandbox(F) ==
    LET precursors == Of(F, {"sandbox_probe", "privilege_change"}) IN
    {e \in precursors \X Privileged(F) :
        /\ \A t \in Privileged(F) : t <= e[2]
        /\ LatestBefore(e[1], precursors, e[2])
        /\ InWindow(e) /\ SameScope(e) /\ SandboxBreakout(F) = {}}

AmbiguousDestructive(F) ==
    {e \in Of(F, {"target_discovery"}) \X Ends(F, {"destroy"}) :
        /\ WithinPath(e[1], e[2])
        /\ LatestBefore(e[1], {s \in Of(F, {"target_discovery"}) : WithinPath(s, e[2])}, e[2])
        /\ InWindow(e) /\ SameScope(e) /\ DestructiveBehavior(F) = {}}

AmbiguousLateral(F) ==
    {e \in Of(F, {"file_read"}) \X Ends(F, RemoteActions) :
        /\ SameFile(e[1], e[2])
        /\ LatestBefore(e[1], {s \in Of(F, {"file_read"}) : SameFile(s, e[2])}, e[2])
        /\ InWindow(e) /\ SameScope(e) /\ LateralMovement(F) = {}}

Ambiguous(F) ==
    (UNION {{Match("download_execute", f, e, "judge") : e \in AmbiguousDownload(F, f)}
            \cup {Match("sensitive_data_exfiltration", f, e, "judge") :
                     e \in AmbiguousExfiltration(F, f)} : f \in Files})
    \cup {Match("persistence_installation", ProcessOf(e), e, "judge") :
              e \in AmbiguousPersistence(F)}
    \cup {Match("sandbox_privilege_breakout", ProcessOf(e), e, "judge") : e \in AmbiguousSandbox(F)}
    \cup {Match("destructive_behavior", PathOf(e), e, "judge") : e \in AmbiguousDestructive(F)}
    \cup {Match("lateral_movement", LateralOf(e), e, "judge") : e \in AmbiguousLateral(F)}

\* candidateCompletionKey and terminalCompletionKey
Terminal(m) == m.evidence[Len(m.evidence)]
CandidateKey(m) == <<m.type, m.entity, SubSeq(m.evidence, 1, Len(m.evidence) - 1)>>
TerminalKey(m) == <<m.type, m.entity, Terminal(m)>>
=============================================================================
