------------------------------ MODULE FactCache ------------------------------
(***************************************************************************)
(* CommitAwareFactBucketCache (commit-aware-fact-cache.ts) with its budget *)
(* (fact-cache-budget.ts), over the event table and the commit journal of  *)
(* ClickHouse (eventCommitChanges and the two cursor queries of            *)
(* clickhouse-store.ts): dashboards read time buckets of aggregated facts, *)
(* and every durable event or revision invalidates the bucket of its event *)
(* time through the journal.                                               *)
(*                                                                         *)
(* The facts of a bucket are the number of commits they include; a bucket  *)
(* weighs one fact row more than it has commits.  A refresh runs from one  *)
(* query to the next in one step; refreshes are chained one behind another. *)
(*                                                                         *)
(* External: a materialized view writes the journal, so a row becomes      *)
(* visible some time after its commit, also out of order, but within the   *)
(* replay window that eventCommitChanges reads again; the journal's TTL    *)
(* drops its oldest rows.                                                  *)
(*                                                                         *)
(* Left out: the ten seconds for which the earliest cursor is memoised,    *)
(* ranges that are empty or not aligned, and the estimate of bytes, which  *)
(* bounds the cache as the number of facts does.                           *)
(***************************************************************************)
EXTENDS Integers, FiniteSets, Sequences, Functions, FiniteSetsExt

CONSTANTS
    NBuckets,       \* bound: number of time buckets
    Readers,        \* overlapping calls of read
    Ranges,         \* bound: the ranges <<first, last>> they ask for
    Busy,           \* bound: the buckets that events fall into
    MaxBuckets,     \* maxBuckets
    MaxFacts,       \* maxFacts
    Limit,          \* rows of a page of eventCommitChanges
    MaxPages,       \* pages of one applyChanges
    Replay,         \* ANYSENTRY_COMMIT_CURSOR_REPLAY_MS, in ticks
    Ttl,            \* external: age at which a journal row may be dropped
    CoarseExpiry,   \* assumption: rows are not dropped during a refresh, inside
                    \* the replay window, before they are visible, nor all of them
    MaxCommits, MaxClock, MaxFailures     \* bounds

Buckets == 1 .. NBuckets

ASSUME FactCacheAssumption ==
    /\ NBuckets \in Nat
    /\ Ranges \subseteq {r \in Buckets \X Buckets : r[1] <= r[2]}
    /\ Busy \subseteq Buckets
    /\ {MaxBuckets, MaxFacts, Replay, Ttl} \subseteq Nat
    /\ {Limit, MaxPages} \subseteq Nat \ {0}
    /\ CoarseExpiry \in BOOLEAN
    /\ {MaxCommits, MaxClock, MaxFailures} \subseteq Nat

VARIABLES
    table,      \* table[b]: commits to a bucket
    clock,
    journal,    \* visible rows of event_commit_facts_v2
    transit,    \* rows the materialized view has not written yet
    facts,      \* bucketFacts: the commits a cached bucket includes
    weights,    \* FactCacheBudget.weights
    total,      \* FactCacheBudget.facts
    cursor,     \* the last journal position read
    chain,      \* operation: readers whose refreshes are chained
    refresh,    \* where the refresh at the head is
    asked,      \* asked[r]: the range of a call of read
    failures      \* counter for the bound

clickhouse == <<table, clock, journal, transit>>
cache      == <<facts, weights, total, cursor>>
cacheVars       == <<clickhouse, cache, chain, refresh, asked, failures>>

Empty == [b \in {} |-> 0]

NoCursor == [at |-> -1, n |-> 0]
AtStart  == [at |-> 0, n |-> 0]

(* floor: the commits the journal had made known when it was read again.   *)
Idle == [step |-> "idle", again |-> FALSE, page |-> 1, todo |-> {}, floor |-> Empty]

None == <<1, 0>>

CacheInit ==
    /\ table = [b \in Buckets |-> 0] /\ clock = 1
    /\ journal = {} /\ transit = {}
    /\ facts = Empty /\ weights = Empty /\ total = 0
    /\ cursor = NoCursor
    /\ chain = <<>> /\ refresh = Idle
    /\ asked = [r \in Readers |-> None]
    /\ failures = 0
-----------------------------------------------------------------------------
(* ClickHouse.                                                             *)

Commits == SumFunction(table)

(* A revision becomes durable in a bucket.                                 *)
Commit(b) ==
    /\ Commits < MaxCommits
    /\ table' = [table EXCEPT ![b] = @ + 1]
    /\ transit' = transit \cup
           {[at |-> clock, n |-> Commits + 1, bucket |-> b, version |-> table[b] + 1]}
    /\ UNCHANGED <<clock, journal, cache, chain, refresh, asked, failures>>

(* The materialized view writes the journal row.                           *)
Journal(row) ==
    /\ row \in transit
    /\ transit' = transit \ {row}
    /\ journal' = journal \cup {row}
    /\ UNCHANGED <<table, clock, cache, chain, refresh, asked, failures>>

Tick ==
    /\ clock < MaxClock
    /\ \A row \in transit : clock + 1 - row.at <= Replay
    /\ clock' = clock + 1
    /\ UNCHANGED <<table, journal, transit, cache, chain, refresh, asked, failures>>

(* The TTL drops the journal up to a time.                                 *)
Expire(time) ==
    LET kept == {row \in journal : row.at > time} IN
    /\ kept # journal
    /\ time + Ttl < clock
    /\ CoarseExpiry => /\ refresh.step = "idle"
                       /\ kept # {} /\ \A row \in transit : row.at > time
                       /\ time \notin cursor.at - Replay .. cursor.at - 1
    /\ journal' = kept
    /\ UNCHANGED <<table, clock, transit, cache, chain, refresh, asked, failures>>

(* Newest commit to each bucket that the journal has made known.           *)
Visible ==
    [b \in Buckets |-> Max({0} \cup {row.version : row \in {x \in journal : x.bucket = b}})]
-----------------------------------------------------------------------------
(* The budget.                                                             *)

Weight(version) == version + 1

Without(f, S) == Restrict(f, DOMAIN f \ S)

Put(f, new) ==
    [b \in DOMAIN f \cup DOMAIN new |-> IF b \in DOMAIN new THEN new[b] ELSE f[b]]

WeightOf(S) == SumFunctionOnSet(weights, S \cap DOMAIN weights)

(* remove, for the buckets of S.                                           *)
Forget(S) ==
    /\ facts' = Without(facts, S)
    /\ weights' = Without(weights, S)
    /\ total' = total - WeightOf(S)

Clear == facts' = Empty /\ weights' = Empty /\ total' = 0

Exceeded(w, t) == Cardinality(DOMAIN w) > MaxBuckets \/ t > MaxFacts
-----------------------------------------------------------------------------
(* read and refresh.                                                       *)

Reading(r) == chain # <<>> /\ Head(chain) = r

Span(range) == range[1] .. range[2]

Call(r, range) ==
    /\ asked[r] = None
    /\ asked' = [asked EXCEPT ![r] = range]
    /\ chain' = Append(chain, r)
    /\ UNCHANGED <<clickhouse, cache, refresh, failures>>

(* The chained promise is settled; the next refresh may start.             *)
End(r) ==
    /\ asked' = [asked EXCEPT ![r] = None]
    /\ chain' = Tail(chain)
    /\ refresh' = Idle

Begin(r) ==
    /\ Reading(r) /\ refresh.step = "idle"
    /\ refresh' = [Idle EXCEPT !.step = IF cursor = NoCursor THEN "latest" ELSE "earliest"]
    /\ UNCHANGED <<clickhouse, cache, chain, asked, failures>>

(* Runs of buckets of a range that are not cached, as loadMissing lists    *)
(* them; more than two are read as one envelope.                           *)
Gaps(range, cached) ==
    LET missing == Span(range) \ cached IN
    {g \in missing \X missing :
        /\ g[1] .. g[2] \subseteq missing
        /\ g[1] - 1 \notin missing
        /\ g[2] + 1 \notin missing
        /\ g[1] <= g[2]}

Reads(range, cached) ==
    LET gaps == Gaps(range, cached) IN
    IF Cardinality(gaps) <= 2 THEN gaps
    ELSE {<<Min({g[1] : g \in gaps}), Max({g[2] : g \in gaps})>>}

Later(row, c) == row.at > c.at \/ (row.at = c.at /\ row.n > c.n)

Position(row) == [at |-> row.at, n |-> row.n]

(* latestEventCommitCursor, on the first read and after a gap.             *)
Latest(r) ==
    /\ Reading(r) /\ refresh.step \in {"latest", "relatest"}
    /\ \/ journal = {} /\ cursor' = AtStart
       \/ \E row \in journal :
              /\ \A other \in journal : ~Later(other, row)
              /\ cursor' = Position(row)
    /\ refresh' = IF refresh.step = "latest"
                  THEN [refresh EXCEPT !.step = "load",
                            !.todo = Reads(asked[r], DOMAIN facts)]
                  ELSE [refresh EXCEPT !.step = "changes"]
    /\ UNCHANGED <<clickhouse, facts, weights, total, chain, asked, failures>>

(* ensureJournalContinuity.  compareCursor leaves out commitBatchId, so    *)
(* rows of the cursor's own millisecond may come before or after it.       *)
Continuous(r) ==
    /\ Reading(r) /\ refresh.step = "earliest"
    /\ journal = {} \/ \E row \in journal : row.at <= cursor.at
    /\ refresh' = [refresh EXCEPT !.step = "changes"]
    /\ UNCHANGED <<clickhouse, cache, chain, asked, failures>>

(* Mutant: cached buckets outlive the gap.                                 *)
GapKeepsFacts(r) ==
    /\ Reading(r) /\ refresh.step = "earliest"
    /\ journal # {} /\ \A row \in journal : row.at >= cursor.at
    /\ refresh' = [refresh EXCEPT !.step = "relatest"]
    /\ UNCHANGED <<clickhouse, cache, chain, asked, failures>>

Gap(r) ==
    /\ Reading(r) /\ refresh.step = "earliest"
    /\ journal # {} /\ \A row \in journal : row.at >= cursor.at
    /\ Clear
    /\ refresh' = [refresh EXCEPT !.step = "relatest"]
    /\ UNCHANGED <<clickhouse, cursor, chain, asked, failures>>

(* Mutant: nothing before the cursor is read again.                        *)
WindowPastCursor == {row \in journal : Later(row, cursor)}

(* eventCommitChanges: a page, from a little before the cursor.            *)
Window == {row \in journal : row.at >= cursor.at - Replay}

Page(rows) ==
    IF Cardinality(rows) <= Limit THEN rows
    ELSE {row \in rows : Cardinality({x \in rows : Later(row, x)}) < Limit}

Advanced(page) ==
    LET last == {row \in page : ~Later(cursor, row) /\ \A x \in page : ~Later(x, row)}
    IN  IF last = {} THEN cursor ELSE Position(CHOOSE row \in last : TRUE)

(* Mutant: pages are not counted.                                          *)
NextPageUncounted == refresh.page

NextPage == refresh.page + 1

(* applyChanges: one page.                                                 *)
Changes(r) ==
    LET page == Page(Window)
        more == page # Window
        left == DOMAIN facts \ {row.bucket : row \in page}
    IN
    /\ Reading(r) /\ refresh.step = "changes"
    /\ Forget({row.bucket : row \in page})
    /\ cursor' = Advanced(page)
    /\ IF ~more
       THEN /\ refresh' = [refresh EXCEPT !.step = "load", !.page = 1,
                               !.todo = Reads(asked[r], left)]
            /\ UNCHANGED <<chain, asked>>
       ELSE IF refresh.page < MaxPages
       THEN refresh' = [refresh EXCEPT !.page = NextPage] /\ UNCHANGED <<chain, asked>>
       ELSE End(r)
    /\ UNCHANGED <<clickhouse, failures>>

FreshWeight(span) == SumFunction([b \in span |-> Weight(table[b])])

(* Mutant: the weight a bucket already had is not taken off.               *)
RecordedOnTop(span) == total + FreshWeight(span)

Recorded(span) == total - WeightOf(span) + FreshWeight(span)

(* loadMissing: one query of facts, the earliest range first.              *)
Load(r, gap) ==
    LET span == Span(gap)
        new  == [b \in span |-> table[b]]
    IN
    /\ Reading(r) /\ refresh.step = "load"
    /\ gap \in refresh.todo /\ \A g \in refresh.todo : gap[1] <= g[1]
    /\ facts' = Put(facts, new)
    /\ weights' = Put(weights, [b \in span |-> Weight(table[b])])
    /\ total' = Recorded(span)
    /\ refresh' = [refresh EXCEPT !.todo = @ \ {gap}]
    /\ UNCHANGED <<clickhouse, cursor, chain, asked, failures>>

(* The journal is read again for what came in during the first load.       *)
Recheck(r) ==
    /\ Reading(r) /\ refresh.step = "load" /\ refresh.todo = {}
    /\ ~refresh.again
    /\ refresh' = [refresh EXCEPT !.step = "changes", !.again = TRUE,
                                  !.floor = Visible]
    /\ UNCHANGED <<clickhouse, cache, chain, asked, failures>>

(* prune: buckets outside the range go, the oldest first, until the budget *)
(* holds.                                                                  *)
Oldest(S) == {P \in SUBSET S : \A x \in P, y \in S \ P : x < y}

Fits(P) == ~Exceeded(Without(weights, P), total - WeightOf(P))

Pruned(P, outside) ==
    /\ P \in Oldest(outside)
    /\ \A Q \in Oldest(outside) : Fits(Q) => P \subseteq Q
    /\ Fits(P) \/ P = outside

(* The end of read: the facts, or null when the range itself is too much.  *)
Answer(r) ==
    /\ Reading(r) /\ refresh.step = "load" /\ refresh.todo = {}
    /\ refresh.again
    /\ \E P \in SUBSET (DOMAIN facts \ Span(asked[r])) :
          /\ Pruned(P, DOMAIN facts \ Span(asked[r]))
          /\ IF Fits(P) THEN Forget(P) ELSE Clear
    /\ End(r)
    /\ UNCHANGED <<clickhouse, cursor, failures>>

(* A query fails: the read rejects, the cache keeps what it has.           *)
QueryFails(r) ==
    /\ Reading(r) /\ refresh.step # "idle"
    /\ refresh.step = "load" => refresh.todo # {}
    /\ failures < MaxFailures
    /\ failures' = failures + 1
    /\ End(r)
    /\ UNCHANGED <<clickhouse, cache>>
-----------------------------------------------------------------------------
Refresh(r) ==
    \/ Begin(r) \/ Latest(r) \/ Continuous(r) \/ Gap(r)
    \/ Changes(r) \/ (\E gap \in refresh.todo : Load(r, gap)) \/ Recheck(r) \/ Answer(r)

CacheNext ==
    \/ \E b \in Busy : Commit(b)
    \/ \E row \in transit : Journal(row)
    \/ Tick
    \/ \E time \in 0 .. MaxClock : Expire(time)
    \/ \E r \in Readers :
          (\E range \in Ranges : Call(r, range)) \/ Refresh(r) \/ QueryFails(r)

CacheSpec == CacheInit /\ [][CacheNext]_cacheVars

(* ClickHouse answers a query, or the query fails.                         *)
FairCacheSpec == CacheSpec /\ \A r \in Readers : WF_cacheVars(Refresh(r))
-----------------------------------------------------------------------------
(* The budget weighs what the cache holds, after any mixture of            *)
(* invalidation, partial loads, envelopes, failures and clearing.          *)
BudgetExact ==
    /\ weights = [b \in DOMAIN facts |-> Weight(facts[b])]
    /\ total = SumFunction(weights)

(* Type invariant.                                                         *)
CacheTypeOK ==
    /\ \A b \in Buckets : table[b] \in Nat
    /\ DOMAIN facts \subseteq Buckets
    /\ cursor.at \in -1 .. clock
    /\ refresh.page \in 1 .. MaxPages
    /\ refresh.step \in {"idle", "latest", "earliest", "relatest", "changes", "load"}
    /\ IsInjective(chain)
    /\ {r \in Readers : asked[r] # None} = Range(chain)
    /\ chain = <<>> => refresh = Idle
    /\ BudgetExact

(* A read that is answered includes every commit the journal had made      *)
(* known when the first load was over, whatever was cached, in whatever    *)
(* order the journal was written and whichever reads failed before.        *)
ReadIsFresh ==
    \A r \in Readers :
        (Reading(r) /\ refresh.step = "load" /\ refresh.again /\ refresh.todo = {}) =>
            \A b \in Span(asked[r]) :
                b \in DOMAIN facts /\ facts[b] >= refresh.floor[b]

(* "The cache never guesses that a historical bucket is immutable": a      *)
(* cached bucket that misses a commit has a journal row that will be read  *)
(* and drops it, or the cursor is older than the journal and everything    *)
(* will be dropped.                                                        *)
StaleIsJournaled ==
    \A b \in DOMAIN facts :
        facts[b] < table[b] =>
            \/ \E row \in journal \cup transit :
                  /\ row.bucket = b /\ row.version > facts[b]
                  /\ row.at >= cursor.at - Replay
            \/ journal # {} /\ \A row \in journal : row.at > cursor.at

(* Every read ends, also behind reads that fail.                           *)
EveryReadEnds == \A r \in Readers : asked[r] # None ~> asked[r] = None
=============================================================================
