---------------------------- MODULE Judge_proofs ----------------------------
(***************************************************************************)
(* Proofs about the judge: how an event comes to its decision              *)
(* (JudgmentPipeline) and which agent pool an L3 job uses (L3Pool).        *)
(*                                                                         *)
(* JudgmentPipeline, for any number of attempts, stalls and failures at    *)
(* any place, and whatever leaves memory or the cache of digests: the type *)
(* invariant, that only an overlooked decision has its revision given away *)
(* again, that what is applied is durable, that effects match decisions,   *)
(* and that a decision gives way only to a later one.                      *)
(*                                                                         *)
(* L3Pool, for any number of slots, pools and versions: the type           *)
(* invariant, that no pool is closed under a job, that none is forgotten,  *)
(* and that a lease is of the current model.                               *)
(***************************************************************************)
EXTENDS JudgmentPipeline, L3Pool, FiniteSetTheorems, SequenceTheorems, TLAPS

States == {"none", "waiting", "active", "done", "failed"}
JobRecords == [state : States, made : Nat, stalled : Nat]
Results == [stage : Stages \cup {"none"}, status : {"none", "succeeded", "failed"},
            verdict : {"none", "allow", "block", "escalate"}, awaitingL3 : BOOLEAN,
            at : Nat]
Steps == {"idle", "judge", "add", "publish", "cache", "report"}

(* The attempts and the stalls that the queue of job j grants.             *)
JobOK(x, j) ==
    /\ x \in JobRecords
    /\ x.made <= Attempts[j] /\ (x.made = Attempts[j] => x.state = "failed")
    /\ x.stalled <= MaxStalled + 1 /\ (x.stalled = MaxStalled + 1 => x.state = "failed")

(* The queues and the workers.                                             *)
JobsOK(jobs) == jobs \in [Jobs -> JobRecords] /\ \A j \in Jobs : JobOK(jobs[j], j)
JobInv == JobsOK(job)

ResultInv ==
    /\ result \in [Stages -> Results]
    /\ \A s \in Stages :
          /\ job[s].state = "none" <=> result[s] = NoResult
          /\ result[s] # NoResult => result[s].stage = s /\ result[s].at >= 1

PublishedLater(r) == r.stage \in Stages /\ r.at >= 1

WorkerInv ==
    /\ sourced \in BOOLEAN /\ clock \in Nat
    /\ pc \in [Workers -> Steps]
    /\ \A w \in Workers : pc[w] = "idle" <=> job[w].state # "active"
    /\ draft \in [Workers -> Results]
    /\ \A w \in Workers : pc[w] \in {"add", "publish", "cache"} => draft[w].stage \in Stages
    /\ pc["l3"] \in {"publish", "cache"} => PublishedLater(draft["l3"])
    /\ computed \in Results /\ (computed # NoResult => PublishedLater(computed))

(* The results of the event are applied one at a time.                     *)
LockInv ==
    /\ locks \in Seq(Stages)
    /\ \A i, k \in DOMAIN locks : locks[i] = locks[k] => i = k
    /\ \A s \in Stages : job[s].state = "active" <=> s \in Range(locks)
    /\ apply = [step |-> apply.step, row |-> apply.row]
    /\ apply.step \in {"idle", "persist", "effects"}
    /\ apply.step = "idle" => apply = NoApply
    /\ locks = <<>> => apply = NoApply

(* A row that is the decision of a result.                                 *)
DecisionOf(row) ==
    /\ row.rev \in Nat /\ row.rev >= 2 /\ row.at \in Nat /\ row.stage \in Stages
    /\ result[row.stage] # NoResult /\ row.at = result[row.stage].at

(* The event before and after its decisions; the API deals in no others.   *)
RowInv ==
    /\ overlooked \in BOOLEAN /\ Pending \in durable
    /\ \A row \in durable : row = Pending \/ DecisionOf(row)
    /\ mem # NoRow => mem = Pending \/ DecisionOf(mem)
    /\ apply.step # "idle" => DecisionOf(apply.row) /\ apply.row.stage = Head(locks)
    /\ \A e \in effects : DecisionOf(e)

(* A higher revision is a later decision, and no two have the same.        *)
InOrder(rows) == \A a, b \in rows : /\ a.rev < b.rev => a.at < b.at
                                    /\ a.rev = b.rev => a = b

(* As long as no decision was overlooked, the rows are in order, memory    *)
(* shows the last of them if it shows a decision, and the row that is      *)
(* written comes after them all.                                           *)
OrderInv ==
    ~overlooked =>
       /\ InOrder(durable)
       /\ mem # NoRow => mem = Pending \/ \A a \in durable : a.rev <= mem.rev
       /\ \A rev \in DOMAIN digests : \E a \in durable : a.rev = rev
       /\ apply.step = "persist" =>
             \A a \in durable : a.rev < apply.row.rev /\ a.at < apply.row.at

(* What is applied is durable, and a digest of a whole row is that of a    *)
(* row that is durable.                                                    *)
StoredInv ==
    /\ AppliedIsDurable
    /\ ~(sourced /\ overlooked) /\ apply.step = "effects" => apply.row \in durable
    /\ ~sourced => \A rev \in DOMAIN digests :
                      digests[rev] \in durable /\ digests[rev].rev = rev

ApiInv == LockInv /\ RowInv /\ OrderInv /\ StoredInv
IndInv == JobInv /\ ResultInv /\ WorkerInv /\ ApiInv

(* The workers change the result jobs in one way only: they add them.      *)
OnlyAdds ==
    \A s \in Stages :
       \/ job'[s] = job[s] /\ result'[s] = result[s]
       \/ job[s].state = "none" /\ job'[s].state = "waiting" /\ result'[s] # NoResult

-----------------------------------------------------------------------------
(* The jobs are those of the workers and those of the results.             *)
LEMMA JobFacts ==
    /\ Workers \subseteq Jobs /\ Stages \subseteq Jobs
    /\ "fast" \in Workers /\ "l3" \in Workers
    /\ \A w \in Workers : w \notin Stages
    /\ \A j \in Jobs : Attempts[j] \in Nat /\ Attempts[j] >= 1
    /\ MaxStalled \in Nat
BY PipelineAssumption DEF Jobs, Workers, Stages

(* What BullMQ makes of a job keeps within the grants of its queue.        *)
LEMMA JobStep ==
    ASSUME NEW j \in Jobs, NEW x \in JobRecords, JobOK(x, j),
           NEW st \in States, NEW made \in Nat, NEW stalled \in Nat,
           \/ st # "failed" /\ made = x.made /\ stalled = x.stalled
                 /\ x.state # "failed"
           \/ x.state = "active" /\ stalled = x.stalled /\ made = x.made + 1
                 /\ st = IF made >= Attempts[j] THEN "failed" ELSE "waiting"
           \/ x.state = "active" /\ made = x.made /\ stalled = x.stalled + 1
                 /\ st = IF x.stalled >= MaxStalled THEN "failed" ELSE "waiting"
    PROVE  JobOK([state |-> st, made |-> made, stalled |-> stalled], j)
<1>1. /\ x.made \in Nat /\ x.stalled \in Nat
      /\ x.made <= Attempts[j] /\ (x.made = Attempts[j] => x.state = "failed")
      /\ x.stalled <= MaxStalled + 1 /\ (x.stalled = MaxStalled + 1 => x.state = "failed")
  BY DEF JobOK, JobRecords
<1>2. Attempts[j] \in Nat /\ MaxStalled \in Nat
  BY JobFacts
<1>3. /\ made <= Attempts[j] /\ (made = Attempts[j] => st = "failed")
      /\ stalled <= MaxStalled + 1 /\ (stalled = MaxStalled + 1 => st = "failed")
  BY <1>1, <1>2
<1> QED
  BY <1>3 DEF JobOK, JobRecords

Taken(jobs, j) == [jobs EXCEPT ![j].state = "active"]

(* The jobs differ in job j only, which becomes x.                         *)
Becomes(new, jobs, j, x) ==
    /\ JobsOK(new) /\ new[j] = x
    /\ \A i \in Jobs : i # j => new[i] = jobs[i]

(* Replacing one job leaves the others alone,                              *)
LEMMA Replaced ==
    ASSUME NEW jobs, JobsOK(jobs), NEW j \in Jobs, NEW x \in JobRecords, JobOK(x, j),
           NEW new, new = [jobs EXCEPT ![j] = x]
    PROVE  Becomes(new, jobs, j, x)
BY DEF Becomes, JobsOK

(* which is what BullMQ does when a job ends, fails or stalls.             *)
LEMMA JobOperations ==
    ASSUME NEW jobs, JobsOK(jobs), NEW j \in Jobs
    PROVE  /\ jobs[j].state = "active" =>
                 \A new \in {Completed(jobs, j), Retried(jobs, j), Stalled(jobs, j)} :
                    /\ Becomes(new, jobs, j, new[j])
                    /\ new[j].state \in {"done", "failed", "waiting"}
           /\ jobs[j].state = "active" => Completed(jobs, j)[j].state = "done"
           /\ jobs[j].state = "active" => Retried(jobs, j)[j].state # "done"
           /\ jobs[j].state = "active" => Stalled(jobs, j)[j].state # "done"
           /\ jobs[j].state = "waiting" =>
                 /\ Becomes(Taken(jobs, j), jobs, j, Taken(jobs, j)[j])
                 /\ Taken(jobs, j)[j].state = "active"
           /\ Becomes(Added(jobs, j), jobs, j, Added(jobs, j)[j])
           /\ jobs[j].state = "none" => Added(jobs, j)[j].state = "waiting"
           /\ jobs[j].state # "none" => Added(jobs, j)[j] = jobs[j]
<1> DEFINE Made    == IF jobs[j].made + 1 >= Attempts[j] THEN "failed" ELSE "waiting"
           Stall   == IF jobs[j].stalled >= MaxStalled THEN "failed" ELSE "waiting"
           C == [state |-> "done", made |-> 0, stalled |-> 0]
           R == [state |-> Made, made |-> jobs[j].made + 1, stalled |-> jobs[j].stalled]
           S == [state |-> Stall, made |-> jobs[j].made, stalled |-> jobs[j].stalled + 1]
           A == [state |-> "active", made |-> jobs[j].made, stalled |-> jobs[j].stalled]
           W == [state |-> "waiting", made |-> jobs[j].made, stalled |-> jobs[j].stalled]
<1>1. /\ jobs[j] \in JobRecords /\ JobOK(jobs[j], j) /\ jobs \in [Jobs -> JobRecords]
      /\ jobs[j].made \in Nat /\ jobs[j].stalled \in Nat
      /\ jobs[j] = [state |-> jobs[j].state, made |-> jobs[j].made, stalled |-> jobs[j].stalled]
  BY DEF JobsOK, JobRecords
<1>2. Attempts[j] \in Nat /\ MaxStalled \in Nat
  BY JobFacts
<1>3. /\ C \in JobRecords /\ R \in JobRecords /\ S \in JobRecords
      /\ A \in JobRecords /\ W \in JobRecords
  BY <1>1 DEF JobRecords, States
<1>4. JobOK(C, j)
  BY <1>2, <1>3, JobFacts DEF JobOK
<1>5. jobs[j].state = "active" => JobOK(R, j)
  <2> Made \in States /\ jobs[j].made + 1 \in Nat
    BY <1>1 DEF States
  <2> QED
    BY <1>1, JobStep
<1>6. jobs[j].state = "active" => JobOK(S, j)
  <2> Stall \in States /\ jobs[j].stalled + 1 \in Nat
    BY <1>1 DEF States
  <2> QED
    BY <1>1, JobStep
<1>7. jobs[j].state = "waiting" => JobOK(A, j)
  BY <1>1, JobStep DEF States
<1>8. jobs[j].state = "none" => JobOK(W, j)
  BY <1>1, JobStep DEF States
<1>9. /\ Completed(jobs, j) = [jobs EXCEPT ![j] = C]
      /\ Taken(jobs, j) = [jobs EXCEPT ![j] = A]
      /\ Added(jobs, j) = IF jobs[j].state = "none" THEN [jobs EXCEPT ![j] = W] ELSE jobs
  <2>1. \A st \in States : [jobs[j] EXCEPT !.state = st]
             = [state |-> st, made |-> jobs[j].made, stalled |-> jobs[j].stalled]
    BY <1>1 DEF JobRecords
  <2>2. \A st \in States : [jobs EXCEPT ![j].state = st]
             = [jobs EXCEPT ![j] = [state |-> st, made |-> jobs[j].made,
                                    stalled |-> jobs[j].stalled]]
    BY <2>1, Zenon
  <2> QED
    <3>1. Completed(jobs, j) = [jobs EXCEPT ![j] = C]
      <4>1. [NoJob EXCEPT !.state = "done"] = C
        BY DEF NoJob
      <4> QED
        BY <4>1, Zenon DEF Completed
    <3>2. Taken(jobs, j) = [jobs EXCEPT ![j] = A]
      BY <2>2 DEF Taken, States
    <3>3. Added(jobs, j) = IF jobs[j].state = "none" THEN [jobs EXCEPT ![j] = W] ELSE jobs
      BY <2>2 DEF Added, States
    <3> QED
      BY <3>1, <3>2, <3>3
<1>10. Retried(jobs, j) = [jobs EXCEPT ![j] = R]
  <2> DEFINE x == [jobs[j] EXCEPT !.made = @ + 1]
  <2>1. [x EXCEPT !.state = Made] = R
    <3>1. x = [state |-> jobs[j].state, made |-> jobs[j].made + 1,
               stalled |-> jobs[j].stalled]
      BY <1>1 DEF JobRecords
    <3> HIDE DEF x, Made
    <3> QED
      BY <3>1
  <2>2. Retried(jobs, j) = [[jobs EXCEPT ![j] = x] EXCEPT
                              ![j] = [[jobs EXCEPT ![j] = x][j] EXCEPT !.state = Made]]
    BY Zenon DEF Retried
  <2>3. [jobs EXCEPT ![j] = x][j] = x
    BY <1>1
  <2> HIDE DEF x, R
  <2>4. [[jobs EXCEPT ![j] = x] EXCEPT ![j] = R] = [jobs EXCEPT ![j] = R]
    BY <1>1
  <2> QED
    BY <2>1, <2>2, <2>3, <2>4, Zenon
<1>11. Stalled(jobs, j) = [jobs EXCEPT ![j] = S]
  <2> DEFINE x == [jobs[j] EXCEPT !.stalled = @ + 1]
  <2>1. [x EXCEPT !.state = Stall] = S
    <3>1. x = [state |-> jobs[j].state, made |-> jobs[j].made,
               stalled |-> jobs[j].stalled + 1]
      BY <1>1 DEF JobRecords
    <3> HIDE DEF x, Stall
    <3> QED
      BY <3>1
  <2>2. Stalled(jobs, j) = [[jobs EXCEPT ![j] = x] EXCEPT
                              ![j] = [[jobs EXCEPT ![j] = x][j] EXCEPT !.state = Stall]]
    BY Zenon DEF Stalled
  <2>3. [jobs EXCEPT ![j] = x][j] = x
    BY <1>1
  <2> HIDE DEF x, S
  <2>4. [[jobs EXCEPT ![j] = x] EXCEPT ![j] = S] = [jobs EXCEPT ![j] = S]
    BY <1>1
  <2> QED
    BY <2>1, <2>2, <2>3, <2>4, Zenon
<1>12. /\ C.state = "done" /\ R.state \in {"failed", "waiting"}
       /\ S.state \in {"failed", "waiting"} /\ A.state = "active" /\ W.state = "waiting"
  OBVIOUS
<1> HIDE DEF C, R, S, A, W
<1>13. jobs[j].state = "active" => /\ Becomes(Completed(jobs, j), jobs, j, C)
                                  /\ Becomes(Retried(jobs, j), jobs, j, R)
                                  /\ Becomes(Stalled(jobs, j), jobs, j, S)
  BY <1>3, <1>4, <1>5, <1>6, <1>9, <1>10, <1>11, Replaced
<1>14. jobs[j].state = "waiting" => Becomes(Taken(jobs, j), jobs, j, A)
  BY <1>3, <1>7, <1>9, Replaced
<1>15. /\ jobs[j].state = "none" => Becomes(Added(jobs, j), jobs, j, W)
       /\ jobs[j].state # "none" => Becomes(Added(jobs, j), jobs, j, jobs[j])
  <2>1. CASE jobs[j].state = "none"
    BY <2>1, <1>3, <1>8, <1>9, Replaced
  <2>2. CASE jobs[j].state # "none"
    BY <2>2, <1>9 DEF Becomes
  <2> QED
    BY <2>1, <2>2
<1> QED
  BY <1>12, <1>13, <1>14, <1>15 DEF Becomes

(* A step of the workers that adds at most the result jobs it fills in     *)
(* leaves what the API has done as it is.                                  *)
LEMMA WorkersLeaveApi ==
    ASSUME IndInv, OnlyAdds, UNCHANGED <<sourced, api, stores>>
    PROVE  ApiInv'
<1>1. \A s \in Stages : /\ job'[s].state = "active" <=> job[s].state = "active"
                        /\ job'[s].state = "done" <=> job[s].state = "done"
                        /\ result[s] # NoResult => result'[s] = result[s]
  BY DEF OnlyAdds, IndInv, ResultInv
<1>2. \A s \in Stages : job[s].state # "none" => result[s] # NoResult
  BY DEF IndInv, ResultInv
<1>3. LockInv'
  BY <1>1 DEF IndInv, ApiInv, LockInv, api
<1>4. RowInv'
  <2>1. \A row : DecisionOf(row) => DecisionOf(row)'
    BY <1>1 DEF DecisionOf
  <2> QED
    BY <2>1 DEF IndInv, ApiInv, RowInv, api, stores
<1>5. OrderInv'
  BY DEF IndInv, ApiInv, OrderInv, InOrder, api, stores
<1>6. StoredInv'
  <2>1. \A s \in Stages : job'[s].state = "done" =>
           job[s].state = "done" /\ result'[s] = result[s]
    BY <1>1, <1>2
  <2> QED
    BY <2>1 DEF IndInv, ApiInv, StoredInv, AppliedIsDurable, ResultsAreDurable, api, stores
<1> QED
  BY <1>3, <1>4, <1>5, <1>6 DEF ApiInv

-----------------------------------------------------------------------------
(* The workers.                                                            *)

(* What a worker may do to the queues besides ending its own job.          *)
AddsTo(jobs) ==
    \/ jobs \in {job, Added(job, "l3")} /\ result' = result
    \/ \E r \in Results : /\ PublishedLater(r)
                         /\ jobs = Added(job, r.stage) /\ result' = Enqueued(r)

(* The jobs that come into being, and with them their results.             *)
Adding(jobs) ==
    /\ JobsOK(jobs)
    /\ \A j \in Jobs : IF job[j].state = "none"
                       THEN jobs[j].state \in {"none", "waiting"}
                       ELSE jobs[j] = job[j]
    /\ result' \in [Stages -> Results]
    /\ \A s \in Stages :
          \/ jobs[s] = job[s] /\ result'[s] = result[s]
          \/ /\ job[s].state = "none" /\ jobs[s].state = "waiting"
             /\ result'[s] # NoResult /\ result'[s].stage = s /\ result'[s].at >= 1

(* Adding a result job leaves the jobs that exist.                         *)
LEMMA AddingFacts ==
    ASSUME IndInv, NEW jobs, AddsTo(jobs)
    PROVE  Adding(jobs)
<1> USE DEF Adding
<1>1. JobsOK(job) /\ ResultInv
  BY DEF IndInv, JobInv
<1>2. CASE jobs = job /\ result' = result
  BY <1>1, <1>2 DEF ResultInv
<1>3. CASE jobs = Added(job, "l3") /\ result' = result
  <2>1. /\ Becomes(jobs, job, "l3", jobs["l3"])
        /\ job["l3"].state = "none" => jobs["l3"].state = "waiting"
        /\ job["l3"].state # "none" => jobs["l3"] = job["l3"]
    BY <1>1, <1>3, JobFacts, JobOperations
  <2> QED
    BY <1>1, <1>3, <2>1, JobFacts DEF ResultInv, Becomes
<1>4. ASSUME NEW r \in Results, PublishedLater(r),
             jobs = Added(job, r.stage), result' = Enqueued(r)
      PROVE  Adding(jobs)
  <2>1. r.stage \in Stages /\ r.stage \in Jobs /\ r # NoResult /\ r.at >= 1
    BY <1>4, JobFacts DEF PublishedLater, NoResult, Stages
  <2>2. /\ Becomes(jobs, job, r.stage, jobs[r.stage])
        /\ job[r.stage].state = "none" => jobs[r.stage].state = "waiting"
        /\ job[r.stage].state # "none" => jobs[r.stage] = job[r.stage]
    BY <1>1, <1>4, <2>1, JobOperations
  <2>3. /\ result' \in [Stages -> Results]
        /\ \A s \in Stages : s # r.stage => result'[s] = result[s]
        /\ job[r.stage].state = "none" => result'[r.stage] = r
        /\ job[r.stage].state # "none" => result' = result
    BY <1>1, <1>4, <2>1 DEF Enqueued, ResultInv
  <2> QED
    BY <1>1, <2>1, <2>2, <2>3, JobFacts DEF Becomes
<1> QED
  BY <1>2, <1>3, <1>4 DEF AddsTo

(* One step of worker w, which it leaves at step with result r in hand.    *)
LEMMA WorkerStep ==
    ASSUME IndInv, NEW w \in Workers, NEW jobs, AddsTo(jobs),
           Becomes(job', jobs, w, job'[w]),
           NEW step \in Steps, NEW r \in Results,
           pc' = [pc EXCEPT ![w] = step], draft' = [draft EXCEPT ![w] = r],
           step = "idle" <=> job'[w].state # "active",
           step \in {"add", "publish", "cache"} => r.stage \in Stages,
           w = "l3" /\ step \in {"publish", "cache"} => PublishedLater(r),
           clock' \in Nat,
           \/ UNCHANGED computed
           \/ computed' \in Results /\ PublishedLater(computed'),
           UNCHANGED <<sourced, api, stores>>
    PROVE  IndInv'
<1> Adding(jobs)
  BY AddingFacts
<1> USE DEF Adding
<1>1. JobInv' /\ ResultInv' /\ OnlyAdds
  <2>1. \A s \in Stages : job'[s] = jobs[s]
    BY JobFacts DEF Becomes
  <2>2. ResultInv'
    BY <2>1, JobFacts DEF ResultInv, IndInv
  <2>3. OnlyAdds
    BY <2>1 DEF OnlyAdds
  <2> QED
    BY <2>2, <2>3 DEF Becomes, JobInv
<1>2. WorkerInv'
  <2>1. \A v \in Workers : v # w =>
           (job'[v].state = "active" <=> job[v].state = "active")
    BY JobFacts DEF Becomes
  <2>2. WorkerInv
    BY DEF IndInv
  <2>3. /\ pc' \in [Workers -> Steps] /\ pc'[w] = step
        /\ draft' \in [Workers -> Results] /\ draft'[w] = r
        /\ \A v \in Workers : v # w => pc'[v] = pc[v] /\ draft'[v] = draft[v]
    BY <2>2 DEF WorkerInv
  <2> QED
    BY <2>1, <2>2, <2>3, JobFacts DEF WorkerInv, PublishedLater
<1>3. ApiInv'
  BY <1>1, WorkersLeaveApi
<1> QED
  BY <1>1, <1>2, <1>3 DEF IndInv

(* No result yet is a result record.                                       *)
LEMMA NoResultIsResult == NoResult \in Results
BY DEF NoResult, Results

(* A worker that is at work has an active job.                             *)
LEMMA BusyWorker ==
    ASSUME IndInv, NEW w \in Workers, pc[w] # "idle", NEW jobs, AddsTo(jobs)
    PROVE  JobsOK(jobs) /\ w \in Jobs /\ jobs[w] = job[w] /\ jobs[w].state = "active"
<1>1. job[w].state = "active" /\ w \in Jobs
  BY JobFacts DEF IndInv, WorkerInv
<1> QED
  BY <1>1, AddingFacts DEF Adding

(* Worker w goes on with its job.                                          *)
LEMMA WorkerGoesOn ==
    ASSUME IndInv, NEW w \in Workers, pc[w] # "idle", NEW jobs, AddsTo(jobs),
           job' = jobs, NEW step \in Steps, step # "idle", NEW r \in Results,
           pc' = [pc EXCEPT ![w] = step], draft' = [draft EXCEPT ![w] = r],
           step \in {"add", "publish", "cache"} => r.stage \in Stages,
           w = "l3" /\ step \in {"publish", "cache"} => PublishedLater(r),
           clock' \in Nat,
           \/ UNCHANGED computed
           \/ computed' \in Results /\ PublishedLater(computed'),
           UNCHANGED <<sourced, api, stores>>
    PROVE  IndInv'
<1>1. JobsOK(jobs) /\ jobs[w].state = "active"
  BY BusyWorker
<1>2. Becomes(job', jobs, w, job'[w])
  BY <1>1 DEF Becomes
<1> QED
  BY <1>1, <1>2, WorkerStep

(* Its job ends, or will be run again.                                     *)
LEMMA WorkerEnds ==
    ASSUME IndInv, NEW w \in Workers, pc[w] # "idle", NEW jobs, AddsTo(jobs),
           job' \in {Completed(jobs, w), Retried(jobs, w), Stalled(jobs, w)},
           Leave(w), clock' \in Nat, UNCHANGED <<sourced, computed, api, stores>>
    PROVE  IndInv'
<1>1. JobsOK(jobs) /\ w \in Jobs /\ jobs[w].state = "active"
  BY BusyWorker
<1>2. Becomes(job', jobs, w, job'[w]) /\ job'[w].state # "active"
  <2>1. /\ Becomes(job', jobs, w, job'[w])
        /\ job'[w].state \in {"done", "failed", "waiting"}
    BY <1>1, JobOperations
  <2> QED
    BY <2>1
<1>3. "idle" \in Steps /\ NoResult \in Results
  BY NoResultIsResult DEF Steps
<1> QED
  BY <1>2, <1>3, WorkerStep DEF Leave

(* A step that throws repeats the job or reports its last failure.         *)
LEMMA WorkerThrows ==
    ASSUME IndInv, NEW w \in Workers, pc[w] # "idle", NEW jobs, AddsTo(jobs),
           Throw(w, jobs), clock' \in Nat, UNCHANGED <<sourced, computed, api, stores>>
    PROVE  IndInv'
<1>1. CASE FinalAttempt(w)
  <2> "report" \in Steps /\ NoResult \in Results
    BY NoResultIsResult DEF Steps
  <2> QED
    BY <1>1, WorkerGoesOn DEF Throw
<1>2. CASE ~FinalAttempt(w)
  BY <1>2, WorkerEnds DEF Throw
<1> QED
  BY <1>1, <1>2

(* What a worker is about to publish, and what it publishes on failure.    *)
LEMMA PublishedFacts ==
    ASSUME IndInv, NEW w \in Workers
    PROVE  /\ pc[w] = "publish" =>
                 /\ Stamped(w) \in Results /\ PublishedLater(Stamped(w))
                 /\ Stamped(w).stage = draft[w].stage
           /\ Failure(w) \in Results /\ PublishedLater(Failure(w))
           /\ Tick(w) => clock' \in Nat
<1>1. /\ clock \in Nat /\ draft[w] \in Results
      /\ pc[w] = "publish" => draft[w].stage \in Stages
      /\ pc["l3"] = "publish" => PublishedLater(draft["l3"])
  BY DEF IndInv, WorkerInv
<1>2. w \in {"fast", "l3"}
  BY DEF Workers
<1>3. /\ [draft[w] EXCEPT !.at = clock + 1] \in Results
      /\ [draft[w] EXCEPT !.at = clock + 1].stage = draft[w].stage
      /\ [draft[w] EXCEPT !.at = clock + 1].at = clock + 1
  BY <1>1 DEF Results
<1>4. \A x \in Results : \A at \in Nat :
         /\ [x EXCEPT !.status = "failed"] \in Results
         /\ [x EXCEPT !.status = "failed"].stage = x.stage
         /\ [x EXCEPT !.at = at] \in Results
         /\ [x EXCEPT !.at = at].stage = x.stage /\ [x EXCEPT !.at = at].at = at
  BY DEF Results
<1>5. Failure(w) \in Results /\ PublishedLater(Failure(w))
  <2> DEFINE stage == IF w = "fast" THEN "L2" ELSE "L3"
             x == Judged(stage, "none", FALSE)
             y == [x EXCEPT !.status = "failed"]
  <2>1. stage \in Stages
    BY DEF Stages
  <2>2. x \in Results /\ x.stage = stage
    BY <2>1 DEF Judged, Results
  <2>3. Failure(w) = [y EXCEPT !.at = clock + 1]
    BY Zenon DEF Failure, Failed
  <2> HIDE DEF x, stage
  <2>4. y \in Results /\ y.stage = stage
    BY <1>4, <2>2, <1>1
  <2> HIDE DEF y
  <2>5. clock + 1 \in Nat /\ clock + 1 >= 1
    BY <1>1
  <2> DEFINE z == [y EXCEPT !.at = clock + 1]
  <2>6. z \in Results /\ z.stage = stage /\ z.at = clock + 1
    BY <1>4, <2>4, <2>5
  <2> HIDE DEF z
  <2>7. Failure(w) = z
    BY <2>3 DEF z
  <2> QED
    BY <2>1, <2>5, <2>6, <2>7 DEF PublishedLater
<1>6. Tick(w) => clock' \in Nat
  BY <1>1 DEF Tick
<1>7. pc[w] = "publish" => /\ Stamped(w) \in Results /\ PublishedLater(Stamped(w))
                          /\ Stamped(w).stage = draft[w].stage
  <2>1. CASE w = "fast"
    BY <1>1, <1>3, <2>1 DEF Stamped, PublishedLater
  <2>2. CASE w = "l3"
    BY <1>1, <2>2 DEF Stamped, PublishedLater
  <2> QED
    BY <1>2, <2>1, <2>2
<1> QED
  BY <1>5, <1>6, <1>7

(* A step that leaves the results alone adds no job.                       *)
LEMMA NothingAdded == result' = result => AddsTo(job)
BY DEF AddsTo

(* The steps of a worker preserve the invariant.                           *)
LEMMA WorkersPreserve ==
    ASSUME IndInv, NEW w \in Workers,
           Work(w) \/ CallFails(w) \/ ReportFails(w) \/ WorkerDies(w)
    PROVE  IndInv'
<1>1. /\ JobsOK(job) /\ w \in Jobs /\ clock \in Nat
      /\ pc \in [Workers -> Steps] /\ draft \in [Workers -> Results]
      /\ draft = [draft EXCEPT ![w] = draft[w]]
      /\ pc[w] \in {"add", "publish", "cache"} => draft[w].stage \in Stages
      /\ pc["l3"] \in {"publish", "cache"} => PublishedLater(draft["l3"])
      /\ computed \in Results /\ (computed # NoResult => PublishedLater(computed))
  BY JobFacts DEF IndInv, JobInv, WorkerInv
<1>2. {"idle", "judge", "add", "publish", "cache", "report"} = Steps
  BY DEF Steps
<1>3. CASE TakeJob(w)
  <2>1. job' = Taken(job, w) /\ job[w].state = "waiting" /\ AddsTo(job)
    BY <1>3, NothingAdded DEF TakeJob, Take, Taken
  <2>2. Becomes(job', job, w, job'[w]) /\ job'[w].state = "active"
    BY <1>1, <2>1, JobOperations
  <2>3. /\ pc' = [pc EXCEPT ![w] = "judge"] /\ draft' = [draft EXCEPT ![w] = draft[w]]
        /\ clock' \in Nat /\ UNCHANGED <<computed, sourced, api, stores>>
    BY <1>1, <1>3 DEF TakeJob
  <2> QED
    BY <1>1, <1>2, <2>1, <2>2, <2>3, WorkerStep
<1>4. ASSUME NEW outcome \in FastOutcomes, w = "fast", FastJudge(outcome)
      PROVE  IndInv'
  <2>1. outcome \in Results /\ outcome.stage \in Stages
    <3>1. PICK s \in Stages, v \in {"allow", "block", "escalate"}, b \in BOOLEAN :
             outcome = Judged(s, v, b)
      <4>1. CASE \E v \in {"allow", "block"} : outcome = Judged("L1", v, FALSE)
        BY <4>1 DEF Stages
      <4>2. CASE \E v \in {"allow", "block", "escalate"} : outcome = Judged("L2", v, FALSE)
        BY <4>2 DEF Stages
      <4>3. CASE outcome = Judged("L2", "escalate", TRUE)
        BY <4>3 DEF Stages
      <4> QED
        BY <1>4, <4>1, <4>2, <4>3, Zenon DEF FastOutcomes
    <3> QED
      BY <3>1 DEF Judged, Results
  <2> DEFINE step == IF outcome.awaitingL3 THEN "add" ELSE "publish"
  <2>2. step \in Steps /\ step # "idle"
    BY <1>2
  <2>3. /\ pc[w] # "idle" /\ job' = job /\ AddsTo(job) /\ pc' = [pc EXCEPT ![w] = step]
        /\ draft' = [draft EXCEPT ![w] = outcome]
        /\ clock' \in Nat /\ UNCHANGED <<computed, sourced, api, stores>>
    BY <1>1, <1>4, NothingAdded DEF FastJudge, queues
  <2> HIDE DEF step
  <2> QED
    BY <1>4, <2>1, <2>2, <2>3, WorkerGoesOn
<1>5. CASE w = "fast" /\ AddL3
  <2>1. /\ pc[w] = "add" /\ job' = Added(job, "l3") /\ AddsTo(Added(job, "l3"))
        /\ pc' = [pc EXCEPT ![w] = "publish"] /\ draft' = [draft EXCEPT ![w] = draft[w]]
        /\ clock' \in Nat /\ UNCHANGED <<computed, sourced, api, stores>>
    BY <1>1, <1>5 DEF AddL3, AddsTo
  <2> QED
    BY <1>1, <1>2, <1>5, <2>1, WorkerGoesOn
<1>6. CASE w = "l3" /\ L3Cached
  <2>1. /\ pc[w] = "judge" /\ job' = job /\ AddsTo(job) /\ PublishedLater(computed)
        /\ pc' = [pc EXCEPT ![w] = "publish"] /\ draft' = [draft EXCEPT ![w] = computed]
        /\ clock' \in Nat /\ UNCHANGED <<computed, sourced, api, stores>>
    BY <1>1, <1>6, NothingAdded DEF L3Cached, queues
  <2> QED
    BY <1>1, <1>2, <2>1, WorkerGoesOn DEF PublishedLater
<1>7. ASSUME NEW v \in {"allow", "block"}, w = "l3", L3Judge(v)
      PROVE  IndInv'
  <2> DEFINE r == [Judged("L3", v, FALSE) EXCEPT !.at = clock + 1]
  <2>1. r \in Results /\ PublishedLater(r)
    <3>1. Judged("L3", v, FALSE) \in Results /\ Judged("L3", v, FALSE).stage = "L3"
      BY DEF Judged, Results, Stages
    <3>2. clock + 1 \in Nat /\ clock + 1 >= 1
      BY <1>1
    <3> QED
      BY <3>1, <3>2 DEF Results, PublishedLater, Stages
  <2>2. /\ pc[w] = "judge" /\ job' = job /\ AddsTo(job)
        /\ pc' = [pc EXCEPT ![w] = "cache"] /\ draft' = [draft EXCEPT ![w] = r]
        /\ clock' \in Nat /\ UNCHANGED <<computed, sourced, api, stores>>
    BY <1>1, <1>7, NothingAdded DEF L3Judge, queues
  <2> HIDE DEF r
  <2> QED
    BY <1>2, <2>1, <2>2, WorkerGoesOn DEF PublishedLater
<1>8. CASE w = "l3" /\ L3Cache
  <2>1. /\ pc[w] = "cache" /\ job' = job /\ AddsTo(job)
        /\ pc' = [pc EXCEPT ![w] = "publish"] /\ draft' = [draft EXCEPT ![w] = draft[w]]
        /\ computed' = draft[w] /\ clock' \in Nat /\ UNCHANGED <<sourced, api, stores>>
    BY <1>1, <1>8, NothingAdded DEF L3Cache, queues
  <2> QED
    BY <1>1, <1>2, <1>8, <2>1, WorkerGoesOn
<1>9. CASE PublishResult(w)
  <2> DEFINE jobs == Added(job, draft[w].stage)
  <2>1. pc[w] = "publish" /\ AddsTo(jobs)
    BY <1>9, PublishedFacts DEF PublishResult, AddsTo
  <2> HIDE DEF jobs
  <2>2. /\ job' = Completed(jobs, w) /\ Leave(w)
        /\ clock' \in Nat /\ UNCHANGED <<sourced, computed, api, stores>>
    BY <1>9, PublishedFacts DEF PublishResult, jobs
  <2> QED
    BY <2>1, <2>2, WorkerEnds
<1>10. CASE ReportFailure(w)
  <2> DEFINE jobs == Added(job, Failure(w).stage)
  <2>1. pc[w] = "report" /\ AddsTo(jobs)
    BY <1>10, PublishedFacts DEF ReportFailure, AddsTo
  <2> HIDE DEF jobs
  <2>2. /\ job' = Completed(jobs, w) /\ Leave(w)
        /\ clock' \in Nat /\ UNCHANGED <<sourced, computed, api, stores>>
    BY <1>1, <1>10 DEF ReportFailure, jobs
  <2> QED
    BY <2>1, <2>2, WorkerEnds
<1>11. CASE CallFails(w)
  <2>1. pc[w] # "idle" /\ UNCHANGED <<sourced, computed, api, stores>>
    BY <1>11 DEF CallFails
  <2>2. CASE Throw(w, job) /\ UNCHANGED <<result, clock>>
    BY <1>1, <2>1, <2>2, NothingAdded, WorkerThrows
  <2>3. CASE Throw(w, Added(job, "l3")) /\ UNCHANGED <<result, clock>>
    <3> DEFINE jobs == Added(job, "l3")
    <3>1. AddsTo(jobs)
      BY <2>3 DEF AddsTo
    <3>2. Throw(w, jobs) /\ clock' \in Nat
      BY <1>1, <2>3
    <3> HIDE DEF jobs
    <3> QED
      BY <2>1, <3>1, <3>2, WorkerThrows
  <2>4. CASE /\ pc[w] = "publish" /\ Tick(w) /\ result' = Enqueued(Stamped(w))
             /\ Throw(w, Added(job, draft[w].stage))
    <3> DEFINE jobs == Added(job, draft[w].stage)
    <3>1. AddsTo(jobs) /\ clock' \in Nat
      BY <2>4, PublishedFacts DEF AddsTo
    <3>2. Throw(w, jobs)
      BY <2>4
    <3> HIDE DEF jobs
    <3> QED
      BY <2>1, <3>1, <3>2, WorkerThrows
  <2> QED
    BY <1>11, <2>2, <2>3, <2>4 DEF CallFails
<1>12. CASE ReportFails(w)
  <2>1. /\ pc[w] # "idle" /\ AddsTo(job) /\ job' = Retried(job, w) /\ Leave(w)
        /\ clock' \in Nat /\ UNCHANGED <<sourced, computed, api, stores>>
    BY <1>1, <1>12, NothingAdded DEF ReportFails
  <2> QED
    BY <2>1, WorkerEnds
<1>13. CASE WorkerDies(w)
  <2>1. /\ pc[w] # "idle" /\ AddsTo(job) /\ job' = Stalled(job, w) /\ Leave(w)
        /\ clock' \in Nat /\ UNCHANGED <<sourced, computed, api, stores>>
    BY <1>1, <1>13, NothingAdded DEF WorkerDies
  <2> QED
    BY <2>1, WorkerEnds
<1> QED
  BY <1>3, <1>4, <1>5, <1>6, <1>7, <1>8, <1>9, <1>10, <1>11, <1>12, <1>13 DEF Work

-----------------------------------------------------------------------------
(* The API.                                                                *)

(* The holder of the lock, and those behind it.                            *)
LEMMA LockFacts ==
    ASSUME IndInv, NEW s \in Stages, HasLock(s)
    PROVE  /\ s = Head(locks) /\ s \in Range(locks) /\ job[s].state = "active"
           /\ Tail(locks) \in Seq(Stages)
           /\ \A t : t \in Range(Tail(locks)) <=> t \in Range(locks) /\ t # s
           /\ \A i, k \in DOMAIN Tail(locks) : Tail(locks)[i] = Tail(locks)[k] => i = k
           /\ result[s] # NoResult /\ result[s].stage = s
           /\ result[s].at \in Nat /\ result[s].at >= 1
<1>1. /\ locks \in Seq(Stages) /\ locks # <<>> /\ Head(locks) = s
      /\ \A i, k \in DOMAIN locks : locks[i] = locks[k] => i = k
      /\ \A t \in Stages : job[t].state = "active" <=> t \in Range(locks)
  BY DEF IndInv, ApiInv, LockInv, HasLock
<1>2. /\ Tail(locks) \in Seq(Stages) /\ Len(Tail(locks)) = Len(locks) - 1 /\ Len(locks) \in Nat
      /\ Len(locks) >= 1 /\ DOMAIN locks = 1 .. Len(locks)
      /\ DOMAIN Tail(locks) = 1 .. (Len(locks) - 1)
      /\ \A i \in 1 .. (Len(locks) - 1) : Tail(locks)[i] = locks[i + 1]
      /\ locks[1] = s
  BY <1>1
<1>3. s \in Range(locks)
  BY <1>2 DEF Range
<1>4. ASSUME NEW t \in Range(Tail(locks)) PROVE t \in Range(locks) /\ t # s
  <2>1. PICK i \in DOMAIN Tail(locks) : t = Tail(locks)[i]
    BY DEF Range
  <2>2. i + 1 \in DOMAIN locks /\ t = locks[i + 1] /\ 1 \in DOMAIN locks /\ i + 1 # 1
    BY <1>2, <2>1
  <2> QED
    BY <1>1, <1>2, <2>2 DEF Range
<1>5. ASSUME NEW t \in Range(locks), t # s PROVE t \in Range(Tail(locks))
  <2>1. PICK i \in DOMAIN locks : t = locks[i]
    BY DEF Range
  <2>2. i - 1 \in DOMAIN Tail(locks) /\ Tail(locks)[i - 1] = t
    BY <1>2, <1>5, <2>1
  <2> QED
    BY <2>2 DEF Range
<1>6. \A i, k \in DOMAIN Tail(locks) : Tail(locks)[i] = Tail(locks)[k] => i = k
  <2> SUFFICES ASSUME NEW i \in DOMAIN Tail(locks), NEW k \in DOMAIN Tail(locks),
                      Tail(locks)[i] = Tail(locks)[k]
               PROVE  i = k
    OBVIOUS
  <2>1. i + 1 \in DOMAIN locks /\ k + 1 \in DOMAIN locks /\ locks[i + 1] = locks[k + 1]
    BY <1>2
  <2>2. i + 1 = k + 1
    BY <1>1, <2>1
  <2> QED
    BY <1>2, <2>2
<1>7. job[s].state = "active"
  BY <1>1, <1>3
<1>8. /\ result[s] # NoResult /\ result[s].stage = s
      /\ result[s].at \in Nat /\ result[s].at >= 1
  BY <1>7 DEF IndInv, ResultInv, Results
<1> QED
  BY <1>1, <1>2, <1>3, <1>4, <1>5, <1>6, <1>7, <1>8

(* The API changes the state of one result job and leaves the workers.     *)
LEMMA ApiQueues ==
    ASSUME IndInv, NEW s \in Stages, job[s].state # "none", job'[s].state # "none",
           Becomes(job', job, s, job'[s]), UNCHANGED <<result, sourced, workers>>
    PROVE  JobInv' /\ ResultInv' /\ WorkerInv'
<1>1. JobInv'
  BY DEF Becomes, JobInv
<1>2. ResultInv'
  BY JobFacts DEF Becomes, ResultInv, IndInv
<1>3. WorkerInv'
  <2>1. \A w \in Workers : job'[w] = job[w]
    BY JobFacts DEF Becomes
  <2> QED
    BY <2>1 DEF WorkerInv, IndInv, workers, PublishedLater
<1> QED
  BY <1>1, <1>2, <1>3

(* The result job at the head of the locks ends, or will be run again.     *)
LEMMA ApplyEnds ==
    ASSUME IndInv, NEW s \in Stages, HasLock(s), EndApply(s),
           job' \in {Completed(job, s), Retried(job, s)}, UNCHANGED <<result, sourced, workers>>
    PROVE  /\ JobInv' /\ ResultInv' /\ WorkerInv' /\ LockInv' /\ apply'.step = "idle"
           /\ \A t \in Stages : t # s => job'[t] = job[t]
           /\ job' = Retried(job, s) => job'[s].state # "done"
<1>1. JobsOK(job) /\ s \in Jobs /\ job[s].state = "active"
  BY LockFacts, JobFacts DEF IndInv, JobInv
<1>2. /\ Becomes(job', job, s, job'[s]) /\ job'[s].state \in {"done", "failed", "waiting"}
      /\ job' = Retried(job, s) => job'[s].state # "done"
  <2>1. Becomes(job', job, s, job'[s]) /\ job'[s].state \in {"done", "failed", "waiting"}
    BY <1>1, JobOperations
  <2>2. Retried(job, s)[s].state # "done"
    BY <1>1, JobOperations
  <2> QED
    BY <2>1, <2>2
<1>3. JobInv' /\ ResultInv' /\ WorkerInv'
  BY <1>1, <1>2, ApiQueues
<1>4. \A t \in Stages : t # s => job'[t] = job[t]
  BY <1>2, JobFacts DEF Becomes
<1>5. LockInv'
  <2>1. /\ locks' = Tail(locks) /\ apply' = NoApply /\ apply'.step = "idle"
        /\ apply' = [step |-> apply'.step, row |-> apply'.row]
    BY DEF EndApply, NoApply
  <2>2. \A t \in Stages : job'[t].state = "active" <=> t \in Range(locks')
    BY <1>2, <1>4, <2>1, LockFacts DEF IndInv, ApiInv, LockInv
  <2> QED
    BY <2>1, <2>2, LockFacts DEF LockInv
<1>6. apply'.step = "idle"
  BY DEF EndApply, NoApply
<1> QED
  BY <1>2, <1>3, <1>4, <1>5, <1>6

(* Nothing is written: the rows and what is made of them stay as they are. *)
LEMMA NothingWritten ==
    ASSUME IndInv, UNCHANGED <<sourced, result, mem, digests, overlooked, stores>>,
           \/ apply'.step = "idle"
           \/ apply' = apply /\ (apply.step # "idle" => Head(locks') = Head(locks)),
           \A s \in Stages : job'[s].state = "done" =>
              \/ job[s].state = "done" \/ (sourced /\ overlooked)
              \/ \E row \in durable : row.at >= result[s].at
    PROVE  RowInv' /\ OrderInv' /\ StoredInv'
<1>1. RowInv'
  <2>1. \A row : DecisionOf(row) => DecisionOf(row)'
    BY DEF DecisionOf
  <2> QED
    BY <2>1 DEF IndInv, ApiInv, RowInv, stores
<1>2. OrderInv'
  BY DEF IndInv, ApiInv, OrderInv, InOrder, stores
<1>3. StoredInv'
  BY DEF IndInv, ApiInv, StoredInv, AppliedIsDurable, ResultsAreDurable, stores
<1> QED
  BY <1>1, <1>2, <1>3

(* What is written adds the row at most, and does add it unless a decision *)
(* was overlooked and the digest is that of the payload.  If none was, the *)
(* row is the last one.                                                    *)
LEMMA RowWritten ==
    ASSUME IndInv, apply.step = "persist", ~Conflicts(apply.row)
    PROVE  LET row == apply.row
               rows == Inserted(row)
           IN  /\ DecisionOf(row) /\ durable \subseteq rows /\ rows \subseteq durable \cup {row}
               /\ ~(sourced /\ overlooked) => row \in rows
               /\ ~overlooked => InOrder(rows) /\ \A a \in rows : a.rev <= row.rev
<1> DEFINE row == apply.row
           rows == Inserted(row)
<1>1. DecisionOf(row) /\ RowInv /\ OrderInv /\ StoredInv /\ sourced \in BOOLEAN
  BY DEF IndInv, ApiInv, RowInv, WorkerInv
<1>2. durable \subseteq rows /\ rows \subseteq durable \cup {row}
  BY DEF Inserted
<1>3. ~overlooked => \A a \in durable : a.rev < row.rev /\ a.at < row.at
  BY <1>1 DEF OrderInv
<1> HIDE DEF row
<1>4. \A a \in durable : a.rev \in Nat /\ a.at \in Nat
  BY <1>1 DEF RowInv, DecisionOf, Pending
<1>5. row.rev \in Nat /\ row.at \in Nat
  BY <1>1 DEF DecisionOf
<1>6. ~overlooked => row \in rows
  <2>1. ~overlooked => row.rev \notin DOMAIN digests
    BY <1>1, <1>3, <1>4, <1>5 DEF OrderInv
  <2> QED
    BY <2>1 DEF Inserted, Committed
<1>7. ~sourced => row \in rows
  <2>1. ~sourced /\ Committed(row) => row \in durable
    BY <1>1 DEF StoredInv, Committed, Digest
  <2> QED
    BY <2>1 DEF Inserted
<1>8. ~overlooked => InOrder(rows) /\ \A a \in rows : a.rev <= row.rev
  <2> SUFFICES ASSUME ~overlooked PROVE InOrder(rows) /\ \A a \in rows : a.rev <= row.rev
    OBVIOUS
  <2>1. InOrder(durable)
    BY <1>1 DEF OrderInv
  <2> HIDE DEF rows
  <2>2. InOrder(rows)
    BY <1>2, <1>3, <1>4, <1>5, <2>1 DEF InOrder
  <2> QED
    BY <1>2, <1>3, <1>4, <1>5, <2>2
<1> QED
  BY <1>1, <1>2, <1>6, <1>7, <1>8 DEF row

(* A result is taken up and waits for the lock of its event.               *)
LEMMA TakeResultPreserves ==
    ASSUME IndInv, NEW s \in Stages, TakeResult(s)
    PROVE  IndInv'
<1>1. /\ JobsOK(job) /\ s \in Jobs /\ LockInv
      /\ job[s].state = "waiting" /\ job' = Taken(job, s) /\ locks' = Append(locks, s)
      /\ UNCHANGED <<sourced, result, workers, apply, mem, digests, overlooked, stores>>
  BY JobFacts DEF IndInv, ApiInv, JobInv, TakeResult, Take, Taken
<1>2. Becomes(job', job, s, job'[s]) /\ job'[s].state = "active"
  BY <1>1, JobOperations
<1>3. \A t \in Stages : t # s => job'[t] = job[t]
  BY <1>2, JobFacts DEF Becomes
<1>4. s \notin Range(locks)
  BY <1>1 DEF LockInv
<1>5. JobInv' /\ ResultInv' /\ WorkerInv'
  BY <1>1, <1>2, ApiQueues
<1>6. /\ locks' \in Seq(Stages) /\ Len(locks) \in Nat
      /\ DOMAIN locks = 1 .. Len(locks) /\ DOMAIN locks' = 1 .. (Len(locks) + 1)
      /\ \A i \in 1 .. Len(locks) : locks'[i] = locks[i]
      /\ locks'[Len(locks) + 1] = s
  BY <1>1 DEF LockInv
<1>7. \A i, k \in DOMAIN locks' : locks'[i] = locks'[k] => i = k
  <2>1. \A i \in 1 .. Len(locks) : locks[i] # s
    BY <1>4, <1>6 DEF Range
  <2> QED
    BY <1>1, <1>6, <2>1 DEF LockInv
<1>8. \A t : t \in Range(locks') <=> t \in Range(locks) \/ t = s
  <2>1. ASSUME NEW t \in Range(locks') PROVE t \in Range(locks) \/ t = s
    BY <1>6 DEF Range
  <2>2. ASSUME NEW t \in Range(locks) PROVE t \in Range(locks')
    <3>1. PICK i \in DOMAIN locks : t = locks[i]
      BY DEF Range
    <3>2. i \in DOMAIN locks' /\ locks'[i] = t
      BY <1>6, <3>1
    <3> QED
      BY <3>2 DEF Range
  <2>3. s \in Range(locks')
    <3>1. Len(locks) + 1 \in DOMAIN locks' /\ locks'[Len(locks) + 1] = s
      BY <1>6
    <3> QED
      BY <3>1 DEF Range
  <2> QED
    BY <2>1, <2>2, <2>3
<1>9. LockInv'
  <2>1. \A t \in Stages : job'[t].state = "active" <=> t \in Range(locks')
    BY <1>1, <1>2, <1>3, <1>8 DEF LockInv
  <2>2. locks' # <<>>
    BY <1>6
  <2> QED
    BY <1>1, <1>6, <1>7, <2>1, <2>2 DEF LockInv
<1>10. RowInv' /\ OrderInv' /\ StoredInv'
  <2>1. apply.step # "idle" => Head(locks') = Head(locks)
    <3>1. apply.step # "idle" => locks # <<>>
      BY <1>1 DEF LockInv, NoApply
    <3> QED
      BY <1>1, <3>1 DEF LockInv
  <2>2. \A t \in Stages : job'[t].state = "done" => job[t].state = "done"
    BY <1>2, <1>3
  <2> QED
    BY <1>1, <2>1, <2>2, NothingWritten
<1> QED
  BY <1>5, <1>9, <1>10 DEF IndInv, ApiInv

(* A result is dropped only when its decision or a later one is durable.   *)
(* Otherwise it is later than all there are, unless one is overlooked.     *)
LEMMA ApplyPreserves ==
    ASSUME IndInv, NEW s \in Stages, Apply(s)
    PROVE  IndInv'
<1> DEFINE r == result[s]
<1>1. /\ HasLock(s) /\ apply = NoApply /\ LockInv /\ RowInv /\ OrderInv /\ StoredInv
      /\ UNCHANGED <<sourced, result, workers, mem, digests, stores>>
  BY DEF Apply, IndInv, ApiInv
<1>2. r.stage = s /\ r.at \in Nat /\ r.at >= 1 /\ r # NoResult /\ Head(locks) = s /\ locks # <<>>
  BY <1>1, LockFacts DEF HasLock
<1>3. CASE Stale(r)
  <2>1. EndApply(s) /\ job' = Completed(job, s) /\ UNCHANGED overlooked
    BY <1>3 DEF Apply
  <2>2. /\ JobInv' /\ ResultInv' /\ WorkerInv' /\ LockInv' /\ apply'.step = "idle"
        /\ \A t \in Stages : t # s => job'[t] = job[t]
    BY <1>1, <2>1, ApplyEnds
  <2>3. ~(sourced /\ overlooked) => mem \in durable /\ mem.at >= r.at
    BY <1>1, <1>3 DEF Stale, StoredInv, AppliedIsDurable
  <2>4. RowInv' /\ OrderInv' /\ StoredInv'
    BY <1>1, <2>1, <2>2, <2>3, NothingWritten
  <2> QED
    BY <2>2, <2>4 DEF IndInv, ApiInv
<1>4. CASE ~Stale(r)
  <2>1. /\ apply' = [step |-> "persist", row |-> NextRow(r)] /\ UNCHANGED <<locks, job>>
        /\ overlooked' = (overlooked \/ Behind)
    BY <1>4 DEF Apply
  <2>2. Stale(r) <=> mem # NoRow /\ mem.rev > 1 /\ mem.at >= r.at
    BY DEF Stale
  <2> HIDE DEF r
  <2>3. /\ NextRow(r).rev = MemRevision + 1 /\ NextRow(r).at = r.at
        /\ NextRow(r).stage = r.stage
    BY DEF NextRow, Revision
  <2>4. apply'.step = "persist" /\ apply'.row = NextRow(r)
    BY <2>1
  <2>5. /\ MemRevision \in Nat /\ MemRevision >= 1
        /\ mem # NoRow => mem.at \in Nat /\ mem.rev = MemRevision
        /\ MemRevision > 1 => mem # NoRow /\ mem # Pending
    BY <1>1 DEF MemRevision, RowInv, DecisionOf, Pending
  <2>6. \A a \in durable : a.rev \in Nat /\ a.at \in Nat /\ (a.rev >= 2 \/ a = Pending)
    BY <1>1 DEF RowInv, DecisionOf, Pending
  <2>7. RowInv'
    <3>1. \A row : DecisionOf(row) => DecisionOf(row)'
      BY <1>1 DEF DecisionOf
    <3>2. DecisionOf(NextRow(r))
      BY <1>1, <1>2, <2>3, <2>5 DEF DecisionOf, r
    <3>3. overlooked' \in BOOLEAN
      BY <2>1
    <3> QED
      BY <1>1, <1>2, <2>1, <2>3, <2>4, <3>1, <3>2, <3>3 DEF RowInv, stores
  <2>8. OrderInv'
    <3> SUFFICES ASSUME ~overlooked' PROVE OrderInv'
      BY DEF OrderInv
    <3>1. ~overlooked /\ \A a \in durable : ~(a.rev > MemRevision)
      BY <2>1 DEF Behind
    <3>2. \A a \in durable : a.rev <= MemRevision
      BY <2>5, <2>6, <3>1
    <3>3. \A a \in durable : a.at < r.at
      <4> TAKE a \in durable
      <4>1. CASE MemRevision = 1
        BY <1>2, <2>6, <3>2, <4>1 DEF Pending
      <4>2. CASE MemRevision > 1
        <5>1. mem \in durable /\ mem.at < r.at /\ mem.rev = MemRevision
          BY <1>1, <1>2, <1>4, <2>2, <2>5, <3>1, <4>2 DEF StoredInv, AppliedIsDurable, r
        <5>2. (a.rev < mem.rev => a.at < mem.at) /\ (a.rev = mem.rev => a = mem)
          BY <1>1, <3>1, <5>1 DEF OrderInv, InOrder
        <5> QED
          BY <1>2, <2>5, <2>6, <3>2, <5>1, <5>2
      <4> QED
        BY <2>5, <4>1, <4>2
    <3> QED
      BY <1>1, <2>1, <2>3, <2>4, <2>5, <2>6, <3>1, <3>2, <3>3 DEF OrderInv, InOrder, stores
  <2>9. StoredInv'
    BY <1>1, <2>1, <2>4 DEF StoredInv, AppliedIsDurable, ResultsAreDurable, stores
  <2>10. LockInv'
    BY <1>1, <1>2, <2>1, <2>4 DEF LockInv
  <2>11. JobInv' /\ ResultInv' /\ WorkerInv'
    BY <1>1, <2>1 DEF IndInv, JobInv, ResultInv, WorkerInv, PublishedLater, workers
  <2> QED
    BY <2>7, <2>8, <2>9, <2>10, <2>11 DEF IndInv, ApiInv
<1> QED
  BY <1>3, <1>4

(* The decision is persisted,                                              *)
LEMMA PersistPreserves ==
    ASSUME IndInv, NEW s \in Stages, Persist(s)
    PROVE  IndInv'
<1> DEFINE row == apply.row
<1>1. /\ HasLock(s) /\ apply.step = "persist" /\ ~Conflicts(row)
      /\ durable' = Inserted(row) /\ digests' = Remembered(row) /\ mem' = Upsert(row)
      /\ LockInv /\ RowInv /\ OrderInv /\ StoredInv /\ sourced \in BOOLEAN
      /\ UNCHANGED <<sourced, result, workers, overlooked, effects>>
  BY DEF Persist, IndInv, ApiInv, WorkerInv
<1>2. /\ DecisionOf(row) /\ durable \subseteq durable' /\ durable' \subseteq durable \cup {row}
      /\ ~(sourced /\ overlooked) => row \in durable'
      /\ ~overlooked => InOrder(durable') /\ \A a \in durable' : a.rev <= row.rev
  BY <1>1, RowWritten
<1>3. row.stage = s /\ row.at = result[s].at
  BY <1>1, <1>2 DEF RowInv, HasLock, DecisionOf
<1>4. \/ /\ apply' = [apply EXCEPT !.step = "effects"] /\ UNCHANGED <<locks, job>>
      \/ EndApply(s) /\ job' = Completed(job, s)
  BY DEF Persist
<1> HIDE DEF row
<1>5. mem' = row \/ (mem' = mem /\ mem # NoRow /\ ~(row.rev > mem.rev))
  BY <1>1 DEF Upsert
<1>6. /\ JobInv' /\ ResultInv' /\ WorkerInv' /\ LockInv'
      /\ \A t \in Stages : job'[t].state = "done" => job[t].state = "done" \/ t = s
      /\ \/ apply'.step = "idle"
         \/ apply'.step = "effects" /\ apply'.row = row /\ locks' = locks
  <2>1. CASE apply' = [apply EXCEPT !.step = "effects"] /\ UNCHANGED <<locks, job>>
    <3>1. apply'.step = "effects" /\ apply'.row = row
      BY <1>1, <2>1 DEF row, LockInv
    <3>2. JobInv' /\ ResultInv' /\ WorkerInv'
      BY <1>1, <2>1 DEF IndInv, JobInv, ResultInv, WorkerInv, PublishedLater, workers
    <3>3. LockInv'
      BY <1>1, <2>1, <3>1 DEF LockInv, HasLock
    <3> QED
      BY <2>1, <3>1, <3>2, <3>3
  <2>2. CASE EndApply(s) /\ job' = Completed(job, s)
    BY <1>1, <2>2, ApplyEnds
  <2> QED
    BY <1>4, <2>1, <2>2
<1>7. RowInv'
  <2>1. \A x : DecisionOf(x) => DecisionOf(x)'
    BY <1>1 DEF DecisionOf
  <2> QED
    BY <1>1, <1>2, <1>3, <1>5, <1>6, <2>1 DEF RowInv, HasLock
<1>8. OrderInv'
  <2> SUFFICES ASSUME ~overlooked PROVE OrderInv'
    BY <1>1 DEF OrderInv
  <2>1. mem' # NoRow => mem' = Pending \/ \A a \in durable' : a.rev <= mem'.rev
    <3>1. mem # NoRow /\ mem # Pending => mem.rev \in Nat /\ \A a \in durable : a.rev <= mem.rev
      BY <1>1 DEF RowInv, OrderInv, DecisionOf
    <3>2. row.rev \in Nat
      BY <1>2 DEF DecisionOf
    <3> QED
      BY <1>2, <1>5, <3>1, <3>2
  <2>2. \A rev \in DOMAIN digests' : \E a \in durable' : a.rev = rev
    <3>1. DOMAIN digests' = DOMAIN digests \cup {row.rev} /\ row \in durable'
      BY <1>1, <1>2 DEF Remembered
    <3> QED
      BY <1>1, <1>2, <3>1 DEF OrderInv
  <2> QED
    BY <1>2, <1>6, <2>1, <2>2 DEF OrderInv
<1>9. StoredInv'
  <2>1. AppliedIsDurable'
    <3> SUFFICES ASSUME ~(sourced /\ overlooked)
                 PROVE  /\ ResultsAreDurable' /\ (mem' # NoRow => mem' \in durable')
                        /\ effects' \subseteq durable'
      BY <1>1 DEF AppliedIsDurable
    <3>1. /\ ResultsAreDurable /\ (mem # NoRow => mem \in durable)
          /\ effects \subseteq durable /\ row \in durable'
      BY <1>1, <1>2 DEF StoredInv, AppliedIsDurable
    <3>2. ResultsAreDurable'
      <4> SUFFICES ASSUME NEW t \in Stages, job'[t].state = "done"
                   PROVE  \E x \in durable' : x.at >= result[t].at
        BY <1>1 DEF ResultsAreDurable
      <4>1. CASE job[t].state = "done"
        BY <1>2, <3>1, <4>1 DEF ResultsAreDurable
      <4>2. CASE t = s
        BY <1>2, <1>3, <3>1, <4>2 DEF DecisionOf
      <4> QED
        BY <1>6, <4>1, <4>2
    <3> QED
      BY <1>1, <1>2, <1>5, <3>1, <3>2
  <2>2. ~(sourced /\ overlooked) /\ apply'.step = "effects" => apply'.row \in durable'
    BY <1>2, <1>6
  <2>3. ~sourced => \A rev \in DOMAIN digests' :
                       digests'[rev] \in durable' /\ digests'[rev].rev = rev
    <3> SUFFICES ASSUME ~sourced, NEW rev \in DOMAIN digests'
                 PROVE  digests'[rev] \in durable' /\ digests'[rev].rev = rev
      OBVIOUS
    <3>1. /\ rev \in DOMAIN digests \cup {row.rev}
          /\ digests'[rev] = IF rev = row.rev THEN row ELSE digests[rev]
      BY <1>1 DEF Remembered, Digest
    <3> QED
      BY <1>1, <1>2, <3>1 DEF StoredInv
  <2> QED
    BY <1>1, <2>1, <2>2, <2>3 DEF StoredInv
<1> QED
  BY <1>6, <1>7, <1>8, <1>9 DEF IndInv, ApiInv

(* The row is not written, or its effects are not: the job runs again.     *)
LEMMA FailurePreserves ==
    ASSUME IndInv, NEW s \in Stages, PersistFails(s) \/ EffectsFail(s)
    PROVE  IndInv'
<1>1. /\ HasLock(s) /\ EndApply(s) /\ job' = Retried(job, s)
      /\ UNCHANGED <<sourced, result, workers, mem, digests, overlooked, stores>>
  BY DEF PersistFails, EffectsFail
<1>2. /\ JobInv' /\ ResultInv' /\ WorkerInv' /\ LockInv' /\ apply'.step = "idle"
      /\ \A t \in Stages : t # s => job'[t] = job[t]
      /\ job'[s].state # "done"
  BY <1>1, ApplyEnds
<1>3. RowInv' /\ OrderInv' /\ StoredInv'
  BY <1>1, <1>2, NothingWritten
<1> QED
  BY <1>2, <1>3 DEF IndInv, ApiInv

(* What the ledger takes are the effects of a durable decision.            *)
LEMMA EffectsTaken ==
    ASSUME IndInv, apply.step = "effects"
    PROVE  /\ \A e \in Applied(apply.row) : DecisionOf(e)
           /\ ~(sourced /\ overlooked) => Applied(apply.row) \subseteq durable
<1>1. Applied(apply.row) \subseteq effects \cup {apply.row}
  BY DEF Applied
<1>2. /\ DecisionOf(apply.row) /\ \A e \in effects : DecisionOf(e)
      /\ ~(sourced /\ overlooked) => apply.row \in durable /\ effects \subseteq durable
  BY DEF IndInv, ApiInv, RowInv, StoredInv, AppliedIsDurable
<1> QED
  BY <1>1, <1>2

(* then shown, with its effects.                                           *)
LEMMA CommitEffectsPreserves ==
    ASSUME IndInv, NEW s \in Stages, CommitEffects(s)
    PROVE  IndInv'
<1>1. /\ HasLock(s) /\ EndApply(s) /\ job' = Completed(job, s)
      /\ apply.step = "effects" /\ effects' = Applied(apply.row)
      /\ UNCHANGED <<sourced, result, workers, mem, digests, overlooked, durable>>
      /\ RowInv /\ OrderInv /\ StoredInv
  BY DEF CommitEffects, IndInv, ApiInv
<1>2. /\ JobInv' /\ ResultInv' /\ WorkerInv' /\ LockInv' /\ apply'.step = "idle"
      /\ \A t \in Stages : t # s => job'[t] = job[t]
  BY <1>1, ApplyEnds
<1>3. RowInv'
  <2>1. \A x : DecisionOf(x) => DecisionOf(x)'
    BY <1>1 DEF DecisionOf
  <2> QED
    BY <1>1, <1>2, <2>1, EffectsTaken DEF RowInv
<1>4. OrderInv'
  BY <1>1, <1>2 DEF OrderInv, InOrder
<1>5. StoredInv'
  <2>1. ~(sourced /\ overlooked) => \E x \in durable : x.at >= result[s].at
    <3>1. /\ ~(sourced /\ overlooked) => apply.row \in durable
          /\ apply.row.at \in Nat /\ apply.row.at = result[s].at
      BY <1>1 DEF RowInv, StoredInv, DecisionOf, HasLock
    <3> QED
      BY <3>1
  <2> QED
    BY <1>1, <1>2, <2>1, EffectsTaken DEF StoredInv, AppliedIsDurable, ResultsAreDurable
<1> QED
  BY <1>2, <1>3, <1>4, <1>5 DEF IndInv, ApiInv

(* A restart shows the last decision that has arrived, or none.            *)
LEMMA RestartPreserves ==
    ASSUME IndInv, Restart
    PROVE  IndInv'
<1>1. /\ JobsOK(job) /\ LockInv /\ RowInv /\ OrderInv /\ StoredInv
      /\ job' = [j \in Jobs |-> IF j \in Range(locks) THEN Stalled(job, j)[j] ELSE job[j]]
      /\ locks' = <<>> /\ apply' = NoApply /\ digests' = [rev \in {} |-> "none"]
      /\ UNCHANGED <<sourced, result, workers, overlooked>>
  BY DEF Restart, IndInv, ApiInv, JobInv
<1>2. Range(locks) \subseteq Stages
  BY <1>1 DEF LockInv, Range
<1>3. /\ JobsOK(job')
      /\ \A j \in Jobs : IF j \in Range(locks) THEN job'[j].state \in {"failed", "waiting"}
                         ELSE job'[j] = job[j]
  <2>1. \A j \in Jobs : j \in Range(locks) =>
           /\ Stalled(job, j)[j] \in JobRecords /\ JobOK(Stalled(job, j)[j], j)
           /\ Stalled(job, j)[j].state \in {"failed", "waiting"}
    <3> SUFFICES ASSUME NEW j \in Jobs, j \in Range(locks)
                 PROVE  /\ Stalled(job, j)[j] \in JobRecords /\ JobOK(Stalled(job, j)[j], j)
                        /\ Stalled(job, j)[j].state \in {"failed", "waiting"}
      OBVIOUS
    <3>1. job[j].state = "active"
      BY <1>1, <1>2 DEF LockInv
    <3>2. /\ Becomes(Stalled(job, j), job, j, Stalled(job, j)[j])
          /\ Stalled(job, j)[j].state \in {"done", "failed", "waiting"}
          /\ Stalled(job, j)[j].state # "done"
      BY <1>1, <3>1, JobOperations
    <3> QED
      BY <3>2 DEF Becomes, JobsOK
  <2> QED
    BY <1>1, <2>1 DEF JobsOK
<1>4. \A s \in Stages : /\ job'[s].state = "done" => job[s].state = "done"
                        /\ job'[s].state # "active"
                        /\ job'[s].state = "none" <=> job[s].state = "none"
  BY <1>1, <1>3, JobFacts DEF LockInv
<1>5. JobInv' /\ ResultInv' /\ WorkerInv'
  <2>1. JobInv'
    BY <1>3 DEF JobInv
  <2>2. ResultInv'
    BY <1>1, <1>4 DEF ResultInv, IndInv
  <2>3. \A w \in Workers : job'[w] = job[w]
    BY <1>2, <1>3, JobFacts
  <2>4. WorkerInv'
    BY <1>1, <2>3 DEF WorkerInv, IndInv, workers, PublishedLater
  <2> QED
    BY <2>1, <2>2, <2>4
<1>6. LockInv' /\ apply'.step = "idle"
  <2>1. /\ apply'.step = "idle" /\ apply' = [step |-> apply'.step, row |-> apply'.row]
        /\ locks' = <<>> /\ locks' \in Seq(Stages) /\ DOMAIN locks' = {}
    BY <1>1 DEF NoApply
  <2>2. Range(locks') = {}
    BY <2>1 DEF Range
  <2> QED
    BY <1>1, <1>4, <2>1, <2>2 DEF LockInv
<1>7. /\ durable \subseteq durable'
      /\ \A a \in durable' : a = Pending \/ DecisionOf(a)
      /\ \A e \in effects' : DecisionOf(e)
      /\ ~overlooked => InOrder(durable')
      /\ ~(sourced /\ overlooked) => effects' \subseteq durable'
  <2>1. /\ \A a \in durable : a = Pending \/ DecisionOf(a)
        /\ \A e \in effects : DecisionOf(e)
        /\ ~overlooked => InOrder(durable)
        /\ ~(sourced /\ overlooked) => effects \subseteq durable
    BY <1>1 DEF RowInv, OrderInv, StoredInv, AppliedIsDurable
  <2>2. CASE UNCHANGED stores
    BY <2>1, <2>2 DEF stores
  <2>3. CASE /\ apply.step = "persist" /\ ~Conflicts(apply.row)
             /\ durable' = Inserted(apply.row) /\ UNCHANGED effects
    BY <2>1, <2>3, RowWritten
  <2>4. CASE apply.step = "effects" /\ effects' = Applied(apply.row) /\ UNCHANGED durable
    BY <2>1, <2>4, EffectsTaken
  <2> QED
    BY <2>2, <2>3, <2>4 DEF Restart
<1>8. mem' # NoRow => mem' \in durable' /\ \A a \in durable' : a.rev <= mem'.rev
  <2>1. PICK row \in durable' :
           /\ \A other \in durable' :
                 other.rev < row.rev \/ (other.rev = row.rev /\ other.at <= row.at)
           /\ mem' \in {row, NoRow}
    BY DEF Restart, Hydrate, IsLatest
  <2>2. \A a \in durable' : a.rev \in Nat
    BY <1>7 DEF DecisionOf, Pending
  <2> QED
    BY <2>1, <2>2
<1>9. RowInv'
  <2>1. \A x : DecisionOf(x) => DecisionOf(x)'
    BY <1>1 DEF DecisionOf
  <2> QED
    BY <1>1, <1>6, <1>7, <1>8, <2>1 DEF RowInv
<1>10. OrderInv'
  BY <1>1, <1>6, <1>7, <1>8 DEF OrderInv
<1>11. StoredInv'
  <2>1. \A s \in Stages : ~(sourced /\ overlooked) /\ job'[s].state = "done" =>
           \E row \in durable' : row.at >= result[s].at
    BY <1>1, <1>4, <1>7 DEF StoredInv, AppliedIsDurable, ResultsAreDurable
  <2> QED
    BY <1>1, <1>6, <1>7, <1>8, <2>1 DEF StoredInv, AppliedIsDurable, ResultsAreDurable
<1> QED
  BY <1>5, <1>6, <1>9, <1>10, <1>11 DEF IndInv, ApiInv

(* Memory lets go of the event, or has it back as it was at first, and the *)
(* cache lets go of a digest.                                              *)
LEMMA MemoryPreserves ==
    ASSUME IndInv, Evict \/ Forget \/ Replay
    PROVE  IndInv'
<1>1. /\ RowInv /\ OrderInv /\ StoredInv
      /\ UNCHANGED <<sourced, queues, workers, locks, apply, overlooked, stores>>
      /\ mem' \in {mem, NoRow, Pending}
  BY DEF Evict, Forget, Replay, IndInv, ApiInv
<1>2. /\ DOMAIN digests' \subseteq DOMAIN digests
      /\ \A rev \in DOMAIN digests' : digests'[rev] = digests[rev]
  BY DEF Evict, Forget, Replay, Restrict
<1>3. JobInv' /\ ResultInv' /\ WorkerInv' /\ LockInv'
  BY <1>1 DEF IndInv, ApiInv, JobInv, ResultInv, WorkerInv, LockInv, PublishedLater,
              queues, workers
<1>4. RowInv'
  <2>1. \A x : DecisionOf(x) => DecisionOf(x)'
    BY <1>1 DEF DecisionOf, queues
  <2> QED
    BY <1>1, <2>1 DEF RowInv, stores
<1>5. OrderInv'
  BY <1>1, <1>2 DEF OrderInv, InOrder, stores
<1>6. StoredInv'
  BY <1>1, <1>2 DEF StoredInv, RowInv, AppliedIsDurable, ResultsAreDurable, stores, queues
<1> QED
  BY <1>3, <1>4, <1>5, <1>6 DEF IndInv, ApiInv

-----------------------------------------------------------------------------
(* The invariant holds initially,                                          *)
LEMMA InitInvariant == Init => IndInv
<1> SUFFICES ASSUME Init PROVE IndInv
  OBVIOUS
<1>1. /\ "active" # "none" /\ Pending.rev = 1 /\ Pending.at = 0 /\ Pending # NoRow
      /\ NoApply.step = "idle" /\ NoApply = [step |-> NoApply.step, row |-> NoApply.row]
  BY DEF Pending, NoRow, NoApply
<1>2. \A j \in Jobs : job[j] = IF j = "fast" THEN [state |-> "waiting", made |-> 0, stalled |-> 0]
                              ELSE NoJob
  BY DEF Init, NoJob
<1>3. JobInv
  <2>1. \A j \in Jobs : job[j] \in JobRecords /\ JobOK(job[j], j)
    BY <1>2, JobFacts DEF NoJob, JobRecords, States, JobOK
  <2> QED
    BY <2>1 DEF Init, JobInv, JobsOK
<1>4. ResultInv
  BY <1>2, NoResultIsResult, JobFacts DEF Init, ResultInv, NoJob
<1>5. WorkerInv
  BY <1>2, NoResultIsResult, JobFacts DEF Init, WorkerInv, NoJob, Steps
<1>6. LockInv
  <2>1. locks = <<>> /\ locks \in Seq(Stages) /\ DOMAIN locks = {} /\ Range(locks) = {}
    BY DEF Init, Range
  <2> QED
    BY <1>1, <1>2, <2>1, JobFacts DEF Init, LockInv, NoJob
<1>7. RowInv
  BY <1>1 DEF Init, RowInv
<1>8. OrderInv
  BY <1>1 DEF Init, OrderInv, InOrder
<1>9. StoredInv
  BY <1>1, <1>2, JobFacts DEF Init, StoredInv, AppliedIsDurable, ResultsAreDurable, NoJob
<1> QED
  BY <1>3, <1>4, <1>5, <1>6, <1>7, <1>8, <1>9 DEF IndInv, ApiInv

(* every step preserves it,                                                *)
LEMMA StepInvariant ==
    ASSUME IndInv, [Next]_vars
    PROVE  IndInv'
<1>1. CASE UNCHANGED vars
  BY <1>1 DEF IndInv, JobInv, ResultInv, WorkerInv, ApiInv, LockInv, RowInv, DecisionOf,
              OrderInv, InOrder, StoredInv, AppliedIsDurable, ResultsAreDurable,
              PublishedLater, vars, queues, workers, api, stores
<1>2. ASSUME NEW w \in Workers, Work(w) \/ CallFails(w) \/ ReportFails(w) \/ WorkerDies(w)
      PROVE  IndInv'
  BY <1>2, WorkersPreserve
<1>3. ASSUME NEW s \in Stages, ApplyStep(s)
      PROVE  IndInv'
  BY <1>3, TakeResultPreserves, ApplyPreserves, PersistPreserves, CommitEffectsPreserves,
     FailurePreserves DEF ApplyStep
<1>4. CASE Restart
  BY <1>4, RestartPreserves
<1>5. CASE Evict \/ Forget \/ Replay
  BY <1>5, MemoryPreserves
<1> QED
  BY <1>1, <1>2, <1>3, <1>4, <1>5 DEF Next

(* and so it always holds.                                                 *)
LEMMA Invariance == Spec => []IndInv
<1>1. Init => IndInv
  BY InitInvariant
<1>2. IndInv /\ [Next]_vars => IndInv'
  BY StepInvariant
<1> QED
  BY <1>1, <1>2, PTL DEF Spec

(* JudgmentPipeline's type invariant: the queues stay within the attempts  *)
(* and stalls they grant, and at most one run of a result job holds its    *)
(* place among the locks.                                                  *)
THEOREM TypeCorrect == Spec => []TypeOK
<1>1. ASSUME IndInv PROVE TypeOK
  <2>1. JobsOK(job) /\ ResultInv /\ WorkerInv /\ LockInv /\ overlooked \in BOOLEAN
    BY <1>1 DEF IndInv, ApiInv, JobInv, RowInv
  <2>2. \A j \in Jobs : /\ job[j].state \in States /\ job[j].made \in 0 .. Attempts[j]
                        /\ job[j].stalled \in 0 .. MaxStalled + 1
                        /\ job[j].made = Attempts[j] => job[j].state = "failed"
    <3> TAKE j \in Jobs
    <3>1. /\ job[j].state \in States /\ job[j].made \in Nat /\ job[j].stalled \in Nat
          /\ Attempts[j] \in Nat /\ MaxStalled \in Nat
      BY <2>1, JobFacts DEF JobsOK, JobRecords
    <3>2. /\ job[j].made <= Attempts[j] /\ (job[j].made = Attempts[j] => job[j].state = "failed")
          /\ job[j].stalled <= MaxStalled + 1
      BY <2>1 DEF JobsOK, JobOK
    <3> QED
      BY <3>1, <3>2
  <2>3. \A w \in Workers : pc[w] \in Steps /\ ((pc[w] = "idle") = (job[w].state # "active"))
    BY <2>1 DEF WorkerInv
  <2>4. {s \in Stages : job[s].state = "active"} = Range(locks)
    <3>1. Range(locks) \subseteq Stages
      BY <2>1 DEF LockInv, Range
    <3> QED
      BY <2>1, <3>1 DEF LockInv
  <2>5. \A s \in Stages : (job[s].state = "none") = (result[s] = NoResult)
    BY <2>1 DEF ResultInv
  <2> QED
    BY <2>1, <2>2, <2>3, <2>4, <2>5 DEF TypeOK, States, Steps, WorkerInv, LockInv
<1>2. IndInv => TypeOK
  BY <1>1
<1> QED
  BY <1>2, Invariance, PTL

(* Two decisions share a revision only if a result was given one while     *)
(* memory lacked a decision that ClickHouse has: no order of results,      *)
(* retries, stalls and failures does it otherwise.                         *)
THEOREM RevisionsAreOverlooked == Spec => []SharedOnlyIfOverlooked
<1>1. IndInv => SharedOnlyIfOverlooked
  BY DEF IndInv, ApiInv, OrderInv, InOrder, SharedOnlyIfOverlooked, RevisionsAreDistinct
<1> QED
  BY <1>1, Invariance, PTL

(* A result job completes only when its decision, or a later one, is       *)
(* durable, and the hot ring and the effects show nothing that is not,     *)
(* unless a decision was overlooked and rows have the payload's digest.    *)
THEOREM AppliedStaysDurable == Spec => []AppliedIsDurable
<1>1. IndInv => AppliedIsDurable
  BY DEF IndInv, ApiInv, StoredInv
<1> QED
  BY <1>1, Invariance, PTL

(* Incidents and alerts are raised once per stage, however often a job     *)
(* runs, unless a decision was overlooked.                                 *)
THEOREM EffectsStayMatched == Spec => []EffectsMatchDecisions
<1>1. ASSUME IndInv, ~overlooked, NEW a \in effects, NEW b \in effects, a.stage = b.stage
      PROVE  a = b
  <2>1. /\ a \in durable /\ b \in durable /\ InOrder(durable)
        /\ DecisionOf(a) /\ DecisionOf(b)
    BY <1>1 DEF IndInv, ApiInv, RowInv, OrderInv, StoredInv, AppliedIsDurable
  <2>2. a.at = b.at /\ a.rev \in Nat /\ b.rev \in Nat /\ a.at \in Nat
    BY <1>1, <2>1 DEF DecisionOf
  <2> QED
    BY <2>1, <2>2 DEF InOrder
<1>2. IndInv => EffectsMatchDecisions
  BY <1>1 DEF EffectsMatchDecisions
<1> QED
  BY <1>2, Invariance, PTL

(* No step takes a row out of ClickHouse, and one that writes a row does   *)
(* not choose its revision.                                                *)
LEMMA RowsStay ==
    ASSUME [Next]_vars
    PROVE  durable \subseteq durable' /\ (durable' = durable \/ overlooked' = overlooked)
<1>1. CASE UNCHANGED vars
  BY <1>1 DEF vars, stores
<1>2. ASSUME NEW w \in Workers, Work(w) \/ CallFails(w) \/ ReportFails(w) \/ WorkerDies(w)
      PROVE  durable' = durable
  BY <1>2 DEF Work, TakeJob, FastJudge, AddL3, L3Cached, L3Judge, L3Cache, PublishResult,
              CallFails, ReportFailure, ReportFails, WorkerDies, stores
<1>3. ASSUME NEW s \in Stages, ApplyStep(s)
      PROVE  durable' = durable \/ (durable' = Inserted(apply.row) /\ overlooked' = overlooked)
  BY <1>3 DEF ApplyStep, TakeResult, Apply, Persist, PersistFails, CommitEffects, EffectsFail,
              stores
<1>4. CASE Restart
  BY <1>4 DEF Restart, Inserted, stores
<1>5. CASE Evict \/ Forget \/ Replay
  BY <1>5 DEF Evict, Forget, Replay, stores
<1> QED
  BY <1>1, <1>2, <1>3, <1>4, <1>5 DEF Next, Inserted

(* The decision that counts gives way only to one that was computed later, *)
(* unless one was overlooked: the decision or the failure of L3 to no fast *)
(* result that was there before it, in particular.                         *)
THEOREM DecisionsOnlyMoveOn == Spec => DecisionsMoveOn
<1> DEFINE A == ~overlooked => \A a \in durable, b \in durable' :
                   IsLatest(a) /\ IsLatest(b)' => b = a \/ b.at > a.at
<1>1. ASSUME IndInv, IndInv', [Next]_vars PROVE A
  <2> SUFFICES ASSUME ~overlooked, NEW a \in durable, NEW b \in durable',
                      IsLatest(a), IsLatest(b)'
               PROVE  b = a \/ b.at > a.at
    OBVIOUS
  <2>1. a \in durable' /\ InOrder(durable')
    BY <1>1, RowsStay DEF IndInv, ApiInv, OrderInv, InOrder
  <2>2. a.rev < b.rev \/ a.rev = b.rev
    BY <2>1 DEF IsLatest
  <2>3. a.at \in Nat /\ b.at \in Nat
    BY <1>1, <2>1 DEF IndInv, ApiInv, RowInv, DecisionOf, Pending
  <2> QED
    BY <2>1, <2>2, <2>3 DEF InOrder
<1>2. IndInv /\ IndInv' /\ [Next]_vars => [A]_vars
  BY <1>1
<1>3. [][A]_vars => DecisionsMoveOn
  BY DEF DecisionsMoveOn
<1> QED
  BY <1>2, <1>3, Invariance, PTL DEF Spec

-----------------------------------------------------------------------------
(* What is true of every pool.  A pool that is not retired is open as long *)
(* as it is the managed one, and an open pool that is not is leased: that  *)
(* is what lets the end of its last lease close it.                        *)
PoolOK(p) ==
    /\ state[p] \in {"none", "starting"} => ~retired[p] /\ p # managed
    /\ state[p] = "starting" => Waiters(p) # {}
    /\ state[p] = "open" /\ ~retired[p] => p = managed
    /\ state[p] = "open" /\ retired[p] => Leases(p) # {}
    /\ p = managed /\ ~retired[p] => state[p] = "open"
    /\ stopped => state[p] \notin {"starting", "open"}

(* The inductive invariant: the pool that is remembered as being started   *)
(* is being started, for the version that is remembered with it.           *)
PoolInv ==
    /\ PoolTypeOK
    /\ LeaseIsLive
    /\ \A p \in Pools : PoolOK(p)
    /\ starting # None => state[starting] = "starting" /\ version[starting] = startedFor

(* The leases of a pool are a finite set, with a natural number of them.   *)
LEMMA LeasesFinite ==
    ASSUME NEW S \in SUBSET Slots
    PROVE  IsFiniteSet(S) /\ Cardinality(S) \in Nat /\ (Cardinality(S) = 0 <=> S = {})
BY SlotsAssumption, FS_Subset, FS_CardinalityType, FS_EmptySet

(* Slots that had no pool add their number to the leases of the pool.       *)
LEMMA LeasedCount ==
    ASSUME PoolTypeOK, NEW js \in SUBSET Slots, NEW p \in Pools,
           \A j \in js : lease[j] = None, Leased(js, p)
    PROVE  /\ lease' \in [Slots -> Pools \cup {None}]
           /\ Leases(p)' = Leases(p) \cup js
           /\ \A q \in Pools \ {p} : Leases(q)' = Leases(q)
           /\ Cardinality(Leases(p)') = Cardinality(Leases(p)) + Cardinality(js)
<1>1. /\ lease' \in [Slots -> Pools \cup {None}]
      /\ Leases(p)' = Leases(p) \cup js
      /\ Leases(p) \cap js = {}
      /\ \A q \in Pools \ {p} : Leases(q)' = Leases(q)
  BY NoneAssumption DEF PoolTypeOK, Leased, Leases
<1>2. Leases(p) \in SUBSET Slots
  BY DEF Leases
<1>3. Cardinality(Leases(p) \cup js) = Cardinality(Leases(p)) + Cardinality(js) - Cardinality({})
  BY <1>1, <1>2, LeasesFinite, FS_Union
<1> QED
  BY <1>1, <1>2, <1>3, LeasesFinite, FS_EmptySet

-----------------------------------------------------------------------------
(* acquireL3Pool keeps the invariant, for a new job and for the waiters of *)
(* an initialization that has been discarded.                              *)
LEMMA AcquireKeeps ==
    ASSUME PoolInv, ~stopped,
           NEW js \in SUBSET Slots, js # {},
           NEW gone \in SUBSET Pools,
           \A p \in gone : state[p] = "starting" /\ Waiters(p) = js /\ version[p] # model,
           \A j \in js : lease[j] = None /\ (wait[j] # None => wait[j] \in gone),
           Acquire(js, gone),
           retired' = [p \in Pools |-> p \in gone \/ retired[p]],
           UNCHANGED <<model, used, managed, stopped>>
    PROVE  PoolInv'
<1> USE NoneAssumption
<1>1. CASE LeaseManaged(js, gone)
  <2>1. managed \in Pools /\ state[managed] = "open" /\ managed \notin gone /\ ~retired[managed]
    BY <1>1 DEF LeaseManaged, Usable, PoolInv, PoolTypeOK, PoolOK
  <2>2. /\ lease' \in [Slots -> Pools \cup {None}]
        /\ Leases(managed)' = Leases(managed) \cup js
        /\ \A q \in Pools \ {managed} : Leases(q)' = Leases(q)
        /\ Cardinality(Leases(managed)') = Cardinality(Leases(managed)) + Cardinality(js)
    BY <1>1, <2>1, LeasedCount DEF LeaseManaged, PoolInv
  <2>3. /\ active' = [active EXCEPT ![managed] = @ + Cardinality(js)]
        /\ state' = [p \in Pools |-> IF p \in gone THEN "closed" ELSE state[p]]
        /\ wait' = [j \in Slots |-> IF j \in js THEN None ELSE wait[j]]
        /\ starting' = Latest(gone) /\ UNCHANGED <<version, startedFor>>
    BY <1>1 DEF LeaseManaged, Awaited
  <2>4. \A j \in Slots : lease'[j] = IF j \in js THEN managed ELSE lease[j]
    BY <1>1 DEF LeaseManaged, Leased
  <2>5. Cardinality(js) \in Nat
    BY LeasesFinite
  <2>6. active' \in [Pools -> Nat] /\ \A p \in Pools : active'[p] = Cardinality(Leases(p)')
    <3>1. active \in [Pools -> Nat] /\ \A p \in Pools : active[p] = Cardinality(Leases(p))
      BY DEF PoolInv, PoolTypeOK
    <3>2. active'[managed] = Cardinality(Leases(managed)')
      BY <3>1, <2>1, <2>2, <2>3
    <3>3. \A p \in Pools \ {managed} : active'[p] = Cardinality(Leases(p)')
      BY <3>1, <2>1, <2>2, <2>3
    <3> QED
      BY <3>1, <3>2, <3>3, <2>1, <2>3, <2>5
  <2>7. \A j \in Slots : wait'[j] # None => lease'[j] = None /\ state'[wait'[j]] = "starting"
    BY <2>3, <2>4 DEF PoolInv, PoolTypeOK, Waiters
  <2>8. PoolTypeOK'
    BY <2>2, <2>3, <2>6, <2>7 DEF PoolInv, PoolTypeOK, Latest, Leases
  <2>9. LeaseIsLive'
    BY <2>1, <2>3, <2>4 DEF PoolInv, PoolTypeOK, LeaseIsLive
  <2>10. ASSUME NEW p \in Pools PROVE PoolOK(p)'
    <3>1. state'[p] = "starting" => Waiters(p)' # {}
      BY <2>3 DEF PoolInv, PoolTypeOK, PoolOK, Waiters
    <3>2. state'[p] = "open" /\ retired'[p] => Leases(p)' # {}
      BY <2>2, <2>3 DEF PoolInv, PoolTypeOK, PoolOK
    <3> QED
      BY <2>1, <2>3, <3>1, <3>2 DEF PoolInv, PoolTypeOK, PoolOK
  <2>11. starting' # None => state'[starting'] = "starting" /\ version'[starting'] = startedFor'
    BY <2>3 DEF PoolInv, PoolTypeOK, Latest
  <2> QED
    BY <2>8, <2>9, <2>10, <2>11 DEF PoolInv
<1>2. CASE Join(js, gone)
  <2>1. /\ Latest(gone) = starting /\ starting \in Pools \ gone
        /\ state[starting] = "starting" /\ startedFor = model
    BY <1>2 DEF Join, Latest, PoolInv, PoolTypeOK
  <2>2. /\ wait' = [j \in Slots |-> IF j \in js THEN starting ELSE wait[j]]
        /\ state' = [p \in Pools |-> IF p \in gone THEN "closed" ELSE state[p]]
        /\ UNCHANGED <<version, active, starting, startedFor, lease>>
    BY <1>2 DEF Join, Awaited
  <2>3. \A p \in Pools : Leases(p)' = Leases(p)
    BY <2>2 DEF Leases
  <2>4. PoolTypeOK'
    BY <2>1, <2>2, <2>3 DEF PoolInv, PoolTypeOK, Waiters
  <2>5. LeaseIsLive'
    BY <2>2 DEF PoolInv, PoolTypeOK, LeaseIsLive
  <2>6. ASSUME NEW p \in Pools PROVE PoolOK(p)'
    <3>1. state'[p] = "starting" => Waiters(p)' # {}
      BY <2>2 DEF PoolInv, PoolTypeOK, PoolOK, Waiters
    <3> QED
      BY <2>2, <2>3, <3>1 DEF PoolInv, PoolTypeOK, PoolOK
  <2> QED
    BY <2>1, <2>2, <2>4, <2>5, <2>6 DEF PoolInv
<1>3. CASE Start(js, gone)
  <2>1. PICK q \in Pools :
          /\ state[q] = "none"
          /\ state' = [p \in Pools |-> IF p \in gone THEN "closed"
                                       ELSE IF p = q THEN "starting" ELSE state[p]]
          /\ version' = [version EXCEPT ![q] = model]
          /\ starting' = q /\ startedFor' = model
          /\ wait' = [j \in Slots |-> IF j \in js THEN q ELSE wait[j]]
    BY <1>3 DEF Start, Awaited
  <2>2. UNCHANGED <<active, lease>>
    BY <1>3 DEF Start
  <2>3. q \notin gone /\ \A p \in Pools : Leases(p)' = Leases(p)
    BY <2>1, <2>2 DEF Leases
  <2>4. PoolTypeOK'
    BY <2>1, <2>2, <2>3 DEF PoolInv, PoolTypeOK, Waiters
  <2>5. LeaseIsLive'
    BY <2>1, <2>2 DEF PoolInv, PoolTypeOK, LeaseIsLive
  <2>6. ASSUME NEW p \in Pools PROVE PoolOK(p)'
    <3>1. state'[p] = "starting" => Waiters(p)' # {}
      BY <2>1 DEF PoolInv, PoolTypeOK, PoolOK, Waiters
    <3> QED
      BY <2>1, <2>2, <2>3, <3>1 DEF PoolInv, PoolTypeOK, PoolOK
  <2> QED
    BY <2>1, <2>3, <2>4, <2>5, <2>6 DEF PoolInv, PoolTypeOK
<1> QED
  BY <1>1, <1>2, <1>3 DEF Acquire

(* A fresh worker.                                                         *)
LEMMA PoolInitHolds == PoolInit => PoolInv
<1> SUFFICES ASSUME PoolInit PROVE PoolInv
  OBVIOUS
<1>1. \A p \in Pools : Leases(p) = {} /\ Waiters(p) = {}
  BY NoneAssumption DEF PoolInit, Leases, Waiters
<1> QED
  BY <1>1, NoneAssumption, FS_EmptySet DEF PoolInit, PoolInv, PoolTypeOK, LeaseIsLive, PoolOK

(* Closing the managed pool if nobody leases it, and retiring it, leaves   *)
(* every open pool leased.                                                 *)
LEMMA RetireKeeps ==
    ASSUME PoolInv, NEW p \in Pools
    PROVE  /\ AfterRetire(p) = IF p = managed /\ ~retired[p] /\ Leases(p) = {}
                               THEN "closed" ELSE state[p]
           /\ AfterRetire(p) = "open" => Leases(p) # {} /\ Retired(p)
           /\ AfterRetire(p) = "starting" <=> state[p] = "starting"
           /\ Leases(p) # {} => AfterRetire(p) = "open"
<1>1. active[p] = 0 <=> Leases(p) = {}
  BY LeasesFinite DEF PoolInv, PoolTypeOK, Leases
<1>2. Leases(p) # {} => state[p] = "open"
  BY NoneAssumption DEF PoolInv, LeaseIsLive, Leases
<1> QED
  BY <1>1, <1>2, NoneAssumption DEF PoolInv, PoolOK, AfterRetire, Retired

(* A job asks for a pool.                                                  *)
LEMMA BeginKeeps == ASSUME PoolInv, NEW j \in Slots, Begin(j) PROVE PoolInv'
<1>1. retired' = [p \in Pools |-> p \in {} \/ retired[p]]
  BY DEF Begin, PoolInv, PoolTypeOK
<1> QED
  BY <1>1, AcquireKeeps DEF Begin, Free

(* A pool is installed and given to its waiters.                           *)
LEMMA InstallKeeps == ASSUME PoolInv, NEW p \in Pools, Install(p) PROVE PoolInv'
<1> USE NoneAssumption
<1> DEFINE js == Waiters(p)
<1>1. /\ js \in SUBSET Slots /\ js # {} /\ \A j \in js : lease[j] = None
      /\ state[p] = "starting" /\ ~stopped /\ Leases(p) = {} /\ active[p] = 0
  <2>1. js \in SUBSET Slots /\ js # {} /\ \A j \in js : lease[j] = None
    BY DEF Install, PoolInv, PoolTypeOK, PoolOK, Waiters
  <2>2. state[p] = "starting" /\ ~stopped /\ Leases(p) = {}
    BY DEF Install, PoolInv, PoolTypeOK, PoolOK, LeaseIsLive, Leases
  <2> QED
    BY <2>1, <2>2, FS_EmptySet DEF PoolInv, PoolTypeOK
<1>2. /\ lease' \in [Slots -> Pools \cup {None}]
      /\ Leases(p)' = js
      /\ \A q \in Pools \ {p} : Leases(q)' = Leases(q)
  <2>1. PoolTypeOK /\ Leased(js, p)
    BY DEF Install, PoolInv
  <2> QED
    BY SMTT(30), <1>1, <2>1, LeasedCount
<1>3. /\ state' = [q \in Pools |-> IF q = p THEN "open" ELSE AfterRetire(q)]
      /\ retired' = [q \in Pools |-> IF q = p THEN Cardinality(js) > 1 ELSE Retired(q)]
      /\ active' = [active EXCEPT ![p] = Cardinality(js)]
      /\ managed' = p
      /\ wait' = [j \in Slots |-> IF j \in js THEN None ELSE wait[j]]
      /\ starting' = Latest({p})
      /\ UNCHANGED <<model, used, version, startedFor, stopped>>
  BY DEF Install, Awaited
<1>4. \A j \in Slots : lease'[j] = IF j \in js THEN p ELSE lease[j]
  BY DEF Install, Leased
<1>5. Cardinality(js) \in Nat
  BY <1>1, LeasesFinite
<1>6. \A q \in Pools : /\ AfterRetire(q) \in {"none", "starting", "open", "closed"}
                       /\ Retired(q) \in BOOLEAN
  BY DEF AfterRetire, Retired, PoolInv, PoolTypeOK
<1>7. PoolTypeOK'
  <2>1. active' \in [Pools -> Nat] /\ \A q \in Pools : active'[q] = Cardinality(Leases(q)')
    BY <1>2, <1>3, <1>5 DEF PoolInv, PoolTypeOK
  <2>2. \A j \in Slots : wait'[j] # None => lease'[j] = None /\ state'[wait'[j]] = "starting"
    BY <1>3, <1>4, RetireKeeps DEF PoolInv, PoolTypeOK, Waiters
  <2>3. /\ retired' \in [Pools -> BOOLEAN]
        /\ state' \in [Pools -> {"none", "starting", "open", "closed"}]
    <3>1. (Cardinality(js) > 1) \in BOOLEAN
      BY <1>5
    <3>2. \A q \in Pools : (IF q = p THEN Cardinality(js) > 1 ELSE Retired(q)) \in BOOLEAN
      BY <3>1, <1>6
    <3> QED
      BY <3>2, <1>3, <1>6
  <2> QED
    BY <1>2, <1>3, <2>1, <2>2, <2>3 DEF PoolInv, PoolTypeOK, Latest, Leases
<1>8. LeaseIsLive'
  <2> SUFFICES ASSUME NEW j \in Slots, lease'[j] # None PROVE state'[lease'[j]] = "open"
    BY DEF LeaseIsLive
  <2>1. CASE j \in js
    BY <2>1, <1>3, <1>4
  <2>2. CASE j \notin js
    <3>1. lease[j] \in Pools /\ j \in Leases(lease[j]) /\ lease'[j] = lease[j]
      BY <2>2, <1>4 DEF PoolInv, PoolTypeOK, Leases
    <3> QED
      BY <3>1, <1>3, RetireKeeps
  <2> QED
    BY <2>1, <2>2
<1>9. ASSUME NEW q \in Pools PROVE PoolOK(q)'
  <2>1. CASE q = p
    BY <2>1, <1>1, <1>2, <1>3 DEF PoolOK
  <2>2. CASE q # p
    <3>1. state'[q] = AfterRetire(q) /\ retired'[q] = Retired(q) /\ Leases(q)' = Leases(q)
      BY <2>2, <1>2, <1>3
    <3>2. state'[q] = "starting" => Waiters(q)' # {}
      BY <2>2, <3>1, <1>3, RetireKeeps DEF PoolInv, PoolOK, Waiters
    <3>3. state'[q] \in {"none", "starting"} => state[q] \in {"none", "starting"} /\ ~Retired(q)
      BY <3>1 DEF AfterRetire, Retired, PoolInv, PoolOK
    <3> QED
      BY <2>2, <3>1, <3>2, <3>3, <1>1, <1>3, RetireKeeps DEF PoolInv, PoolOK
  <2> QED
    BY <2>1, <2>2
<1>10. starting' # None => state'[starting'] = "starting" /\ version'[starting'] = startedFor'
  BY <1>3, RetireKeeps DEF PoolInv, PoolTypeOK, Latest
<1> QED
  BY <1>7, <1>8, <1>9, <1>10 DEF PoolInv

(* A pool is discarded, and its waiters ask again or fail.                 *)
LEMMA DiscardKeeps == ASSUME PoolInv, NEW p \in Pools, Discard(p) PROVE PoolInv'
<1> USE NoneAssumption
<1>1. /\ state[p] = "starting" /\ version[p] # model /\ ~stopped
      /\ Waiters(p) \in SUBSET Slots /\ Waiters(p) # {}
      /\ retired' = [q \in Pools |-> q \in {p} \/ retired[q]]
      /\ UNCHANGED <<model, used, managed, stopped>>
  <2>1. state[p] = "starting" /\ version[p] # model /\ UNCHANGED <<model, used, managed, stopped>>
    BY DEF Discard
  <2>2. ~stopped /\ Waiters(p) \in SUBSET Slots /\ Waiters(p) # {}
    BY <2>1 DEF PoolInv, PoolOK, Waiters
  <2>3. retired' = [q \in Pools |-> q \in {p} \/ retired[q]]
    <3>1. retired \in [Pools -> BOOLEAN] /\ retired' = [retired EXCEPT ![p] = TRUE]
      BY DEF Discard, PoolInv, PoolTypeOK
    <3>2. retired' = [q \in Pools |-> IF q = p THEN TRUE ELSE retired[q]]
      BY <3>1, Zenon
    <3>3. \A q \in Pools : (IF q = p THEN TRUE ELSE retired[q]) = (q \in {p} \/ retired[q])
      BY <3>1
    <3> QED
      BY <3>2, <3>3, Zenon
  <2> QED
    BY <2>1, <2>2, <2>3
<1>2. \A j \in Waiters(p) : lease[j] = None /\ (wait[j] # None => wait[j] \in {p})
  BY DEF PoolInv, PoolTypeOK, Waiters
<1>3. CASE Acquire(Waiters(p), {p})
  BY <1>1, <1>2, <1>3, AcquireKeeps
<1>4. CASE /\ state' = [state EXCEPT ![p] = "closed"]
           /\ Awaited(Waiters(p), None) /\ starting' = Latest({p})
           /\ UNCHANGED <<version, active, startedFor, lease>>
  <2>1. wait' = [j \in Slots |-> IF j \in Waiters(p) THEN None ELSE wait[j]]
    BY <1>4 DEF Awaited
  <2>2. \A q \in Pools : Leases(q)' = Leases(q)
    BY <1>4 DEF Leases
  <2>3. PoolTypeOK'
    BY <1>1, <1>4, <2>1, <2>2 DEF PoolInv, PoolTypeOK, Waiters, Latest
  <2>4. LeaseIsLive'
    BY <1>1, <1>4 DEF PoolInv, PoolTypeOK, LeaseIsLive
  <2>5. ASSUME NEW q \in Pools PROVE PoolOK(q)'
    <3>1. state'[q] = "starting" => Waiters(q)' # {}
      BY <1>4, <2>1 DEF PoolInv, PoolTypeOK, PoolOK, Waiters
    <3> QED
      BY <1>1, <1>4, <2>2, <3>1 DEF PoolInv, PoolTypeOK, PoolOK
  <2>6. starting' # None => state'[starting'] = "starting" /\ version'[starting'] = startedFor'
    BY <1>4 DEF PoolInv, PoolTypeOK, Latest
  <2> QED
    BY <2>3, <2>4, <2>5, <2>6 DEF PoolInv
<1> QED
  BY <1>3, <1>4 DEF Discard

(* An initialization fails.                                                *)
LEMMA StartFailsKeeps == ASSUME PoolInv, NEW p \in Pools, StartFails(p) PROVE PoolInv'
<1> USE NoneAssumption
<1>1. /\ state[p] = "starting"
      /\ state' = [state EXCEPT ![p] = "closed"]
      /\ wait' = [j \in Slots |-> IF j \in Waiters(p) THEN None ELSE wait[j]]
      /\ starting' = Latest({p})
      /\ UNCHANGED <<model, used, version, active, retired, managed, startedFor, lease, stopped>>
  BY DEF StartFails, Awaited
<1>2. \A q \in Pools : Leases(q)' = Leases(q)
  BY <1>1 DEF Leases
<1>3. PoolTypeOK'
  BY <1>1, <1>2 DEF PoolInv, PoolTypeOK, Waiters, Latest
<1>4. LeaseIsLive'
  BY <1>1 DEF PoolInv, PoolTypeOK, LeaseIsLive
<1>5. ASSUME NEW q \in Pools PROVE PoolOK(q)'
  <2>1. state'[q] = "starting" => Waiters(q)' # {}
    BY <1>1 DEF PoolInv, PoolTypeOK, PoolOK, Waiters
  <2> QED
    BY <1>1, <1>2, <2>1 DEF PoolInv, PoolTypeOK, PoolOK
<1>6. starting' # None => state'[starting'] = "starting" /\ version'[starting'] = startedFor'
  BY <1>1 DEF PoolInv, PoolTypeOK, Latest
<1> QED
  BY <1>3, <1>4, <1>5, <1>6 DEF PoolInv

(* A job gives its pool back.                                              *)
LEMMA FinishKeeps == ASSUME PoolInv, NEW j \in Slots, Finish(j) PROVE PoolInv'
<1> USE NoneAssumption
<1> PICK p \in Pools : p = lease[j]
  BY DEF Finish, PoolInv, PoolTypeOK
<1>1. /\ state[p] = "open" /\ j \in Leases(p)
      /\ active' = [active EXCEPT ![p] = @ - 1]
      /\ state' = [state EXCEPT ![p] = IF retired[p] /\ active[p] = 1 THEN "closed" ELSE @]
      /\ lease' = [i \in Slots |-> IF i = j THEN None ELSE lease[i]]
      /\ UNCHANGED <<model, used, version, retired, managed, starting, startedFor, wait, stopped>>
  BY DEF Finish, Leased, PoolInv, PoolTypeOK, LeaseIsLive, Leases
<1>2. Leases(p)' = Leases(p) \ {j} /\ \A q \in Pools \ {p} : Leases(q)' = Leases(q)
  BY <1>1 DEF Leases
<1>3. /\ Cardinality(Leases(p)') = active[p] - 1
      /\ active[p] - 1 \in Nat
      /\ active[p] = 1 <=> Leases(p)' = {}
  <2>1. Leases(p) \in SUBSET Slots /\ Leases(p) \ {j} \in SUBSET Slots
    BY DEF Leases
  <2>2. Cardinality(Leases(p) \ {j}) = Cardinality(Leases(p)) - 1
    BY <1>1, <2>1, LeasesFinite, FS_RemoveElement
  <2>3. active[p] = Cardinality(Leases(p))
    BY <1>1 DEF PoolInv, PoolTypeOK
  <2> QED
    BY <1>2, <2>1, <2>2, <2>3, LeasesFinite
<1>4. PoolTypeOK'
  <2>1. active' \in [Pools -> Nat] /\ \A q \in Pools : active'[q] = Cardinality(Leases(q)')
    BY <1>1, <1>2, <1>3 DEF PoolInv, PoolTypeOK
  <2> QED
    BY <1>1, <2>1 DEF PoolInv, PoolTypeOK
<1>5. LeaseIsLive'
  BY <1>1, <1>2, <1>3 DEF PoolInv, PoolTypeOK, LeaseIsLive, Leases
<1>6. ASSUME NEW q \in Pools PROVE PoolOK(q)'
  <2>1. Waiters(q)' = Waiters(q)
    BY <1>1 DEF Waiters
  <2>2. CASE q = p
    BY <2>1, <2>2, <1>1, <1>2, <1>3 DEF PoolInv, PoolTypeOK, PoolOK
  <2>3. CASE q # p
    BY <2>1, <2>3, <1>1, <1>2 DEF PoolInv, PoolTypeOK, PoolOK
  <2> QED
    BY <2>2, <2>3
<1>7. starting' # None => state'[starting'] = "starting" /\ version'[starting'] = startedFor'
  BY <1>1 DEF PoolInv, PoolTypeOK
<1> QED
  BY <1>4, <1>5, <1>6, <1>7 DEF PoolInv

(* The managed pool is retired, by another model or by the shutdown.       *)
LEMMA RetiredKeeps ==
    ASSUME PoolInv, RetireManaged, managed' \in {managed, None},
           model' \in Versions \cup {None}, used' \in SUBSET (Versions \cup {None}),
           UNCHANGED <<version, active, starting, startedFor, wait, lease>>,
           stopped' = stopped \/ (stopped' = TRUE /\ \A j \in Slots : Free(j))
    PROVE  PoolInv'
<1> USE NoneAssumption
<1>1. /\ state' = [p \in Pools |-> AfterRetire(p)]
      /\ retired' = [p \in Pools |-> Retired(p)]
      /\ \A p \in Pools : Leases(p)' = Leases(p) /\ Waiters(p)' = Waiters(p)
  BY DEF RetireManaged, Leases, Waiters
<1>2. \A p \in Pools : /\ AfterRetire(p) \in {"none", "starting", "open", "closed"}
                       /\ Retired(p) \in BOOLEAN
  BY DEF AfterRetire, Retired, PoolInv, PoolTypeOK
<1>3. stopped' \in BOOLEAN
  BY DEF PoolInv, PoolTypeOK
<1>4. \A j \in Slots : wait'[j] # None => lease'[j] = None /\ state'[wait'[j]] = "starting"
  BY <1>1, RetireKeeps DEF PoolInv, PoolTypeOK
<1>5. PoolTypeOK'
  BY SMTT(30), <1>1, <1>2, <1>3, <1>4 DEF PoolInv, PoolTypeOK
<1>6. LeaseIsLive'
  <2> SUFFICES ASSUME NEW j \in Slots, lease[j] # None PROVE state'[lease[j]] = "open"
    BY DEF LeaseIsLive
  <2>1. lease[j] \in Pools /\ j \in Leases(lease[j])
    BY DEF PoolInv, PoolTypeOK, Leases
  <2> QED
    BY <2>1, <1>1, RetireKeeps
<1>7. ASSUME NEW p \in Pools PROVE PoolOK(p)'
  <2>1. state'[p] = AfterRetire(p) /\ retired'[p] = Retired(p)
    BY <1>1
  <2>2. state'[p] \in {"none", "starting"} =>
           state[p] \in {"none", "starting"} /\ ~Retired(p) /\ p # managed
    BY <2>1 DEF AfterRetire, Retired, PoolInv, PoolOK
  <2>3. stopped' => state'[p] \notin {"starting", "open"}
    <3>1. CASE stopped
      BY <3>1, <2>1 DEF PoolInv, PoolOK, AfterRetire
    <3>2. CASE \A j \in Slots : Free(j)
      <4>1. Leases(p) = {} /\ Waiters(p) = {}
        BY <3>2 DEF Free, Leases, Waiters
      <4> QED
        BY <4>1, <2>1, RetireKeeps DEF PoolInv, PoolOK
    <3> QED
      BY <3>1, <3>2
  <2> QED
    BY <2>1, <2>2, <2>3, <1>1, RetireKeeps DEF PoolInv, PoolOK, Retired
<1>8. starting' # None => state'[starting'] = "starting" /\ version'[starting'] = startedFor'
  BY <1>1, RetireKeeps DEF PoolInv, PoolTypeOK
<1> QED
  BY <1>5, <1>6, <1>7, <1>8 DEF PoolInv

(* Every step keeps the invariant.                                         *)
LEMMA PoolNextKeeps == PoolInv /\ [PoolNext]_poolVars => PoolInv'
<1> SUFFICES ASSUME PoolInv, [PoolNext]_poolVars PROVE PoolInv'
  OBVIOUS
<1>1. ASSUME NEW j \in Slots, Begin(j) PROVE PoolInv'
  BY <1>1, BeginKeeps
<1>2. ASSUME NEW j \in Slots, Finish(j) PROVE PoolInv'
  BY <1>2, FinishKeeps
<1>3. ASSUME NEW p \in Pools, Install(p) PROVE PoolInv'
  BY <1>3, InstallKeeps
<1>4. ASSUME NEW p \in Pools, Discard(p) PROVE PoolInv'
  BY <1>4, DiscardKeeps
<1>5. ASSUME NEW p \in Pools, StartFails(p) PROVE PoolInv'
  BY <1>5, StartFailsKeeps
<1>6. ASSUME NEW v \in Versions \cup {None}, Change(v) PROVE PoolInv'
  <2>1. used' \in SUBSET (Versions \cup {None}) /\ model' \in Versions \cup {None}
    BY <1>6 DEF Change, PoolInv, PoolTypeOK
  <2> QED
    BY <1>6, <2>1, RetiredKeeps DEF Change
<1>7. CASE Stop
  <2>1. used' \in SUBSET (Versions \cup {None}) /\ model' \in Versions \cup {None}
    BY <1>7 DEF Stop, PoolInv, PoolTypeOK
  <2> QED
    BY <1>7, <2>1, RetiredKeeps DEF Stop
<1>8. CASE UNCHANGED poolVars
  BY <1>8 DEF poolVars, pools, PoolInv, PoolTypeOK, LeaseIsLive, PoolOK, Leases, Waiters
<1> QED
  BY <1>1, <1>2, <1>3, <1>4, <1>5, <1>6, <1>7, <1>8 DEF PoolNext

(* The invariant always holds.                                             *)
LEMMA PoolInductive == PoolSpec => []PoolInv
BY PoolInitHolds, PoolNextKeeps, PTL DEF PoolSpec

-----------------------------------------------------------------------------
(* The type invariant: active is the number of leases.                     *)
THEOREM PoolTypeCorrect == PoolSpec => []PoolTypeOK
<1>1. PoolInv => PoolTypeOK
  BY DEF PoolInv
<1> QED
  BY <1>1, PoolInductive, PTL

(* No pool is closed under a job that uses it (retireL3Pool, release).     *)
THEOREM LeaseIsAlwaysLive == PoolSpec => []LeaseIsLive
<1>1. PoolInv => LeaseIsLive
  BY DEF PoolInv
<1> QED
  BY <1>1, PoolInductive, PTL

(* No pool that nobody can reach stays open (retireL3Pool, release).       *)
THEOREM NoPoolIsForgotten == PoolSpec => []NoPoolLeaks
<1>1. PoolInv => NoPoolLeaks
  BY NoneAssumption DEF PoolInv, PoolTypeOK, LeaseIsLive, PoolOK, NoPoolLeaks, Leases, Waiters
<1> QED
  BY <1>1, PoolInductive, PTL

(* A job gets a pool of the model that is current then (acquireL3Pool).    *)
THEOREM LeaseIsOfCurrentModel == PoolSpec => LeaseIsCurrent
<1> DEFINE Current(j) == lease'[j] # lease[j] /\ lease'[j] # None => version'[lease'[j]] = model
<1> USE NoneAssumption
<1>1. ASSUME PoolInv, PoolNext PROVE \A j \in Slots : Current(j)
  <2>1. ASSUME NEW js, NEW gone, Acquire(js, gone) PROVE \A j \in Slots : Current(j)
    BY <2>1 DEF Acquire, LeaseManaged, Join, Start, Usable, Leased
  <2>2. ASSUME NEW p \in Pools, Discard(p) PROVE \A j \in Slots : Current(j)
    BY <2>1, <2>2 DEF Discard
  <2>3. ASSUME NEW p \in Pools, Install(p) PROVE \A j \in Slots : Current(j)
    BY <2>3 DEF Install, Leased
  <2>4. ASSUME NEW i \in Slots, Finish(i) PROVE \A j \in Slots : Current(j)
    BY <2>4 DEF Finish, Leased
  <2> QED
    BY <1>1, <2>1, <2>2, <2>3, <2>4 DEF PoolNext, Begin, StartFails, Change, Stop
<1>2. ASSUME UNCHANGED poolVars PROVE UNCHANGED lease
  BY <1>2 DEF poolVars
<1> QED
  BY <1>1, PoolInductive, PTL DEF PoolSpec, LeaseIsCurrent
=============================================================================
