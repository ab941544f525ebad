------------------------------- MODULE L3Pool -------------------------------
(***************************************************************************)
(* The agent pools of an L3 worker (worker-main.ts).                       *)
(*                                                                         *)
(* A job leases the pool of the runtime model's current version.  The      *)
(* first job after a change of the model starts a new pool, the jobs that  *)
(* come meanwhile wait for the same initialization, and the pool that was  *)
(* in use is retired: it is closed when its last lease is given back.      *)
(*                                                                         *)
(* Waiters of one initialization go on one after the other before anything *)
(* else runs, so they are one step here.  What a pool does inside (Agent,  *)
(* sessions, prompt) is its state: starting, open or closed.               *)
(***************************************************************************)
EXTENDS Integers, FiniteSets

CONSTANTS
    Slots,       \* the worker's slots, ANYSENTRY_L3_CONCURRENCY of them
    Pools,       \* the L3AgentPool objects there will be
    Versions,    \* versions of the runtime model
    None

ASSUME SlotsAssumption == IsFiniteSet(Slots)
ASSUME NoneAssumption == None \notin Pools \cup Versions

VARIABLES
    model,       \* runtimeModel.get().version, or None
    used,        \* the versions there were: each is a new UUID
    state,       \* of each pool
    version,     \* the model each pool was made for
    active,      \* ManagedL3Pool.active
    retired,     \* ManagedL3Pool.retired
    managed,     \* managedL3Pool
    starting,    \* l3PoolInitialization
    startedFor,  \* l3PoolInitializationVersion
    wait,        \* the pool a job awaits
    lease,       \* the pool a job uses
    stopped      \* the worker has shut down

pools == <<state, version, active, retired>>
poolVars == <<model, used, pools, managed, starting, startedFor, wait, lease, stopped>>

Waiters(p) == {j \in Slots : wait[j] = p}
Leases(p) == {j \in Slots : lease[j] = p}
Free(j) == wait[j] = None /\ lease[j] = None

PoolInit ==
    /\ model \in Versions \cup {None}
    /\ used = {model}
    /\ state = [p \in Pools |-> "none"]
    /\ version = [p \in Pools |-> None]
    /\ active = [p \in Pools |-> 0]
    /\ retired = [p \in Pools |-> FALSE]
    /\ managed = None /\ starting = None /\ startedFor = None
    /\ wait = [j \in Slots |-> None] /\ lease = [j \in Slots |-> None]
    /\ stopped = FALSE

-----------------------------------------------------------------------------
\* retireL3Pool of the managed pool: closed at once if nobody leases it.
Retired(p) == p = managed \/ retired[p]

(* Mutant: a retired pool is closed though it is leased. *)
AfterRetireNow(p) == IF p = managed /\ ~retired[p] THEN "closed" ELSE state[p]

AfterRetire(p) ==
    IF p = managed /\ ~retired[p] /\ active[p] = 0 THEN "closed" ELSE state[p]

\* The managed pool can be leased.
Usable == managed # None /\ version[managed] = model /\ ~retired[managed]

Awaited(js, p) == wait' = [j \in Slots |-> IF j \in js THEN p ELSE wait[j]]
Leased(js, p) == lease' = [j \in Slots |-> IF j \in js THEN p ELSE lease[j]]

\* finally: the initializations that have ended, those of the pools in gone,
\* clear the variable, unless it is one for another version by now.
Latest(gone) == IF \E p \in gone : startedFor = version[p] THEN None ELSE starting

\* acquireL3Pool for the jobs js, after the pools in gone were closed: the
\* managed pool, the one that is being started for this model, or a new one.
LeaseManaged(js, gone) ==
    /\ Usable
    /\ Leased(js, managed) /\ Awaited(js, None)
    /\ active' = [active EXCEPT ![managed] = @ + Cardinality(js)]
    /\ state' = [p \in Pools |-> IF p \in gone THEN "closed" ELSE state[p]]
    /\ starting' = Latest(gone)
    /\ UNCHANGED <<version, startedFor>>

Join(js, gone) ==
    /\ ~Usable /\ Latest(gone) # None /\ startedFor = model
    /\ Awaited(js, starting)
    /\ state' = [p \in Pools |-> IF p \in gone THEN "closed" ELSE state[p]]
    /\ UNCHANGED <<version, active, starting, startedFor, lease>>

Start(js, gone) ==
    /\ ~Usable /\ (Latest(gone) = None \/ startedFor # model)
    /\ \E q \in Pools :
          /\ state[q] = "none"
          /\ state' = [p \in Pools |-> IF p \in gone THEN "closed"
                                       ELSE IF p = q THEN "starting" ELSE state[p]]
          /\ version' = [version EXCEPT ![q] = model]
          /\ starting' = q /\ startedFor' = model
          /\ Awaited(js, q)
    /\ UNCHANGED <<active, lease>>

Acquire(js, gone) ==
    /\ model # None
    /\ LeaseManaged(js, gone) \/ Join(js, gone) \/ Start(js, gone)

\* A job that needs L3 asks for a pool.  Without a model it throws.
Begin(j) ==
    /\ Free(j) /\ ~stopped
    /\ Acquire({j}, {})
    /\ UNCHANGED <<model, used, retired, managed, stopped>>

(* Mutant: the waiters take the pool without looking at the model again. *)
InstallStale(p) ==
    LET js == Waiters(p)
    IN /\ state[p] = "starting"
       /\ state' = [q \in Pools |-> IF q = p THEN "open" ELSE AfterRetire(q)]
       /\ retired' = [q \in Pools |-> IF q = p THEN Cardinality(js) > 1 ELSE Retired(q)]
       /\ active' = [active EXCEPT ![p] = Cardinality(js)]
       /\ managed' = p
       /\ Leased(js, p) /\ Awaited(js, None)
       /\ starting' = Latest({p})
       /\ UNCHANGED <<model, used, version, startedFor, stopped>>

\* The pool is initialized and the model is still the one it is for: every
\* waiter retires the managed pool and puts this one in its place, which for
\* the second waiter is this very pool.
Install(p) ==
    LET js == Waiters(p)
    IN /\ state[p] = "starting" /\ version[p] = model
       /\ state' = [q \in Pools |-> IF q = p THEN "open" ELSE AfterRetire(q)]
       /\ retired' = [q \in Pools |-> IF q = p THEN Cardinality(js) > 1 ELSE Retired(q)]
       /\ active' = [active EXCEPT ![p] = Cardinality(js)]
       /\ managed' = p
       /\ Leased(js, p) /\ Awaited(js, None)
       /\ starting' = Latest({p})
       /\ UNCHANGED <<model, used, version, startedFor, stopped>>

\* The model has changed meanwhile: the pool is closed and its waiters ask
\* again, or fail when there is no model any more.
Discard(p) ==
    /\ state[p] = "starting" /\ version[p] # model
    /\ retired' = [retired EXCEPT ![p] = TRUE]
    /\ \/ Acquire(Waiters(p), {p})
       \/ /\ model = None
          /\ state' = [state EXCEPT ![p] = "closed"]
          /\ Awaited(Waiters(p), None) /\ starting' = Latest({p})
          /\ UNCHANGED <<version, active, startedFor, lease>>
    /\ UNCHANGED <<model, used, managed, stopped>>

\* initialize() or prewarm() fails: the pool is closed, and so do its waiters.
StartFails(p) ==
    /\ state[p] = "starting"
    /\ state' = [state EXCEPT ![p] = "closed"]
    /\ Awaited(Waiters(p), None) /\ starting' = Latest({p})
    /\ UNCHANGED <<model, used, version, active, retired, managed, startedFor,
                   lease, stopped>>

(* Mutant: the last lease of a retired pool does not close it. *)
FinishOnly(j) ==
    LET p == lease[j]
    IN /\ p # None
       /\ active' = [active EXCEPT ![p] = @ - 1]
       /\ Leased({j}, None)
       /\ UNCHANGED <<model, used, state, version, retired, managed, starting,
                      startedFor, wait, stopped>>

\* run() has ended, whichever way and after the session was disposed of: the
\* lease is given back, and the last one of a retired pool closes it.
Finish(j) ==
    LET p == lease[j]
    IN /\ p # None
       /\ active' = [active EXCEPT ![p] = @ - 1]
       /\ state' = [state EXCEPT ![p] = IF retired[p] /\ active[p] = 1 THEN "closed" ELSE @]
       /\ Leased({j}, None)
       /\ UNCHANGED <<model, used, version, retired, managed, starting, startedFor,
                      wait, stopped>>

RetireManaged ==
    /\ state' = [p \in Pools |-> AfterRetire(p)]
    /\ retired' = [p \in Pools |-> Retired(p)]

\* The control plane publishes another model, or none.
Change(v) ==
    /\ ~stopped /\ v \notin used \ {None} /\ v # model
    /\ model' = v /\ used' = used \cup {v}
    /\ RetireManaged
    /\ managed' = None
    /\ UNCHANGED <<version, active, starting, startedFor, wait, lease, stopped>>

\* SIGTERM: the worker waits for its jobs, and retires the managed pool.
Stop ==
    /\ ~stopped /\ \A j \in Slots : Free(j)
    /\ stopped' = TRUE
    /\ RetireManaged
    /\ UNCHANGED <<model, used, version, active, managed, starting, startedFor,
                   wait, lease>>

PoolNext ==
    \/ \E j \in Slots : Begin(j) \/ Finish(j)
    \/ \E p \in Pools : Install(p) \/ Discard(p) \/ StartFails(p)
    \/ \E v \in Versions \cup {None} : Change(v)
    \/ Stop

PoolSpec == PoolInit /\ [][PoolNext]_poolVars

-----------------------------------------------------------------------------
(***************************************************************************)
(* active counts the leases of its pool, also when a pool is given to      *)
(* several waiters at once, and a job waits only for a pool that is being  *)
(* started (acquireL3Pool, release).                                       *)
(***************************************************************************)
PoolTypeOK ==
    /\ model \in Versions \cup {None} /\ used \subseteq Versions \cup {None}
    /\ state \in [Pools -> {"none", "starting", "open", "closed"}]
    /\ version \in [Pools -> Versions \cup {None}]
    /\ active \in [Pools -> Nat] /\ retired \in [Pools -> BOOLEAN]
    /\ managed \in Pools \cup {None} /\ starting \in Pools \cup {None}
    /\ startedFor \in Versions \cup {None}
    /\ wait \in [Slots -> Pools \cup {None}] /\ lease \in [Slots -> Pools \cup {None}]
    /\ stopped \in BOOLEAN
    /\ \A p \in Pools : active[p] = Cardinality(Leases(p))
    /\ \A j \in Slots : wait[j] # None => lease[j] = None /\ state[wait[j]] = "starting"

(***************************************************************************)
(* Nobody closes a pool under a job that uses it: not a change of the      *)
(* model, not a second waiter that retires the pool it was given, not the  *)
(* end of another job, not the shutdown (retireL3Pool, release).           *)
(***************************************************************************)
LeaseIsLive ==
    \A j \in Slots : lease[j] # None => state[lease[j]] = "open"

(***************************************************************************)
(* A pool that nobody can reach is closed: an open one is the managed one, *)
(* or is retired and leased, so that the last job closes it; one that is   *)
(* being started has a job that will install or discard it; and after the  *)
(* shutdown there is none.                                                 *)
(***************************************************************************)
NoPoolLeaks ==
    \A p \in Pools :
       /\ state[p] = "open" =>
             /\ ~stopped \/ Leases(p) # {}
             /\ Leases(p) = {} => p = managed /\ ~retired[p]
             /\ p # managed => retired[p]
       /\ state[p] = "starting" => Waiters(p) # {}

(***************************************************************************)
(* A job investigates with the model that is current when it gets its      *)
(* pool, though the pool was asked for earlier (the check after the await  *)
(* in acquireL3Pool).                                                      *)
(***************************************************************************)
LeaseIsCurrent ==
    [][\A j \in Slots : lease'[j] # lease[j] /\ lease'[j] # None
                          => version'[lease'[j]] = model]_poolVars
=============================================================================
