----------------------------- MODULE Lifecycle ------------------------------
(***************************************************************************)
(* Starting and stopping: pgManager.Start, the goroutine that runs         *)
(* pgCache.Start, the informers that callers create before, during and     *)
(* after it, the runnables and the connection pool.                        *)
(*                                                                         *)
(* A critical section is one step, and so is each stretch of a goroutine   *)
(* between two of them.  An informer is toolscache.SharedIndexInformer,    *)
(* external: Run lists and watches until its stop channel closes, and      *)
(* HasSynced holds once its first list is in the store.  A caller adds a   *)
(* runnable at most once.                                                  *)
(***************************************************************************)
EXTENDS Integers

CONSTANTS
    GVKs,       \* the kinds callers ask informers for
    Runnables,  \* the controllers callers add
    Probes      \* whether HealthProbeBindAddress is set

ASSUME LifecycleAssumption == Probes \in BOOLEAN

VARIABLES
    ctx,        \* the context given to Start: "live" or "done"
    mpc,        \* where pgManager.Start is
    runnables,  \* pgManager.runnables
    copied,     \* the copy of them that Start launches
    ran,        \* what each runnable's goroutine is doing
    health,     \* the health probe server
    pool,       \* the connection pool
    cpc,        \* where pgCache.Start is
    stopCh,     \* pgCache.started and pgCache.stopCh: set together
    informers,  \* pgCache.informers: what each informer is doing
    runs,       \* history: how often Run was called for each informer
    batch,      \* the informers whose goroutines pgCache.Start waits for
    synced,     \* the informers whose HasSynced holds
    waited,     \* the informers WaitForCacheSync looks at
    early       \* history: the informers created before Start was called

managerVars == <<mpc, runnables, copied, ran, health, pool, waited, early>>
cacheVars == <<cpc, stopCh, informers, runs, batch, synced>>
vars == <<ctx, managerVars, cacheVars>>

-----------------------------------------------------------------------------

Created == {g \in GVKs : informers[g] # "absent"}

Init ==
    /\ ctx = "live"
    /\ mpc = "new"
    /\ runnables = {}
    /\ copied = {}
    /\ ran = [r \in Runnables |-> "no"]
    /\ health = "off"
    /\ pool = "open"
    /\ cpc = "none"
    /\ stopCh = "nil"
    /\ informers = [g \in GVKs |-> "absent"]
    /\ runs = [g \in GVKs |-> 0]
    /\ batch = {}
    /\ synced = {}
    /\ waited = {}
    /\ early = {}

\* The caller's context ends, at any time.
Cancel ==
    /\ ctx = "live"
    /\ ctx' = "done"
    /\ UNCHANGED <<managerVars, cacheVars>>

Add(r) ==
    /\ r \notin runnables
    /\ runnables' = runnables \cup {r}
    /\ UNCHANGED <<ctx, mpc, copied, ran, health, pool, waited, early, cacheVars>>

-----------------------------------------------------------------------------
(* The cache.                                                              *)

\* go inf.Run(stopCh), for each informer of gs.
Run(gs) ==
    /\ informers' = [g \in GVKs |-> IF g \in gs THEN "running" ELSE informers[g]]
    /\ runs' = [g \in GVKs |-> IF g \in gs THEN runs[g] + 1 ELSE runs[g]]

\* Mutant: an informer is run again by whoever asks for it.
GetInformer_RunsAgain(g) ==
    /\ informers[g] # "stopped"
    /\ IF stopCh = "nil"
       THEN informers' = [informers EXCEPT ![g] = "created"] /\ UNCHANGED runs
       ELSE Run({g})
    /\ UNCHANGED <<ctx, managerVars, cpc, stopCh, batch, synced>>

\* getOrCreateInformer, for an informer that is not there yet. Callers and
\* runnables call it at any time.
GetInformer(g) ==
    /\ informers[g] = "absent"
    /\ IF stopCh = "nil"
       THEN informers' = [informers EXCEPT ![g] = "created"] /\ UNCHANGED runs
       ELSE Run({g})
    /\ UNCHANGED <<ctx, managerVars, cpc, stopCh, batch, synced>>

\* Under the lock: started, the stop channel, and the informers to run.
CacheStart ==
    /\ cpc = "spawned"
    /\ cpc' = "launch"
    /\ stopCh' = "open"
    /\ batch' = Created
    /\ UNCHANGED <<ctx, managerVars, informers, runs, synced>>

CacheLaunch ==
    /\ cpc = "launch"
    /\ cpc' = "running"
    /\ Run(batch)
    /\ UNCHANGED <<ctx, managerVars, stopCh, batch, synced>>

\* Mutant: the stop channel is not closed.
CacheStop_KeepsOpen ==
    /\ cpc = "running"
    /\ ctx = "done"
    /\ cpc' = "waiting"
    /\ UNCHANGED <<ctx, managerVars, stopCh, informers, runs, batch, synced>>

CacheStop ==
    /\ cpc = "running"
    /\ ctx = "done"
    /\ cpc' = "waiting"
    /\ stopCh' = "closed"
    /\ UNCHANGED <<ctx, managerVars, informers, runs, batch, synced>>

\* Mutant: Start returns without waiting for its informers.
CacheReturn_NoWait ==
    /\ cpc = "waiting"
    /\ cpc' = "returned"
    /\ UNCHANGED <<ctx, managerVars, stopCh, informers, runs, batch, synced>>

CacheReturn ==
    /\ cpc = "waiting"
    /\ \A g \in batch : informers[g] = "stopped"
    /\ cpc' = "returned"
    /\ UNCHANGED <<ctx, managerVars, stopCh, informers, runs, batch, synced>>

\* The first list of an informer succeeds.
InformerSync(g) ==
    /\ informers[g] = "running"
    /\ g \notin synced
    /\ pool = "open"
    /\ synced' = synced \cup {g}
    /\ UNCHANGED <<ctx, managerVars, cpc, stopCh, informers, runs, batch>>

InformerStop(g) ==
    /\ informers[g] = "running"
    /\ stopCh = "closed"
    /\ informers' = [informers EXCEPT ![g] = "stopped"]
    /\ UNCHANGED <<ctx, managerVars, cpc, stopCh, runs, batch, synced>>

-----------------------------------------------------------------------------
(* The manager.                                                            *)

Start ==
    /\ mpc = "new"
    /\ mpc' = "sync"
    /\ health' = IF Probes THEN "serving" ELSE "off"
    /\ cpc' = "spawned"
    /\ early' = Created
    /\ UNCHANGED <<ctx, runnables, copied, ran, pool, waited, stopCh, informers,
                   runs, batch, synced>>

\* The probe server fails, or is closed when the context ends.
HealthStop ==
    /\ health = "serving"
    /\ health' = "off"
    /\ UNCHANGED <<ctx, mpc, runnables, copied, ran, pool, waited, early, cacheVars>>

\* WaitForCacheSync collects the HasSynced functions under the lock.
SyncCollect ==
    /\ mpc = "sync"
    /\ mpc' = "syncing"
    /\ waited' = Created
    /\ UNCHANGED <<ctx, runnables, copied, ran, health, pool, early, cacheVars>>

\* Mutant: one synced informer is enough.
SyncDone_Any ==
    /\ mpc = "syncing"
    /\ waited = {} \/ waited \cap synced # {}
    /\ mpc' = "synced"
    /\ UNCHANGED <<ctx, runnables, copied, ran, health, pool, waited, early, cacheVars>>

\* Mutant: as many synced informers as were collected, not those.
SyncDone_Exactly ==
    /\ mpc = "syncing"
    /\ waited = synced
    /\ mpc' = "synced"
    /\ UNCHANGED <<ctx, runnables, copied, ran, health, pool, waited, early, cacheVars>>

SyncDone ==
    /\ mpc = "syncing"
    /\ waited \subseteq synced
    /\ mpc' = "synced"
    /\ UNCHANGED <<ctx, runnables, copied, ran, health, pool, waited, early, cacheVars>>

\* "cache sync failed": Start returns at once, the pool stays open and nobody
\* waits for the cache's goroutine.
SyncFail ==
    /\ mpc = "syncing"
    /\ ctx = "done"
    /\ mpc' = "failed"
    /\ UNCHANGED <<ctx, runnables, copied, ran, health, pool, waited, early, cacheVars>>

CopyRunnables ==
    /\ mpc = "synced"
    /\ mpc' = "copied"
    /\ copied' = runnables
    /\ UNCHANGED <<ctx, runnables, ran, health, pool, waited, early, cacheVars>>

LaunchRunnables ==
    /\ mpc = "copied"
    /\ mpc' = "running"
    /\ ran' = [r \in Runnables |-> IF r \in copied THEN "running" ELSE ran[r]]
    /\ UNCHANGED <<ctx, runnables, copied, health, pool, waited, early, cacheVars>>

\* A runnable returns when the context ends or, with an error that is only
\* logged, at any time.
RunnableReturn(r) ==
    /\ ran[r] = "running"
    /\ ran' = [ran EXCEPT ![r] = "returned"]
    /\ UNCHANGED <<ctx, mpc, runnables, copied, health, pool, waited, early, cacheVars>>

Drain ==
    /\ mpc = "running"
    /\ ctx = "done"
    /\ mpc' = "draining"
    /\ UNCHANGED <<ctx, runnables, copied, ran, health, pool, waited, early, cacheVars>>

\* Mutant: the pool is closed without waiting for the runnables.
Close_NoWait ==
    /\ mpc = "draining"
    /\ cpc = "returned"
    /\ health = "off"
    /\ mpc' = "returned"
    /\ pool' = "closed"
    /\ UNCHANGED <<ctx, runnables, copied, ran, health, waited, early, cacheVars>>

\* wg.Wait() and pool.Close().
Close ==
    /\ mpc = "draining"
    /\ cpc = "returned"
    /\ health = "off"
    /\ \A r \in copied : ran[r] = "returned"
    /\ mpc' = "returned"
    /\ pool' = "closed"
    /\ UNCHANGED <<ctx, runnables, copied, ran, health, waited, early, cacheVars>>

-----------------------------------------------------------------------------

\* What goes on without anybody's decision.
Manager ==
    SyncCollect \/ SyncDone \/ SyncFail \/ CopyRunnables \/ LaunchRunnables \/ Drain \/ Close

Cache == CacheStart \/ CacheLaunch \/ CacheStop \/ CacheReturn

Next ==
    \/ Cancel
    \/ \E r \in Runnables : Add(r) \/ RunnableReturn(r)
    \/ \E g \in GVKs : GetInformer(g) \/ InformerSync(g) \/ InformerStop(g)
    \/ Cache
    \/ Start
    \/ HealthStop
    \/ Manager

Spec == Init /\ [][Next]_vars

\* The goroutines run; the database answers a list in the end; a runnable
\* and the probe server end once the context has ended.
Fairness ==
    /\ WF_vars(Manager)
    /\ WF_vars(Cache)
    /\ \A g \in GVKs : WF_vars(InformerSync(g)) /\ WF_vars(InformerStop(g))
    /\ \A r \in Runnables : WF_vars(ctx = "done" /\ RunnableReturn(r))
    /\ WF_vars(ctx = "done" /\ HealthStop)

FairSpec == Spec /\ Fairness

-----------------------------------------------------------------------------

TypeOK ==
    /\ ctx \in {"live", "done"}
    /\ mpc \in {"new", "sync", "syncing", "synced", "copied", "running", "draining",
                "returned", "failed"}
    /\ runnables \subseteq Runnables
    /\ copied \subseteq Runnables
    /\ ran \in [Runnables -> {"no", "running", "returned"}]
    /\ health \in {"off", "serving"}
    /\ pool \in {"open", "closed"}
    /\ cpc \in {"none", "spawned", "launch", "running", "waiting", "returned"}
    /\ stopCh \in {"nil", "open", "closed"}
    /\ informers \in [GVKs -> {"absent", "created", "running", "stopped"}]
    /\ runs \in [GVKs -> Nat]
    /\ batch \subseteq GVKs
    /\ synced \subseteq GVKs
    /\ waited \subseteq GVKs
    /\ early \subseteq GVKs

\* Whichever of getOrCreateInformer and pgCache.Start comes first, exactly
\* one of them runs an informer: no informer is run twice, and none that
\* exists once the cache has started its batch is left waiting.
RunOnce ==
    \A g \in GVKs :
        /\ runs[g] <= 1
        /\ cpc \in {"running", "waiting", "returned"} /\ informers[g] # "absent"
            => runs[g] = 1

\* A runnable is only ever started when all informers that were created
\* before Start have synced: a controller never reconciles from a store that
\* is still being filled.
SyncedFirst == \A r \in Runnables : ran[r] # "no" => early \subseteq synced

\* The pool is closed only when no runnable and none of the informers that
\* pgCache.Start has run can use it any more. (Informers created later are
\* not waited for.)
PoolOutlivesUsers ==
    pool = "closed" =>
        /\ \A r \in Runnables : ran[r] # "running"
        /\ \A g \in batch : informers[g] = "stopped"

\* How far the cache is, and what its informers can be doing then.
CachePhase ==
    /\ cpc = "none" <=> mpc = "new"
    /\ stopCh = "nil" <=> cpc \in {"none", "spawned"}
    /\ stopCh = "closed" <=> cpc \in {"waiting", "returned"}
    /\ cpc \in {"none", "spawned"} => batch = {}
    /\ \A g \in GVKs :
        /\ runs[g] = IF informers[g] \in {"running", "stopped"} THEN 1 ELSE 0
        /\ cpc \in {"none", "spawned"} => informers[g] \in {"absent", "created"}
        /\ cpc = "launch" => (g \in batch <=> informers[g] = "created")
        /\ cpc \in {"running", "waiting", "returned"} => informers[g] # "created"
        /\ cpc = "returned" /\ g \in batch => informers[g] = "stopped"

\* How far the manager is, and what it has waited for.
ManagerPhase ==
    /\ early \subseteq Created
    /\ mpc \notin {"new", "sync"} => early \subseteq waited
    /\ mpc \in {"synced", "copied", "running", "draining", "returned"} => waited \subseteq synced
    /\ \A r \in Runnables : ran[r] # "no" =>
        mpc \in {"running", "draining", "returned"} /\ r \in copied
    /\ pool = "closed" =>
        /\ mpc = "returned"
        /\ cpc = "returned"
        /\ \A r \in copied : ran[r] = "returned"

\* The inductive invariant.
LifecycleInv == TypeOK /\ CachePhase /\ ManagerPhase

\* Start always gets somewhere: the wait for the caches ends with the
\* runnables launched, or with the context.
StartGoesOn == mpc = "sync" ~> mpc = "running" \/ ctx = "done"

\* Once the context has ended, Start returns and every informer stops, those
\* that were created in the middle of the shutdown included.
ShutsDown ==
    ctx = "done" /\ mpc # "new" ~>
        /\ mpc \in {"returned", "failed"}
        /\ \A g \in GVKs : informers[g] # "running"

=============================================================================
