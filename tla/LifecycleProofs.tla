-------------------------- MODULE LifecycleProofs ---------------------------
(***************************************************************************)
(* Proofs about Lifecycle for every set of kinds and runnables.            *)
(***************************************************************************)
EXTENDS Lifecycle, TLAPS

\* Nothing is created or started before the first call.
LEMMA InitInv == Init => LifecycleInv
  BY LifecycleAssumption
  DEF Init, LifecycleInv, TypeOK, CachePhase, ManagerPhase, Created

\* What callers and the environment do: cancel, add, ask for an informer.
LEMMA CallersKeepInv ==
    ASSUME LifecycleInv
    PROVE  /\ Cancel => LifecycleInv'
           /\ \A r \in Runnables : Add(r) \/ RunnableReturn(r) => LifecycleInv'
           /\ HealthStop => LifecycleInv'
<1> USE DEF LifecycleInv
<1>1. ASSUME Cancel PROVE LifecycleInv'
  BY <1>1 DEF Cancel, managerVars, cacheVars, TypeOK, CachePhase, ManagerPhase, Created
<1>2. ASSUME NEW r \in Runnables, Add(r) PROVE LifecycleInv'
  BY <1>2 DEF Add, cacheVars, TypeOK, CachePhase, ManagerPhase, Created
<1>3. ASSUME NEW r \in Runnables, RunnableReturn(r) PROVE LifecycleInv'
  <2>1. TypeOK' /\ CachePhase'
    BY <1>3 DEF RunnableReturn, cacheVars, TypeOK, CachePhase
  <2>2. ManagerPhase'
    BY <1>3 DEF RunnableReturn, cacheVars, TypeOK, ManagerPhase, Created
  <2> QED
    BY <2>1, <2>2
<1>4. ASSUME HealthStop PROVE LifecycleInv'
  BY <1>4 DEF HealthStop, cacheVars, TypeOK, CachePhase, ManagerPhase, Created
<1> QED
  BY <1>1, <1>2, <1>3, <1>4

\* getOrCreateInformer runs an informer exactly when pgCache.Start will not.
LEMMA GetInformerKeepsInv ==
    ASSUME LifecycleInv, NEW g \in GVKs, GetInformer(g)
    PROVE  LifecycleInv'
<1> USE DEF LifecycleInv
<1>1. TypeOK'
  BY DEF GetInformer, Run, managerVars, TypeOK
<1>2. CachePhase'
  <2>1. CASE stopCh = "nil"
    BY <2>1 DEF GetInformer, managerVars, TypeOK, CachePhase
  <2>2. CASE stopCh # "nil"
    BY <2>2 DEF GetInformer, Run, managerVars, TypeOK, CachePhase
  <2> QED
    BY <2>1, <2>2
<1>3. ManagerPhase'
  BY DEF GetInformer, Run, managerVars, TypeOK, ManagerPhase, Created
<1> QED
  BY <1>1, <1>2, <1>3

\* An informer fills its store, and stops when it is told to.
LEMMA InformerKeepsInv ==
    ASSUME LifecycleInv, NEW g \in GVKs, InformerSync(g) \/ InformerStop(g)
    PROVE  LifecycleInv'
<1> USE DEF LifecycleInv
<1>1. TypeOK'
  BY DEF InformerSync, InformerStop, managerVars, TypeOK
<1>2. CachePhase'
  BY DEF InformerSync, InformerStop, managerVars, TypeOK, CachePhase
<1>3. ManagerPhase'
  BY DEF InformerSync, InformerStop, managerVars, TypeOK, ManagerPhase, Created
<1> QED
  BY <1>1, <1>2, <1>3

\* pgCache.Start.
LEMMA CacheKeepsInv ==
    ASSUME LifecycleInv, Cache
    PROVE  LifecycleInv'
<1> USE DEF LifecycleInv
<1>1. CASE CacheStart
  <2>1. TypeOK' /\ ManagerPhase'
    BY <1>1 DEF CacheStart, managerVars, TypeOK, ManagerPhase, Created
  <2>2. CachePhase'
    BY <1>1 DEF CacheStart, managerVars, TypeOK, CachePhase, Created
  <2> QED
    BY <2>1, <2>2
<1>2. CASE CacheLaunch
  <2>1. TypeOK'
    BY <1>2 DEF CacheLaunch, Run, managerVars, TypeOK
  <2>2. CachePhase'
    BY <1>2 DEF CacheLaunch, Run, managerVars, TypeOK, CachePhase
  <2>3. ManagerPhase'
    BY <1>2 DEF CacheLaunch, Run, managerVars, TypeOK, ManagerPhase, Created
  <2> QED
    BY <2>1, <2>2, <2>3
<1>3. CASE CacheStop \/ CacheReturn
  BY <1>3 DEF CacheStop, CacheReturn, managerVars, TypeOK, CachePhase, ManagerPhase, Created
<1> QED
  BY <1>1, <1>2, <1>3 DEF Cache

\* pgManager.Start.
LEMMA ManagerKeepsInv ==
    ASSUME LifecycleInv, Start \/ Manager
    PROVE  LifecycleInv'
<1> USE DEF LifecycleInv
<1>1. CASE Start
  BY <1>1 DEF Start, TypeOK, CachePhase, ManagerPhase, Created
<1>2. CASE SyncCollect \/ SyncDone \/ SyncFail \/ CopyRunnables \/ Drain
  BY <1>2 DEF SyncCollect, SyncDone, SyncFail, CopyRunnables, Drain, cacheVars,
              TypeOK, CachePhase, ManagerPhase, Created
<1>3. CASE LaunchRunnables
  BY <1>3 DEF LaunchRunnables, cacheVars, TypeOK, CachePhase, ManagerPhase, Created
<1>4. CASE Close
  BY <1>4 DEF Close, cacheVars, TypeOK, CachePhase, ManagerPhase, Created
<1> QED
  BY <1>1, <1>2, <1>3, <1>4 DEF Manager

\* The invariant is inductive.
LEMMA NextKeepsInv == LifecycleInv /\ [Next]_vars => LifecycleInv'
<1>1. CASE LifecycleInv /\ Next
  BY <1>1, CallersKeepInv, GetInformerKeepsInv, InformerKeepsInv, CacheKeepsInv,
     ManagerKeepsInv DEF Next
<1>2. CASE LifecycleInv /\ UNCHANGED vars
  BY <1>2 DEF vars, managerVars, cacheVars, LifecycleInv, TypeOK, CachePhase,
              ManagerPhase, Created
<1> QED
  BY <1>1, <1>2

\* The invariant holds throughout, for every order of creating informers,
\* adding runnables, starting and cancelling.
THEOREM LifecycleInvariant == Spec => []LifecycleInv
<1>1. Init => LifecycleInv
  BY InitInv
<1>2. LifecycleInv /\ [Next]_vars => LifecycleInv'
  BY NextKeepsInv
<1> QED
  BY <1>1, <1>2, PTL DEF Spec

\* Every informer is run exactly once, whichever of getOrCreateInformer and
\* pgCache.Start comes first.
THEOREM InformersRunOnce == Spec => []RunOnce
<1>1. LifecycleInv => RunOnce
  <2> SUFFICES ASSUME LifecycleInv, NEW g \in GVKs
               PROVE  /\ runs[g] <= 1
                      /\ cpc \in {"running", "waiting", "returned"} /\ informers[g] # "absent"
                            => runs[g] = 1
    BY DEF RunOnce
  <2>1. informers[g] \in {"absent", "created", "running", "stopped"}
    BY DEF LifecycleInv, TypeOK
  <2>2. /\ runs[g] = IF informers[g] \in {"running", "stopped"} THEN 1 ELSE 0
        /\ cpc \in {"running", "waiting", "returned"} => informers[g] # "created"
    BY DEF LifecycleInv, CachePhase
  <2> QED
    BY <2>1, <2>2
<1> QED
  BY <1>1, LifecycleInvariant, PTL

\* No runnable starts before the informers created ahead of Start have synced.
THEOREM RunnablesStartSynced == Spec => []SyncedFirst
<1>1. LifecycleInv => SyncedFirst
  BY DEF LifecycleInv, ManagerPhase, SyncedFirst
<1> QED
  BY <1>1, LifecycleInvariant, PTL

\* The pool is closed last.
THEOREM PoolClosedLast == Spec => []PoolOutlivesUsers
<1>1. LifecycleInv => PoolOutlivesUsers
  BY DEF LifecycleInv, TypeOK, CachePhase, ManagerPhase, PoolOutlivesUsers
<1> QED
  BY <1>1, LifecycleInvariant, PTL
=============================================================================
