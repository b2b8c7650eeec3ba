------------------------------ MODULE Verifier ------------------------------
(***************************************************************************)
(* The canary probe: one goroutine writes an object now and then and takes *)
(* the events of its own watcher, to see that what it wrote arrives.       *)
(*                                                                         *)
(* Other sessions write and compact other objects of the GVK; of them only *)
(* the stamps matter.  A poll is one step here (Watch shows what its       *)
(* statements do), and the events it returns count as undelivered until    *)
(* the verifier takes them: the next poll starts when the ones left fit    *)
(* the watcher's channel.  Latencies are left out, the slots of the ring   *)
(* that they fill are not.                                                 *)
(***************************************************************************)
EXTENDS Integers, Sequences, FiniteSets

CONSTANTS
    Others,         \* objects of other writers
    RingSize,       \* canaryRingSize
    ChanCap,        \* capacity of the watcher's channel
    MaxXid,         \* bound: the last transaction id handed out
    MaxRestarts     \* bound: times the verifier's process starts anew

ASSUME VerifierAssumption ==
    /\ RingSize \in Nat \ {0}
    /\ ChanCap \in Nat \ {0}
    /\ MaxXid \in Nat
    /\ MaxRestarts \in Nat
    /\ IsFiniteSet(Others)
    /\ \A n \in 0..MaxXid : n \notin Others

VARIABLES
    table,      \* the stamp of each object, 0 when there is no row
    horizon,    \* compaction_horizon.compacted_xid
    nextXid,    \* the next transaction id
    open,       \* the ids of other sessions' transactions in flight
    watcher,    \* the watcher: whether Run goes on, its high-water mark, and what
                \* it has polled and the verifier has not taken
    ver,        \* the verifier, see NewVerifier
    restarts    \* restarts so far

dbVars == <<table, horizon, nextXid, open>>
vars == <<dbVars, watcher, ver, restarts>>

\* The canary of number n is the object n of the namespace _verifier.
Names == 0..MaxXid

Objects == Names \cup Others

-----------------------------------------------------------------------------

\* The watcher that Run starts: from 0, whatever the table holds.
NewWatcher == [alive |-> TRUE, hwm |-> 0, events |-> <<>>]

\* New. The goroutine is at pc, xid is the transaction of the canary it writes,
\* hwm the highest stamp taken, count canaryCount, pending pendingCanaries, idx
\* and full the state of the ring. The rest is history: canaries measured,
\* canaries dropped, and those recorded for a write that changed nothing.
NewVerifier ==
    [pc |-> "loop", xid |-> 0, hwm |-> 0, count |-> 0, pending |-> {},
     idx |-> 0, full |-> FALSE, measured |-> 0, dropped |-> 0, stale |-> {}]

Init ==
    /\ table = [o \in Objects |-> 0]
    /\ horizon = 0
    /\ nextXid = 1
    /\ open = {}
    /\ watcher = NewWatcher
    /\ ver = NewVerifier
    /\ restarts = 0

OtherBegin ==
    /\ nextXid <= MaxXid
    /\ open' = open \cup {nextXid}
    /\ nextXid' = nextXid + 1
    /\ UNCHANGED <<table, horizon, watcher, ver, restarts>>

\* A write of another session commits, or is rolled back.
OtherEnd(x) ==
    /\ open' = open \ {x}
    /\ \/ \E o \in Others : table' = [table EXCEPT ![o] = x]
       \/ UNCHANGED table
    /\ UNCHANGED <<horizon, nextXid, watcher, ver, restarts>>

\* Compact removes an object that was deleted.
Compact(o) ==
    /\ table[o] # 0
    /\ table' = [table EXCEPT ![o] = 0]
    /\ horizon' = IF table[o] > horizon THEN table[o] ELSE horizon
    /\ UNCHANGED <<nextXid, open, watcher, ver, restarts>>

InFlight == open \cup (IF ver.pc = "write" THEN {ver.xid} ELSE {})

IsXmin(x) ==
    /\ x \in InFlight \cup {nextXid}
    /\ \A y \in InFlight : x <= y

\* The rows above the high-water mark, in the order of their stamps.
Found == {[object |-> o, stamp |-> table[o]] : o \in {o \in Objects : table[o] > watcher.hwm}}

InOrder(evs) == \A i, j \in DOMAIN evs : i < j => evs[i].stamp < evs[j].stamp

\* Mutant: the high-water mark moves to the last stamp delivered.
Poll_ToLastStamp ==
    /\ watcher.alive
    /\ Len(watcher.events) <= ChanCap
    /\ watcher.hwm >= horizon
    /\ \E evs \in [1..Cardinality(Found) -> Found] :
        /\ InOrder(evs)
        /\ watcher' = [watcher EXCEPT !.hwm = IF evs = <<>> THEN @ ELSE evs[Len(evs)].stamp,
                                     !.events = @ \o evs]
    /\ UNCHANGED <<dbVars, ver, restarts>>

\* The watcher polls. The high-water mark moves to xmin - 1.
Poll ==
    /\ watcher.alive
    /\ Len(watcher.events) <= ChanCap
    /\ watcher.hwm >= horizon
    /\ \E x \in 1..nextXid : \E evs \in [1..Cardinality(Found) -> Found] :
        /\ IsXmin(x)
        /\ InOrder(evs)
        /\ watcher' = [watcher EXCEPT !.hwm = IF x - 1 > @ THEN x - 1 ELSE @,
                                     !.events = @ \o evs]
    /\ UNCHANGED <<dbVars, ver, restarts>>

\* 410 Gone, or a database error at any time: the watcher ends.
WatcherEnds ==
    /\ watcher.alive
    /\ Len(watcher.events) <= ChanCap
    /\ watcher' = [watcher EXCEPT !.alive = FALSE]
    /\ UNCHANGED <<dbVars, ver, restarts>>

\* Mutant: the ring wraps one slot late.
Measure_WrapsLate(v) ==
    [v EXCEPT !.idx = IF @ + 1 > RingSize THEN 0 ELSE @ + 1,
              !.full = @ \/ v.idx + 1 > RingSize,
              !.measured = @ + 1]

\* A latency goes into the next slot of the ring.
Measure(v) ==
    [v EXCEPT !.idx = IF @ + 1 >= RingSize THEN 0 ELSE @ + 1,
              !.full = @ \/ v.idx + 1 >= RingSize,
              !.measured = @ + 1]

\* Mutant: a stamp that is not above the highest one taken is not looked at.
Checked_SkipsOld(v, e) ==
    LET arrived == e.object \in v.pending /\ e.stamp > v.hwm IN
    [IF arrived THEN Measure(v) ELSE v EXCEPT
        !.pending = IF arrived THEN @ \ {e.object} ELSE @,
        !.hwm = IF e.stamp > @ THEN e.stamp ELSE @]

\* checkEvent. A stamp at or below the highest one taken is counted as a
\* re-delivery (the counter is left out) and treated as any other.
Checked(v, e) ==
    LET arrived == e.object \in v.pending IN
    [IF arrived THEN Measure(v) ELSE v EXCEPT
        !.pending = IF arrived THEN @ \ {e.object} ELSE @,
        !.hwm = IF e.stamp > @ THEN e.stamp ELSE @]

CheckEvent ==
    /\ ver.pc = "loop"
    /\ watcher.events # <<>>
    /\ watcher' = [watcher EXCEPT !.events = Tail(@)]
    /\ ver' = Checked(ver, Head(watcher.events))
    /\ UNCHANGED <<dbVars, restarts>>

\* The ticker fires. The goroutine takes no event until the write has ended.
CanaryBegin ==
    /\ ver.pc = "loop"
    /\ nextXid <= MaxXid
    /\ ver' = [ver EXCEPT !.pc = "write", !.xid = nextXid]
    /\ nextXid' = nextXid + 1
    /\ UNCHANGED <<table, horizon, open, watcher, restarts>>

\* The create of the next name is committed.
Land ==
    /\ table[ver.count] = 0
    /\ table' = [table EXCEPT ![ver.count] = ver.xid]

CanaryCommit ==
    /\ ver.pc = "write"
    /\ Land
    /\ ver' = [ver EXCEPT !.pc = "record"]
    /\ UNCHANGED <<horizon, nextXid, open, watcher, restarts>>

\* An earlier process wrote that name, or this one did and got an error: the
\* content is the same, so the write succeeds and changes nothing.
CanarySuppressed ==
    /\ ver.pc = "write"
    /\ table[ver.count] # 0
    /\ ver' = [ver EXCEPT !.pc = "record", !.stale = @ \cup {ver.count}]
    /\ UNCHANGED <<dbVars, watcher, restarts>>

\* An error, before the commit or after it: the name will be tried again.
CanaryFails ==
    /\ ver.pc = "write"
    /\ ver' = [ver EXCEPT !.pc = "loop"]
    /\ Land \/ UNCHANGED table
    /\ UNCHANGED <<horizon, nextXid, open, watcher, restarts>>

\* Mutant: the pending canaries are not bounded.
CanaryRecord_Unbounded ==
    /\ ver.pc = "record"
    /\ ver' = [ver EXCEPT !.pc = "loop", !.count = @ + 1, !.pending = @ \cup {ver.count}]
    /\ UNCHANGED <<dbVars, watcher, restarts>>

\* The write returned: the canary is pending. When RingSize are, any one of
\* them is dropped.
CanaryRecord ==
    /\ ver.pc = "record"
    /\ IF Cardinality(ver.pending) >= RingSize
       THEN \E n \in ver.pending :
            ver' = [ver EXCEPT !.pc = "loop", !.count = @ + 1, !.dropped = @ + 1,
                               !.pending = (@ \ {n}) \cup {ver.count}]
       ELSE ver' = [ver EXCEPT !.pc = "loop", !.count = @ + 1,
                               !.pending = @ \cup {ver.count}]
    /\ UNCHANGED <<dbVars, watcher, restarts>>

\* The channel is closed and empty: Run returns, no more canaries are written.
RunReturns ==
    /\ ver.pc = "loop"
    /\ ~watcher.alive
    /\ watcher.events = <<>>
    /\ ver' = [ver EXCEPT !.pc = "ended"]
    /\ UNCHANGED <<dbVars, watcher, restarts>>

\* The process starts anew. A canary that was being written may have landed.
Restart ==
    /\ restarts < MaxRestarts
    /\ restarts' = restarts + 1
    /\ watcher' = NewWatcher
    /\ ver' = NewVerifier
    /\ (ver.pc = "write" /\ Land) \/ UNCHANGED table
    /\ UNCHANGED <<horizon, nextXid, open>>

Canary == CanaryCommit \/ CanarySuppressed \/ CanaryFails \/ CanaryRecord

Next ==
    \/ OtherBegin
    \/ \E x \in open : OtherEnd(x)
    \/ \E o \in Others : Compact(o)
    \/ Poll
    \/ WatcherEnds
    \/ CheckEvent
    \/ CanaryBegin
    \/ Canary
    \/ RunReturns
    \/ Restart

\* The watcher's timer fires again and again, and so does the verifier's select
\* take events: it chooses at random among the cases that are ready.
Fairness ==
    /\ WF_vars(Poll)
    /\ SF_vars(CheckEvent)
    /\ WF_vars(Canary)

Spec == Init /\ [][Next]_vars /\ Fairness

-----------------------------------------------------------------------------

Verifiers ==
    [pc : {"loop", "write", "record", "ended"}, xid : 0..MaxXid, hwm : 0..MaxXid,
     count : Names, pending : SUBSET Names, idx : 0..(RingSize - 1), full : BOOLEAN,
     measured : Nat, dropped : Nat, stale : SUBSET Names]

\* The types: no measurement goes outside the ring.
TypeOK ==
    /\ table \in [Objects -> 0..MaxXid]
    /\ horizon \in 0..MaxXid
    /\ nextXid \in 1..(MaxXid + 1)
    /\ open \in SUBSET (1..MaxXid)
    /\ watcher \in [alive : BOOLEAN, hwm : 0..MaxXid,
                    events : Seq([object : Objects, stamp : 1..MaxXid])]
    /\ ver \in Verifiers
    /\ restarts \in 0..MaxRestarts

\* Every canary that was written is accounted for, once: it is pending, its
\* delivery was measured, or it made room for another one. The pending ones
\* never outgrow their bound, and the ring holds the latest measurements also
\* after it has wrapped.
Accounted ==
    /\ ver.count = ver.measured + ver.dropped + Cardinality(ver.pending)
    /\ Cardinality(ver.pending) <= RingSize
    /\ ver.idx = ver.measured % RingSize
    /\ ver.full <=> ver.measured >= RingSize

\* The canaries that wait for an event, or are about to, after a write that
\* changed the table.
Awaited ==
    (ver.pending \cup (IF ver.pc = "record" THEN {ver.count} ELSE {})) \ ver.stale

\* Completeness: while its watcher runs, an awaited canary is on its way. Its
\* event is among those not taken, or its row is above the high-water mark; it
\* cannot have been taken before it was recorded.
CanaryOnItsWay ==
    watcher.alive => \A n \in Awaited :
        \/ table[n] > watcher.hwm
        \/ \E i \in DOMAIN watcher.events : watcher.events[i].object = n

\* Transaction ids: no stamp is that of a transaction still to come, and the
\* watcher's high-water mark is below every transaction in flight, the canary's
\* own too, so that a commit is always above it. Each canary that is recorded
\* has used up a transaction.
XidInv ==
    /\ \A o \in Objects : table[o] < nextXid
    /\ \A x \in InFlight : watcher.hwm < x /\ x < nextXid
    /\ watcher.hwm < nextXid
    /\ ver.count + (IF ver.pc \in {"write", "record"} THEN 1 ELSE 0) < nextXid

\* The pending canaries have lower numbers than the next one.
PendingInv == \A n \in ver.pending : n < ver.count

\* The inductive invariant of the probe.
VerifierInv == TypeOK /\ XidInv /\ PendingInv /\ Accounted /\ CanaryOnItsWay

\* An awaited canary is measured, or dropped, unless the watcher ends first or
\* can no longer poll because it is below the horizon.
CanaryArrives ==
    \A n \in Names : n \in Awaited ~>
        (n \notin Awaited \/ ~watcher.alive \/ watcher.hwm < horizon)

=============================================================================
