------------------------------- MODULE Watch --------------------------------
(***************************************************************************)
(* A List+Watch consumer of the store: reader.List, the Watcher's polls,   *)
(* its buffered event channel, and the informer store that the events are  *)
(* relayed to.  The writers and Compact of Store run concurrently with     *)
(* every step.                                                             *)
(*                                                                         *)
(* List and poll each run in one REPEATABLE READ transaction, so all their *)
(* statements read the snapshot that the first one took.  When a poll      *)
(* happens (doorbell, timer) is left to the scheduler: here a watcher that *)
(* is not busy may poll at any time.  A consumer whose watch ended with an *)
(* error lists again; a consumer whose process restarts lists again with   *)
(* an empty store.                                                         *)
(***************************************************************************)
EXTENDS Store, Sequences, FiniteSets

CONSTANTS
    Owned,      \* the keys whose namespaces hash to a residue of this replica
    ChanCap,    \* capacity of the channel Watcher.events
    MaxFaults   \* bound: database errors and process restarts

ASSUME WatchAssumption ==
    /\ IsFiniteSet(Keys)
    /\ Owned \subseteq Keys
    /\ ChanCap \in Nat \ {0}
    /\ MaxFaults \in Nat

VARIABLES
    wpc,        \* where the consumer's loop is
    snap,       \* the snapshot of its open read transaction
    hwm,        \* Watcher.hwm
    out,        \* events of the last poll not yet put on the channel
    chan,       \* Watcher.events
    cache,      \* the informer's store: the object or NoRow per key
    faults      \* faults so far

watchVars == <<wpc, snap, hwm, out, chan, cache, faults>>
vars == <<storeVars, watchVars>>

-----------------------------------------------------------------------------

Types == {"ADDED", "MODIFIED", "DELETED"}

EventType(row) ==
    IF row.del # 0 THEN "DELETED" ELSE IF row.ver = 1 THEN "ADDED" ELSE "MODIFIED"

Events == [key : Owned, type : Types, row : Row]

Event(k, row) == [key |-> k, type |-> EventType(row), row |-> row]

\* relay: a deletion that finalizers hold up is still an object.
Relayed(e) ==
    IF e.type = "DELETED" /\ ~e.row.fin THEN "DELETED"
    ELSE IF e.type = "DELETED" THEN "MODIFIED" ELSE e.type

\* What the informer store holds for the key of an event once it is applied.
Applied(e) == IF Relayed(e) = "DELETED" THEN NoRow ELSE e.row

\* The rows of the poll's query, of the owned keys and above the high-water
\* mark, in the order of their stamps.
IsScan(evs, s, h) ==
    /\ \A i \in 1..Len(evs) : \E k \in Owned :
        s[k] # NoRow /\ s[k].stamp > h /\ evs[i] = Event(k, s[k])
    /\ \A k \in Owned : s[k] # NoRow /\ s[k].stamp > h =>
        \E i \in 1..Len(evs) : evs[i] = Event(k, s[k])
    /\ \A i, j \in 1..Len(evs) : i < j => evs[i].row.stamp < evs[j].row.stamp

Scanned(s, h) == {Event(k, s[k]) : k \in {k \in Owned : s[k] # NoRow /\ s[k].stamp > h}}

-----------------------------------------------------------------------------

\* No read transaction is open.
NoSnap == [rows |-> [k \in Keys |-> NoRow], horizon |-> 0, xmin |-> 1]

WatchInit ==
    /\ wpc = "list"
    /\ snap = NoSnap
    /\ hwm = 0
    /\ out = <<>>
    /\ chan = <<>>
    /\ cache = [k \in Keys |-> NoRow]
    /\ faults = 0

\* The first statement of a List or a poll takes the snapshot and its xmin.
Snapshot(from, to) ==
    /\ wpc = from
    /\ wpc' = to
    /\ \E x \in 1..nextXid : IsXmin(x) /\
        snap' = [rows |-> rows, horizon |-> horizon, xmin |-> x]
    /\ UNCHANGED <<hwm, out, chan, cache, faults>>

ListBegin == Snapshot("list", "listing")

\* Mutant: the watermark is xmin itself.
ListEnd_Xmin ==
    /\ wpc = "listing"
    /\ wpc' = "idle"
    /\ cache' = [k \in Keys |-> IF k \in Owned THEN Shown(snap.rows[k]) ELSE NoRow]
    /\ hwm' = snap.xmin
    /\ snap' = NoSnap
    /\ UNCHANGED <<out, chan, faults>>

\* Mutant: the watcher does not start from the list's resourceVersion.
ListEnd_FromZero ==
    /\ wpc = "listing"
    /\ wpc' = "idle"
    /\ cache' = [k \in Keys |-> IF k \in Owned THEN Shown(snap.rows[k]) ELSE NoRow]
    /\ hwm' = 0
    /\ snap' = NoSnap
    /\ UNCHANGED <<out, chan, faults>>

\* List returns the live and dying objects with resourceVersion xmin - 1; the
\* store is replaced and a watcher starts from that resourceVersion.
ListEnd ==
    /\ wpc = "listing"
    /\ wpc' = "idle"
    /\ cache' = [k \in Keys |-> IF k \in Owned THEN Shown(snap.rows[k]) ELSE NoRow]
    /\ hwm' = snap.xmin - 1
    /\ snap' = NoSnap
    /\ UNCHANGED <<out, chan, faults>>

\* Mutant: a poll starts while the previous one is still delivering.
PollBegin_Overlapping == Snapshot("idle", "poll")

PollBegin == out = <<>> /\ Snapshot("idle", "poll")

\* 410 Gone: Run returns and closes the channel.
PollGone ==
    /\ wpc = "poll"
    /\ hwm < snap.horizon
    /\ wpc' = "closed"
    /\ snap' = NoSnap
    /\ UNCHANGED <<hwm, out, chan, cache, faults>>

\* Mutant: READ COMMITTED, each query of the poll reads the present.
PollScan_ReadCommitted ==
    /\ wpc = "poll"
    /\ hwm >= snap.horizon
    /\ wpc' = "scanned"
    /\ LET S == Scanned(rows, hwm) IN
       \E evs \in [1..Cardinality(S) -> S] :
        IsScan(evs, rows, hwm) /\ out' = evs
    /\ hwm' = IF snap.xmin - 1 > hwm THEN snap.xmin - 1 ELSE hwm
    /\ snap' = NoSnap
    /\ UNCHANGED <<chan, cache, faults>>

\* The high-water mark moves before the transaction commits and before any
\* event is delivered.
PollScan ==
    /\ wpc = "poll"
    /\ hwm >= snap.horizon
    /\ wpc' = "scanned"
    /\ LET S == Scanned(snap.rows, hwm) IN
       \E evs \in [1..Cardinality(S) -> S] :
        IsScan(evs, snap.rows, hwm) /\ out' = evs
    /\ hwm' = IF snap.xmin - 1 > hwm THEN snap.xmin - 1 ELSE hwm
    /\ snap' = NoSnap
    /\ UNCHANGED <<chan, cache, faults>>

PollCommit ==
    /\ wpc = "scanned"
    /\ wpc' = "idle"
    /\ UNCHANGED <<snap, hwm, out, chan, cache, faults>>

Send ==
    /\ wpc = "idle"
    /\ out # <<>>
    /\ Len(chan) < ChanCap
    /\ chan' = Append(chan, Head(out))
    /\ out' = Tail(out)
    /\ UNCHANGED <<wpc, snap, hwm, cache, faults>>

\* The relay and the informer take the next event. They do so after Run has
\* returned, too: the channel is closed but not emptied.
Consume ==
    /\ chan # <<>>
    /\ cache' = [cache EXCEPT ![Head(chan).key] = Applied(Head(chan))]
    /\ chan' = Tail(chan)
    /\ UNCHANGED <<wpc, snap, hwm, out, faults>>

\* Mutant: a watcher that got 410 Gone is started again from where it was.
Relist_Rewatch ==
    /\ wpc = "closed"
    /\ chan = <<>>
    /\ wpc' = "idle"
    /\ UNCHANGED <<snap, hwm, out, chan, cache, faults>>

\* Mutant: the consumer lists again while old events are still buffered.
Relist_Undrained ==
    /\ wpc = "closed"
    /\ wpc' = "list"
    /\ UNCHANGED <<snap, hwm, out, chan, cache, faults>>

\* The error event comes after the buffered ones and makes the Reflector
\* list again.
Relist ==
    /\ wpc = "closed"
    /\ chan = <<>>
    /\ wpc' = "list"
    /\ UNCHANGED <<snap, hwm, out, chan, cache, faults>>

Fault ==
    /\ faults < MaxFaults
    /\ faults' = faults + 1

\* A database error in List: the Reflector tries again.
ListFail ==
    /\ Fault
    /\ wpc = "listing"
    /\ wpc' = "list"
    /\ snap' = NoSnap
    /\ UNCHANGED <<hwm, out, chan, cache>>

\* A database error in a poll, its commit included: the events it has read
\* are dropped and Run returns.
PollFail ==
    /\ Fault
    /\ wpc \in {"poll", "scanned"}
    /\ wpc' = "closed"
    /\ out' = <<>>
    /\ snap' = NoSnap
    /\ UNCHANGED <<hwm, chan, cache>>

\* The process stops, in the middle of a delivery or not, and starts anew.
Restart ==
    /\ Fault
    /\ wpc' = "list"
    /\ out' = <<>>
    /\ chan' = <<>>
    /\ cache' = [k \in Keys |-> NoRow]
    /\ snap' = NoSnap
    /\ UNCHANGED hwm

Poll == PollBegin \/ PollGone \/ PollScan \/ PollCommit \/ Send

\* The consumer's List+Watch loop; Consume is another goroutine.
Loop == ListBegin \/ ListEnd \/ Poll \/ Relist

WatchNext == Loop \/ Consume \/ ListFail \/ PollFail \/ Restart

Init == StoreInit /\ WatchInit

Next ==
    \/ StoreNext /\ UNCHANGED watchVars
    \/ WatchNext /\ UNCHANGED storeVars

Spec == Init /\ [][Next]_vars

-----------------------------------------------------------------------------

WatchTypeOK ==
    /\ wpc \in {"list", "listing", "idle", "poll", "scanned", "closed"}
    /\ snap \in [rows : [Keys -> Row \cup {NoRow}], horizon : Nat, xmin : Nat \ {0}]
    /\ hwm \in Nat
    /\ out \in Seq(Events)
    /\ chan \in Seq(Events)
    /\ cache \in [Keys -> Row \cup {NoRow}]
    /\ faults \in Nat

\* I1: the high-water mark stays below every transaction that can still
\* commit, so no commit ever appears at or below it.
HwmBelowInFlight ==
    /\ hwm < nextXid
    /\ \A c \in Clients : InFlight(c) => hwm < xid[c]

\* The events between the poll and the informer store.
Undelivered == chan \o out

LastAbout(q, k, i) ==
    q[i].key = k /\ \A j \in DOMAIN q : j > i => q[j].key # k

Watching == wpc \in {"idle", "poll", "scanned"}

\* The consumer ends up with v for key k. Either that is what the table says,
\* or the row is above the high-water mark and the next poll returns it, or
\* the row was compacted and the next poll gets 410 Gone.
Explains(row, hor, v) ==
    IF row = NoRow
    THEN v = NoRow \/ hwm < hor
    ELSE v = Shown(row) \/ hwm < row.stamp

Explained(k, v) == Explains(rows[k], horizon, v)

\* I3 and I5: whatever the writers, Compact and the timing of polls do, no
\* change of an object is skipped silently. Once the events under way are
\* applied, every owned key is explained.
Complete ==
    Watching => \A k \in Owned :
        /\ \A i \in DOMAIN Undelivered :
            LastAbout(Undelivered, k, i) => Explained(k, Applied(Undelivered[i]))
        /\ (\A i \in DOMAIN Undelivered : Undelivered[i].key # k)
            => Explained(k, cache[k])

\* Where events may be waiting.
QueueInv ==
    /\ wpc \notin {"idle", "scanned"} => out = <<>>
    /\ wpc \in {"list", "listing"} => chan = <<>>

\* The snapshot of an open List or poll is above the high-water mark and below
\* every transaction that can still commit.
SnapBounds ==
    /\ hwm < snap.xmin
    /\ snap.xmin <= nextXid
    /\ \A c \in Clients : InFlight(c) => snap.xmin <= xid[c]

\* What can have become of a row since the snapshot.
SnapFollows ==
    \A k \in Keys :
        \/ rows[k] = snap.rows[k]
        \/ rows[k] # NoRow /\ rows[k].stamp >= snap.xmin
        \/ rows[k] = NoRow /\ (Shown(snap.rows[k]) = NoRow \/ horizon >= snap.xmin)

\* The consumer's state is explained by the snapshot of its poll.
SnapComplete ==
    \A k \in Owned :
        /\ \A i \in DOMAIN chan :
            LastAbout(chan, k, i) => Explains(snap.rows[k], snap.horizon, Applied(chan[i]))
        /\ (\A i \in DOMAIN chan : chan[i].key # k)
            => Explains(snap.rows[k], snap.horizon, cache[k])

SnapInv ==
    /\ wpc \in {"listing", "poll"} => SnapBounds /\ SnapFollows
    /\ wpc = "poll" => SnapComplete

\* The inductive invariant of a consumer.
WatchInv ==
    StoreInv /\ WatchTypeOK /\ QueueInv /\ HwmBelowInFlight /\ SnapInv /\ Complete

\* I4: the resourceVersion a consumer works from never moves back, not even
\* over a relist or a restart.
HwmMonotone == [][hwm' >= hwm]_vars

\* Once the events under way are applied, the informer store is what the table
\* shows.
UpToDate ==
    \A k \in Owned :
        /\ \A i \in DOMAIN Undelivered :
            LastAbout(Undelivered, k, i) => Applied(Undelivered[i]) = Shown(rows[k])
        /\ (\A i \in DOMAIN Undelivered : Undelivered[i].key # k)
            => cache[k] = Shown(rows[k])

\* What Converges rests on: a list or a poll whose snapshot met no transaction, none
\* having begun since, leaves nothing for a later poll, whatever the consumer has
\* been through.
QuietReadCatchesUp ==
    [][(ListEnd \/ PollScan) /\ snap.xmin = nextXid => UpToDate']_vars

\* The consumer's own goroutines run, and the baseline timer makes a watcher
\* that is not busy poll again and again.
Fairness ==
    /\ WF_vars(Loop /\ UNCHANGED storeVars)
    /\ WF_vars(Consume /\ UNCHANGED storeVars)
    /\ \A c \in Clients : WF_vars(Advance(c) /\ UNCHANGED watchVars)

FairSpec == Spec /\ Fairness

\* Once the writes stop, the informer store becomes what the table shows and
\* stays so, however many 410s, database errors and restarts came before.
Converges == <>[](\A k \in Owned : cache[k] = Shown(rows[k]))

=============================================================================
