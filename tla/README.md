# A TLA+ development of postgres-controller-backend

The repository replaces the Kubernetes API server and etcd by a PostgreSQL table:
controllers write objects through one stored procedure and follow them through
List+Watch, where a watch is a poll of the table above a high-water mark. The
correctness argument of `DESIGN.md` (invariants I1–I7, risks R1–R21) rests on how
PostgreSQL hands out transaction ids, on row locks, on one `xmin` per snapshot and
on a few careful orders of steps. This directory models those parts, checks them
with TLC on small instances and proves the central ones with TLAPS for every size.

## 1. Inventory

| Component | Source | State | Operations | Model |
|---|---|---|---|---|
| Tables and `pgctl_write` | `internal/schema/migrations/001_initial.sql` | rows, horizon | suppress, update, insert, revive, conflict, already exists | `Resource`, `Store` |
| Writer | `internal/writer/writer.go` | connection, doorbell | Write, WriteObject, WriteStatus, ReadBack, error mapping | `Resource`, `Store`, `Client` |
| Compaction | `pkg/compaction/compactor.go` | rows, horizon | Compact | `Store`, `Client` |
| List | `internal/reader/list.go`, List of `pgclient.go` and `pgcache.go` | one snapshot per page, continue token | List | `Watch`, `Listing` |
| Field selectors | `pkg/pgruntime/fieldselector.go` | none | selector to SQL | `Listing` |
| Watcher, polls | `internal/reader/watcher.go` | `hwm`, `events` | poll, pollAll, deliver, 410 | `Watch`, `Feed`, `WatchFeed` |
| Watcher, scheduling | `internal/reader/watcher.go` | timer, `lastPoll`, `doorbellPending`, `doorbellCh` | Run, listenLoop, Stop | `Doorbell` |
| Debouncer | `internal/doorbell/doorbell.go` | dirty set, ticker | Ring, flush, Close | `Doorbell` |
| pgWatcher | `pkg/pgruntime/pgwatch.go` | `currentRV` | relay, sendError, Stop | `Watch` |
| Cache, informers | `pkg/pgruntime/pgcache.go` | informer stores | list and watch functions, getOrCreateInformer, Start, WaitForCacheSync | `Watch`, `Lifecycle` |
| Client | `pkg/pgruntime/pgclient.go`, `convert.go`, `errors.go` | the caller's objects | Get, Create, Update, Delete, Status().Update | `Client` |
| Manager | `pkg/pgruntime/pgmanager.go` | runnables, pool | Add, Start | `Lifecycle` |
| Verifier | `internal/verifier/verifier.go` | pending canaries, ring of latencies | Run, checkEvent, writeCanary | `Verifier` |
| Sharding | `internal/reader/shard.go` | none | Validate, the predicate on namespaces | `Shard`; the constant `Owned` of `Watch` |
| ResourceVersion | `internal/resourceversion/rv.go` | none | String, Parse | `ResourceVersion` |
| Load test | `loadtest/cmd/loadtest` | progress and checkpoint file, job channel, counters, collectors | Seed, phases 0, 1, 2, 2b, 3, 5, Write of the checkpoint | `WriterPool`, `Drill`, `LoadTest` |
| Migration runner, metrics, tracer | | none of interest | | not modelled |
| Examples, test infrastructure | | | | not part of the system |

How they interact: a client call acquires a connection and calls `pgctl_write`, which
runs as one autocommit transaction. Its commit makes the row visible. A writer with a
doorbell rings the Debouncer, which sends at most one `pg_notify` per window; the
watcher's listenLoop turns it into an entry of `doorbellCh`; Run polls at once, or when
what is left of the debounce floor has passed, or when the baseline timer fires. A poll
reads `xmin`, the horizon and the rows above `hwm` in one REPEATABLE READ snapshot,
advances `hwm` to `xmin - 1` and puts the events on a channel; relay passes them to the
Reflector, which applies them to the informer store. Compact removes old tombstones and
raises the horizon in the same statement; a watcher below the horizon gets 410 Gone and
its consumer lists again. The verifier is a consumer of its own that writes canaries and
waits for them; the load test runs writers, watchers and verifiers against the same table, one
phase after the other.

What is hard: transactions commit in another order than their ids; the steps of
`pgctl_write` have snapshots of their own; Compact works at any moment; `hwm` moves
before events are delivered; connections break before a reply or with a notification
unread; a name is deleted and created again while somebody holds a copy; doorbells come
while a poll runs; pages of one list are read at different times; the load test retries
writes that may have landed and writes one file from two goroutines. `PROJECT.json` lists each of these hazards at its line.

## 2. Modules

### Resource (pure)

A row and the pure parts of `pgctl_write`: what it compares (`Suppresses`), what it
refuses (`Matches`, `Admitted`), which row each branch leaves (`Updated`, `Inserted`,
`Revived`), what readers see (`Tombstone`, `Shown`), and the whole call on a row nobody
else holds (`PgctlWrite`). JSON columns are elements of a small set; the metadata column
is split into its finalizers (`fin`) and the rest, which goes with `spec`. A uid is the id
of the transaction that generated it.

### Store

Sessions run `pgctl_write` and `Compact` against the table. Each database statement is an
action: `Begin` takes the transaction id (line 65 of the SQL file, before anything is
read), `Suppress`/`Proceed` is the SELECT of the suppression check, `Update`/`Conflict`
the two UPDATE branches, `Insert`/`Collide` the INSERT, `Revive`/`AlreadyExists` the
exception handler (together `Upsert`), `CompactDelete`/`CompactCommit` the CTE, `Commit` and
`Abort` the end. Sessions in `Hooked` take the multi-statement path of a Writer with hooks:
`BeginTx` opens the transaction, `SuppressTx`/`ProceedTx` is readExisting and the comparison,
`AcquireTxid` takes the id only then, and `Upsert` follows. Before its id a transaction is not in
flight for `xmin`.
External, modelled from how the code uses it: ids (`Assign`), `xmin` (`IsXmin`), row locks
(`Holds`, `Free`). An UPDATE or DELETE that finds a row locked waits and re-evaluates its
condition on the committed row, so in the model it is simply enabled when the row is free
and the condition holds. An INSERT waits for whoever holds the key. `Conflict` may happen
without waiting: a row whose committed version does not match is not waited for, and
a writer that waited sees the mismatch afterwards. `AlreadyExists` is likewise enabled
whenever the committed row is no tombstone.

`CompactDelete` may take any set of tombstones: which ones are old enough depends on clocks
and on deletion timestamps that clients chose. It locks all of them in one step; two
compactions that lock in different orders are one of the cases PostgreSQL aborts (`Abort`).

### Watch

One consumer beside the sessions of Store. `wpc` follows List (`ListBegin`, `ListEnd`), the
poll (`PollBegin` takes the snapshot, `PollGone` is the horizon check, `PollScan` the row
query and the new `hwm`, `PollCommit`), the delivery (`Send`, a channel of capacity
`ChanCap`), relay and informer (`Consume`), the terminal error (`Relist`), database errors
(`ListFail`, `PollFail`) and the death of the process (`Restart`). `Owned` is the shard.
When a poll happens is left open here: `Doorbell` is about that.

### Feed and WatchFeed

`Feed` is the abstract specification of List+Watch, without transactions, snapshots or marks: the
table has a history of states that readers could see, and the consumer's view of each object is
what some state of that history says; a step of the consumer moves views to later states (any
number of them at once, skipping as many as it likes), and only a new process begins again.

`WatchFeed` shows that Watch implements it. It adds history variables to Watch: `log`, the states
of the table as readers see it; `at`, `snapAt` and `queueAt`, the position in the log that each
cached object, the snapshot and each event under way is from. The refinement mapping takes `log`
and `at` as they are and the informer store as the view. The properties of `Watch` alone speak of
what is missing; this one also excludes that the store ever goes back, which an event that is
left on the channel over a relist would make it do. Stamps cannot replace positions: a create
with an older transaction id can revive a newer tombstone, and then the stamp of an object falls
from one commit to the next.

### Shard, ResourceVersion, Listing

`Shard` is the predicate `abs(hashtext(namespace)::bigint) % Mod = ANY(Owned)` over hashes of a
given width, `ResourceVersion` the text of a resourceVersion (a sequence of tokens) with its
parser. `Listing` is a caller of client.List (pgCache.List is the same code) that pages with a
limit beside the sessions of Store, starting from a table with some objects: `Where` is the WHERE
clause with namespace and field selector (a comparison with a missing path is SQL's NULL, so not
true), `Scan` ORDER BY, LIMIT and OFFSET, `Returned` the label selector, which is applied to the
rows of the page, `Continue` the token. A page is one step, because its statements share one
snapshot. `stable`, `left` and `entered` are history variables.

### Verifier

The goroutine of Run (`CheckEvent`, `CanaryBegin`, ...), its watcher and other sessions. A canary
write is three steps: the transaction gets its id, it ends (`CanaryCommit`, `CanarySuppressed`,
`CanaryFails`), and the write returns and is recorded; the goroutine takes no events meanwhile, but
the watcher polls. A poll is one step here, which the properties of Watch justify. `Restart`
starts a new process on the table of the old one.

### WriterPool, Drill, LoadTest

`WriterPool` are the writers of the load test's phases 1, 2, 2b and 3 and the rate loop of 2 and
2b; the four phases start it with different clocks and producers (`RunPhase1Single`, `RunPhase2`,
`RunPhase2b`, `RunPhase3`) and judge it differently (`Verdicts1` ...). `Drill` is phase 5: round
B with watchers that start at a list's watermark, round C from the highest `HWM()` of round B.
`LoadTest` composes them with main: seeding, the loop over the phases, phase 0, the sweep of
phase 1, the report, and the checkpoint file, which main and a ticker goroutine write. Durations
and latencies are left out: a deadline may pass at any time, a target may be met or missed. The
steps of the ticker are taken outside the phases only: within a phase they commute with every
other step.

### Client

Controllers that hold copies of one object and call pgClient. A call that reads and then
writes is two steps; the write itself is one step (`PgctlWrite`), which `CallIsAtomic` of
Store justifies for the writes that are stored. (Of those that fail, one is not as in one step, the spurious
AlreadyExists of section 4; it changes nothing and Client leaves it out.) Every edit is a fresh number, so overwritten content is
visible. `landed` and `whole` are history variables.

### Doorbell

Debouncer, listenLoop and the scheduler loop of Run with one GVK, in discrete time: `Tick`
is enabled only when no goroutine has anything to do, so timers are exact. `tick`, `timer`
count down, `since` counts up to the floor, `busy` is how long the poll has taken, at
most `PollTime`. `told` and `unread` are history: the age of the oldest ring that no poll
has followed and no failure has lost, and of the oldest commit no poll has read. Backoff of
listenLoop is left out (it may reconnect at any time), as are the counters of `WatchStats`.

### Lifecycle

pgManager.Start (`mpc`), the goroutine of pgCache.Start (`cpc`), informers and runnables that
callers create at any time. A critical section is one step. `Start` spawns the cache's goroutine
and the probe server; `SyncCollect`, `SyncDone` and `SyncFail` are WaitForCacheSync;
`CopyRunnables` and `LaunchRunnables` follow; `Drain` and `Close` are the shutdown. `CacheStart`
is the section under the lock, in which `started` and `stopCh` are set (together, so `stopCh`
stands for both) and the informers to run are collected; `CacheLaunch`, `CacheStop` and
`CacheReturn` are the rest. `GetInformer` is getOrCreateInformer, which runs the informer itself
when the cache has started. SharedIndexInformer is external (`InformerSync`, `InformerStop`).
`runs` and `early` are history variables.

### Proof modules

`StoreProofs`, `WatchProofs`, `ClientProofs`, `DoorbellProofs`, `LifecycleProofs`, `ListingProofs`,
`VerifierProofs` and `LoadTestProofs` extend the modules above; `WatchProofs` (Watch, and that it implements
Feed) and `ListingProofs` build on `StoreProofs`.

## 3. What the passing runs check

| Run | Instance | Shows |
|---|---|---|
| `store` | 3 sessions (one with hooks), 2 objects, 9 requests, 4 transactions | `CallIsAtomic`, `RowStep` (I6 per row), `NoLateStamp` (base of I1), `HorizonNeverLags` (I5) |
| `watch` | 2 sessions, 2 objects, 4 transactions, channel of 1, 1 fault | `Complete` (I3, I5), `HwmBelowInFlight` (I1), `HwmMonotone` (I4), the inductive invariant `WatchInv`; `ImplementsFeed` and the invariant behind it, `FeedInv` |
| `watch_live` | 2 sessions, 1 object, 4 transactions, 1 fault | `Converges`: the informer store becomes equal to the table; `TransactionsEnd`: nobody waits for ever, so `xmin` moves on |
| `client` | 2 controllers, 5 calls, lost replies, 1 incarnation | `WholeCopiesLoseNothing` (I6 where it holds), `DeletionSticks`, the inductive invariant `ClientInv`, which contains `CopyFaithful` |
| `doorbell` | window 2, floor 3, baseline 5, poll time 1 | `DoorbellOnItsWay`, `PolledPromptly`, `PolledEventually`, `Stops` |
| `lifecycle` | 2 kinds, 2 runnables, a probe server | `RunOnce`, `SyncedFirst`, `PoolOutlivesUsers`, the inductive invariant, `StartGoesOn`, `ShutsDown` |
| `listing` | 3 objects and a fourth to come, pages of 1, 2 sessions, 4 transactions, 3-bit hashes, 2 replicas | `SkipsExplained`, `RepeatsExplained`, `FirstPageCovers`, `ShardsPartition` (I7), the inductive invariant `ListingInv` |
| `verifier` | ring of 1, channel of 1, 1 other object, 4 transactions, 1 restart | `Accounted`, `CanaryOnItsWay`, `CanaryArrives`, the inductive invariant `VerifierInv` |
| `loadtest` | 2 writers, queue of 1, 2 names or jobs, 1 error; 2 watchers and 1 write or 1 and 2; 2 phases with 2 ticks | `Tally`, `DrillSound`, `CheckpointSound`, `RunEnds` |

`Complete` is the central property. For every owned object, take what the informer store
will hold once the events under way are applied; either that is what the table shows, or
the row is above `hwm` (the next poll returns it), or the row was compacted and `hwm` is
below the horizon (the next poll gets 410). A change that fits none of these was skipped
silently.

`CallIsAtomic` compares the statements of a call, interleaved with those of other sessions, with one
uninterrupted call (`PgctlWrite`) on the row that is committed when this one commits. They agree but for the
suppression check, which may be out of date: the same content is then stored again under the next version.

`SkipsExplained` and `RepeatsExplained` say exactly how bad OFFSET paging is: an object that nobody
touched is skipped only if one of those already paged over was changed or removed, and returned
twice only if something was committed behind the reader, one for one. Both cases occur in the run.
`FirstPageCovers` says from where a watch may start after a paged list.

`CanaryOnItsWay` and `CanaryArrives` are about canaries whose write changed the table. After a
restart, or when a write that failed had landed, the next canary has the name and the content of
one that is there: its write is suppressed, no event comes, and it stays pending until it is dropped.

`Tally` relates the counts that a phase reports to the rows it made: names are counted once, over
errors, ambiguous writes and kills. `DrillSound` says that round C loses nothing by starting from
another watcher's `HWM()`, and that its verdict means what it should unless re-deliveries were
counted. It does not cover rows of an earlier run in the drill's namespaces that are delivered: that takes a run without a
seed, a list that fails and, to reach the verdict, a round B in which no watcher polled. `CheckpointSound` says what a reader of the checkpoint file may believe. `RunEnds` names
the one way in which the load test hangs.

The bounds. `MaxXid` bounds transactions. In `store` a tombstone can be written directly, as the
tests of the repository do, so four are enough for two tombstones and two compactions that
commit in either order, for a revival followed by an update and a compaction, for a dying object
that is finalized and compacted, and for a create that races Compact. In `watch` four are enough
for an older transaction that commits after a poll and for delete, compact and re-create around
a poll. `Hooked` is empty there: what a consumer sees of a session begins with its id.
Its requests create and delete one object and create another that a finalizer keeps; status
writes are left to `store` and `listing`, since a poll treats them as any other row with a new stamp.
Channel capacity 1 makes a delivery block. One fault shows every error path, and the
theorems remove the bounds from the safety properties. `MaxCalls` is the number of client
calls that write. In `doorbell` the three intervals are different, the floor is longer than
the window and shorter than the baseline; both time bounds are reached exactly (decreasing
either by one gives a counterexample).

In `lifecycle` two informers are enough for one that exists before Start and one that comes
late, and for a race of either with pgCache.Start.

In `listing` pages of one object make a listing of three or four pages with writes between them,
four transactions are enough to move two objects out of the part paged over, and 3-bit hashes have
a lowest value whose absolute value needs a fourth bit. In `verifier` a ring of one is full at once.
In `loadtest` each phase is run by itself and two with the ticker: phases share nothing but the
table, and no two write to the same namespace.

Deadlock checking is off where the system may stop: all ids or calls used up, or the manager
shut down. It is
on for `watch`, `watch_live` and `doorbell`.

Fairness. A session's statement goes on when nothing blocks it, and `statement_timeout`
(30 s, `pgmanager.go:334`) ends the rest: weak fairness of `Advance`. The consumer's goroutines
run and the baseline timer makes an idle watcher poll: weak fairness of `Loop` and `Consume`.
`Abort`, faults and new requests have no fairness. In `doorbell`, polls and the two
goroutines go on (weak fairness), and `Shutdown` has strong fairness, because Go's select
chooses at random among the cases that are ready and may take doorbells and the timer
before `stopCh` for a while. In `lifecycle` the goroutines of manager and cache go on, a list
of a running informer succeeds in the end, and runnables and the probe server end once the
context has ended (weak fairness); that callers cancel, add or ask for anything is never assumed.
In `verifier` the watcher's timer makes it poll and a canary's write ends (weak fairness), and
`CheckEvent` has strong fairness because the select chooses at random. In `loadtest` main, the writers,
the drill's writer and the deadlines of the collectors go on (weak fairness); nothing is assumed of
watchers, other sessions or the ticker.

## 4. Findings

Each is a run that must find a violation.

- `client_lost_update`: a suppressed Update refreshes the resourceVersion of a stale object
  but not its status; the next Status().Update overwrites a status its holder never saw. There is
  no other way: `WholeCopiesSafe` proves that a copy which is not refreshed so loses nothing.
- `client_reuse`: versions restart at 1 for a re-created name and writes do not check the uid. While
  the name has had one object it cannot happen (`FirstLifeSafe`).
- `client_ambiguous`: the production path cannot resolve an ambiguous commit: txid is 0 and the
  read-back uses the broken connection. (The tests for R5 take the multi-statement path and read
  back over another connection.)

Noticed without a run.

About the library: a create that collides with a tombstone fails with AlreadyExists, although no
object exists, when Compact commits between its INSERT and its UPDATE (`AlreadyExists` of Store, taken
on an empty row; a retry succeeds). The resourceVersion that relay stamps on objects is the highest stamp seen,
which commits still in flight undercut, where `DESIGN.md:86` promises that everything at or below a
resourceVersion was delivered; informers here list before they watch. `hwm` moves before events
are delivered, so a watcher resumed from `HWM()` of one that was cancelled in the middle of a
delivery never delivers the rest. Each page of a list has a resourceVersion of its own: only the
first page's covers the list. A field selector with `!=` does not match objects
that lack the field. `pgctl_write` takes a transaction id for suppressed writes too (SQL
line 65), where `DESIGN.md` section 3.3c says they consume none; pgClient's writers have no
doorbell (`writer.New(conn, nil)`), so their writes are seen at the baseline interval; an informer
created after Start is not waited for at shutdown, and a runnable added after Start has copied
the list is never started; a row whose finalizers are JSON `null` is deleted for relay and Get and still listed by List.

About the verifier: nothing calls `addViolation`, so `Violations()` is always empty and the phases
that judge by it (2b and 3 by nothing else) always pass, where `loadtest/README.md` and `DESIGN.md`
describe it as a check of the stream; the load test gives it no connection for canaries and drops
the error of its Run. A verifier starts from watermark 0, so on a GVK that was ever compacted
it gets 410 Gone at its first poll and ends.

About the load test: phases 2 and 2b hang when no writer gets a connection and the job channel is full (`Stuck`); phase 0
truncates the table and with it the seed of the later phases; without a seed a second run's writes
are suppressed, and counted; the checkpoint file can be torn, empty or older than the last phase
when the program exits; phase 5 counts re-deliveries as deliveries.

## 5. What is proved

All by TLAPS, for every value of the constants that satisfies the named assumptions
(`RowAssumption`, `StoreAssumption`, `WatchAssumption`, `ClientAssumption`, `DoorbellAssumption`,
`LifecycleAssumption`, `ListingAssumption`, `VerifierAssumption`, `WriterPoolAssumption`, `DrillAssumption`,
`LoadTestAssumption`). Every
inductive invariant named here is also checked by TLC in the run of its module, with two exceptions: `StoreInv` is checked
as a part of `WatchInv` and `ListingInv`, and of the four of the load test the run checks the properties
that they were made for. For those four, and for `OneObject`, `FirstLifeWritesOwnObject` and `QuietReadCatchesUp`, which no
run lists either, TLC finds no violation on the instances of `loadtest`, `client` and `watch`.

**Store.** `StoreInv` is inductive: types; transaction ids in use and stamps are below
`nextXid` (`XidInv`); only creates reach the exception handler; row locks exclude each other;
and `PendingFits`, the heart: what a transaction has written still fits the committed row
it will replace. `PendingFits` needs `LockExclusion` (nobody else commits to that row) and is
what makes `RowStep` follow for a commit. `CallIsAtomic` is inductive beside `StoreInv`: the three statements that write
do what `PgctlWrite` does with the row they find (`ForcedCall`), and that row stays as it is until the
commit (`HeldRowStays`, again by `LockExclusion`). `NoLateStamp` follows because a committing transaction
is in flight and `xmin` is at most its id; `HorizonNeverLags` from `IsHorizon`. `StampsDistinct`, which
`Listing` needs, says that stamps order the rows: no two rows have the same, and no transaction in
flight has the id of another or of a row.

**Watch.** `WatchInv` adds to StoreInv: where events may wait (`QueueInv`); `hwm` below every
in-flight id; for an open snapshot, that its `xmin` is above `hwm` and at most every id still in
flight (`SnapBounds`), what can have become of each row since (`SnapFollows`: unchanged, stamped
at or above the snapshot's `xmin`, or removed with the horizon raised), and that the consumer is
explained by the snapshot (`SnapComplete`). `Complete` alone is not inductive: when a poll scans,
the table has moved on since the snapshot, and only `SnapFollows` relates the two. A poll's events
are sorted by stamp and one per key, so the last event about a key is its row in the snapshot.

`QuietReadCatchesUp` is what `Converges` rests on: after a List or a poll whose snapshot met no transaction, and
none begun since, the consumer will hold what the table shows. The mark is then the last id handed out; stamps are
below the next id, and so is the horizon (`HorizonBelowNext`: it is the stamp of a row that there was), so
of the three ways in which `Complete` explains an object only equality is left. That such a moment comes is
liveness, and left to TLC.

**Feed.** `WatchImplementsFeed`: the detailed consumer implements the abstract one. The history
variables of `WatchFeed` restrict nothing: every step of Watch is a step of WatchFeed with some history after it
(`HistoryRestrictsNothing`), so the refinement is one of all behaviours of Watch. Conversely every step of WatchFeed
is one of Watch, which makes `WatchInv` available. `FeedInv` says that the log ends with what the table shows
(`LogInv`) and that everything is what the log says at the position the history gives for it
(`PositionInv`): the informer store at `at`, an open snapshot at `snapAt`, each event at its place in
`queueAt`; and in this order, a copy before the events about it, events in the order of their positions, all of them
before the open snapshot. From that each step of Watch
is a step of Feed: a commit appends to the log, applying an event moves one view forward, a list
moves all of them to the snapshot's position, a restart begins again, and the rest stutter.

**Client.** `ClientInv`: what a call that has read and not yet written will write (`CallInv`); that the
numbers reserved for such calls are in no object yet, so a new object has a uid that no copy has (`FreshInv`);
that no whole copy is ahead of its object (`CopiesBehind`), without which `CopyFaithful` is not inductive: a later
write could give the object the version that a copy already claims; and that in the first life of a
name an Update that carries the stored version carries its deletion timestamp (`FirstLife`). `DeletionSticks`
is about that first life and says so itself (`created' <= 1`): `MaxIncarnations` bounds only the creates that have
landed when another begins, so two begun together may both land, the second on the tombstone of the first.
`WholeCopiesLoseNothing` follows from `CopyFaithful`: a write that was accepted found the version its caller's copy has
(`LandedMatched`). `FirstLifeWritesOwnObject` needs `OneObject`, inductive beside `ClientInv`: until a second create
lands every copy has the uid of the one object. The two delimit the findings of section 4.

**Verifier.** `VerifierInv` adds to `Accounted` and `CanaryOnItsWay` what ids and stamps are (`XidInv`: the watcher's
high-water mark is below every transaction in flight, the canary's own too, and each canary recorded has used up
an id) and that pending canaries have lower numbers than the next one (`PendingInv`). `Accounted` counts with
cardinalities, so each action shows what it adds and removes.

**Listing.** `ListingInv` adds to `StoreInv` and `StampsDistinct`: what the caller holds in each phase
(`PageInv`), and `RepeatBudget`, which is what makes `RepeatsExplained` inductive: a commit into the part already
paged over does not repeat an object at once, it pushes one out of that part, which a later page may return
again; pushed out and repeated together are at most the commits. The argument for both bounds is one
lemma about orders, `SegmentGrowth`: when a finite set ordered by distinct numbers is changed at the members of C
only, the unchanged members that come among the first n are at most the members of C that were
among the first n before. (Initial segments are comparable: if one unchanged member has come in, no
unchanged one has gone out, and the segment had n members.) Applied forwards it bounds skips by `left`, backwards
repetitions by `entered`. `ScanFull` is why the last page is the last: a page with fewer rows than the limit
reaches the end of the order. `FirstPageCovers` needs `From`, the watermark of the first page, to be
below every id in flight, as `HwmBelowInFlight` does in Watch, that copies are not tombstones, which are all
that Compact removes, and that `Parse` reads what `String` wrote. `ShardsPartition` is
arithmetic: the residue of an absolute value is in 0..Mod-1, for every width, modulus and number of replicas. It
needs at least one replica (`Partitioned`).

**Doorbell.** `DoorbellInv`: for a ring, in which stage it is and how old it can be there
(`RingStage`, `ToldInv`); for a commit, its age plus what is left of the timer (`UnreadInv`). The
bounds and `DoorbellOnItsWay` follow.

**Lifecycle.** `CachePhase` says what an informer can be doing in each phase of pgCache.Start (an
informer created before the lock is in the batch, one created after it was run by its creator),
`ManagerPhase` what has been waited for in each phase of pgManager.Start. The safety properties
follow from the two.

**Load test.** `CheckpointInv`: the report and the progress of the CheckpointWriter say the same; the snapshot that a
goroutine holds after the lock is released, and the one in a whole file, are beginnings of the report (`Moment`), and
stay so when main appends a result; and `WritersInv`, who writes beside whom. `CheckpointSound` alone is not inductive,
since what the file will hold is decided when the snapshot is taken, two steps before the data is written. `alone`
says that main's last write opened the file and had none beside it; then a writer that has opened the file finds it empty
when it writes the data, so the file is not torn, and what it writes is not older than main's.

`TallyInv` makes `Tally` inductive, for any number of writers, errors and jobs. A write counts a name only if it is new:
a writer with names of its own has counted none from the one it works on upwards (`OwnNamesInv`), and a job is in one
place, the channel, the hands of one writer or the counted ones (`JobsInv`). Then each action shows what it adds to
and takes from the cardinalities. That counted rows are made by the phase needs `truncated \/ left > 0`, under which every row is
(the table was empty when the writers began).

`DrillInv` makes the first part of `DrillSound`, `NothingLost`, inductive: a round begins without rows of its own, marks are
below every id in use, and no mark reaches the write in flight, because a poll moves it below the oldest
transaction in flight. That the highest `HWM()` of any watcher is a safe start for round C follows from this.
A poll returns as many events as there are rows above its mark, in the order of their stamps, so it returns all
of them (a finite set has no injection into itself that is not onto).

`OnceInv` makes the second part inductive, what a verdict of round C means. It has the writes of a round numbered without
repetition and stamped in order (`WritesInv`), and for each watcher, as long as none polled beside a transaction of another
session, that rows it has delivered or holds in its channel are at or below its mark, each once (`Once`).
Then a poll returns only what is new, since it reads above the mark, and takes the mark past every row, so what a collector counts is
the cardinality of what it has. The verdict compares `lossDeliveredCount`, modelled as the set of counted events
(`Delivered`), with writes times watchers: `Delivered` is a subset of watchers x writes, of the same finite
cardinality, hence all of it (`PassedMeansAll`).

Only model-checked: liveness (`TransactionsEnd`, `Converges`, `Stops`, `StartGoesOn`, `ShutsDown`,
`CanaryArrives`, `RunEnds`), since TLAPS does not prove liveness under fairness or `ENABLED`; and the findings, which
are counterexamples.

## 6. Not modelled

The migration runner executes the SQL file; metrics and tracer observe; the examples and the test
infrastructure are not part of the system. Of the client, `metadata.generation`, and the calls that only
return an error (Patch, Apply, DeleteAllOf, other subresources, and Update or Status().Update without a resourceVersion). Of the manager, the construction of the pool, the
REST mapper and the recorders. Of the load test, latencies and percentiles, payloads,
configuration, metrics and the text of the report; its compaction goroutine and the verifiers of its
phases run beside it and touch nothing that main waits for, except that a phase waits for its
verifier to end; they are Store and Verifier.

## 7. Plan

All components in reach are modelled, and every invariant and action property that a run checks is proved. What
remains with TLC is the liveness listed at the end of section 5.
