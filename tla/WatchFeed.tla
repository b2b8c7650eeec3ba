----------------------------- MODULE WatchFeed ------------------------------
(***************************************************************************)
(* Watch implements Feed.  History variables record the states of the      *)
(* table that readers could see and, for every snapshot, queued event and  *)
(* cached object, the one it is from; they change nothing else.            *)
(*                                                                         *)
(* Positions in the log are needed because stamps do not do: a create with *)
(* an older transaction id may revive a newer tombstone, so the stamps of  *)
(* one object need not grow from one commit to the next.                   *)
(***************************************************************************)
EXTENDS Watch

VARIABLES
    log,        \* the states of the table, as readers see it
    at,         \* the position each cached object is from
    snapAt,     \* the position of the open snapshot, 1 when there is none
    queueAt     \* the positions of the events that are under way

historyVars == <<log, at, snapAt, queueAt>>
feedVars == <<vars, historyVars>>

\* What a reader of the committed table is shown.
Table == [k \in Owned |-> Shown(rows[k])]

FeedInit ==
    /\ Init
    /\ log = <<Table>>
    /\ at = [k \in Owned |-> 1]
    /\ snapAt = 1
    /\ queueAt = <<>>

\* The steps of Watch, each with the history after it: log l, places a of the
\* cached objects, place s of the snapshot and places q of the events.
StoreStep(l, a, s, q) ==
    /\ StoreNext
    /\ l = IF Table' = Table THEN log ELSE Append(log, Table')
    /\ a = at /\ s = snapAt /\ q = queueAt
    /\ UNCHANGED watchVars

SnapshotStep(l, a, s, q) ==
    /\ ListBegin \/ PollBegin
    /\ l = log /\ a = at /\ s = Len(log) /\ q = queueAt
    /\ UNCHANGED storeVars

ListStep(l, a, s, q) ==
    /\ ListEnd
    /\ l = log /\ a = [k \in Owned |-> snapAt] /\ s = 1 /\ q = queueAt
    /\ UNCHANGED storeVars

ScanStep(l, a, s, q) ==
    /\ PollScan
    /\ l = log /\ a = at /\ s = 1
    /\ q = queueAt \o [i \in 1..Len(out') |-> snapAt]
    /\ UNCHANGED storeVars

ConsumeStep(l, a, s, q) ==
    /\ Consume
    /\ l = log /\ s = snapAt
    /\ a = [at EXCEPT ![Head(chan).key] = Head(queueAt)]
    /\ q = Tail(queueAt)
    /\ UNCHANGED storeVars

\* The events of a poll that failed are dropped, the ones on the channel stay.
FailStep(l, a, s, q) ==
    /\ PollFail
    /\ l = log /\ a = at /\ s = 1
    /\ q = SubSeq(queueAt, 1, Len(chan))
    /\ UNCHANGED storeVars

RestartStep(l, a, s, q) ==
    /\ Restart
    /\ l = log /\ a = [k \in Owned |-> 1] /\ s = 1 /\ q = <<>>
    /\ UNCHANGED storeVars

\* The other steps move no object and no event.
OtherStep(l, a, s, q) ==
    /\ PollGone \/ PollCommit \/ Send \/ Relist \/ ListFail
    /\ l = log /\ a = at /\ s = 1 /\ q = queueAt
    /\ UNCHANGED storeVars

FeedStep(l, a, s, q) ==
    \/ StoreStep(l, a, s, q)
    \/ SnapshotStep(l, a, s, q)
    \/ ListStep(l, a, s, q)
    \/ ScanStep(l, a, s, q)
    \/ ConsumeStep(l, a, s, q)
    \/ FailStep(l, a, s, q)
    \/ RestartStep(l, a, s, q)
    \/ OtherStep(l, a, s, q)

FeedNext == FeedStep(log', at', snapAt', queueAt')

FeedSpec == FeedInit /\ [][FeedNext]_feedVars

-----------------------------------------------------------------------------

Abstract == INSTANCE Feed WITH
    Objects <- Owned,
    Nothing <- NoRow,
    log <- log,
    at <- at,
    view <- [k \in Owned |-> cache[k]]

\* The informer store only ever shows, for every object, a state of the table
\* that readers could see, and moves forward through those states, over
\* coalesced deletes and creates, re-delivered events, 410s, relists and
\* database errors; only a restart of the process begins again.
ImplementsFeed == Abstract!Spec

\* The log ends with what the table shows now.
LogInv ==
    /\ log \in Seq([Owned -> Row \cup {NoRow}])
    /\ Len(log) > 0
    /\ log[Len(log)] = Table
    /\ log[1] = [k \in Owned |-> NoRow]

\* Snapshots, queued events and cached objects are from where they are said to
\* be from, and in this order.
PositionInv ==
    LET Open == wpc \in {"listing", "poll"}
        Newest == IF Open THEN snapAt ELSE Len(log)
    IN
    /\ queueAt \in Seq(Nat)
    /\ at \in [Owned -> Nat]
    /\ snapAt \in 1..Len(log)
    /\ Open => log[snapAt] = [k \in Owned |-> Shown(snap.rows[k])]
    /\ Len(queueAt) = Len(Undelivered)
    /\ \A i \in DOMAIN queueAt :
        /\ queueAt[i] \in 1..Newest
        /\ log[queueAt[i]][Undelivered[i].key] = Applied(Undelivered[i])
        /\ at[Undelivered[i].key] <= queueAt[i]
        /\ \A j \in DOMAIN queueAt : i <= j => queueAt[i] <= queueAt[j]
    /\ \A k \in Owned : at[k] \in 1..Newest /\ log[at[k]][k] = cache[k]

\* The log, and the place of everything in it: why the view never goes back.
FeedInv == LogInv /\ PositionInv

=============================================================================
