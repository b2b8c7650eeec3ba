------------------------------- MODULE Store --------------------------------
(***************************************************************************)
(* The database as the writers see it: PostgreSQL transactions, the table  *)
(* kubernetes_resources of one GVK, its compaction horizon, the stored     *)
(* procedure pgctl_write statement by statement, the multi-statement path  *)
(* that a Writer with hooks takes instead, and Compact.                    *)
(*                                                                         *)
(* PostgreSQL itself (transaction ids, commit, row locks, the READ         *)
(* COMMITTED re-check of a WHERE clause after a lock wait) is modelled     *)
(* from how the code relies on it.  A call of the procedure runs in        *)
(* autocommit mode, so it is one transaction.  The extra id that the INSERT's exception    *)
(* block, or the savepoint, consumes is left out: it stamps nothing and is *)
(* above the id of its transaction.                                        *)
(*                                                                         *)
(* A request without a status stands for WriteObject.  (A full Write with  *)
(* no status would tell the two paths apart: the procedure then ignores    *)
(* the stored status, the comparison in Go does not.)                      *)
(***************************************************************************)
EXTENDS Resource

CONSTANTS
    Clients,    \* database sessions that write or compact
    Hooked,     \* the sessions whose Writer has hooks
    Requests,   \* the calls of pgctl_write a session may make
    MaxXid      \* bound: the last transaction id handed out

ASSUME StoreAssumption ==
    /\ Requests # {}
    /\ Requests \subseteq {r \in Request : Admitted(r)}
    /\ MaxXid \in Nat

VARIABLES
    rows,       \* the committed table: a row or NoRow per key
    horizon,    \* compaction_horizon.compacted_xid, 0 when there is no row
    nextXid,    \* the next transaction id
    pc,         \* where each session's transaction is
    xid,        \* the id of that transaction, if it has one
    req,        \* its arguments
    pend,       \* the row it has written and not yet committed
    gone        \* the keys whose tombstones it has deleted, uncommitted

\* What req holds for a session without a transaction.
NoReq == CHOOSE r \in Requests : TRUE

storeVars == <<rows, horizon, nextXid, pc, xid, req, pend, gone>>

-----------------------------------------------------------------------------

\* The rows a transaction has changed stay locked until it ends.
Holds(c, k) ==
    \/ pc[c] = "commit" /\ k = req[c].key
    \/ pc[c] = "compact" /\ k \in gone[c]

Free(c, k) == \A d \in Clients \ {c} : ~Holds(d, k)

\* A transaction counts as in progress from the moment it has an id.
InFlight(c) == pc[c] \notin {"idle", "open", "checked"}

\* pg_snapshot_xmin(pg_current_snapshot()): the lowest id still in progress.
IsXmin(x) ==
    /\ x = nextXid \/ \E c \in Clients : InFlight(c) /\ x = xid[c]
    /\ x <= nextXid
    /\ \A c \in Clients : InFlight(c) => x <= xid[c]

StoreInit ==
    /\ rows = [k \in Keys |-> NoRow]
    /\ horizon = 0
    /\ nextXid = 1
    /\ pc = [c \in Clients |-> "idle"]
    /\ xid = [c \in Clients |-> 0]
    /\ req = [c \in Clients |-> NoReq]
    /\ pend = [c \in Clients |-> NoRow]
    /\ gone = [c \in Clients |-> {}]

End(c) ==
    /\ pc' = [pc EXCEPT ![c] = "idle"]
    /\ xid' = [xid EXCEPT ![c] = 0]
    /\ pend' = [pend EXCEPT ![c] = NoRow]
    /\ gone' = [gone EXCEPT ![c] = {}]
    /\ req' = [req EXCEPT ![c] = NoReq]

Assign(c) ==
    /\ nextXid <= MaxXid
    /\ xid' = [xid EXCEPT ![c] = nextXid]
    /\ nextXid' = nextXid + 1

Wrote(c, row) ==
    /\ pc' = [pc EXCEPT ![c] = "commit"]
    /\ pend' = [pend EXCEPT ![c] = row]
    /\ UNCHANGED <<rows, horizon, nextXid, xid, req, gone>>

\* The first statement of pgctl_write takes the transaction id, before
\* anything is read.
Begin(c, r) ==
    /\ c \notin Hooked
    /\ pc[c] = "idle"
    /\ Assign(c)
    /\ pc' = [pc EXCEPT ![c] = "check"]
    /\ req' = [req EXCEPT ![c] = r]
    /\ UNCHANGED <<rows, horizon, pend, gone>>

\* The SELECT of the suppression check found the same content: the call
\* returns the stored version and its transaction ends without a write.
Suppress(c) ==
    /\ pc[c] = "check"
    /\ Suppresses(rows[req[c].key], req[c])
    /\ End(c)
    /\ UNCHANGED <<rows, horizon, nextXid>>

Proceed(c) ==
    /\ pc[c] = "check"
    /\ ~Suppresses(rows[req[c].key], req[c])
    /\ pc' = [pc EXCEPT ![c] = "upsert"]
    /\ UNCHANGED <<rows, horizon, nextXid, xid, req, pend, gone>>

\* execWriteInner opens a transaction, which has no id yet.
BeginTx(c, r) ==
    /\ c \in Hooked
    /\ pc[c] = "idle"
    /\ pc' = [pc EXCEPT ![c] = "open"]
    /\ req' = [req EXCEPT ![c] = r]
    /\ UNCHANGED <<rows, horizon, nextXid, xid, pend, gone>>

\* readExisting found the same content: the transaction is committed empty.
SuppressTx(c) ==
    /\ pc[c] = "open"
    /\ Suppresses(rows[req[c].key], req[c])
    /\ End(c)
    /\ UNCHANGED <<rows, horizon, nextXid>>

ProceedTx(c) ==
    /\ pc[c] = "open"
    /\ ~Suppresses(rows[req[c].key], req[c])
    /\ pc' = [pc EXCEPT ![c] = "checked"]
    /\ UNCHANGED <<rows, horizon, nextXid, xid, req, pend, gone>>

\* SELECT pg_current_xact_id(): here the id comes after the check, and
\* whatever time the hook AfterSuppressionCheck takes.
AcquireTxid(c) ==
    /\ pc[c] = "checked"
    /\ Assign(c)
    /\ pc' = [pc EXCEPT ![c] = "upsert"]
    /\ UNCHANGED <<rows, horizon, req, pend, gone>>

\* Mutant: no object_version in the WHERE clause.
Update_AnyVersion(c) ==
    LET k == req[c].key IN
    /\ pc[c] = "upsert"
    /\ req[c].expected > 0
    /\ rows[k] # NoRow
    /\ Free(c, k)
    /\ Wrote(c, Updated(rows[k], req[c], xid[c]))

\* Branches A and C: UPDATE ... WHERE object_version = expected.
Update(c) ==
    LET k == req[c].key IN
    /\ pc[c] = "upsert"
    /\ req[c].expected > 0
    /\ Matches(rows[k], req[c])
    /\ Free(c, k)
    /\ Wrote(c, Updated(rows[k], req[c], xid[c]))

\* P0002: no row with that version; a row another transaction is inserting
\* is not visible yet and a row it does not match is not waited for.
Conflict(c) ==
    /\ pc[c] = "upsert"
    /\ req[c].expected > 0
    /\ ~Matches(rows[req[c].key], req[c])
    /\ End(c)
    /\ UNCHANGED <<rows, horizon, nextXid>>

\* Branch B: the INSERT waits for whoever holds the key.
Insert(c) ==
    LET k == req[c].key IN
    /\ pc[c] = "upsert"
    /\ req[c].expected = 0
    /\ Free(c, k)
    /\ rows[k] = NoRow
    /\ Wrote(c, Inserted(req[c], xid[c]))

\* unique_violation: the handler's UPDATE is a statement of its own.
Collide(c) ==
    LET k == req[c].key IN
    /\ pc[c] = "upsert"
    /\ req[c].expected = 0
    /\ Free(c, k)
    /\ rows[k] # NoRow
    /\ pc' = [pc EXCEPT ![c] = "revive"]
    /\ UNCHANGED <<rows, horizon, nextXid, xid, req, pend, gone>>

\* Mutant: a create takes over any row it collides with.
Revive_AnyRow(c) ==
    LET k == req[c].key IN
    /\ pc[c] = "revive"
    /\ rows[k] # NoRow
    /\ Free(c, k)
    /\ Wrote(c, Revived(req[c], xid[c]))

Revive(c) ==
    LET k == req[c].key IN
    /\ pc[c] = "revive"
    /\ Tombstone(rows[k])
    /\ Free(c, k)
    /\ Wrote(c, Revived(req[c], xid[c]))

\* Mutant: the handler waits for a row that is live or dying.
AlreadyExists_RowOnly(c) ==
    /\ pc[c] = "revive"
    /\ Shown(rows[req[c].key]) # NoRow
    /\ End(c)
    /\ UNCHANGED <<rows, horizon, nextXid>>

\* P0003: the handler's UPDATE found no tombstone.
AlreadyExists(c) ==
    /\ pc[c] = "revive"
    /\ ~Tombstone(rows[req[c].key])
    /\ End(c)
    /\ UNCHANGED <<rows, horizon, nextXid>>

Commit(c) ==
    /\ pc[c] = "commit"
    /\ rows' = [rows EXCEPT ![req[c].key] = pend[c]]
    /\ End(c)
    /\ UNCHANGED <<horizon, nextXid>>

\* Compact: the DELETE of one CTE takes the tombstones past the retention
\* time. Which ones those are depends on the clock and on the timestamps
\* clients chose, so it is any set of them.
CompactDelete(c, ks) ==
    /\ pc[c] = "idle"
    /\ ks # {}
    /\ \A k \in ks : Tombstone(rows[k]) /\ Free(c, k)
    /\ Assign(c)
    /\ pc' = [pc EXCEPT ![c] = "compact"]
    /\ gone' = [gone EXCEPT ![c] = ks]
    /\ UNCHANGED <<rows, horizon, req, pend>>

\* Mutant: a missing GREATEST, the last compaction to commit sets the horizon.
IsHorizon_NoGreatest(h, ks) ==
    \E k \in ks : h = rows[k].stamp /\ \A j \in ks : rows[j].stamp <= rows[k].stamp

\* GREATEST of the old horizon and the highest stamp deleted.
IsHorizon(h, ks) ==
    /\ h = horizon \/ \E k \in ks : h = rows[k].stamp
    /\ h >= horizon
    /\ \A k \in ks : h >= rows[k].stamp

\* The deletion and the horizon become visible together.
CompactCommit(c) ==
    /\ pc[c] = "compact"
    /\ \E h \in 0..nextXid : IsHorizon(h, gone[c]) /\ horizon' = h
    /\ rows' = [k \in Keys |-> IF k \in gone[c] THEN NoRow ELSE rows[k]]
    /\ End(c)
    /\ UNCHANGED nextXid

\* A timeout, a lost connection, a failover or an error of a hook before the
\* commit.
Abort(c) ==
    /\ pc[c] # "idle"
    /\ End(c)
    /\ UNCHANGED <<rows, horizon, nextXid>>

\* The statements that write are the same on both paths.
Upsert(c) ==
    \/ Update(c)
    \/ Conflict(c)
    \/ Insert(c)
    \/ Collide(c)
    \/ Revive(c)
    \/ AlreadyExists(c)

Session(c) ==
    \/ \E r \in Requests : Begin(c, r) \/ BeginTx(c, r)
    \/ Suppress(c)
    \/ Proceed(c)
    \/ SuppressTx(c)
    \/ ProceedTx(c)
    \/ AcquireTxid(c)
    \/ Upsert(c)
    \/ Commit(c)
    \/ \E ks \in SUBSET Keys : CompactDelete(c, ks)
    \/ CompactCommit(c)
    \/ Abort(c)

StoreNext == \E c \in Clients : Session(c)

StoreSpec == StoreInit /\ [][StoreNext]_storeVars

\* A statement runs to its end once nothing blocks it, and statement_timeout
\* ends the ones that something does block for too long.
Advance(c) ==
    Suppress(c) \/ Proceed(c) \/ Upsert(c) \/ Commit(c) \/ CompactCommit(c)

-----------------------------------------------------------------------------

StoreTypeOK ==
    /\ rows \in [Keys -> Row \cup {NoRow}]
    /\ horizon \in Nat
    /\ nextXid \in Nat
    /\ pc \in [Clients -> {"idle", "check", "open", "checked", "upsert", "revive",
                           "commit", "compact"}]
    /\ xid \in [Clients -> Nat]
    /\ req \in [Clients -> Requests]
    /\ pend \in [Clients -> Row \cup {NoRow}]
    /\ gone \in [Clients -> SUBSET Keys]

\* Row locks: two transactions never hold the same row.
LockExclusion ==
    \A c, d \in Clients : \A k \in Keys :
        Holds(c, k) /\ Holds(d, k) => c = d

\* What a transaction has written still fits the row it will replace: the
\* version it checked is still the stored one, a create still finds no
\* object, and what Compact deleted is still a tombstone.
PendingFits ==
    \A c \in Clients :
        /\ pc[c] = "commit" =>
            LET old == rows[req[c].key] IN
            /\ pend[c] # NoRow
            /\ pend[c].stamp = xid[c]
            /\ IF req[c].expected > 0
               THEN /\ Matches(old, req[c])
                    /\ pend[c].uid = old.uid
                    /\ pend[c].ver = old.ver + 1
               ELSE /\ Shown(old) = NoRow
                    /\ pend[c].uid = xid[c]
                    /\ pend[c].ver = 1
        /\ pc[c] = "compact" =>
            gone[c] # {} /\ \A k \in gone[c] : Tombstone(rows[k])

\* Transaction ids: the ones in use were handed out, the stamps of committed
\* rows too.
XidInv ==
    /\ nextXid > 0
    /\ \A c \in Clients : InFlight(c) => 0 < xid[c] /\ xid[c] < nextXid
    /\ \A k \in Keys : rows[k] # NoRow => rows[k].stamp < nextXid

\* ORDER BY txid_stamp is a total order, and stays one: no two rows have the
\* same stamp, and no transaction in flight has one that is in use.
StampsDistinct ==
    /\ \A j, k \in Keys :
        rows[j] # NoRow /\ rows[k] # NoRow /\ rows[j].stamp = rows[k].stamp => j = k
    /\ \A c \in Clients : InFlight(c) =>
        /\ \A k \in Keys : rows[k] # NoRow => rows[k].stamp # xid[c]
        /\ \A d \in Clients : InFlight(d) /\ xid[d] = xid[c] => d = c

\* Only a create reaches the exception handler.
ReviveIsCreate == \A c \in Clients : pc[c] = "revive" => req[c].expected = 0

\* The inductive invariant of the store.
StoreInv == StoreTypeOK /\ XidInv /\ ReviveIsCreate /\ LockExclusion /\ PendingFits

\* The statements of pgctl_write, whether one call or the transaction of a
\* Writer with hooks, act as one. What a call has written is, until it commits,
\* what an uninterrupted call would now make of the committed row: nothing that
\* other writers, creates and Compact committed between its statements is lost,
\* brought back or decided on by what was read before. Only the suppression
\* check may be out of date (hence force): a call that passed it writes again
\* what another one has stored since.
CallIsAtomic ==
    \A c \in Clients : pc[c] = "commit" =>
        LET asOne == PgctlWrite(rows[req[c].key], [req[c] EXCEPT !.force = TRUE], xid[c])
        IN  asOne.code = "ok" /\ pend[c] = asOne.row

\* I6 at the level of a row: a committed step takes an object to its next
\* version, or starts a new object where there was none or only a tombstone,
\* or removes a tombstone. No interleaving of writers and Compact overwrites
\* a version that was not the one checked.
RowStep ==
    [][\A k \in Keys : rows'[k] # rows[k] =>
        IF rows'[k] = NoRow
        THEN Tombstone(rows[k])
        ELSE \/ /\ rows[k] # NoRow
                /\ rows'[k].uid = rows[k].uid
                /\ rows'[k].ver = rows[k].ver + 1
             \/ /\ Shown(rows[k]) = NoRow
                /\ rows'[k].ver = 1]_storeVars

\* The base of I1: a row that becomes visible is stamped at or above every
\* xmin a reader could have read before, so no reader that trusts xmin - 1
\* has a commit appear behind it.
NoLateStamp ==
    [][\A k \in Keys : \A x \in 1..nextXid :
        rows'[k] # rows[k] /\ rows'[k] # NoRow /\ IsXmin(x)
            => rows'[k].stamp >= x]_storeVars

\* I5 in the database: a row disappears in the step that takes the horizon to
\* its stamp or beyond, and the horizon never moves back.
HorizonNeverLags ==
    [][/\ horizon' >= horizon
       /\ \A k \in Keys : rows[k] # NoRow /\ rows'[k] = NoRow
            => horizon' >= rows[k].stamp]_storeVars

\* Writers and compactions that wait for each other's rows all end: no
\* transaction stays open, which would pin xmin, and with it every watcher's
\* high-water mark, for ever.
TransactionsEnd == \A c \in Clients : InFlight(c) ~> ~InFlight(c)

=============================================================================
