---------------------------- MODULE StoreProofs -----------------------------
(***************************************************************************)
(* Proofs about Store for every set of keys, sessions and requests.        *)
(***************************************************************************)
EXTENDS Store, TLAPS

-----------------------------------------------------------------------------

\* What a request may contain, from the checks of the writer package.
LEMMA RequestFacts ==
    ASSUME NEW r \in Requests
    PROVE  /\ r \in Request
           /\ r.key \in Keys
           /\ r.expected \in Nat
           /\ r.statusOnly => r.expected > 0 /\ r.status # Null
           /\ r.status = Null => r.expected > 0
  BY StoreAssumption DEF Request, Admitted

\* There is a request for sessions without a transaction to hold.
LEMMA NoReqFact == NoReq \in Requests
  BY StoreAssumption DEF NoReq

\* The rows that the three branches of pgctl_write leave behind are rows.
LEMMA UpdatedIsRow ==
    ASSUME NEW r \in Requests, NEW x \in Nat, NEW row \in Row
    PROVE  /\ Updated(row, r, x) \in Row
           /\ Updated(row, r, x).stamp = x
           /\ Updated(row, r, x).uid = row.uid
           /\ Updated(row, r, x).ver = row.ver + 1
<1> DEFINE n == row.ver + 1
<1>1. /\ r.spec \in Vals /\ r.fin \in BOOLEAN /\ r.del \in Nat
      /\ r.status \in Vals \cup {Null}
  BY RequestFacts DEF Request
<1>2. n \in Nat
  BY DEF Row
<1>3. CASE r.statusOnly
  <2>1. r.status \in Vals
    BY <1>1, <1>3, RequestFacts
  <2>2. Updated(row, r, x) = [row EXCEPT !.stamp = x, !.ver = n, !.status = r.status]
    BY <1>3 DEF Updated
  <2> HIDE DEF n
  <2>3. Updated(row, r, x) \in Row
    BY <1>2, <2>1, <2>2 DEF Row
  <2>4. Updated(row, r, x).stamp = x /\ Updated(row, r, x).uid = row.uid
        /\ Updated(row, r, x).ver = n
    BY <2>2 DEF Row
  <2> QED
    BY <2>3, <2>4 DEF n
<1>4. CASE ~r.statusOnly
  <2> DEFINE st == IF r.status = Null THEN row.status ELSE r.status
  <2>1. st \in Vals
    BY <1>1 DEF Row
  <2>2. Updated(row, r, x) =
          [row EXCEPT !.stamp = x, !.ver = n, !.spec = r.spec, !.status = st,
                      !.fin = r.fin, !.del = r.del]
    BY <1>4 DEF Updated
  <2> HIDE DEF n, st
  <2>3. Updated(row, r, x) \in Row
    BY <1>1, <1>2, <2>1, <2>2 DEF Row
  <2>4. Updated(row, r, x).stamp = x /\ Updated(row, r, x).uid = row.uid
        /\ Updated(row, r, x).ver = n
    BY <2>2 DEF Row
  <2> QED
    BY <2>3, <2>4 DEF n
<1> QED
  BY <1>3, <1>4

\* The INSERT of a create leaves a row, with its id as stamp and uid.
LEMMA InsertedIsRow ==
    ASSUME NEW r \in Requests, NEW x \in Nat, r.expected = 0
    PROVE  /\ Inserted(r, x) \in Row
           /\ Inserted(r, x).stamp = x
           /\ Inserted(r, x).uid = x
           /\ Inserted(r, x).ver = 1
  BY RequestFacts DEF Inserted, Row, Request

\* A revival leaves a live row, with its id as stamp and uid.
LEMMA RevivedIsRow ==
    ASSUME NEW r \in Requests, NEW x \in Nat
    PROVE  /\ Revived(r, x) \in Row
           /\ Revived(r, x).stamp = x
           /\ Revived(r, x).uid = x
           /\ Revived(r, x).ver = 1
  BY RequestFacts, RowAssumption DEF Revived, Row, Request

-----------------------------------------------------------------------------

\* The empty table satisfies the inductive invariant.
LEMMA StoreInitInv == StoreInit => StoreInv
<1> SUFFICES ASSUME StoreInit PROVE StoreInv
  OBVIOUS
<1>1. StoreTypeOK
  BY NoReqFact DEF StoreInit, StoreTypeOK
<1>2. XidInv
  BY DEF StoreInit, XidInv, InFlight
<1>3. LockExclusion
  BY DEF StoreInit, LockExclusion, Holds
<1>4. PendingFits
  BY DEF StoreInit, PendingFits
<1>5. ReviveIsCreate
  BY DEF StoreInit, ReviveIsCreate
<1> QED
  BY <1>1, <1>2, <1>3, <1>4, <1>5 DEF StoreInv

\* A transaction that ends without publishing anything.
LEMMA EndKeepsInv ==
    ASSUME StoreInv, NEW c \in Clients, End(c), UNCHANGED <<rows, horizon, nextXid>>
    PROVE  StoreInv'
<1> USE DEF StoreInv
<1>1. StoreTypeOK'
  BY NoReqFact DEF StoreTypeOK, End
<1>2. XidInv'
  BY DEF StoreTypeOK, XidInv, End, InFlight
<1>3. LockExclusion'
  BY DEF StoreTypeOK, LockExclusion, Holds, End
<1>4. PendingFits'
  BY DEF StoreTypeOK, PendingFits, Matches, Shown, Tombstone, End
<1>5. ReviveIsCreate'
  BY DEF StoreTypeOK, ReviveIsCreate, End
<1> QED
  BY <1>1, <1>2, <1>3, <1>4, <1>5

\* A transaction that has written its row and now holds the row's lock.
LEMMA WroteKeepsInv ==
    ASSUME StoreInv, NEW c \in Clients, NEW row \in Row,
           InFlight(c), Wrote(c, row), Free(c, req[c].key),
           row.stamp = xid[c],
           IF req[c].expected > 0
           THEN /\ Matches(rows[req[c].key], req[c])
                /\ row.uid = rows[req[c].key].uid
                /\ row.ver = rows[req[c].key].ver + 1
           ELSE /\ Shown(rows[req[c].key]) = NoRow
                /\ row.uid = xid[c]
                /\ row.ver = 1
    PROVE  StoreInv'
<1> USE DEF StoreInv
<1>1. StoreTypeOK'
  BY DEF StoreTypeOK, Wrote
<1>2. XidInv'
  BY DEF StoreTypeOK, XidInv, Wrote, InFlight
<1>3. LockExclusion'
  BY DEF StoreTypeOK, LockExclusion, Holds, Free, Wrote
<1>4. PendingFits'
  BY RowAssumption DEF StoreTypeOK, PendingFits, Matches, Shown, Tombstone, Wrote
<1>5. ReviveIsCreate'
  BY DEF StoreTypeOK, ReviveIsCreate, Wrote
<1> QED
  BY <1>1, <1>2, <1>3, <1>4, <1>5

\* A statement that only moves its transaction to the next one.
LEMMA MoveKeepsInv ==
    ASSUME StoreInv, NEW c \in Clients, NEW to \in {"upsert", "revive"}, InFlight(c),
           to = "revive" => req[c].expected = 0,
           pc' = [pc EXCEPT ![c] = to],
           UNCHANGED <<rows, horizon, nextXid, xid, req, pend, gone>>
    PROVE  StoreInv'
<1> USE DEF StoreInv
<1>1. StoreTypeOK'
  BY DEF StoreTypeOK
<1>2. XidInv'
  BY DEF StoreTypeOK, XidInv, InFlight
<1>3. LockExclusion'
  BY DEF StoreTypeOK, LockExclusion, Holds
<1>4. PendingFits'
  BY DEF StoreTypeOK, PendingFits, Matches, Shown, Tombstone
<1>5. ReviveIsCreate'
  BY DEF StoreTypeOK, ReviveIsCreate, InFlight
<1> QED
  BY <1>1, <1>2, <1>3, <1>4, <1>5

\* A new transaction gets an id above all stamps.
LEMMA BeginKeepsInv ==
    ASSUME StoreInv, NEW c \in Clients, NEW r \in Requests, Begin(c, r)
    PROVE  StoreInv'
<1> USE DEF StoreInv
<1>1. StoreTypeOK'
  BY DEF StoreTypeOK, Begin, Assign
<1>2. XidInv'
  BY DEF StoreTypeOK, XidInv, Begin, Assign, InFlight, Row
<1>3. LockExclusion'
  BY DEF StoreTypeOK, LockExclusion, Holds, Begin
<1>4. PendingFits'
  BY DEF StoreTypeOK, PendingFits, Matches, Shown, Tombstone, Begin, Assign
<1>5. ReviveIsCreate'
  BY DEF StoreTypeOK, ReviveIsCreate, Begin
<1> QED
  BY <1>1, <1>2, <1>3, <1>4, <1>5

\* A transaction that is opened, or that moves on, before it has an id.
LEMMA OpenKeepsInv ==
    ASSUME StoreInv, NEW c \in Clients, NEW to \in {"open", "checked"},
           NEW r \in Requests, ~InFlight(c),
           pc' = [pc EXCEPT ![c] = to],
           req' = [req EXCEPT ![c] = r],
           UNCHANGED <<rows, horizon, nextXid, xid, pend, gone>>
    PROVE  StoreInv'
<1> USE DEF StoreInv
<1>1. StoreTypeOK'
  BY DEF StoreTypeOK
<1>2. XidInv'
  BY DEF StoreTypeOK, XidInv, InFlight
<1>3. LockExclusion'
  BY DEF StoreTypeOK, LockExclusion, Holds
<1>4. PendingFits'
  BY DEF StoreTypeOK, PendingFits, Matches, Shown, Tombstone
<1>5. ReviveIsCreate'
  BY DEF StoreTypeOK, ReviveIsCreate
<1> QED
  BY <1>1, <1>2, <1>3, <1>4, <1>5

\* An id taken after the suppression check is above all stamps as well.
LEMMA AcquireKeepsInv ==
    ASSUME StoreInv, NEW c \in Clients, AcquireTxid(c)
    PROVE  StoreInv'
<1> USE DEF StoreInv
<1>1. StoreTypeOK'
  BY DEF StoreTypeOK, AcquireTxid, Assign
<1>2. XidInv'
  BY DEF StoreTypeOK, XidInv, AcquireTxid, Assign, InFlight, Row
<1>3. LockExclusion'
  BY DEF StoreTypeOK, LockExclusion, Holds, AcquireTxid
<1>4. PendingFits'
  BY DEF StoreTypeOK, PendingFits, Matches, Shown, Tombstone, AcquireTxid, Assign
<1>5. ReviveIsCreate'
  BY DEF StoreTypeOK, ReviveIsCreate, AcquireTxid
<1> QED
  BY <1>1, <1>2, <1>3, <1>4, <1>5

\* A commit publishes a row that no other transaction holds.
LEMMA CommitKeepsInv ==
    ASSUME StoreInv, NEW c \in Clients, Commit(c)
    PROVE  StoreInv'
<1> USE DEF StoreInv
<1> DEFINE k == req[c].key
<1>1. k \in Keys /\ pend[c] \in Row /\ pend[c].stamp = xid[c] /\ InFlight(c)
  BY RequestFacts DEF StoreTypeOK, PendingFits, Commit, InFlight
<1>2. Holds(c, k)
  BY DEF Holds, Commit
<1>3. StoreTypeOK'
  BY <1>1, NoReqFact DEF StoreTypeOK, Commit, End
<1>4. XidInv'
  <2>1. \A d \in Clients : InFlight(d)' => InFlight(d) /\ xid'[d] = xid[d]
    BY DEF StoreTypeOK, InFlight, Commit, End
  <2>2. \A j \in Keys : rows'[j] # NoRow => rows'[j].stamp < nextXid
    BY <1>1 DEF StoreTypeOK, XidInv, Commit
  <2> QED
    BY <2>1, <2>2 DEF XidInv, Commit
<1>5. LockExclusion'
  BY DEF StoreTypeOK, LockExclusion, Holds, Commit, End
<1>6. PendingFits'
  <2> SUFFICES ASSUME NEW d \in Clients, d # c
               PROVE  /\ pc[d] = "commit" => req[d].key # k
                      /\ pc[d] = "compact" => k \notin gone[d]
    BY <1>1 DEF StoreTypeOK, PendingFits, Matches, Shown, Tombstone, Commit, End
  <2> QED
    BY <1>1, <1>2 DEF LockExclusion, Holds
<1>7. ReviveIsCreate'
  BY DEF StoreTypeOK, ReviveIsCreate, Commit, End
<1> QED
  BY <1>3, <1>4, <1>5, <1>6, <1>7

\* Compact locks tombstones that nobody else holds.
LEMMA CompactDeleteKeepsInv ==
    ASSUME StoreInv, NEW c \in Clients, NEW ks \in SUBSET Keys, CompactDelete(c, ks)
    PROVE  StoreInv'
<1> USE DEF StoreInv
<1>1. StoreTypeOK'
  BY DEF StoreTypeOK, CompactDelete, Assign
<1>2. XidInv'
  BY DEF StoreTypeOK, XidInv, CompactDelete, Assign, InFlight, Row
<1>3. LockExclusion'
  BY DEF StoreTypeOK, LockExclusion, Holds, Free, CompactDelete
<1>4. PendingFits'
  BY DEF StoreTypeOK, PendingFits, Matches, Shown, Tombstone, CompactDelete, Assign
<1>5. ReviveIsCreate'
  BY DEF StoreTypeOK, ReviveIsCreate, CompactDelete
<1> QED
  BY <1>1, <1>2, <1>3, <1>4, <1>5

\* What Compact removes, no other transaction has written.
LEMMA CompactCommitKeepsInv ==
    ASSUME StoreInv, NEW c \in Clients, CompactCommit(c)
    PROVE  StoreInv'
<1> USE DEF StoreInv
<1>1. \A k \in gone[c] : k \in Keys /\ Holds(c, k)
  BY DEF StoreTypeOK, Holds, CompactCommit
<1>2. StoreTypeOK'
  BY NoReqFact DEF StoreTypeOK, CompactCommit, End
<1>3. XidInv'
  BY DEF StoreTypeOK, XidInv, InFlight, CompactCommit, End
<1>4. LockExclusion'
  BY DEF StoreTypeOK, LockExclusion, Holds, CompactCommit, End
<1>5. PendingFits'
  <2>1. ASSUME NEW d \in Clients, d # c
        PROVE  /\ pc[d] = "commit" => req[d].key \notin gone[c]
               /\ pc[d] = "compact" => gone[d] \cap gone[c] = {}
    BY <1>1, <2>1 DEF LockExclusion, Holds
  <2>2. \A d \in Clients : req[d].key \in Keys /\ gone[d] \subseteq Keys
    BY RequestFacts DEF StoreTypeOK
  <2> QED
    BY <2>1, <2>2 DEF StoreTypeOK, PendingFits, Matches, Shown, Tombstone, CompactCommit, End
<1>6. ReviveIsCreate'
  BY DEF StoreTypeOK, ReviveIsCreate, CompactCommit, End
<1> QED
  BY <1>2, <1>3, <1>4, <1>5, <1>6

\* Every step of a session preserves the inductive invariant.
LEMMA SessionKeepsInv ==
    ASSUME StoreInv, NEW c \in Clients, Session(c)
    PROVE  StoreInv'
<1> DEFINE k == req[c].key
<1>0. /\ req[c] \in Requests /\ k \in Keys /\ xid[c] \in Nat
      /\ req[c].expected \in Nat /\ rows[k] \in Row \cup {NoRow}
  BY RequestFacts DEF StoreInv, StoreTypeOK
<1>1. CASE \E r \in Requests : Begin(c, r)
  BY <1>1, BeginKeepsInv
<1>2. CASE Suppress(c) \/ SuppressTx(c) \/ Conflict(c) \/ AlreadyExists(c) \/ Abort(c)
  BY <1>2, EndKeepsInv DEF Suppress, SuppressTx, Conflict, AlreadyExists, Abort
<1>3. CASE Proceed(c) \/ Collide(c)
  BY <1>3, MoveKeepsInv DEF Proceed, Collide, InFlight
<1>4. CASE Update(c)
  <2> DEFINE row == Updated(rows[k], req[c], xid[c])
  <2>1. /\ InFlight(c) /\ Wrote(c, row) /\ Free(c, k) /\ Matches(rows[k], req[c])
        /\ req[c].expected > 0
    BY <1>4 DEF Update, InFlight
  <2>2. rows[k] \in Row
    BY <1>0, <2>1 DEF Matches
  <2>3. row \in Row /\ row.stamp = xid[c] /\ row.uid = rows[k].uid /\ row.ver = rows[k].ver + 1
    BY <1>0, <2>2, UpdatedIsRow
  <2> QED
    BY <2>1, <2>3, WroteKeepsInv
<1>5. CASE Insert(c)
  <2> DEFINE row == Inserted(req[c], xid[c])
  <2>1. /\ InFlight(c) /\ Wrote(c, row) /\ Free(c, k) /\ Shown(rows[k]) = NoRow
        /\ req[c].expected = 0
    BY <1>5 DEF Insert, InFlight, Shown
  <2>2. row \in Row /\ row.stamp = xid[c] /\ row.uid = xid[c] /\ row.ver = 1
    BY <1>0, <2>1, InsertedIsRow
  <2> QED
    BY <1>0, <2>1, <2>2, WroteKeepsInv
<1>6. CASE Revive(c)
  <2> DEFINE row == Revived(req[c], xid[c])
  <2>1. /\ InFlight(c) /\ Wrote(c, row) /\ Free(c, k) /\ Shown(rows[k]) = NoRow
        /\ req[c].expected = 0
    BY <1>6 DEF Revive, InFlight, Shown, StoreInv, ReviveIsCreate
  <2>2. row \in Row /\ row.stamp = xid[c] /\ row.uid = xid[c] /\ row.ver = 1
    BY <1>0, RevivedIsRow
  <2> QED
    BY <1>0, <2>1, <2>2, WroteKeepsInv
<1>7. CASE Commit(c)
  BY <1>7, CommitKeepsInv
<1>8. CASE \E ks \in SUBSET Keys : CompactDelete(c, ks)
  BY <1>8, CompactDeleteKeepsInv
<1>9. CASE CompactCommit(c)
  BY <1>9, CompactCommitKeepsInv
<1>10. CASE \E r \in Requests : BeginTx(c, r)
  BY <1>10, OpenKeepsInv DEF BeginTx, InFlight
<1>11. CASE ProceedTx(c)
  <2>1. req' = [req EXCEPT ![c] = req[c]]
    BY <1>11 DEF ProceedTx, StoreInv, StoreTypeOK
  <2> QED
    BY <1>0, <1>11, <2>1, OpenKeepsInv DEF ProceedTx, InFlight
<1>12. CASE AcquireTxid(c)
  BY <1>12, AcquireKeepsInv
<1> QED
  BY <1>1, <1>2, <1>3, <1>4, <1>5, <1>6, <1>7, <1>8, <1>9, <1>10, <1>11, <1>12
  DEF Session, Upsert

\* The invariant is inductive.
LEMMA StoreNextKeepsInv == StoreInv /\ [StoreNext]_storeVars => StoreInv'
<1>1. CASE StoreNext
  BY <1>1, SessionKeepsInv DEF StoreNext
<1>2. CASE UNCHANGED storeVars
  BY <1>2 DEF storeVars, StoreInv, StoreTypeOK, XidInv, InFlight, ReviveIsCreate,
              LockExclusion, Holds, PendingFits, Matches, Shown, Tombstone
<1> QED
  BY <1>1, <1>2

\* The invariant holds in every behaviour of the store: rows are locked by one
\* transaction at a time and what a transaction wrote, in pgctl_write or in
\* Compact, still fits the committed row when it commits.
THEOREM StoreInvariant == StoreSpec => []StoreInv
<1>1. StoreInit => StoreInv
  BY StoreInitInv
<1>2. StoreInv /\ [StoreNext]_storeVars => StoreInv'
  BY StoreNextKeepsInv
<1> QED
  BY <1>1, <1>2, PTL DEF StoreSpec

\* The state of the database has its type, NULL in no column that forbids it.
THEOREM StoreTypeCorrect == StoreSpec => []StoreTypeOK
<1>1. StoreInv => StoreTypeOK
  BY DEF StoreInv
<1> QED
  BY <1>1, StoreInvariant, PTL

\* No interleaving of sessions makes a pending write stale before it commits.
THEOREM PendingStaysFit == StoreSpec => []PendingFits
<1>1. StoreInv => PendingFits
  BY DEF StoreInv
<1> QED
  BY <1>1, StoreInvariant, PTL

-----------------------------------------------------------------------------

\* The only steps that change the committed table.
LEMMA RowsChange ==
    ASSUME StoreInv, StoreNext, NEW k \in Keys, rows'[k] # rows[k]
    PROVE  \E c \in Clients :
             \/ Commit(c) /\ k = req[c].key /\ rows'[k] = pend[c]
             \/ CompactCommit(c) /\ k \in gone[c] /\ rows'[k] = NoRow
<1>1. PICK c \in Clients : Session(c)
  BY DEF StoreNext
<1>2. Commit(c) \/ CompactCommit(c)
  BY <1>1 DEF Session, Begin, BeginTx, SuppressTx, ProceedTx,
              AcquireTxid, Upsert, Suppress, Proceed, Update, Conflict, Insert, Collide,
              Revive, AlreadyExists, CompactDelete, Abort, Wrote
<1>3. CASE Commit(c)
  BY <1>3 DEF Commit, StoreInv, StoreTypeOK
<1>4. CASE CompactCommit(c)
  BY <1>4 DEF CompactCommit, StoreInv, StoreTypeOK
<1> QED
  BY <1>2, <1>3, <1>4

\* I6 at the level of a row, for any number of sessions.
THEOREM RowsStep == StoreSpec => RowStep
<1> DEFINE A == \A k \in Keys : rows'[k] # rows[k] =>
        IF rows'[k] = NoRow
        THEN Tombstone(rows[k])
        ELSE \/ /\ rows[k] # NoRow
                /\ rows'[k].uid = rows[k].uid
                /\ rows'[k].ver = rows[k].ver + 1
             \/ /\ Shown(rows[k]) = NoRow
                /\ rows'[k].ver = 1
<1>1. StoreInv /\ [StoreNext]_storeVars => [A]_storeVars
  <2> SUFFICES ASSUME StoreInv, StoreNext, NEW k \in Keys, rows'[k] # rows[k]
               PROVE  IF rows'[k] = NoRow
                      THEN Tombstone(rows[k])
                      ELSE \/ /\ rows[k] # NoRow
                              /\ rows'[k].uid = rows[k].uid
                              /\ rows'[k].ver = rows[k].ver + 1
                           \/ /\ Shown(rows[k]) = NoRow
                              /\ rows'[k].ver = 1
    OBVIOUS
  <2>1. PICK c \in Clients :
             \/ Commit(c) /\ k = req[c].key /\ rows'[k] = pend[c]
             \/ CompactCommit(c) /\ k \in gone[c] /\ rows'[k] = NoRow
    BY RowsChange
  <2>2. CASE Commit(c) /\ k = req[c].key /\ rows'[k] = pend[c]
    BY <2>2 DEF Commit, StoreInv, PendingFits, Matches
  <2>3. CASE CompactCommit(c) /\ k \in gone[c] /\ rows'[k] = NoRow
    BY <2>3 DEF CompactCommit, StoreInv, PendingFits
  <2> QED
    BY <2>1, <2>2, <2>3
<1> QED
  BY <1>1, StoreInvariant, PTL DEF StoreSpec, RowStep

\* The base of I1: no commit appears below an xmin that was read before.
THEOREM StampsNeverLate == StoreSpec => NoLateStamp
<1> DEFINE A == \A k \in Keys : \A x \in 1..nextXid :
        rows'[k] # rows[k] /\ rows'[k] # NoRow /\ IsXmin(x) => rows'[k].stamp >= x
<1>1. StoreInv /\ [StoreNext]_storeVars => [A]_storeVars
  <2> SUFFICES ASSUME StoreInv, StoreNext, NEW k \in Keys, NEW x \in 1..nextXid,
                      rows'[k] # rows[k], rows'[k] # NoRow, IsXmin(x)
               PROVE  rows'[k].stamp >= x
    OBVIOUS
  <2>1. PICK c \in Clients : Commit(c) /\ k = req[c].key /\ rows'[k] = pend[c]
    BY RowsChange
  <2>2. rows'[k].stamp = xid[c] /\ InFlight(c) /\ xid[c] \in Nat
    BY <2>1 DEF Commit, InFlight, StoreInv, StoreTypeOK, PendingFits
  <2> QED
    BY <2>2 DEF IsXmin
<1> QED
  BY <1>1, StoreInvariant, PTL DEF StoreSpec, NoLateStamp

\* I5 in the database: the horizon never lags a physical delete.
THEOREM HorizonKeepsUp == StoreSpec => HorizonNeverLags
<1> DEFINE A == /\ horizon' >= horizon
                /\ \A k \in Keys : rows[k] # NoRow /\ rows'[k] = NoRow
                      => horizon' >= rows[k].stamp
<1>1. StoreInv /\ [StoreNext]_storeVars => [A]_storeVars
  <2> SUFFICES ASSUME StoreInv, StoreNext PROVE A
    OBVIOUS
  <2>1. horizon' >= horizon
    BY DEF StoreNext, Session, Begin, BeginTx, SuppressTx, ProceedTx,
           AcquireTxid, Upsert, Suppress, Proceed, Update, Conflict, Insert, Collide,
           Revive, AlreadyExists, Commit, CompactDelete, CompactCommit, Abort, Wrote,
           IsHorizon, StoreInv, StoreTypeOK
  <2>2. ASSUME NEW k \in Keys, rows[k] # NoRow, rows'[k] = NoRow
        PROVE  horizon' >= rows[k].stamp
    <3>1. PICK c \in Clients :
             \/ Commit(c) /\ k = req[c].key /\ rows'[k] = pend[c]
             \/ CompactCommit(c) /\ k \in gone[c] /\ rows'[k] = NoRow
      BY <2>2, RowsChange
    <3>2. ~Commit(c) \/ pend[c] # NoRow
      BY DEF Commit, StoreInv, PendingFits
    <3>3. CompactCommit(c) /\ k \in gone[c]
      BY <2>2, <3>1, <3>2
    <3> QED
      BY <3>3 DEF CompactCommit, IsHorizon
  <2> QED
    BY <2>1, <2>2
<1> QED
  BY <1>1, StoreInvariant, PTL DEF StoreSpec, HorizonNeverLags

-----------------------------------------------------------------------------
(***************************************************************************)
(* A call of pgctl_write acts as one step.                                 *)
(***************************************************************************)

\* What a call makes of a row once its suppression check is behind it.
LEMMA ForcedCall ==
    ASSUME NEW r \in Requests, NEW x \in Nat, NEW row \in Row \cup {NoRow}
    PROVE  LET asOne == PgctlWrite(row, [r EXCEPT !.force = TRUE], x) IN
           /\ r.expected > 0 /\ Matches(row, r)
                => asOne.code = "ok" /\ asOne.row = Updated(row, r, x)
           /\ r.expected = 0 /\ row = NoRow
                => asOne.code = "ok" /\ asOne.row = Inserted(r, x)
           /\ r.expected = 0 /\ Tombstone(row)
                => asOne.code = "ok" /\ asOne.row = Revived(r, x)
<1> DEFINE f == [r EXCEPT !.force = TRUE]
<1>1. /\ f.force = TRUE /\ f.statusOnly = r.statusOnly /\ f.expected = r.expected
      /\ f.spec = r.spec /\ f.status = r.status /\ f.fin = r.fin /\ f.del = r.del
      /\ r.expected \in Nat
  BY RequestFacts DEF Request
<1> HIDE DEF f
<1>2. ~Suppresses(row, f)
  BY <1>1 DEF Suppresses
<1>3. ASSUME r.expected > 0, Matches(row, r)
      PROVE  PgctlWrite(row, f, x).code = "ok" /\ PgctlWrite(row, f, x).row = Updated(row, r, x)
  <2>1. Matches(row, f) /\ Updated(row, f, x) = Updated(row, r, x)
    BY <1>1, <1>3 DEF Matches, Updated
  <2>2. PgctlWrite(row, f, x) = [row |-> Updated(row, f, x), code |-> "ok", ver |-> row.ver + 1]
    BY <1>1, <1>2, <1>3, <2>1 DEF PgctlWrite
  <2> QED
    BY <2>1, <2>2
<1>4. ASSUME r.expected = 0, row = NoRow
      PROVE  PgctlWrite(row, f, x).code = "ok" /\ PgctlWrite(row, f, x).row = Inserted(r, x)
  <2>1. Inserted(f, x) = Inserted(r, x)
    BY <1>1 DEF Inserted
  <2>2. ~(f.expected > 0) /\ ~Tombstone(row)
    BY <1>1, <1>4 DEF Tombstone
  <2>3. PgctlWrite(row, f, x) = [row |-> Inserted(f, x), code |-> "ok", ver |-> 1]
    BY <1>1, <1>2, <1>4, <2>2 DEF PgctlWrite
  <2> QED
    BY <2>1, <2>3
<1>5. ASSUME r.expected = 0, Tombstone(row)
      PROVE  PgctlWrite(row, f, x).code = "ok" /\ PgctlWrite(row, f, x).row = Revived(r, x)
  <2>1. Revived(f, x) = Revived(r, x)
    BY <1>1 DEF Revived
  <2>2. ~(f.expected > 0) /\ row # NoRow
    BY <1>1, <1>5 DEF Tombstone
  <2>3. PgctlWrite(row, f, x) = [row |-> Revived(f, x), code |-> "ok", ver |-> 1]
    BY <1>1, <1>2, <1>5, <2>2 DEF PgctlWrite
  <2> QED
    BY <2>1, <2>3
<1> QED
  BY <1>3, <1>4, <1>5 DEF f

\* A row that a transaction has written and not committed is not changed by others.
LEMMA HeldRowStays ==
    ASSUME StoreInv, StoreNext, NEW d \in Clients, pc[d] = "commit", ~Commit(d)
    PROVE  rows'[req[d].key] = rows[req[d].key]
<1> DEFINE k == req[d].key
<1>1. k \in Keys /\ Holds(d, k)
  BY RequestFacts DEF StoreInv, StoreTypeOK, Holds
<1> SUFFICES ASSUME rows'[k] # rows[k] PROVE FALSE
  OBVIOUS
<1>2. PICK c \in Clients :
             \/ Commit(c) /\ k = req[c].key /\ rows'[k] = pend[c]
             \/ CompactCommit(c) /\ k \in gone[c] /\ rows'[k] = NoRow
  BY <1>1, RowsChange
<1>3. Holds(c, k)
  BY <1>2 DEF Commit, CompactCommit, Holds
<1>4. c = d
  BY <1>1, <1>3 DEF StoreInv, LockExclusion
<1> QED
  BY <1>2, <1>4 DEF CompactCommit

\* How a transaction comes to be about to commit: it was, or it has just written.
LEMMA ToCommit ==
    ASSUME StoreInv, StoreNext, NEW d \in Clients, pc'[d] = "commit"
    PROVE  /\ req'[d] = req[d] /\ xid'[d] = xid[d]
           /\ \/ pc[d] = "commit" /\ ~Commit(d) /\ pend'[d] = pend[d]
              \/ Update(d) \/ Insert(d) \/ Revive(d)
<1>1. PICK c \in Clients : Session(c)
  BY DEF StoreNext
<1>2. c # d => /\ pc'[d] = pc[d] /\ req'[d] = req[d] /\ xid'[d] = xid[d] /\ pend'[d] = pend[d]
  BY <1>1 DEF Session, Begin, BeginTx, SuppressTx, ProceedTx, AcquireTxid, Upsert, Suppress,
              Proceed, Update, Conflict, Insert, Collide, Revive, AlreadyExists, Commit,
              CompactDelete, CompactCommit, Abort, Wrote, Assign, End, StoreInv, StoreTypeOK
<1>3. c = d => Update(d) \/ Insert(d) \/ Revive(d)
  BY <1>1 DEF Session, Begin, BeginTx, SuppressTx, ProceedTx, AcquireTxid, Upsert, Suppress,
              Proceed, Conflict, Collide, AlreadyExists, Commit, CompactDelete, CompactCommit,
              Abort, End, StoreInv, StoreTypeOK
<1>4. ~Commit(d)
  BY DEF Commit, End, StoreInv, StoreTypeOK
<1>5. Update(d) \/ Insert(d) \/ Revive(d) => req'[d] = req[d] /\ xid'[d] = xid[d]
  BY DEF Update, Insert, Revive, Wrote
<1> QED
  BY <1>2, <1>3, <1>4, <1>5

\* The statements of a call still act as one after any step of any session.
LEMMA CallStaysAtomic ==
    ASSUME StoreInv, CallIsAtomic, StoreNext
    PROVE  CallIsAtomic'
<1> SUFFICES ASSUME NEW d \in Clients, pc'[d] = "commit"
             PROVE  LET asOne == PgctlWrite(rows'[req'[d].key],
                                            [req'[d] EXCEPT !.force = TRUE], xid'[d])
                    IN  asOne.code = "ok" /\ pend'[d] = asOne.row
  BY DEF CallIsAtomic
<1> DEFINE k == req[d].key
           asOne == PgctlWrite(rows[k], [req[d] EXCEPT !.force = TRUE], xid[d])
<1>1. /\ req[d] \in Requests /\ k \in Keys /\ xid[d] \in Nat /\ rows[k] \in Row \cup {NoRow}
  BY RequestFacts DEF StoreInv, StoreTypeOK
<1>2. req'[d] = req[d] /\ xid'[d] = xid[d]
  BY ToCommit
<1>3. CASE pc[d] = "commit" /\ ~Commit(d) /\ pend'[d] = pend[d]
  <2>1. rows'[k] = rows[k]
    BY <1>3, HeldRowStays
  <2>2. asOne.code = "ok" /\ pend[d] = asOne.row
    BY <1>3 DEF CallIsAtomic
  <2> QED
    BY <1>2, <1>3, <2>1, <2>2
<1>4. ASSUME NEW row, Wrote(d, row), asOne.code = "ok", asOne.row = row
      PROVE  rows' = rows /\ asOne.code = "ok" /\ pend'[d] = asOne.row
  BY <1>4 DEF Wrote, StoreInv, StoreTypeOK
<1>5. CASE Update(d)
  <2>1. Wrote(d, Updated(rows[k], req[d], xid[d])) /\ req[d].expected > 0 /\ Matches(rows[k], req[d])
    BY <1>5 DEF Update
  <2>2. asOne.code = "ok" /\ asOne.row = Updated(rows[k], req[d], xid[d])
    BY <1>1, <2>1, ForcedCall
  <2> QED
    BY <1>2, <1>4, <2>1, <2>2
<1>6. CASE Insert(d)
  <2>1. Wrote(d, Inserted(req[d], xid[d])) /\ req[d].expected = 0 /\ rows[k] = NoRow
    BY <1>6 DEF Insert
  <2>2. asOne.code = "ok" /\ asOne.row = Inserted(req[d], xid[d])
    BY <1>1, <2>1, ForcedCall
  <2> QED
    BY <1>2, <1>4, <2>1, <2>2
<1>7. CASE Revive(d)
  <2>1. Wrote(d, Revived(req[d], xid[d])) /\ req[d].expected = 0 /\ Tombstone(rows[k])
    BY <1>7 DEF Revive, StoreInv, ReviveIsCreate
  <2>2. asOne.code = "ok" /\ asOne.row = Revived(req[d], xid[d])
    BY <1>1, <2>1, ForcedCall
  <2> QED
    BY <1>2, <1>4, <2>1, <2>2
<1> QED
  BY <1>3, <1>5, <1>6, <1>7, ToCommit

\* The statements of pgctl_write act as one, on both paths of the Writer, for any
\* number of sessions and objects: what Client takes as a single step.
THEOREM CallsAtomic == StoreSpec => []CallIsAtomic
<1>1. StoreInit => CallIsAtomic
  BY DEF StoreInit, CallIsAtomic
<1>2. StoreInv /\ CallIsAtomic /\ [StoreNext]_storeVars => CallIsAtomic'
  <2>1. CASE StoreNext
    BY <2>1, CallStaysAtomic
  <2>2. CASE UNCHANGED storeVars
    BY <2>2 DEF storeVars, CallIsAtomic
  <2> QED
    BY <2>1, <2>2
<1> QED
  BY <1>1, <1>2, StoreInvariant, PTL DEF StoreSpec

-----------------------------------------------------------------------------
(***************************************************************************)
(* What a step of the writers or of Compact means to a reader.             *)
(***************************************************************************)

\* New ids are above every bound that the ids in flight respect.
LEMMA StoreStepBounds ==
    ASSUME StoreInv, StoreNext, NEW b \in Nat, b <= nextXid
    PROVE  /\ nextXid' >= nextXid
           /\ (\A c \in Clients : InFlight(c) => b <= xid[c])
                => \A c \in Clients : InFlight(c)' => b <= xid'[c]
           /\ (b < nextXid /\ \A c \in Clients : InFlight(c) => b < xid[c])
                => \A c \in Clients : InFlight(c)' => b < xid'[c]
<1>1. PICK c \in Clients : Session(c)
  BY DEF StoreNext
<1>2. nextXid' = nextXid \/ nextXid' = nextXid + 1
  BY <1>1 DEF Session, Begin, BeginTx, SuppressTx, ProceedTx,
              AcquireTxid, Upsert, Suppress, Proceed, Update, Conflict, Insert, Collide, Revive,
              AlreadyExists, Commit, CompactDelete, CompactCommit, Abort, Wrote, Assign
<1>3. \A d \in Clients : InFlight(d)' => (InFlight(d) /\ xid'[d] = xid[d]) \/ xid'[d] = nextXid
  BY <1>1 DEF Session, Begin, BeginTx, SuppressTx, ProceedTx,
              AcquireTxid, Upsert, Suppress, Proceed, Update, Conflict, Insert, Collide, Revive,
              AlreadyExists, Commit, CompactDelete, CompactCommit, Abort, Wrote, Assign, End,
              InFlight, StoreInv, StoreTypeOK
<1> QED
  BY <1>2, <1>3 DEF StoreInv, StoreTypeOK

\* What a store step can do to a row, seen from a bound below all ids in flight.
LEMMA StoreStepRow ==
    ASSUME StoreInv, StoreNext, NEW k \in Keys, rows'[k] # rows[k],
           NEW b \in Nat, \A c \in Clients : InFlight(c) => b <= xid[c]
    PROVE  \/ rows'[k] # NoRow /\ rows'[k].stamp >= b
           \/ rows'[k] = NoRow /\ Tombstone(rows[k]) /\ horizon' >= rows[k].stamp
<1>1. PICK c \in Clients :
             \/ Commit(c) /\ k = req[c].key /\ rows'[k] = pend[c]
             \/ CompactCommit(c) /\ k \in gone[c] /\ rows'[k] = NoRow
  BY RowsChange
<1>2. CASE Commit(c) /\ k = req[c].key /\ rows'[k] = pend[c]
  BY <1>2 DEF Commit, InFlight, StoreInv, StoreTypeOK, PendingFits
<1>3. CASE CompactCommit(c) /\ k \in gone[c] /\ rows'[k] = NoRow
  BY <1>3 DEF CompactCommit, IsHorizon, StoreInv, PendingFits
<1> QED
  BY <1>1, <1>2, <1>3

\* The compaction horizon only grows.
LEMMA HorizonGrows ==
    ASSUME StoreInv, StoreNext PROVE horizon' \in Nat /\ horizon' >= horizon
  BY DEF StoreNext, Session, Begin, BeginTx, SuppressTx, ProceedTx,
         AcquireTxid, Upsert, Suppress, Proceed, Update, Conflict, Insert, Collide,
         Revive, AlreadyExists, Commit, CompactDelete, CompactCommit, Abort, Wrote,
         IsHorizon, StoreInv, StoreTypeOK

\* What a step does to transaction ids: one session may get a new one.
LEMMA StoreStepIds ==
    ASSUME StoreInv, StoreNext
    PROVE  \E c \in Clients :
           /\ \A d \in Clients : InFlight(d)' => (InFlight(d) /\ xid'[d] = xid[d]) \/ d = c
           /\ InFlight(c)' => \/ InFlight(c) /\ xid'[c] = xid[c]
                              \/ xid'[c] = nextXid
<1>1. PICK c \in Clients : Session(c)
  BY DEF StoreNext
<1>2. \A d \in Clients : InFlight(d)' => (InFlight(d) /\ xid'[d] = xid[d]) \/ (d = c /\ xid'[d] = nextXid)
  BY <1>1 DEF Session, Begin, BeginTx, SuppressTx, ProceedTx,
              AcquireTxid, Upsert, Suppress, Proceed, Update, Conflict, Insert, Collide, Revive,
              AlreadyExists, Commit, CompactDelete, CompactCommit, Abort, Wrote, Assign, End,
              InFlight, StoreInv, StoreTypeOK
<1> QED
  BY <1>2

\* The order of stamps stays a total one.
LEMMA StampsStayDistinct ==
    ASSUME StoreInv, StampsDistinct, StoreNext
    PROVE  StampsDistinct'
<1>1. /\ \A d \in Clients : InFlight(d) => xid[d] \in Nat /\ xid[d] < nextXid
      /\ \A k \in Keys : rows[k] # NoRow => rows[k].stamp \in Nat /\ rows[k].stamp < nextXid
      /\ nextXid \in Nat
  BY DEF StoreInv, StoreTypeOK, XidInv, Row
<1>2. PICK c \in Clients :
           /\ \A d \in Clients : InFlight(d)' => (InFlight(d) /\ xid'[d] = xid[d]) \/ d = c
           /\ InFlight(c)' => \/ InFlight(c) /\ xid'[c] = xid[c]
                              \/ xid'[c] = nextXid
  BY StoreStepIds
<1>3. \A d, e \in Clients : InFlight(d)' /\ InFlight(e)' /\ xid'[d] = xid'[e] => d = e
  BY <1>1, <1>2 DEF StampsDistinct
<1>4. CASE rows' = rows
  <2>1. \A d \in Clients, k \in Keys : InFlight(d)' /\ rows[k] # NoRow => rows[k].stamp # xid'[d]
    BY <1>1, <1>2 DEF StampsDistinct
  <2> QED
    BY <1>3, <1>4, <2>1 DEF StampsDistinct
<1>5. ASSUME NEW d \in Clients, Commit(d) PROVE StampsDistinct'
  <2>1. /\ InFlight(d) /\ pend[d] # NoRow /\ pend[d].stamp = xid[d] /\ req[d].key \in Keys
        /\ rows' = [rows EXCEPT ![req[d].key] = pend[d]] /\ ~InFlight(d)'
        /\ \A e \in Clients \ {d} : pc'[e] = pc[e] /\ xid'[e] = xid[e]
    BY <1>5, RequestFacts DEF Commit, End, InFlight, StoreInv, StoreTypeOK, PendingFits
  <2>2. \A k \in Keys : rows'[k] = IF k = req[d].key THEN pend[d] ELSE rows[k]
    BY <2>1 DEF StoreInv, StoreTypeOK
  <2>3. \A e \in Clients : InFlight(e)' => e # d /\ InFlight(e) /\ xid'[e] = xid[e]
    BY <2>1 DEF InFlight
  <2> QED
    BY <1>3, <2>1, <2>2, <2>3 DEF StampsDistinct
<1>6. ASSUME NEW d \in Clients, CompactCommit(d) PROVE StampsDistinct'
  <2>1. \A k \in Keys : rows'[k] # NoRow => rows'[k] = rows[k] /\ rows[k] # NoRow
    BY <1>6 DEF CompactCommit
  <2>2. \A e \in Clients : InFlight(e)' => InFlight(e) /\ xid'[e] = xid[e]
    BY <1>6 DEF CompactCommit, End, InFlight, StoreInv, StoreTypeOK
  <2> QED
    BY <1>3, <2>1, <2>2 DEF StampsDistinct
<1>7. \/ rows' = rows
      \/ \E d \in Clients : Commit(d) \/ CompactCommit(d)
  BY DEF StoreNext, Session, Begin, BeginTx, SuppressTx, ProceedTx,
         AcquireTxid, Upsert, Suppress, Proceed, Update, Conflict, Insert, Collide,
         Revive, AlreadyExists, CompactDelete, Abort, Wrote
<1> QED
  BY <1>4, <1>5, <1>6, <1>7

\* The horizon is the stamp of a row that there was, so no id is handed out below it.
LEMMA HorizonBelowNext ==
    ASSUME StoreInv, StoreNext, horizon < nextXid
    PROVE  horizon' < nextXid'
<1>1. horizon \in Nat /\ nextXid \in Nat
  BY DEF StoreInv, StoreTypeOK
<1>2. nextXid' >= nextXid /\ nextXid' \in Nat
  <2>1. nextXid' \in Nat
    BY SessionKeepsInv DEF StoreNext, StoreInv, StoreTypeOK
  <2>2. 0 \in Nat /\ 0 <= nextXid
    BY <1>1
  <2> QED
    BY <2>1, <2>2, StoreStepBounds
<1>3. PICK c \in Clients : Session(c)
  BY DEF StoreNext
<1>4. CASE CompactCommit(c)
  <2>1. horizon' = horizon \/ \E k \in gone[c] : horizon' = rows[k].stamp
    BY <1>4 DEF CompactCommit, IsHorizon
  <2>2. ASSUME NEW k \in gone[c] PROVE rows[k].stamp < nextXid
    <3>1. k \in Keys /\ Tombstone(rows[k])
      BY <1>4 DEF CompactCommit, StoreInv, StoreTypeOK, PendingFits
    <3> QED
      BY <3>1 DEF StoreInv, XidInv, Tombstone
  <2>3. nextXid' = nextXid
    BY <1>4 DEF CompactCommit
  <2> QED
    BY <2>1, <2>2, <2>3
<1>5. CASE ~CompactCommit(c)
  <2>1. horizon' = horizon
    BY <1>3, <1>5 DEF Session, Begin, BeginTx, SuppressTx, ProceedTx,
         AcquireTxid, Upsert, Suppress, Proceed, Update, Conflict, Insert, Collide,
         Revive, AlreadyExists, Commit, CompactDelete, Abort, Wrote
  <2> QED
    BY <1>1, <1>2, <2>1
<1> QED
  BY <1>4, <1>5

=============================================================================
