---------------------------- MODULE WatchProofs -----------------------------
(***************************************************************************)
(* Proofs about Watch for every set of keys, sessions, requests and owned  *)
(* keys and for every channel capacity: its safety properties, and, in the *)
(* second half, that it implements Feed (the invariant that says where in  *)
(* the log everything is from, and the step simulation).                   *)
(***************************************************************************)
EXTENDS WatchFeed, StoreProofs, FiniteSetTheorems

-----------------------------------------------------------------------------

\* Putting the next event on the channel changes who holds it, not the order.
LEMMA SendKeepsOrder ==
    ASSUME NEW S, NEW a \in Seq(S), NEW b \in Seq(S), b # <<>>
    PROVE  Append(a, Head(b)) \o Tail(b) = a \o b
<1> DEFINE l == Append(a, Head(b)) \o Tail(b)
           r == a \o b
<1>1. l \in Seq(S) /\ r \in Seq(S) /\ Len(l) = Len(r)
  OBVIOUS
<1>2. \A i \in 1..Len(r) : l[i] = r[i]
  OBVIOUS
<1> QED
  BY <1>1, <1>2

\* The event the consumer takes is the first of all undelivered ones.
LEMMA ConsumeTakesFirst ==
    ASSUME NEW S, NEW a \in Seq(S), NEW b \in Seq(S), a # <<>>
    PROVE  /\ Tail(a) \o b = Tail(a \o b)
           /\ a \o b # <<>>
           /\ (a \o b)[1] = Head(a)
<1> DEFINE l == Tail(a) \o b
           r == Tail(a \o b)
<1>1. l \in Seq(S) /\ r \in Seq(S) /\ Len(l) = Len(r) /\ a \o b # <<>> /\ (a \o b)[1] = Head(a)
  OBVIOUS
<1>2. \A i \in 1..Len(r) : l[i] = r[i]
  OBVIOUS
<1> QED
  BY <1>1, <1>2

\* What an event about a row of the table contains.
LEMMA EventFacts ==
    ASSUME NEW k \in Owned, NEW row \in Row
    PROVE  /\ Event(k, row) \in Events
           /\ Event(k, row).key = k
           /\ Event(k, row).row = row
           /\ Applied(Event(k, row)) = Shown(row)
  BY RowAssumption DEF Event, Events, EventType, Types, Applied, Relayed, Shown, Tombstone, Row

\* The events of a poll form a sequence: the table is finite.
LEMMA ScanIsSeq ==
    ASSUME NEW s \in [Keys -> Row \cup {NoRow}], NEW h \in Nat
    PROVE  /\ Cardinality(Scanned(s, h)) \in Nat
           /\ Scanned(s, h) \subseteq Events
<1> DEFINE D == {k \in Owned : s[k] # NoRow /\ s[k].stamp > h}
           f == [k \in D |-> Event(k, s[k])]
<1>1. IsFiniteSet(D)
  BY WatchAssumption, FS_Subset
<1>2. Scanned(s, h) = {f[k] : k \in D}
  BY DEF Scanned
<1>3. IsFiniteSet({f[k] : k \in D})
  <2>1. f \in Surjection(D, {f[k] : k \in D})
    BY DEF Surjection
  <2> QED
    BY <1>1, <2>1, FS_Surjection
<1>4. \A k \in D : s[k] \in Row
  BY WatchAssumption
<1>5. Scanned(s, h) \subseteq Events
  BY <1>4, EventFacts DEF Scanned
<1> QED
  BY <1>2, <1>3, <1>5, FS_CardinalityType

\* A consumer that has not listed yet satisfies the inductive invariant.
LEMMA InitInv == Init => WatchInv
<1> SUFFICES ASSUME Init PROVE WatchInv
  OBVIOUS
<1> USE DEF Init, WatchInit
<1>1. StoreInv
  BY StoreInitInv
<1>2. WatchTypeOK
  BY DEF WatchTypeOK, NoSnap
<1>3. QueueInv
  BY DEF QueueInv
<1>4. HwmBelowInFlight
  BY DEF HwmBelowInFlight, StoreInit, InFlight
<1>5. SnapInv /\ Complete
  BY DEF SnapInv, Complete, Watching
<1> QED
  BY <1>1, <1>2, <1>3, <1>4, <1>5 DEF WatchInv

-----------------------------------------------------------------------------
(***************************************************************************)
(* Steps of the writers and of Compact.                                    *)
(***************************************************************************)

\* What the table explains now, it explains after any step of the store.
LEMMA ExplainedStable ==
    ASSUME StoreInv, StoreNext, HwmBelowInFlight, hwm \in Nat, hwm' = hwm,
           NEW k \in Keys, NEW v, Explained(k, v)
    PROVE  Explained(k, v)'
<1>1. horizon \in Nat /\ horizon' \in Nat /\ horizon' >= horizon
  BY HorizonGrows DEF StoreInv, StoreTypeOK
<1>2. CASE rows'[k] = rows[k]
  BY <1>1, <1>2 DEF Explained, Explains, Shown, Tombstone
<1>3. CASE rows'[k] # rows[k]
  <2>1. \A c \in Clients : InFlight(c) => hwm + 1 <= xid[c]
    BY DEF HwmBelowInFlight, StoreInv, StoreTypeOK
  <2>2. \/ rows'[k] # NoRow /\ rows'[k].stamp >= hwm + 1
        \/ rows'[k] = NoRow /\ Tombstone(rows[k]) /\ horizon' >= rows[k].stamp
    BY <1>3, <2>1, StoreStepRow
  <2>3. rows[k] \in Row \cup {NoRow} /\ rows'[k] \in Row \cup {NoRow}
    BY SessionKeepsInv DEF StoreInv, StoreTypeOK, StoreNext
  <2>4. CASE rows'[k] # NoRow /\ rows'[k].stamp >= hwm + 1
    BY <2>3, <2>4 DEF Explained, Explains, Row
  <2>5. CASE rows'[k] = NoRow /\ Tombstone(rows[k]) /\ horizon' >= rows[k].stamp
    BY <1>1, <2>3, <2>5 DEF Explained, Explains, Shown, Tombstone, Row
  <2> QED
    BY <2>2, <2>4, <2>5
<1> QED
  BY <1>2, <1>3

\* What can become of a row after a snapshot, step by step of the store.
LEMMA SnapFollowsStable ==
    ASSUME StoreInv, StoreNext, WatchTypeOK, SnapBounds, SnapFollows, snap' = snap,
           hwm' = hwm
    PROVE  SnapBounds' /\ SnapFollows'
<1>1. /\ snap.xmin \in Nat /\ horizon \in Nat /\ horizon' \in Nat /\ horizon' >= horizon
      /\ nextXid \in Nat
  BY HorizonGrows DEF StoreInv, StoreTypeOK, WatchTypeOK
<1>2. SnapBounds'
  BY <1>1, StoreStepBounds, StoreNextKeepsInv DEF SnapBounds, StoreInv, StoreTypeOK
<1>3. ASSUME NEW k \in Keys
      PROVE  \/ rows'[k] = snap.rows[k]
             \/ rows'[k] # NoRow /\ rows'[k].stamp >= snap.xmin
             \/ rows'[k] = NoRow /\ (Shown(snap.rows[k]) = NoRow \/ horizon' >= snap.xmin)
  <2>1. CASE rows'[k] = rows[k]
    BY <1>1, <2>1 DEF SnapFollows
  <2>2. CASE rows'[k] # rows[k]
    <3>1. \/ rows'[k] # NoRow /\ rows'[k].stamp >= snap.xmin
          \/ rows'[k] = NoRow /\ Tombstone(rows[k]) /\ horizon' >= rows[k].stamp
      BY <1>1, <2>2, StoreStepRow DEF SnapBounds
    <3>2. CASE rows'[k] = NoRow /\ Tombstone(rows[k]) /\ horizon' >= rows[k].stamp
      <4>1. rows[k] \in Row
        BY <3>2 DEF Tombstone, StoreInv, StoreTypeOK
      <4>2. rows[k] # NoRow /\ rows[k].stamp \in Nat
        BY <3>2, <4>1 DEF Tombstone, Row
      <4>3. CASE rows[k] = snap.rows[k]
        BY <3>2, <4>3 DEF Shown
      <4>4. CASE rows[k].stamp >= snap.xmin
        BY <1>1, <3>2, <4>2, <4>4
      <4> QED
        BY <4>2, <4>3, <4>4 DEF SnapFollows
    <3> QED
      BY <3>1, <3>2
  <2> QED
    BY <2>1, <2>2
<1> QED
  BY <1>2, <1>3 DEF SnapFollows

\* No step of a writer or of Compact disturbs a consumer.
LEMMA StoreStepKeepsInv ==
    ASSUME WatchInv, StoreNext, UNCHANGED watchVars
    PROVE  WatchInv'
<1> USE DEF WatchInv, watchVars
<1>1. StoreInv'
  BY StoreNextKeepsInv
<1>2. WatchTypeOK' /\ QueueInv'
  BY DEF WatchTypeOK, QueueInv
<1>3. HwmBelowInFlight'
  <2>1. hwm \in Nat /\ nextXid \in Nat /\ nextXid' \in Nat
    BY <1>1 DEF WatchTypeOK, StoreInv, StoreTypeOK
  <2> QED
    BY <2>1, StoreStepBounds DEF HwmBelowInFlight
<1>4. SnapInv'
  <2>1. wpc \in {"listing", "poll"} => SnapBounds' /\ SnapFollows'
    BY SnapFollowsStable DEF SnapInv
  <2>2. SnapComplete => SnapComplete'
    BY DEF SnapComplete, LastAbout, Explains, Applied, Relayed, Shown, Tombstone
  <2> QED
    BY <2>1, <2>2 DEF SnapInv
<1>5. Complete'
  <2> SUFFICES ASSUME Watching, NEW k \in Owned
               PROVE  /\ \A i \in DOMAIN Undelivered :
                            LastAbout(Undelivered, k, i) => Explained(k, Applied(Undelivered[i]))'
                      /\ (\A i \in DOMAIN Undelivered : Undelivered[i].key # k)
                            => Explained(k, cache[k])'
    BY DEF Complete, Watching, Undelivered, LastAbout, Applied, Relayed
  <2>1. k \in Keys /\ hwm \in Nat
    BY WatchAssumption DEF WatchTypeOK
  <2>2. ASSUME NEW i \in DOMAIN Undelivered, LastAbout(Undelivered, k, i)
        PROVE  Explained(k, Applied(Undelivered[i]))'
    <3>1. Explained(k, Applied(Undelivered[i]))
      BY <2>2 DEF Complete
    <3>2. Applied(Undelivered[i])' = Applied(Undelivered[i])
      BY DEF Undelivered, Applied, Relayed
    <3> QED
      BY <2>1, <3>1, <3>2, ExplainedStable DEF Explained
  <2>3. ASSUME \A i \in DOMAIN Undelivered : Undelivered[i].key # k
        PROVE  Explained(k, cache[k])'
    <3>1. Explained(k, cache[k])
      BY <2>3 DEF Complete
    <3> QED
      BY <2>1, <3>1, ExplainedStable DEF Explained
  <2> QED
    BY <2>2, <2>3
<1> QED
  BY <1>1, <1>2, <1>3, <1>4, <1>5

-----------------------------------------------------------------------------
(***************************************************************************)
(* Steps of the consumer.                                                  *)
(***************************************************************************)

\* The steps of a consumer leave the store alone.
LEMMA StoreInvUnchanged ==
    ASSUME StoreInv, UNCHANGED storeVars PROVE StoreInv'
  BY StoreNextKeepsInv

\* The snapshot of a List or of a poll is the present: it follows itself, and it
\* explains the consumer's state as the present does.
LEMMA SnapshotKeepsInv ==
    ASSUME WatchInv, UNCHANGED storeVars, NEW from, NEW to,
           \/ from = "list" /\ to = "listing"
           \/ from = "idle" /\ to = "poll" /\ out = <<>>,
           Snapshot(from, to)
    PROVE  WatchInv'
<1> USE DEF WatchInv, storeVars, Snapshot
<1>0. PICK x \in 1..nextXid :
          IsXmin(x) /\ snap' = [rows |-> rows, horizon |-> horizon, xmin |-> x]
  OBVIOUS
<1>1. StoreInv'
  BY StoreInvUnchanged
<1>2. x \in Nat \ {0} /\ nextXid \in Nat /\ hwm \in Nat
  BY DEF StoreInv, StoreTypeOK, WatchTypeOK
<1>3. WatchTypeOK' /\ QueueInv'
  BY <1>0, <1>2 DEF WatchTypeOK, QueueInv, StoreInv, StoreTypeOK
<1>4. HwmBelowInFlight'
  BY DEF HwmBelowInFlight, InFlight
<1>5. SnapBounds' /\ SnapFollows'
  BY <1>0, <1>2 DEF SnapBounds, SnapFollows, IsXmin, HwmBelowInFlight, InFlight
<1>6. Complete'
  BY DEF Complete, Watching, Undelivered, LastAbout, Explained, Explains, Applied, Relayed,
         Shown, Tombstone
<1>7. to = "poll" => SnapComplete'
  <2> SUFFICES ASSUME from = "idle", out = <<>> PROVE SnapComplete'
    OBVIOUS
  <2>1. Undelivered = chan
    BY DEF Undelivered, WatchTypeOK
  <2>2. Complete /\ Watching
    BY DEF Watching
  <2> QED
    BY <1>0, <2>1, <2>2 DEF SnapComplete, Complete, LastAbout, Explained, Explains, Applied,
        Relayed, Shown, Tombstone
<1>8. SnapInv'
  BY <1>5, <1>7 DEF SnapInv
<1> QED
  BY <1>1, <1>3, <1>4, <1>6, <1>8

\* A row, the snapshot it was read in and the row there is now.
LEMMA FollowsExplains ==
    ASSUME StoreInv, WatchTypeOK, SnapFollows, NEW k \in Keys, NEW h \in Nat, h < snap.xmin,
           NEW v, v = Shown(snap.rows[k])
    PROVE  IF rows[k] = NoRow THEN v = NoRow \/ h < horizon
                              ELSE v = Shown(rows[k]) \/ h < rows[k].stamp
<1>1. snap.xmin \in Nat /\ horizon \in Nat /\ rows[k] \in Row \cup {NoRow}
  BY DEF StoreInv, StoreTypeOK, WatchTypeOK
<1>2. CASE rows[k] = snap.rows[k]
  BY <1>2 DEF Shown
<1>3. CASE rows[k] # NoRow /\ rows[k].stamp >= snap.xmin
  BY <1>1, <1>3 DEF Row
<1>4. CASE rows[k] = NoRow /\ (Shown(snap.rows[k]) = NoRow \/ horizon >= snap.xmin)
  BY <1>1, <1>4
<1> QED
  BY <1>2, <1>3, <1>4 DEF SnapFollows

\* The end of a List: the store is the snapshot, xmin - 1 the high-water mark.
LEMMA ListEndKeepsInv ==
    ASSUME WatchInv, UNCHANGED storeVars, ListEnd PROVE WatchInv'
<1> USE DEF WatchInv, storeVars, ListEnd
<1>1. StoreInv'
  BY StoreInvUnchanged
<1>2. SnapBounds /\ SnapFollows /\ snap.xmin \in Nat \ {0} /\ nextXid \in Nat
      /\ chan = <<>> /\ out = <<>>
  BY DEF SnapInv, WatchTypeOK, QueueInv, StoreInv, StoreTypeOK
<1>3. WatchTypeOK'
  <2>1. cache' \in [Keys -> Row \cup {NoRow}]
    BY DEF WatchTypeOK, Shown
  <2>2. hwm' \in Nat
    BY <1>2
  <2>3. NoSnap \in [rows : [Keys -> Row \cup {NoRow}], horizon : Nat, xmin : Nat \ {0}]
    BY DEF NoSnap
  <2> QED
    BY <2>1, <2>2, <2>3 DEF WatchTypeOK
<1>4. QueueInv' /\ SnapInv'
  BY <1>2 DEF QueueInv, SnapInv
<1>5. HwmBelowInFlight'
  BY <1>2 DEF HwmBelowInFlight, SnapBounds, InFlight, StoreInv, StoreTypeOK
<1>6. Complete'
  <2>0. Undelivered' = <<>> /\ DOMAIN Undelivered' = {}
    BY <1>2 DEF Undelivered
  <2> SUFFICES ASSUME NEW k \in Owned PROVE Explained(k, cache[k])'
    BY <2>0 DEF Complete
  <2>1. k \in Keys /\ cache'[k] = Shown(snap.rows[k])
    BY WatchAssumption
  <2>2. hwm' \in Nat /\ hwm' < snap.xmin
    BY <1>2
  <2>3. IF rows[k] = NoRow THEN cache'[k] = NoRow \/ hwm' < horizon
                           ELSE cache'[k] = Shown(rows[k]) \/ hwm' < rows[k].stamp
    BY <1>2, <2>1, <2>2, FollowsExplains
  <2> QED
    BY <2>3 DEF Explained, Explains, Shown, Tombstone
<1> QED
  BY <1>1, <1>3, <1>4, <1>5, <1>6

\* After a poll's scan the consumer is bound to what the snapshot shows, for
\* every key: from an event of the scan, or from before if the scan skipped it.
LEMMA ScanShowsSnapshot ==
    ASSUME WatchInv, wpc = "poll", hwm >= snap.horizon, NEW evs \in Seq(Events),
           IsScan(evs, snap.rows, hwm), NEW k \in Owned
    PROVE  /\ \A i \in DOMAIN (chan \o evs) :
                LastAbout(chan \o evs, k, i) => Applied((chan \o evs)[i]) = Shown(snap.rows[k])
           /\ (\A i \in DOMAIN (chan \o evs) : (chan \o evs)[i].key # k)
                => cache[k] = Shown(snap.rows[k])
<1> DEFINE q == chan \o evs
           row == snap.rows[k]
           new == row # NoRow /\ row.stamp > hwm
<1>1. /\ chan \in Seq(Events) /\ q \in Seq(Events) /\ Len(q) = Len(chan) + Len(evs)
      /\ row \in Row \cup {NoRow} /\ hwm \in Nat /\ snap.horizon \in Nat
      /\ Len(chan) \in Nat /\ Len(evs) \in Nat
  BY WatchAssumption DEF WatchInv, WatchTypeOK
<1>2. \A i \in 1..Len(chan) : q[i] = chan[i]
  BY <1>1
<1>3. \A i \in 1..Len(evs) : q[Len(chan) + i] = evs[i]
  BY <1>1
<1>4. ASSUME NEW i \in 1..Len(evs), evs[i].key = k
      PROVE  new /\ Applied(evs[i]) = Shown(row)
  <2>1. PICK j \in Owned : snap.rows[j] # NoRow /\ snap.rows[j].stamp > hwm
                          /\ evs[i] = Event(j, snap.rows[j])
    BY DEF IsScan
  <2>2. snap.rows[j] \in Row
    BY <2>1, WatchAssumption DEF WatchInv, WatchTypeOK
  <2>3. j = k
    BY <1>4, <2>1, <2>2, EventFacts
  <2> QED
    BY <2>1, <2>2, <2>3, EventFacts
<1>5. CASE new
  <2>1. PICK n \in 1..Len(evs) : evs[n] = Event(k, row)
    BY <1>5 DEF IsScan
  <2>2. q[Len(chan) + n].key = k /\ Len(chan) + n \in DOMAIN q
    BY <1>1, <1>3, <1>5, <2>1, EventFacts
  <2>3. ASSUME NEW i \in DOMAIN q, LastAbout(q, k, i)
        PROVE  Applied(q[i]) = Shown(row)
    <3>1. i \in Nat /\ i > Len(chan) /\ i <= Len(q)
      BY <1>1, <2>2, <2>3 DEF LastAbout
    <3>2. i - Len(chan) \in 1..Len(evs) /\ q[i] = evs[i - Len(chan)]
      BY <1>1, <1>3, <3>1
    <3> QED
      BY <1>4, <2>3, <3>2 DEF LastAbout
  <2> HIDE DEF q, row
  <2> QED
    BY <2>2, <2>3 DEF q, row
<1>6. CASE ~new
  <2>0. SnapComplete
    BY DEF WatchInv, SnapInv
  <2>1. \A i \in 1..Len(evs) : evs[i].key # k
    BY <1>4, <1>6
  <2>2. \A v : Explains(row, snap.horizon, v) => v = Shown(row)
    BY <1>1, <1>6 DEF Explains, Shown, Row
  <2>3. ASSUME NEW i \in DOMAIN q, LastAbout(q, k, i)
        PROVE  Applied(q[i]) = Shown(row)
    <3>1. i \in 1..Len(chan)
      <4>1. i \in Nat /\ i >= 1 /\ i <= Len(chan) + Len(evs) /\ q[i].key = k
        BY <1>1, <2>3 DEF LastAbout
      <4>2. i > Len(chan) => i - Len(chan) \in 1..Len(evs) /\ q[i] = evs[i - Len(chan)]
        BY <1>1, <1>3, <4>1
      <4> QED
        BY <1>1, <2>1, <4>1, <4>2
    <3>2. LastAbout(chan, k, i) /\ i \in DOMAIN chan /\ q[i] = chan[i]
      BY <1>1, <1>2, <2>3, <3>1 DEF LastAbout
    <3> QED
      BY <2>0, <2>2, <3>2 DEF SnapComplete
  <2>4. ASSUME \A i \in DOMAIN q : q[i].key # k
        PROVE  cache[k] = Shown(row)
    <3>1. \A i \in DOMAIN chan : chan[i].key # k
      BY <1>1, <1>2, <2>4
    <3> QED
      BY <2>0, <2>2, <3>1 DEF SnapComplete
  <2> HIDE DEF q, row
  <2> QED
    BY <2>3, <2>4 DEF q, row
<1> QED
  BY <1>5, <1>6

\* The scan of a poll: its events and the new high-water mark belong together.
LEMMA PollScanKeepsInv ==
    ASSUME WatchInv, UNCHANGED storeVars, PollScan PROVE WatchInv'
<1> USE DEF storeVars
<1>1. StoreInv'
  BY StoreInvUnchanged DEF WatchInv
<1>2. /\ wpc = "poll" /\ wpc' = "scanned" /\ hwm >= snap.horizon /\ snap' = NoSnap
      /\ hwm' = (IF snap.xmin - 1 > hwm THEN snap.xmin - 1 ELSE hwm)
      /\ chan' = chan /\ cache' = cache /\ faults' = faults
  BY DEF PollScan
<1>3. /\ SnapBounds /\ SnapFollows /\ snap.xmin \in Nat \ {0} /\ hwm \in Nat
      /\ nextXid \in Nat /\ chan \in Seq(Events)
      /\ snap.rows \in [Keys -> Row \cup {NoRow}]
  BY <1>2 DEF WatchInv, SnapInv, WatchTypeOK, StoreInv, StoreTypeOK
<1>4. hwm' = snap.xmin - 1 /\ hwm' \in Nat /\ hwm' < snap.xmin
  BY <1>2, <1>3 DEF SnapBounds
<1>5. out' \in Seq(Events) /\ IsScan(out', snap.rows, hwm)
  <2> DEFINE S == Scanned(snap.rows, hwm)
  <2>1. PICK evs \in [1..Cardinality(S) -> S] : IsScan(evs, snap.rows, hwm) /\ out' = evs
    BY DEF PollScan
  <2>2. Cardinality(S) \in Nat /\ S \subseteq Events
    BY <1>3, ScanIsSeq
  <2> HIDE DEF S
  <2>3. evs \in Seq(Events)
    BY <2>1, <2>2
  <2> QED
    BY <2>1, <2>3
<1>6. WatchTypeOK'
  <2>1. NoSnap \in [rows : [Keys -> Row \cup {NoRow}], horizon : Nat, xmin : Nat \ {0}]
    BY DEF NoSnap
  <2> QED
    BY <1>2, <1>4, <1>5, <2>1 DEF WatchTypeOK, WatchInv
<1>7. QueueInv' /\ SnapInv'
  BY <1>2 DEF QueueInv, SnapInv
<1>8. HwmBelowInFlight'
  BY <1>3, <1>4 DEF HwmBelowInFlight, SnapBounds, InFlight, WatchInv, StoreInv, StoreTypeOK
<1>9. Complete'
  <2> DEFINE q == chan \o out'
             Now(k, v) == IF rows[k] = NoRow THEN v = NoRow \/ hwm' < horizon
                                             ELSE v = Shown(rows[k]) \/ hwm' < rows[k].stamp
  <2>1. Undelivered' = q
    BY <1>2 DEF Undelivered
  <2>2. ASSUME NEW k \in Owned, NEW v, v = Shown(snap.rows[k])
        PROVE  Now(k, v)
    BY <1>3, <1>4, <2>2, FollowsExplains, WatchAssumption DEF WatchInv
  <2>3. ASSUME NEW k \in Owned
        PROVE  /\ \A i \in DOMAIN q : LastAbout(q, k, i) => Applied(q[i]) = Shown(snap.rows[k])
               /\ (\A i \in DOMAIN q : q[i].key # k) => cache[k] = Shown(snap.rows[k])
    BY <1>2, <1>5, ScanShowsSnapshot
  <2> HIDE DEF q
  <2> SUFFICES ASSUME NEW k \in Owned
               PROVE  /\ \A i \in DOMAIN q : LastAbout(q, k, i) => Now(k, Applied(q[i]))
                      /\ (\A i \in DOMAIN q : q[i].key # k) => Now(k, cache[k])
    BY <1>2, <2>1 DEF Complete, LastAbout, Explained, Explains, Applied, Relayed, Shown, Tombstone
  <2> QED
    BY <2>2, <2>3
<1> QED
  BY <1>1, <1>6, <1>7, <1>8, <1>9 DEF WatchInv

\* Steps after which no watcher runs promise nothing: the next List does.
LEMMA StopKeepsInv ==
    ASSUME WatchInv, UNCHANGED storeVars, ~Watching', snap' \in {snap, NoSnap}, hwm' = hwm,
           wpc' \in {"list", "closed"}, out' = <<>>, wpc' = "list" => chan' = <<>>,
           chan' \in Seq(Events), cache' \in [Keys -> Row \cup {NoRow}], faults' \in Nat
    PROVE  WatchInv'
<1> USE DEF WatchInv, storeVars
<1>1. StoreInv'
  BY StoreInvUnchanged
<1>2. WatchTypeOK'
  <2>1. NoSnap \in [rows : [Keys -> Row \cup {NoRow}], horizon : Nat, xmin : Nat \ {0}]
    BY DEF NoSnap
  <2> QED
    BY <2>1 DEF WatchTypeOK
<1>3. QueueInv' /\ SnapInv' /\ Complete'
  BY DEF QueueInv, SnapInv, Complete
<1>4. HwmBelowInFlight'
  BY DEF HwmBelowInFlight, InFlight
<1> QED
  BY <1>1, <1>2, <1>3, <1>4

\* Delivery to the channel loses no event.
LEMMA SendKeepsInv ==
    ASSUME WatchInv, UNCHANGED storeVars, Send PROVE WatchInv'
<1> USE DEF WatchInv, storeVars, Send
<1>1. StoreInv'
  BY StoreInvUnchanged
<1>2. WatchTypeOK' /\ QueueInv' /\ SnapInv'
  BY DEF WatchTypeOK, QueueInv, SnapInv
<1>3. HwmBelowInFlight'
  BY DEF HwmBelowInFlight, InFlight
<1>4. Undelivered' = Undelivered
  BY SendKeepsOrder DEF Undelivered, WatchTypeOK
<1>5. Complete'
  BY <1>4 DEF Complete, Watching, LastAbout, Explained, Explains, Applied, Relayed, Shown,
              Tombstone
<1> QED
  BY <1>1, <1>2, <1>3, <1>5

\* Taking the first event of a queue leaves, for every key, the same last word.
LEMMA ConsumeKeepsLastWord ==
    ASSUME NEW q \in Seq(Events), q # <<>>, NEW k \in Owned
    PROVE  /\ \A i \in DOMAIN Tail(q) : LastAbout(Tail(q), k, i) =>
                i + 1 \in DOMAIN q /\ LastAbout(q, k, i + 1) /\ Tail(q)[i] = q[i + 1]
           /\ (\A i \in DOMAIN Tail(q) : Tail(q)[i].key # k) =>
                IF q[1].key = k THEN 1 \in DOMAIN q /\ LastAbout(q, k, 1)
                                ELSE \A i \in DOMAIN q : q[i].key # k
<1>1. /\ Len(q) \in Nat /\ Len(q) > 0 /\ DOMAIN q = 1..Len(q)
      /\ DOMAIN Tail(q) = 1..(Len(q) - 1)
      /\ \A i \in 1..(Len(q) - 1) : Tail(q)[i] = q[i + 1]
  OBVIOUS
<1>2. \A j \in DOMAIN q : j > 1 => j - 1 \in DOMAIN Tail(q) /\ Tail(q)[j - 1] = q[j]
  BY <1>1
<1>3. ASSUME NEW i \in DOMAIN Tail(q), LastAbout(Tail(q), k, i)
      PROVE  i + 1 \in DOMAIN q /\ LastAbout(q, k, i + 1) /\ Tail(q)[i] = q[i + 1]
  <2>1. i \in Nat /\ i + 1 \in DOMAIN q /\ Tail(q)[i] = q[i + 1] /\ q[i + 1].key = k
    BY <1>1, <1>3 DEF LastAbout
  <2>2. ASSUME NEW j \in DOMAIN q, j > i + 1 PROVE q[j].key # k
    <3>1. j \in Nat /\ j > 1 /\ j - 1 > i
      BY <1>1, <2>1, <2>2
    <3> QED
      BY <1>2, <1>3, <3>1 DEF LastAbout
  <2> QED
    BY <2>1, <2>2 DEF LastAbout
<1>4. ASSUME \A i \in DOMAIN Tail(q) : Tail(q)[i].key # k
      PROVE  IF q[1].key = k THEN 1 \in DOMAIN q /\ LastAbout(q, k, 1)
                             ELSE \A i \in DOMAIN q : q[i].key # k
  <2>1. \A j \in DOMAIN q : j > 1 => q[j].key # k
    BY <1>2, <1>4
  <2> QED
    BY <1>1, <2>1 DEF LastAbout
<1> QED
  BY <1>3, <1>4

\* Applying the first event leaves every key explained.
LEMMA ConsumeExplains ==
    ASSUME NEW q \in Seq(Events), q # <<>>, NEW k \in Owned, NEW hor, NEW row,
           cache \in [Keys -> Row \cup {NoRow}],
           \A i \in DOMAIN q : LastAbout(q, k, i) => Explains(row, hor, Applied(q[i])),
           (\A i \in DOMAIN q : q[i].key # k) => Explains(row, hor, cache[k]),
           NEW c, c = [cache EXCEPT ![q[1].key] = Applied(q[1])]
    PROVE  /\ \A i \in DOMAIN Tail(q) : LastAbout(Tail(q), k, i)
                => Explains(row, hor, Applied(Tail(q)[i]))
           /\ (\A i \in DOMAIN Tail(q) : Tail(q)[i].key # k) => Explains(row, hor, c[k])
<1>1. k \in Keys /\ q[1].key \in Keys
  <2>1. q[1] \in Events
    OBVIOUS
  <2> QED
    BY <2>1, WatchAssumption DEF Events
<1>2. ASSUME NEW i \in DOMAIN Tail(q), LastAbout(Tail(q), k, i)
      PROVE  Explains(row, hor, Applied(Tail(q)[i]))
  <2>1. i + 1 \in DOMAIN q /\ LastAbout(q, k, i + 1) /\ Tail(q)[i] = q[i + 1]
    BY <1>2, ConsumeKeepsLastWord
  <2>2. Explains(row, hor, Applied(q[i + 1]))
    BY <2>1
  <2> QED
    BY <2>1, <2>2
<1>3. ASSUME \A i \in DOMAIN Tail(q) : Tail(q)[i].key # k
      PROVE  Explains(row, hor, c[k])
  <2>1. CASE q[1].key = k
    BY <1>1, <1>3, <2>1, ConsumeKeepsLastWord
  <2>2. CASE q[1].key # k
    BY <1>1, <1>3, <2>2, ConsumeKeepsLastWord
  <2> QED
    BY <2>1, <2>2
<1> QED
  BY <1>2, <1>3

\* The relay and the informer keep the invariant.
LEMMA ConsumeKeepsInv ==
    ASSUME WatchInv, UNCHANGED storeVars, Consume PROVE WatchInv'
<1> USE DEF storeVars
<1> DEFINE q == Undelivered
<1>1. StoreInv'
  BY StoreInvUnchanged DEF WatchInv
<1>2. /\ chan \in Seq(Events) /\ out \in Seq(Events) /\ chan # <<>> /\ Head(chan) \in Events
      /\ cache \in [Keys -> Row \cup {NoRow}] /\ chan' = Tail(chan)
      /\ cache' = [cache EXCEPT ![Head(chan).key] = Applied(Head(chan))]
      /\ wpc' = wpc /\ snap' = snap /\ hwm' = hwm /\ out' = out /\ faults' = faults
  BY DEF WatchInv, WatchTypeOK, Consume
<1>3. q \in Seq(Events) /\ q # <<>> /\ q[1] = Head(chan) /\ Undelivered' = Tail(q)
  BY <1>2, ConsumeTakesFirst DEF Undelivered
<1>4. WatchTypeOK'
  <2>1. Applied(Head(chan)) \in Row \cup {NoRow}
    BY <1>2 DEF Applied, Events
  <2>2. cache' \in [Keys -> Row \cup {NoRow}]
    BY <1>2, <2>1
  <2>3. chan' \in Seq(Events)
    BY <1>2
  <2> QED
    BY <1>2, <2>2, <2>3 DEF WatchInv, WatchTypeOK
<1>5. QueueInv'
  BY <1>2 DEF WatchInv, QueueInv
<1>6. HwmBelowInFlight'
  BY <1>2 DEF WatchInv, HwmBelowInFlight, InFlight
<1>7. Complete'
  <2> SUFFICES ASSUME Watching, NEW k \in Owned
               PROVE  /\ \A i \in DOMAIN Tail(q) : LastAbout(Tail(q), k, i)
                            => Explains(rows[k], horizon, Applied(Tail(q)[i]))
                      /\ (\A i \in DOMAIN Tail(q) : Tail(q)[i].key # k)
                            => Explains(rows[k], horizon, cache'[k])
    BY <1>2, <1>3 DEF Complete, Watching, LastAbout, Explained, Explains, Applied, Relayed,
                      Shown, Tombstone
  <2>1. /\ \A i \in DOMAIN q : LastAbout(q, k, i) => Explains(rows[k], horizon, Applied(q[i]))
        /\ (\A i \in DOMAIN q : q[i].key # k) => Explains(rows[k], horizon, cache[k])
    BY DEF WatchInv, Complete, Explained
  <2> HIDE DEF q
  <2> QED
    BY <1>2, <1>3, <2>1, ConsumeExplains
<1>8. SnapInv'
  <2>1. wpc \in {"listing", "poll"} => SnapBounds' /\ SnapFollows'
    BY <1>2 DEF WatchInv, SnapInv, SnapBounds, SnapFollows, InFlight, Shown, Tombstone
  <2>2. ASSUME wpc = "poll" PROVE SnapComplete'
    <3> SUFFICES ASSUME NEW k \in Owned
                 PROVE  /\ \A i \in DOMAIN Tail(chan) : LastAbout(Tail(chan), k, i)
                            => Explains(snap.rows[k], snap.horizon, Applied(Tail(chan)[i]))
                        /\ (\A i \in DOMAIN Tail(chan) : Tail(chan)[i].key # k)
                            => Explains(snap.rows[k], snap.horizon, cache'[k])
      BY <1>2 DEF SnapComplete, LastAbout, Explains, Applied, Relayed, Shown, Tombstone
    <3>1. /\ \A i \in DOMAIN chan : LastAbout(chan, k, i)
                => Explains(snap.rows[k], snap.horizon, Applied(chan[i]))
          /\ (\A i \in DOMAIN chan : chan[i].key # k)
                => Explains(snap.rows[k], snap.horizon, cache[k])
      BY <2>2 DEF WatchInv, SnapInv, SnapComplete
    <3>2. Head(chan) = chan[1]
      BY <1>2
    <3> QED
      BY <1>2, <3>1, <3>2, ConsumeExplains
  <2> QED
    BY <1>2, <2>1, <2>2 DEF SnapInv
<1> QED
  BY <1>1, <1>4, <1>5, <1>6, <1>7, <1>8 DEF WatchInv

\* The commit of a poll changes nothing but where the loop is.
LEMMA PollCommitKeepsInv ==
    ASSUME WatchInv, UNCHANGED storeVars, PollCommit PROVE WatchInv'
<1> USE DEF WatchInv, storeVars, PollCommit
<1>1. StoreInv'
  BY StoreInvUnchanged
<1>2. WatchTypeOK' /\ QueueInv' /\ SnapInv'
  BY DEF WatchTypeOK, QueueInv, SnapInv
<1>3. HwmBelowInFlight'
  BY DEF HwmBelowInFlight, InFlight
<1>4. Complete'
  BY DEF Complete, Watching, Undelivered, LastAbout, Explained, Explains, Applied, Relayed,
         Shown, Tombstone
<1> QED
  BY <1>1, <1>2, <1>3, <1>4

\* The invariant is inductive.
LEMMA NextKeepsInv == WatchInv /\ [Next]_vars => WatchInv'
<1> SUFFICES ASSUME WatchInv, [Next]_vars PROVE WatchInv'
  OBVIOUS
<1>1. CASE StoreNext /\ UNCHANGED watchVars
  BY <1>1, StoreStepKeepsInv
<1>2. CASE WatchNext /\ UNCHANGED storeVars
  <2> USE <1>2
  <2>1. CASE ListBegin \/ PollBegin
    BY <2>1, SnapshotKeepsInv DEF ListBegin, PollBegin
  <2>2. CASE ListEnd
    BY <2>2, ListEndKeepsInv
  <2>3. CASE PollScan
    BY <2>3, PollScanKeepsInv
  <2>4. CASE PollCommit
    BY <2>4, PollCommitKeepsInv
  <2>5. CASE Send
    BY <2>5, SendKeepsInv
  <2>6. CASE Consume
    BY <2>6, ConsumeKeepsInv
  <2>7. CASE PollGone \/ Relist \/ ListFail \/ PollFail \/ Restart
    <3>1. /\ chan \in Seq(Events) /\ <<>> \in Seq(Events) /\ faults \in Nat /\ faults + 1 \in Nat
          /\ cache \in [Keys -> Row \cup {NoRow}]
          /\ [k \in Keys |-> NoRow] \in [Keys -> Row \cup {NoRow}]
      BY DEF WatchInv, WatchTypeOK
    <3>2. wpc \in {"list", "listing", "poll", "closed"} => out = <<>>
      BY DEF WatchInv, QueueInv
    <3>3. wpc = "listing" => chan = <<>>
      BY DEF WatchInv, QueueInv
    <3>4. /\ snap' \in {snap, NoSnap} /\ hwm' = hwm /\ wpc' \in {"list", "closed"} /\ ~Watching'
          /\ out' = <<>> /\ (wpc' = "list" => chan' = <<>>) /\ chan' \in Seq(Events)
          /\ cache' \in [Keys -> Row \cup {NoRow}] /\ faults' \in Nat
      BY <2>7, <3>1, <3>2, <3>3 DEF PollGone, Relist, ListFail, PollFail, Restart, Fault, Watching
    <3> QED
      BY <3>4, StopKeepsInv
  <2> QED
    BY <2>1, <2>2, <2>3, <2>4, <2>5, <2>6, <2>7 DEF WatchNext, Loop, Poll
<1>3. CASE UNCHANGED vars
  <2>1. StoreInv'
    BY <1>3, StoreInvUnchanged DEF WatchInv, vars
  <2>2. WatchTypeOK' /\ QueueInv' /\ HwmBelowInFlight'
    BY <1>3 DEF WatchInv, vars, watchVars, storeVars, WatchTypeOK, QueueInv, HwmBelowInFlight, InFlight
  <2>3. SnapInv' /\ Complete'
    BY <1>3 DEF WatchInv, vars, watchVars, storeVars, SnapInv, SnapBounds, SnapFollows,
        SnapComplete, InFlight, Complete, Watching, Undelivered, LastAbout, Explained,
        Explains, Applied, Relayed, Shown, Tombstone
  <2> QED
    BY <2>1, <2>2, <2>3 DEF WatchInv
<1> QED
  BY <1>1, <1>2, <1>3 DEF Next

-----------------------------------------------------------------------------

\* The inductive invariant of List+Watch, for any number of writers, objects,
\* compactions, polls, 410s, database errors and restarts.
THEOREM WatchInvariant == Spec => []WatchInv
<1>1. Init => WatchInv
  BY InitInv
<1>2. WatchInv /\ [Next]_vars => WatchInv'
  BY NextKeepsInv
<1> QED
  BY <1>1, <1>2, PTL DEF Spec

\* The state of a consumer has its type: the high-water mark is a natural number.
THEOREM WatchTypeCorrect == Spec => []WatchTypeOK
<1>1. WatchInv => WatchTypeOK
  BY DEF WatchInv
<1> QED
  BY <1>1, WatchInvariant, PTL

\* I1: no commit ever appears at or below a watcher's high-water mark.
THEOREM NothingBelowHwm == Spec => []HwmBelowInFlight
<1>1. WatchInv => HwmBelowInFlight
  BY DEF WatchInv
<1> QED
  BY <1>1, WatchInvariant, PTL

\* I3 and I5: a watcher never silently skips a change, compacted or not.
THEOREM NothingSkipped == Spec => []Complete
<1>1. WatchInv => Complete
  BY DEF WatchInv
<1> QED
  BY <1>1, WatchInvariant, PTL

\* I4: the resourceVersion a consumer works from never moves back.
THEOREM HwmNeverFalls == Spec => HwmMonotone
<1>1. WatchInv /\ [Next]_vars => [hwm' >= hwm]_vars
  <2> SUFFICES ASSUME WatchInv, Next PROVE hwm' >= hwm
    OBVIOUS
  <2>1. hwm \in Nat /\ snap.xmin \in Nat
    BY DEF WatchInv, WatchTypeOK
  <2>2. CASE hwm' = hwm
    BY <2>1, <2>2
  <2>3. CASE ListEnd
    BY <2>1, <2>3 DEF ListEnd, WatchInv, SnapInv, SnapBounds
  <2>4. CASE PollScan
    BY <2>1, <2>4 DEF PollScan
  <2>5. hwm' = hwm \/ ListEnd \/ PollScan
    BY DEF Next, watchVars, WatchNext, Loop, Poll, ListBegin, PollBegin, Snapshot, PollGone,
           PollCommit, Send, Consume, Relist, ListFail, PollFail, Restart
  <2> QED
    BY <2>2, <2>3, <2>4, <2>5
<1> QED
  BY <1>1, WatchInvariant, PTL DEF Spec, HwmMonotone

\* No horizon is above the ids handed out.
LEMMA HorizonBehind == Spec => [](horizon < nextXid)
<1>1. Init => horizon < nextXid
  BY DEF Init, StoreInit
<1>2. WatchInv /\ horizon < nextXid /\ [Next]_vars => (horizon < nextXid)'
  BY HorizonBelowNext DEF WatchInv, Next, vars, storeVars
<1> QED
  BY <1>1, <1>2, WatchInvariant, PTL DEF Spec

\* The safety half of Converges, for any number of writers, objects and faults: a
\* List or a poll in a quiet moment brings the consumer up to date, once the events
\* under way are applied: no row is above the new high-water mark, no compaction past it.
THEOREM QuietReadSuffices == Spec => QuietReadCatchesUp
<1>1. /\ WatchInv /\ WatchInv' /\ horizon < nextXid /\ [Next]_vars
      => [(ListEnd \/ PollScan) /\ snap.xmin = nextXid => UpToDate']_vars
  <2> SUFFICES ASSUME WatchInv, WatchInv', horizon < nextXid, [Next]_vars, ListEnd \/ PollScan,
                      snap.xmin = nextXid
               PROVE  UpToDate'
    OBVIOUS
  <2>1. hwm \in Nat /\ nextXid \in Nat \ {0} /\ hwm < nextXid /\ horizon \in Nat
    BY DEF WatchInv, WatchTypeOK, HwmBelowInFlight, StoreInv, StoreTypeOK, XidInv
  <2>2. Watching' /\ hwm' = nextXid - 1
    <3>1. CASE ListEnd
      BY <3>1 DEF ListEnd, Watching
    <3>2. CASE PollScan
      <4>1. /\ wpc' = "scanned"
            /\ hwm' = IF snap.xmin - 1 > hwm THEN snap.xmin - 1 ELSE hwm
        BY <3>2 DEF PollScan
      <4>2. hwm' = nextXid - 1
        BY <2>1, <4>1
      <4> QED
        BY <4>1, <4>2 DEF Watching
    <3> QED
      BY <3>1, <3>2
  <2>3. UNCHANGED <<rows, horizon>>
    <3>1. wpc' # wpc
      BY DEF ListEnd, PollScan
    <3> QED
      BY <3>1 DEF Next, vars, storeVars, watchVars
  <2>4. ASSUME NEW k \in Owned, NEW v, Explained(k, v)' PROVE v = Shown(rows'[k])
    <3>1. k \in Keys
      BY WatchAssumption
    <3>2. rows[k] # NoRow => rows[k].stamp < nextXid /\ rows[k].stamp \in Nat
      BY <3>1 DEF WatchInv, StoreInv, XidInv, StoreTypeOK, Row
    <3>3. ~(hwm' < horizon') /\ (rows[k] # NoRow => ~(hwm' < rows[k].stamp))
      BY <2>1, <2>2, <2>3, <3>2
    <3> QED
      BY <2>3, <2>4, <3>3 DEF Explained, Explains, Shown
  <2>5. Complete'
    BY DEF WatchInv
  <2> QED
    BY <2>2, <2>4, <2>5 DEF Complete, UpToDate
<1> QED
  BY <1>1, WatchInvariant, HorizonBehind, PTL DEF Spec, QuietReadCatchesUp

-----------------------------------------------------------------------------
\* Watch implements Feed.

\* Where the newest thing a consumer may have heard of is from.
Newest == IF wpc \in {"listing", "poll"} THEN snapAt ELSE Len(log)

\* A queue, the positions of its events, a cache and its positions agree.
Placed(lg, q, qa, c, a, newest) ==
    /\ Len(qa) = Len(q)
    /\ \A i \in DOMAIN qa :
        /\ qa[i] \in 1..newest
        /\ lg[qa[i]][q[i].key] = Applied(q[i])
        /\ a[q[i].key] <= qa[i]
        /\ \A j \in DOMAIN qa : i <= j => qa[i] <= qa[j]
    /\ \A k \in Owned : a[k] \in 1..newest /\ lg[a[k]][k] = c[k]

\* PositionInv in terms of these.
LEMMA PositionParts ==
    PositionInv <=>
        /\ queueAt \in Seq(Nat)
        /\ at \in [Owned -> Nat]
        /\ snapAt \in 1..Len(log)
        /\ wpc \in {"listing", "poll"} => log[snapAt] = [k \in Owned |-> Shown(snap.rows[k])]
        /\ Placed(log, Undelivered, queueAt, cache, at, Newest)
  BY DEF PositionInv, Placed, Newest

LEMMA PositionPartsNext ==
    PositionInv' <=>
        /\ queueAt' \in Seq(Nat)
        /\ at' \in [Owned -> Nat]
        /\ snapAt' \in 1..Len(log')
        /\ wpc' \in {"listing", "poll"} => log'[snapAt'] = [k \in Owned |-> Shown(snap'.rows[k])]
        /\ Placed(log', Undelivered', queueAt', cache', at', Newest')
  BY DEF PositionInv, Placed, Newest, Applied, Relayed, Shown, Tombstone

\* What a concatenation holds, by position.
LEMMA ConcatFacts ==
    ASSUME NEW S, NEW a \in Seq(S), NEW b \in Seq(S)
    PROVE  /\ a \o b \in Seq(S)
           /\ Len(a \o b) = Len(a) + Len(b)
           /\ DOMAIN (a \o b) = 1..(Len(a) + Len(b))
           /\ \A i \in 1..Len(a) : (a \o b)[i] = a[i]
           /\ \A i \in 1..Len(b) : (a \o b)[Len(a) + i] = b[i]
  OBVIOUS

\* Every step of the detailed specification is one of Watch.
LEMMA FeedStepIsWatchStep == [FeedNext]_feedVars => [Next]_vars
  BY DEF FeedNext, FeedStep, feedVars, historyVars, vars, Next, StoreStep, SnapshotStep,
         ListStep, ScanStep, ConsumeStep, FailStep, RestartStep, OtherStep, WatchNext, Loop, Poll

\* Nothing is known, nothing is under way.
LEMMA FeedInitInv == FeedInit => FeedInv
<1> SUFFICES ASSUME FeedInit PROVE FeedInv
  OBVIOUS
<1>1. Table = [k \in Owned |-> NoRow]
  BY WatchAssumption DEF FeedInit, Init, StoreInit, Table, Shown
<1>2. LogInv
  BY <1>1 DEF FeedInit, LogInv
<1>3. Undelivered = <<>>
  BY DEF FeedInit, Init, WatchInit, Undelivered
<1>4. PositionInv
  BY <1>1, <1>3, WatchAssumption DEF FeedInit, Init, WatchInit, PositionInv
<1> QED
  BY <1>2, <1>4 DEF FeedInv

-----------------------------------------------------------------------------
(***************************************************************************)
(* Each step leaves everything where it is said to be.                     *)
(***************************************************************************)

\* What the lemmas below take from the invariants.
LEMMA FeedFacts ==
    ASSUME WatchInv, FeedInv
    PROVE  /\ log \in Seq([Owned -> Row \cup {NoRow}]) /\ Len(log) \in Nat /\ Len(log) > 0
           /\ log[Len(log)] = Table /\ log[1] = [k \in Owned |-> NoRow]
           /\ chan \in Seq(Events) /\ out \in Seq(Events) /\ Undelivered \in Seq(Events)
           /\ queueAt \in Seq(Nat) /\ at \in [Owned -> Nat] /\ snapAt \in 1..Len(log)
           /\ Newest \in 1..Len(log)
           /\ Placed(log, Undelivered, queueAt, cache, at, Newest)
<1>1. chan \in Seq(Events) /\ out \in Seq(Events) /\ Undelivered \in Seq(Events)
  BY DEF WatchInv, WatchTypeOK, Undelivered
<1>2. log \in Seq([Owned -> Row \cup {NoRow}]) /\ Len(log) \in Nat /\ Len(log) > 0
      /\ log[Len(log)] = Table /\ log[1] = [k \in Owned |-> NoRow]
  BY DEF FeedInv, LogInv
<1>3. /\ queueAt \in Seq(Nat) /\ at \in [Owned -> Nat] /\ snapAt \in 1..Len(log)
      /\ Placed(log, Undelivered, queueAt, cache, at, Newest)
  BY PositionParts DEF FeedInv
<1>4. Newest \in 1..Len(log)
  BY <1>2, <1>3 DEF Newest
<1> QED
  BY <1>1, <1>2, <1>3, <1>4

\* A longer log, and newer news, change the place of nothing.
LEMMA PlacedInLongerLog ==
    ASSUME NEW lg, NEW lg2, NEW q, NEW qa \in Seq(Nat), NEW c, NEW a \in [Owned -> Nat],
           NEW n \in Nat, NEW n2 \in Nat, n <= n2,
           \A i \in 1..n : lg2[i] = lg[i],
           Placed(lg, q, qa, c, a, n)
    PROVE  Placed(lg2, q, qa, c, a, n2)
<1>1. Len(qa) = Len(q)
  BY DEF Placed
<1>2. ASSUME NEW i \in DOMAIN qa
      PROVE  /\ qa[i] \in 1..n2
             /\ lg2[qa[i]][q[i].key] = Applied(q[i])
             /\ a[q[i].key] <= qa[i]
             /\ \A j \in DOMAIN qa : i <= j => qa[i] <= qa[j]
  <2>1. /\ qa[i] \in 1..n
        /\ lg[qa[i]][q[i].key] = Applied(q[i])
        /\ a[q[i].key] <= qa[i]
        /\ \A j \in DOMAIN qa : i <= j => qa[i] <= qa[j]
    BY DEF Placed
  <2>2. lg2[qa[i]] = lg[qa[i]] /\ qa[i] \in 1..n2
    BY <2>1
  <2> QED
    BY <2>1, <2>2
<1>3. ASSUME NEW k \in Owned PROVE a[k] \in 1..n2 /\ lg2[a[k]][k] = c[k]
  <2>1. a[k] \in 1..n /\ lg[a[k]][k] = c[k]
    BY DEF Placed
  <2> QED
    BY <2>1
<1> QED
  BY <1>1, <1>2, <1>3 DEF Placed

\* A commit appends to the log what readers see from then on.
LEMMA StoreKeepsPlaces ==
    ASSUME WatchInv, FeedInv, StoreStep(log', at', snapAt', queueAt'), StoreTypeOK' PROVE FeedInv'
<1> USE DEF StoreStep, watchVars
<1>1. Table' \in [Owned -> Row \cup {NoRow}]
  BY WatchAssumption DEF StoreTypeOK, Table, Shown
<1>2. /\ log' \in Seq([Owned -> Row \cup {NoRow}]) /\ Len(log') \in Nat /\ Len(log) <= Len(log')
      /\ \A i \in 1..Len(log) : log'[i] = log[i]
      /\ log'[Len(log')] = Table'
  BY <1>1, FeedFacts
<1>3. LogInv'
  BY <1>2, FeedFacts DEF LogInv
<1>4. Newest \in Nat /\ Newest' \in Nat /\ Newest <= Newest' /\ (\A i \in 1..Newest : log'[i] = log[i])
  BY <1>2, FeedFacts DEF Newest
<1>5. Undelivered' = Undelivered
  BY DEF Undelivered
<1>6. Placed(log', Undelivered, queueAt, cache, at, Newest')
  BY <1>4, FeedFacts, PlacedInLongerLog
<1>7. PositionInv'
  <2>1. wpc \in {"listing", "poll"} => log'[snapAt] = [k \in Owned |-> Shown(snap.rows[k])]
    BY <1>2, FeedFacts, PositionParts DEF FeedInv
  <2> QED
    BY <1>2, <1>5, <1>6, <2>1, FeedFacts, PositionPartsNext
<1> QED
  BY <1>3, <1>7 DEF FeedInv

\* The steps of the consumer do not change what readers see.
LEMMA TableStays ==
    ASSUME LogInv, UNCHANGED <<storeVars, log>> PROVE LogInv'
  BY DEF LogInv, Table, storeVars, Shown, Tombstone

\* A snapshot is from the end of the log.
LEMMA SnapshotKeepsPlaces ==
    ASSUME WatchInv, FeedInv, SnapshotStep(log', at', snapAt', queueAt') PROVE FeedInv'
<1> USE DEF SnapshotStep, ListBegin, PollBegin, Snapshot
<1>1. LogInv'
  BY TableStays DEF FeedInv
<1>2. snap'.rows = rows /\ Undelivered' = Undelivered
  BY DEF Undelivered
<1>3. log[Len(log)] = [k \in Owned |-> Shown(snap'.rows[k])]
  BY <1>2, FeedFacts DEF Table
<1>4. Newest = Len(log) /\ Newest' = Len(log)
  BY DEF Newest
<1>5. PositionInv'
  BY <1>2, <1>3, <1>4, FeedFacts, PositionPartsNext
<1> QED
  BY <1>1, <1>5 DEF FeedInv

\* A list takes every object to the position of its snapshot.
LEMMA ListKeepsPlaces ==
    ASSUME WatchInv, FeedInv, ListStep(log', at', snapAt', queueAt') PROVE FeedInv'
<1> USE DEF ListStep, ListEnd
<1>1. LogInv'
  BY TableStays DEF FeedInv
<1>2. Undelivered = <<>> /\ Undelivered' = <<>>
  BY DEF WatchInv, QueueInv, Undelivered
<1>3. Newest' = Len(log)
  BY DEF Newest
<1>4. \A k \in Owned : log[snapAt][k] = cache'[k]
  BY PositionParts, WatchAssumption DEF FeedInv
<1>5. Len(queueAt) = 0 /\ DOMAIN queueAt = {}
  BY <1>2, FeedFacts DEF Placed
<1>6. Placed(log, <<>>, queueAt, cache', at', Len(log))
  BY <1>4, <1>5, FeedFacts DEF Placed
<1>7. PositionInv'
  BY <1>2, <1>3, <1>6, FeedFacts, PositionPartsNext
<1> QED
  BY <1>1, <1>7 DEF FeedInv

\* A process that restarts knows nothing, as at the start of the log.
LEMMA RestartKeepsPlaces ==
    ASSUME WatchInv, FeedInv, RestartStep(log', at', snapAt', queueAt') PROVE FeedInv'
<1> USE DEF RestartStep, Restart
<1>1. LogInv'
  BY TableStays DEF FeedInv
<1>2. Undelivered' = <<>>
  BY DEF Undelivered
<1>3. Newest' = Len(log)
  BY DEF Newest
<1>4. Placed(log, <<>>, <<>>, cache', at', Len(log))
  BY FeedFacts, WatchAssumption DEF Placed
<1>5. PositionInv'
  BY <1>2, <1>3, <1>4, FeedFacts, PositionPartsNext
<1> QED
  BY <1>1, <1>5 DEF FeedInv

\* A failed poll drops its own events, which are the last ones.
LEMMA FailKeepsPlaces ==
    ASSUME WatchInv, FeedInv, FailStep(log', at', snapAt', queueAt') PROVE FeedInv'
<1> USE DEF FailStep, PollFail
<1>1. LogInv'
  BY TableStays DEF FeedInv
<1>2. Undelivered' = chan /\ Undelivered = chan \o out
  BY FeedFacts DEF Undelivered
<1>3. Newest' = Len(log)
  BY DEF Newest
<1>4. Len(chan) \in Nat /\ Len(chan) <= Len(queueAt) /\ DOMAIN queueAt = 1..Len(queueAt)
  BY <1>2, FeedFacts DEF Placed
<1>5. /\ queueAt' \in Seq(Nat) /\ Len(queueAt') = Len(chan) /\ DOMAIN queueAt' = 1..Len(chan)
      /\ \A i \in 1..Len(chan) : queueAt'[i] = queueAt[i]
  BY <1>4, FeedFacts
<1>6. \A i \in 1..Len(chan) : chan[i] = Undelivered[i]
  BY <1>2, FeedFacts
<1>7. Placed(log, chan, queueAt', cache, at, Newest)
  <2>1. ASSUME NEW i \in 1..Len(chan)
        PROVE  /\ queueAt'[i] \in 1..Newest
               /\ log[queueAt'[i]][chan[i].key] = Applied(chan[i])
               /\ at[chan[i].key] <= queueAt'[i]
               /\ \A j \in 1..Len(chan) : i <= j => queueAt'[i] <= queueAt'[j]
    <3>1. i \in DOMAIN queueAt /\ (\A j \in 1..Len(chan) : j \in DOMAIN queueAt)
      BY <1>4
    <3>2. /\ queueAt[i] \in 1..Newest
          /\ log[queueAt[i]][Undelivered[i].key] = Applied(Undelivered[i])
          /\ at[Undelivered[i].key] <= queueAt[i]
          /\ \A j \in 1..Len(chan) : i <= j => queueAt[i] <= queueAt[j]
      BY <3>1, FeedFacts DEF Placed
    <3> QED
      BY <1>5, <1>6, <3>2
  <2>2. \A k \in Owned : at[k] \in 1..Newest /\ log[at[k]][k] = cache[k]
    BY FeedFacts DEF Placed
  <2> QED
    BY <1>5, <2>1, <2>2 DEF Placed
<1>8. Placed(log, chan, queueAt', cache, at, Len(log))
  <2>1. Newest \in Nat /\ Len(log) \in Nat /\ Newest <= Len(log) /\ at \in [Owned -> Nat]
    BY FeedFacts
  <2> QED
    BY <1>5, <1>7, <2>1, PlacedInLongerLog
<1>9. PositionInv'
  BY <1>2, <1>3, <1>5, <1>8, FeedFacts, PositionPartsNext
<1> QED
  BY <1>1, <1>9 DEF FeedInv

\* The other steps move events at most from one queue to the next.
LEMMA OtherKeepsPlaces ==
    ASSUME WatchInv, FeedInv, OtherStep(log', at', snapAt', queueAt') PROVE FeedInv'
<1> USE DEF OtherStep
<1>1. LogInv'
  BY TableStays DEF FeedInv
<1>2. Undelivered' = Undelivered
  <2>1. CASE Send
    BY <2>1, FeedFacts, SendKeepsOrder DEF Send, Undelivered
  <2>2. CASE ~Send
    BY <2>2 DEF PollGone, PollCommit, Relist, ListFail, Undelivered
  <2> QED
    BY <2>1, <2>2
<1>3. wpc' \notin {"listing", "poll"} /\ cache' = cache
  BY DEF PollGone, PollCommit, Send, Relist, ListFail
<1>4. Placed(log, Undelivered, queueAt, cache, at, Len(log))
  BY FeedFacts, PlacedInLongerLog
<1>5. Newest' = Len(log)
  BY <1>3 DEF Newest
<1>6. PositionInv'
  BY <1>2, <1>3, <1>4, <1>5, FeedFacts, PositionPartsNext
<1> QED
  BY <1>1, <1>6 DEF FeedInv

\* The events of a poll are the last to be queued and from its snapshot.
LEMMA ScanKeepsPlaces ==
    ASSUME WatchInv, FeedInv, ScanStep(log', at', snapAt', queueAt') PROVE FeedInv'
<1>1. /\ wpc = "poll" /\ wpc' = "scanned" /\ chan' = chan /\ cache' = cache
      /\ queueAt' = queueAt \o [i \in 1..Len(out') |-> snapAt] /\ snapAt' = 1
      /\ log' = log /\ at' = at /\ UNCHANGED storeVars
  BY DEF ScanStep, PollScan
<1>2. LogInv'
  BY <1>1, TableStays DEF FeedInv
<1>3. snap.rows \in [Keys -> Row \cup {NoRow}] /\ hwm \in Nat /\ out = <<>>
  BY <1>1 DEF WatchInv, WatchTypeOK, QueueInv
<1>4. out' \in Seq(Events) /\ IsScan(out', snap.rows, hwm)
  <2> DEFINE S == Scanned(snap.rows, hwm)
  <2>1. PICK evs \in [1..Cardinality(S) -> S] : IsScan(evs, snap.rows, hwm) /\ out' = evs
    BY DEF ScanStep, PollScan
  <2>2. Cardinality(S) \in Nat /\ S \subseteq Events
    BY <1>3, ScanIsSeq
  <2> HIDE DEF S
  <2> QED
    BY <2>1, <2>2
<1>5. Undelivered = chan /\ Undelivered' = chan \o out'
  BY <1>1, <1>3, FeedFacts DEF Undelivered
<1> DEFINE n == Len(chan)
           m == Len(out')
           q == chan \o out'
<1>6. /\ n \in Nat /\ m \in Nat /\ Len(q) = n + m
      /\ \A i \in 1..n : q[i] = chan[i]
      /\ \A i \in 1..m : q[n + i] = out'[i]
  BY <1>4, FeedFacts
<1>7. Newest = snapAt /\ snapAt \in 1..Len(log) /\ Len(log) \in Nat /\ Newest' = Len(log)
  BY <1>1, FeedFacts DEF Newest
<1>8. Len(queueAt) = n /\ DOMAIN queueAt = 1..n
  BY <1>5, FeedFacts DEF Placed
<1>9. /\ queueAt' \in Seq(Nat) /\ Len(queueAt') = n + m /\ DOMAIN queueAt' = 1..(n + m)
      /\ \A i \in 1..n : queueAt'[i] = queueAt[i]
      /\ \A i \in 1..m : queueAt'[n + i] = snapAt
  <2> DEFINE new == [i \in 1..m |-> snapAt]
  <2>1. new \in Seq(Nat) /\ Len(new) = m /\ \A i \in 1..m : new[i] = snapAt
    BY <1>6, <1>7
  <2>2. queueAt' = queueAt \o new /\ queueAt \in Seq(Nat) /\ Len(queueAt) = n
    BY <1>1, <1>8, FeedFacts
  <2>3. n \in Nat /\ m \in Nat
    BY <1>6
  <2> HIDE DEF new, n, m
  <2>4. new \in Seq(Nat) /\ queueAt \in Seq(Nat)
    BY <2>1, <2>2
  <2>5. /\ queueAt \o new \in Seq(Nat)
        /\ Len(queueAt \o new) = Len(queueAt) + Len(new)
        /\ DOMAIN (queueAt \o new) = 1..(Len(queueAt) + Len(new))
        /\ \A i \in 1..Len(queueAt) : (queueAt \o new)[i] = queueAt[i]
        /\ \A i \in 1..Len(new) : (queueAt \o new)[Len(queueAt) + i] = new[i]
    BY <2>4, ConcatFacts
  <2> QED
    BY <2>1, <2>2, <2>5
<1>10. ASSUME NEW i \in 1..m
       PROVE  out'[i].key \in Owned /\ Applied(out'[i]) = log[snapAt][out'[i].key]
  <2>1. PICK k \in Owned : snap.rows[k] # NoRow /\ out'[i] = Event(k, snap.rows[k])
    BY <1>4 DEF IsScan
  <2>2. snap.rows[k] \in Row
    BY <1>3, <2>1, WatchAssumption
  <2>3. out'[i].key = k /\ Applied(out'[i]) = Shown(snap.rows[k])
    BY <2>1, <2>2, EventFacts
  <2>4. log[snapAt][k] = Shown(snap.rows[k])
    BY <1>1, PositionParts DEF FeedInv
  <2> QED
    BY <2>3, <2>4
<1> HIDE DEF n, m, q
<1>11. \A i \in 1..(n + m) : i \in 1..n \/ (i - n \in 1..m /\ n + (i - n) = i)
  BY <1>6
<1>12. \A i \in 1..n : queueAt[i] \in 1..snapAt
  BY <1>7, <1>8, FeedFacts DEF Placed
<1>13. \A k \in Owned : at[k] \in 1..snapAt /\ log[at[k]][k] = cache[k]
  BY <1>7, FeedFacts DEF Placed
<1>14. ASSUME NEW i \in 1..(n + m)
       PROVE  /\ queueAt'[i] \in 1..snapAt
              /\ log[queueAt'[i]][q[i].key] = Applied(q[i])
              /\ at[q[i].key] <= queueAt'[i]
              /\ \A j \in 1..(n + m) : i <= j => queueAt'[i] <= queueAt'[j]
  <2>1. CASE i \in 1..n
    <3>1. /\ queueAt[i] \in 1..snapAt
          /\ log[queueAt[i]][chan[i].key] = Applied(chan[i])
          /\ at[chan[i].key] <= queueAt[i]
          /\ \A j \in 1..n : i <= j => queueAt[i] <= queueAt[j]
      BY <1>5, <1>7, <1>8, <2>1, FeedFacts DEF Placed
    <3>2. queueAt'[i] = queueAt[i] /\ q[i] = chan[i]
      BY <1>6, <1>9, <2>1
    <3>3. ASSUME NEW j \in 1..(n + m), i <= j PROVE queueAt'[i] <= queueAt'[j]
      <4>1. CASE j \in 1..n
        BY <1>9, <3>1, <3>2, <3>3, <4>1
      <4>2. CASE j - n \in 1..m /\ n + (j - n) = j
        <5>1. queueAt'[j] = snapAt
          BY <1>9, <4>2
        <5>2. queueAt[i] <= snapAt
          BY <1>7, <3>1
        <5> QED
          BY <3>2, <5>1, <5>2
      <4> QED
        BY <1>11, <4>1, <4>2
    <3> QED
      BY <3>1, <3>2, <3>3
  <2>2. CASE i - n \in 1..m /\ n + (i - n) = i
    <3>1. queueAt'[i] = snapAt /\ q[i] = out'[i - n]
      BY <1>6, <1>9, <2>2
    <3>2. q[i].key \in Owned /\ Applied(q[i]) = log[snapAt][q[i].key]
      BY <1>10, <2>2, <3>1
    <3>3. at[q[i].key] <= snapAt /\ snapAt \in 1..snapAt
      BY <1>7, <1>13, <3>2
    <3>4. ASSUME NEW j \in 1..(n + m), i <= j PROVE queueAt'[j] = snapAt
      <4>1. j - n \in 1..m /\ n + (j - n) = j
        BY <1>6, <2>2, <3>4
      <4> QED
        BY <1>9, <4>1
    <3> QED
      BY <1>7, <3>1, <3>2, <3>3, <3>4
  <2> QED
    BY <1>11, <2>1, <2>2
<1>15. Placed(log, q, queueAt', cache, at, snapAt)
  BY <1>6, <1>9, <1>13, <1>14 DEF Placed
<1>16. Placed(log, q, queueAt', cache, at, Len(log))
  <2>1. snapAt \in Nat /\ snapAt <= Len(log) /\ at \in [Owned -> Nat]
    BY <1>7, FeedFacts
  <2> QED
    BY <1>7, <1>9, <1>15, <2>1, PlacedInLongerLog
<1>17. PositionInv'
  BY <1>1, <1>5, <1>7, <1>9, <1>16, FeedFacts, PositionPartsNext DEF q
<1> QED
  BY <1>2, <1>17 DEF FeedInv

\* The first event under way is at or after what the cache has of its object, and
\* at or before all events behind it.
LEMMA ConsumeKeepsPlaces ==
    ASSUME WatchInv, FeedInv, ConsumeStep(log', at', snapAt', queueAt') PROVE FeedInv'
<1> DEFINE q == Undelivered
           e == Head(chan)
           p == Head(queueAt)
<1>1. /\ chan # <<>> /\ chan' = Tail(chan) /\ out' = out /\ wpc' = wpc /\ snap' = snap
      /\ cache' = [cache EXCEPT ![e.key] = Applied(e)]
      /\ at' = [at EXCEPT ![e.key] = p] /\ queueAt' = Tail(queueAt)
      /\ log' = log /\ snapAt' = snapAt /\ UNCHANGED storeVars
  BY DEF ConsumeStep, Consume
<1>2. LogInv'
  BY <1>1, TableStays DEF FeedInv
<1>3. q \in Seq(Events) /\ q # <<>> /\ q[1] = e /\ Undelivered' = Tail(q)
  BY <1>1, FeedFacts, ConsumeTakesFirst DEF Undelivered
<1>4. e \in Events /\ e.key \in Owned /\ e.key \in Keys /\ cache \in [Keys -> Row \cup {NoRow}]
  <2>1. e \in Events
    BY <1>1, FeedFacts
  <2> QED
    BY <2>1, WatchAssumption DEF Events, WatchInv, WatchTypeOK
<1>5. /\ Len(queueAt) = Len(q) /\ Len(q) \in Nat /\ Len(q) > 0
      /\ DOMAIN queueAt = 1..Len(q) /\ queueAt # <<>> /\ p = queueAt[1]
  BY <1>3, FeedFacts DEF Placed
<1>6. /\ Len(Tail(q)) = Len(q) - 1 /\ \A i \in 1..(Len(q) - 1) : Tail(q)[i] = q[i + 1]
      /\ queueAt' \in Seq(Nat) /\ Len(queueAt') = Len(q) - 1
      /\ DOMAIN queueAt' = 1..(Len(q) - 1)
      /\ \A i \in 1..(Len(q) - 1) : queueAt'[i] = queueAt[i + 1]
  BY <1>1, <1>3, <1>5, FeedFacts
<1>7. Newest' = Newest /\ Newest \in Nat
  BY <1>1, FeedFacts DEF Newest
<1> HIDE DEF q, e, p
<1>8. /\ p \in 1..Newest /\ log[p][e.key] = Applied(e) /\ at[e.key] <= p
      /\ \A i \in 1..Len(q) : p <= queueAt[i]
  <2>1. 1 \in DOMAIN queueAt /\ (\A i \in 1..Len(q) : i \in DOMAIN queueAt /\ 1 <= i)
    BY <1>5
  <2>2. /\ queueAt[1] \in 1..Newest /\ log[queueAt[1]][q[1].key] = Applied(q[1])
        /\ at[q[1].key] <= queueAt[1]
        /\ \A j \in DOMAIN queueAt : 1 <= j => queueAt[1] <= queueAt[j]
    BY <2>1, FeedFacts DEF Placed, q
  <2> QED
    BY <1>3, <1>5, <2>1, <2>2
<1>9. /\ at' \in [Owned -> Nat]
      /\ \A k \in Owned : at'[k] = IF k = e.key THEN p ELSE at[k]
      /\ \A k \in Owned : cache'[k] = IF k = e.key THEN Applied(e) ELSE cache[k]
  BY <1>1, <1>4, <1>7, <1>8, FeedFacts, WatchAssumption
<1>10. ASSUME NEW k \in Owned PROVE at'[k] \in 1..Newest /\ log[at'[k]][k] = cache'[k]
  BY <1>8, <1>9, FeedFacts DEF Placed
<1>11. ASSUME NEW i \in 1..(Len(q) - 1)
       PROVE  /\ queueAt'[i] \in 1..Newest
              /\ log[queueAt'[i]][Tail(q)[i].key] = Applied(Tail(q)[i])
              /\ at'[Tail(q)[i].key] <= queueAt'[i]
              /\ \A j \in 1..(Len(q) - 1) : i <= j => queueAt'[i] <= queueAt'[j]
  <2>1. /\ i + 1 \in 1..Len(q) /\ queueAt'[i] = queueAt[i + 1] /\ Tail(q)[i] = q[i + 1]
        /\ \A j \in 1..(Len(q) - 1) : j + 1 \in 1..Len(q) /\ queueAt'[j] = queueAt[j + 1]
    BY <1>5, <1>6
  <2>2. /\ queueAt[i + 1] \in 1..Newest
        /\ log[queueAt[i + 1]][q[i + 1].key] = Applied(q[i + 1])
        /\ at[q[i + 1].key] <= queueAt[i + 1]
        /\ \A j \in 1..Len(q) : i + 1 <= j => queueAt[i + 1] <= queueAt[j]
    BY <1>5, <2>1, FeedFacts DEF Placed, q
  <2>3. q[i + 1].key \in Owned
    <3>1. q[i + 1] \in Events
      BY <1>3, <2>1
    <3> QED
      BY <3>1 DEF Events
  <2>4. at'[q[i + 1].key] <= queueAt[i + 1]
    BY <1>8, <1>9, <2>1, <2>2, <2>3
  <2>5. \A j \in 1..(Len(q) - 1) : i <= j => queueAt[i + 1] <= queueAt[j + 1]
    BY <2>1, <2>2
  <2> QED
    BY <2>1, <2>2, <2>4, <2>5
<1>12. Placed(log, Tail(q), queueAt', cache', at', Newest)
  BY <1>6, <1>10, <1>11 DEF Placed
<1>13. wpc \in {"listing", "poll"} => log[snapAt] = [k \in Owned |-> Shown(snap.rows[k])]
  BY PositionParts DEF FeedInv
<1>14. PositionInv'
  BY <1>1, <1>3, <1>6, <1>7, <1>9, <1>12, <1>13, FeedFacts, PositionPartsNext
<1> QED
  BY <1>2, <1>14 DEF FeedInv

\* The invariant is inductive, given that of Watch.
LEMMA FeedNextKeepsInv ==
    ASSUME WatchInv, WatchInv', FeedInv, [FeedNext]_feedVars PROVE FeedInv'
<1>1. CASE StoreStep(log', at', snapAt', queueAt')
  BY <1>1, StoreKeepsPlaces DEF WatchInv, StoreInv
<1>2. CASE SnapshotStep(log', at', snapAt', queueAt')
  BY <1>2, SnapshotKeepsPlaces
<1>3. CASE ListStep(log', at', snapAt', queueAt')
  BY <1>3, ListKeepsPlaces
<1>4. CASE ScanStep(log', at', snapAt', queueAt')
  BY <1>4, ScanKeepsPlaces
<1>5. CASE ConsumeStep(log', at', snapAt', queueAt')
  BY <1>5, ConsumeKeepsPlaces
<1>6. CASE FailStep(log', at', snapAt', queueAt')
  BY <1>6, FailKeepsPlaces
<1>7. CASE RestartStep(log', at', snapAt', queueAt')
  BY <1>7, RestartKeepsPlaces
<1>8. CASE OtherStep(log', at', snapAt', queueAt')
  BY <1>8, OtherKeepsPlaces
<1>9. CASE UNCHANGED feedVars
  <2>1. LogInv'
    BY <1>9, TableStays DEF FeedInv, feedVars, historyVars, vars
  <2>2. UNCHANGED <<wpc, snap, chan, out, cache, log, at, snapAt, queueAt>>
    BY <1>9 DEF feedVars, historyVars, vars, watchVars
  <2>3. Undelivered' = Undelivered /\ Newest' = Newest
    BY <2>2 DEF Undelivered, Newest
  <2>4. PositionInv'
    BY <2>2, <2>3, PositionParts, PositionPartsNext DEF FeedInv
  <2> QED
    BY <2>1, <2>4 DEF FeedInv
<1> QED
  BY <1>1, <1>2, <1>3, <1>4, <1>5, <1>6, <1>7, <1>8, <1>9 DEF FeedNext, FeedStep

-----------------------------------------------------------------------------

\* The behaviours of WatchFeed are behaviours of Watch, so what is proved of Watch
\* holds of them.
LEMMA FeedIsWatch == FeedSpec => Spec
<1>1. FeedInit => Init
  BY DEF FeedInit
<1> QED
  BY <1>1, FeedStepIsWatchStep, PTL DEF FeedSpec, Spec

\* The history restricts nothing: whatever log and places have been recorded, every
\* step of Watch (of a writer, of Compact, of a poll, a list, a delivery, an error or
\* a restart) has a history after it with which it is a step of WatchFeed. So every
\* behaviour of Watch is one of WatchFeed without its history, and what is shown of
\* the informer store there is shown of the one of Watch.
THEOREM HistoryRestrictsNothing == Next => \E l, a, s, q : FeedStep(l, a, s, q)
<1> SUFFICES ASSUME Next PROVE \E l, a, s, q : FeedStep(l, a, s, q)
  OBVIOUS
<1>1. CASE StoreNext /\ UNCHANGED watchVars
  <2>1. StoreStep(IF Table' = Table THEN log ELSE Append(log, Table'), at, snapAt, queueAt)
    BY <1>1 DEF StoreStep
  <2> QED
    BY <2>1 DEF FeedStep
<1>2. ASSUME UNCHANGED storeVars, ListBegin \/ PollBegin
      PROVE  \E l, a, s, q : FeedStep(l, a, s, q)
  <2>1. SnapshotStep(log, at, Len(log), queueAt)
    BY <1>2 DEF SnapshotStep
  <2> QED
    BY <2>1 DEF FeedStep
<1>3. ASSUME UNCHANGED storeVars, ListEnd PROVE \E l, a, s, q : FeedStep(l, a, s, q)
  <2>1. ListStep(log, [k \in Owned |-> snapAt], 1, queueAt)
    BY <1>3 DEF ListStep
  <2> QED
    BY <2>1 DEF FeedStep
<1>4. ASSUME UNCHANGED storeVars, PollScan PROVE \E l, a, s, q : FeedStep(l, a, s, q)
  <2>1. ScanStep(log, at, 1, queueAt \o [i \in 1..Len(out') |-> snapAt])
    BY <1>4 DEF ScanStep
  <2> QED
    BY <2>1 DEF FeedStep
<1>5. ASSUME UNCHANGED storeVars, Consume PROVE \E l, a, s, q : FeedStep(l, a, s, q)
  <2>1. ConsumeStep(log, [at EXCEPT ![Head(chan).key] = Head(queueAt)], snapAt, Tail(queueAt))
    BY <1>5 DEF ConsumeStep
  <2> QED
    BY <2>1 DEF FeedStep
<1>6. ASSUME UNCHANGED storeVars, PollFail PROVE \E l, a, s, q : FeedStep(l, a, s, q)
  <2>1. FailStep(log, at, 1, SubSeq(queueAt, 1, Len(chan)))
    BY <1>6 DEF FailStep
  <2> QED
    BY <2>1 DEF FeedStep
<1>7. ASSUME UNCHANGED storeVars, Restart PROVE \E l, a, s, q : FeedStep(l, a, s, q)
  <2>1. RestartStep(log, [k \in Owned |-> 1], 1, <<>>)
    BY <1>7 DEF RestartStep
  <2> QED
    BY <2>1 DEF FeedStep
<1>8. ASSUME UNCHANGED storeVars, PollGone \/ PollCommit \/ Send \/ Relist \/ ListFail
      PROVE  \E l, a, s, q : FeedStep(l, a, s, q)
  <2>1. OtherStep(log, at, 1, queueAt)
    BY <1>8 DEF OtherStep
  <2> QED
    BY <2>1 DEF FeedStep
<1> QED
  BY <1>1, <1>2, <1>3, <1>4, <1>5, <1>6, <1>7, <1>8 DEF Next, WatchNext, Loop, Poll

\* Snapshots, queued events and cached objects are from where in the history of
\* the table they are said to be from, in this order, however writers, Compact,
\* polls, relists, errors and restarts interleave.
THEOREM FeedInvariant == FeedSpec => []FeedInv
<1>1. FeedInit => FeedInv
  BY FeedInitInv
<1>2. WatchInv /\ WatchInv' /\ FeedInv /\ [FeedNext]_feedVars => FeedInv'
  BY FeedNextKeepsInv
<1> QED
  BY <1>1, <1>2, FeedIsWatch, WatchInvariant, PTL DEF FeedSpec

\* Steps that leave the log alone and take no object back are steps of Feed.
LEMMA ForwardIsFollow ==
    ASSUME FeedInv', UNCHANGED log, \A k \in Owned : at[k] <= at'[k]
    PROVE  Abstract!Follow
<1>1. /\ at' \in [Owned -> Nat]
      /\ \A k \in Owned : at'[k] \in 1..Newest' /\ log'[at'[k]][k] = cache'[k]
      /\ snapAt' \in 1..Len(log') /\ log' \in Seq([Owned -> Row \cup {NoRow}])
  BY PositionPartsNext DEF FeedInv, LogInv, Placed
<1>2. Newest' <= Len(log') /\ Newest' \in Nat
  BY <1>1 DEF Newest
<1>3. at' \in [Owned -> 1..Len(log)]
  BY <1>1, <1>2
<1>4. [k \in Owned |-> cache'[k]] = [k \in Owned |-> log[at'[k]][k]]
  BY <1>1
<1> QED
  BY <1>3, <1>4 DEF Abstract!Follow

\* A commit that readers can see is a change of the table's history.
LEMMA CommitIsChange ==
    ASSUME WatchInv, FeedInv, StoreStep(log', at', snapAt', queueAt'), Table' # Table, StoreTypeOK'
    PROVE  Abstract!Change
<1> USE DEF StoreStep, watchVars
<1>1. Table' \in [Owned -> Row \cup {NoRow}] /\ log \in Seq([Owned -> Row \cup {NoRow}])
  BY WatchAssumption, FeedFacts DEF StoreTypeOK, Table, Shown
<1>2. log' = Append(log, Table')
  OBVIOUS
<1>3. Len(log') = Len(log) + 1 /\ SubSeq(log', 1, Len(log)) = log
  <2> DEFINE S == [Owned -> Row \cup {NoRow}]
  <2> HIDE DEF S
  <2>1. \A l \in Seq(S), e \in S :
            Len(Append(l, e)) = Len(l) + 1 /\ SubSeq(Append(l, e), 1, Len(l)) = l
    <3> SUFFICES ASSUME NEW l \in Seq(S), NEW e \in S
                 PROVE  Len(Append(l, e)) = Len(l) + 1 /\ SubSeq(Append(l, e), 1, Len(l)) = l
      OBVIOUS
    <3> DEFINE t == SubSeq(Append(l, e), 1, Len(l))
    <3>1. t \in Seq(S) /\ Len(t) = Len(l)
      OBVIOUS
    <3>2. \A i \in 1..Len(l) : t[i] = l[i]
      OBVIOUS
    <3> QED
      BY <3>1, <3>2
  <2> QED
    BY <1>1, <1>2, <2>1 DEF S
<1> QED
  BY <1>3 DEF Abstract!Change

\* The refinement: the informer store of a List+Watch consumer only ever shows, for
\* every object, a state that the table had for readers, and moves forward through
\* those states; only a restart of the process begins again.
THEOREM WatchImplementsFeed == FeedSpec => ImplementsFeed
<1>1. FeedInit => Abstract!Init
  <2> SUFFICES ASSUME FeedInit PROVE Abstract!Init
    OBVIOUS
  <2>1. Table = [k \in Owned |-> NoRow] /\ [k \in Owned |-> cache[k]] = [k \in Owned |-> NoRow]
    BY WatchAssumption DEF FeedInit, Init, StoreInit, WatchInit, Table, Shown
  <2> QED
    BY <2>1 DEF FeedInit, Abstract!Init, Abstract!NoObjects
<1>2. ASSUME WatchInv, WatchInv', FeedInv, FeedInv', [FeedNext]_feedVars
      PROVE  [Abstract!Next]_(Abstract!feedVars)
  <2>1. CASE StoreStep(log', at', snapAt', queueAt')
    <3>1. CASE Table' = Table
      BY <2>1, <3>1 DEF StoreStep, watchVars, Abstract!feedVars
    <3>2. CASE Table' # Table
      BY <1>2, <2>1, <3>2, CommitIsChange DEF WatchInv, StoreInv, Abstract!Next
    <3> QED
      BY <3>1, <3>2
  <2>2. CASE \/ SnapshotStep(log', at', snapAt', queueAt')
             \/ ScanStep(log', at', snapAt', queueAt')
             \/ FailStep(log', at', snapAt', queueAt')
             \/ OtherStep(log', at', snapAt', queueAt')
             \/ UNCHANGED feedVars
    <3>1. log' = log /\ at' = at /\ cache' = cache
      BY <2>2 DEF SnapshotStep, ListBegin, PollBegin, Snapshot, ScanStep, PollScan, FailStep,
                  PollFail, OtherStep, PollGone, PollCommit, Send, Relist, ListFail, feedVars,
                  historyVars, vars, watchVars
    <3> QED
      BY <3>1 DEF Abstract!feedVars
  <2>3. CASE ListStep(log', at', snapAt', queueAt')
    <3>1. /\ log' = log /\ at' = [k \in Owned |-> snapAt] /\ Newest = snapAt
          /\ snapAt \in 1..Len(log)
      BY <1>2, <2>3, FeedFacts DEF ListStep, ListEnd, Newest
    <3>2. \A k \in Owned : at[k] <= at'[k]
      BY <1>2, <3>1, FeedFacts DEF Placed
    <3> QED
      BY <1>2, <3>1, <3>2, ForwardIsFollow DEF Abstract!Next
  <2>4. CASE ConsumeStep(log', at', snapAt', queueAt')
    <3> DEFINE e == Head(chan)
    <3>1. /\ log' = log /\ at' = [at EXCEPT ![e.key] = Head(queueAt)] /\ chan # <<>>
          /\ at \in [Owned -> Nat] /\ chan \in Seq(Events) /\ out \in Seq(Events)
          /\ queueAt \in Seq(Nat) /\ Len(queueAt) = Len(Undelivered)
      BY <1>2, <2>4, FeedFacts DEF ConsumeStep, Consume, Placed
    <3>2. Undelivered \in Seq(Events) /\ Undelivered # <<>> /\ Undelivered[1] = e
      BY <3>1, ConsumeTakesFirst, FeedFacts DEF Undelivered
    <3>3. 1 \in DOMAIN queueAt /\ Head(queueAt) = queueAt[1]
      BY <3>1, <3>2
    <3>4. at[e.key] <= Head(queueAt)
      BY <1>2, <3>2, <3>3, FeedFacts DEF Placed
    <3>5. \A k \in Owned : at[k] <= at'[k]
      BY <3>1, <3>4
    <3> QED
      BY <1>2, <3>1, <3>5, ForwardIsFollow DEF Abstract!Next
  <2>5. CASE RestartStep(log', at', snapAt', queueAt')
    <3>1. /\ log' = log /\ at' = [k \in Owned |-> 1]
          /\ [k \in Owned |-> cache'[k]] = [k \in Owned |-> NoRow]
      BY <2>5, WatchAssumption DEF RestartStep, Restart
    <3> QED
      BY <3>1 DEF Abstract!Next, Abstract!StartOver, Abstract!NoObjects
  <2> QED
    BY <1>2, <2>1, <2>2, <2>3, <2>4, <2>5 DEF FeedNext, FeedStep
<1> QED
  BY <1>1, <1>2, FeedInvariant, FeedIsWatch, WatchInvariant, PTL
     DEF FeedSpec, ImplementsFeed, Abstract!Spec

=============================================================================
