--------------------------- MODULE VerifierProofs ---------------------------
(***************************************************************************)
(* Proofs about Verifier for any number of canaries, objects and restarts  *)
(* and any size of the ring: what the probe has counted, and that a canary *)
(* it waits for is still to be delivered.                                  *)
(***************************************************************************)
EXTENDS Verifier, FiniteSetTheorems, FunctionTheorems, SequenceTheorems, TLAPS

-----------------------------------------------------------------------------
(***************************************************************************)
(* The ring.                                                               *)
(***************************************************************************)

\* A quotient and a remainder.
LEMMA DivMod ==
    ASSUME NEW m \in Nat, NEW d \in Nat \ {0}
    PROVE  \E q \in Nat, r \in 0..(d - 1) : m % d = r /\ m = d * q + r
<1>1. m \div d \in Nat /\ m % d \in 0..(d - 1)
  OBVIOUS
<1>2. PICK q \in Nat, r \in 0..(d - 1) : q = m \div d /\ r = m % d
  BY <1>1
<1>3. PICK z \in Int : z = d * q
  OBVIOUS
<1>4. m = z + r
  BY <1>2, <1>3, SMTT(60)
<1>5. m = d * q + r /\ m % d = r
  BY <1>2, <1>3, <1>4, Zenon
<1> QED
  BY <1>5, Zenon

\* There is only one remainder.
LEMMA ModUnique ==
    ASSUME NEW m \in Nat, NEW d \in Nat \ {0}, NEW q \in Nat, NEW r \in 0..(d - 1), m = d * q + r
    PROVE  m % d = r
  BY SMTT(60)

\* The slot after the one of number m.
LEMMA NextSlot ==
    ASSUME NEW m \in Nat, NEW d \in Nat \ {0}
    PROVE  (m + 1) % d = IF (m % d) + 1 >= d THEN 0 ELSE (m % d) + 1
<1>0. m + 1 \in Nat
  OBVIOUS
<1>1. PICK q \in Nat, r \in 0..(d - 1) : m % d = r /\ m = d * q + r
  BY DivMod, Zenon
<1>2. CASE r + 1 < d
  <2>1. m + 1 = d * q + (r + 1) /\ r + 1 \in 0..(d - 1)
    BY <1>1, <1>2
  <2>2. (m + 1) % d = r + 1
    BY <1>0, <2>1, ModUnique
  <2> QED
    BY <1>1, <1>2, <2>2
<1>3. CASE r + 1 >= d
  <2>1. d * (q + 1) = d * q + d
    BY <1>1
  <2>2. m + 1 = d * (q + 1) + 0 /\ 0 \in 0..(d - 1) /\ q + 1 \in Nat
    BY <1>1, <1>3, <2>1
  <2>3. (m + 1) % d = 0
    BY <1>0, <2>2, ModUnique
  <2> QED
    BY <1>1, <1>3, <2>3
<1> QED
  BY <1>1, <1>2, <1>3

-----------------------------------------------------------------------------
(***************************************************************************)
(* Sets.                                                                   *)
(***************************************************************************)

\* A function on an initial segment of the numbers is a sequence.
LEMMA SegmentIsSeq ==
    ASSUME NEW T, NEW n \in Nat, NEW f \in [1..n -> T]
    PROVE  f \in Seq(T)
  BY SeqDef

\* The elements of s are among those of u.
Within(s, u) == \A i \in DOMAIN s : \E j \in DOMAIN u : u[j] = s[i]

\* A sequence appended to another one: the elements of both.
LEMMA ConcatElements ==
    ASSUME NEW T, NEW s \in Seq(T), NEW t \in Seq(T)
    PROVE  s \o t \in Seq(T) /\ Within(s, s \o t) /\ Within(t, s \o t)
<1>1. /\ s \o t \in Seq(T)
      /\ DOMAIN s = 1..Len(s) /\ DOMAIN t = 1..Len(t) /\ Len(s) \in Nat /\ Len(t) \in Nat
      /\ DOMAIN (s \o t) = 1..(Len(s) + Len(t))
  OBVIOUS
<1>2. ASSUME NEW i \in DOMAIN t
      PROVE  Len(s) + i \in DOMAIN (s \o t) /\ (s \o t)[Len(s) + i] = t[i]
  <2>1. Len(s) + i \in 1..(Len(s) + Len(t)) /\ ~(Len(s) + i <= Len(s)) /\ (Len(s) + i) - Len(s) = i
    BY <1>1
  <2> QED
    BY <1>1, <2>1, ConcatProperties
<1>3. ASSUME NEW i \in DOMAIN s
      PROVE  i \in DOMAIN (s \o t) /\ (s \o t)[i] = s[i]
  <2>1. i \in 1..(Len(s) + Len(t)) /\ i <= Len(s)
    BY <1>1
  <2> QED
    BY <1>1, <2>1, ConcatProperties
<1> DEFINE u == s \o t
<1>4. /\ u \in Seq(T) /\ u = s \o t
      /\ \A i \in DOMAIN s : i \in DOMAIN u /\ u[i] = s[i]
      /\ \A i \in DOMAIN t : Len(s) + i \in DOMAIN u /\ u[Len(s) + i] = t[i]
  BY <1>1, <1>2, <1>3
<1> HIDE DEF u
<1>5. u \in Seq(T) /\ Within(s, u) /\ Within(t, u)
  BY <1>4 DEF Within
<1> QED
  BY <1>4, <1>5

\* Canaries are finitely many, and no other object is one.
LEMMA NamesFacts ==
    /\ IsFiniteSet(Names) /\ IsFiniteSet(Objects)
    /\ Names \subseteq Objects /\ Others \subseteq Objects /\ Names \subseteq Nat
    /\ \A n \in Names : n \notin Others
<1>1. IsFiniteSet(Names)
  BY VerifierAssumption, FS_Interval DEF Names
<1>2. IsFiniteSet(Objects)
  BY <1>1, VerifierAssumption, FS_Union DEF Objects
<1> QED
  BY <1>1, <1>2, VerifierAssumption DEF Objects, Names

\* The awaited canaries are canaries.
LEMMA AwaitedFacts ==
    ASSUME VerifierInv
    PROVE  /\ Awaited \subseteq Names
           /\ IsFiniteSet(ver.pending) /\ Cardinality(ver.pending) \in Nat
  BY NamesFacts, FS_Subset, FS_CardinalityType DEF VerifierInv, TypeOK, Awaited, Verifiers

\* The first state.
LEMMA InitInv == Init => VerifierInv
<1> SUFFICES ASSUME Init PROVE VerifierInv
  OBVIOUS
<1>1. TypeOK
  BY VerifierAssumption DEF Init, TypeOK, NewWatcher, NewVerifier, Names, Verifiers
<1>2. XidInv /\ PendingInv /\ CanaryOnItsWay
  BY DEF Init, XidInv, PendingInv, CanaryOnItsWay, Awaited, InFlight, NewWatcher, NewVerifier
<1>3. Accounted
  BY VerifierAssumption, FS_EmptySet DEF Init, Accounted, NewVerifier
<1> QED
  BY <1>1, <1>2, <1>3 DEF VerifierInv

-----------------------------------------------------------------------------
(***************************************************************************)
(* The database.                                                           *)
(***************************************************************************)

\* Steps that leave the watcher and the verifier alone, and the canaries' rows.
LEMMA DatabaseKeepsInv ==
    ASSUME VerifierInv,
           \/ OtherBegin
           \/ \E x \in open : OtherEnd(x)
           \/ \E o \in Others : Compact(o)
    PROVE  VerifierInv'
<1>1. /\ UNCHANGED <<watcher, ver, restarts>>
      /\ \A n \in Names : table'[n] = table[n]
  BY NamesFacts DEF OtherBegin, OtherEnd, Compact, VerifierInv, TypeOK
<1>2. TypeOK'
  <2>1. table' \in [Objects -> 0..MaxXid]
    <3>1. ASSUME NEW o \in Others, NEW x \in 0..MaxXid, table' = [table EXCEPT ![o] = x]
          PROVE  table' \in [Objects -> 0..MaxXid]
      BY <3>1 DEF VerifierInv, TypeOK
    <3>2. ASSUME NEW x \in open, OtherEnd(x) PROVE table' \in [Objects -> 0..MaxXid]
      <4>1. x \in 0..MaxXid
        BY VerifierAssumption DEF VerifierInv, TypeOK
      <4> QED
        BY <3>1, <3>2, <4>1 DEF OtherEnd, VerifierInv, TypeOK
    <3>3. 0 \in 0..MaxXid
      BY VerifierAssumption
    <3> QED
      BY <3>1, <3>2, <3>3 DEF OtherBegin, Compact, VerifierInv, TypeOK
  <2>2. horizon' \in 0..MaxXid
    BY NamesFacts DEF OtherBegin, OtherEnd, Compact, VerifierInv, TypeOK
  <2>3. nextXid' \in 1..(MaxXid + 1) /\ open' \in SUBSET (1..MaxXid)
    <3>1. CASE OtherBegin
      <4>1. nextXid \in 1..MaxXid
        BY <3>1, VerifierAssumption DEF OtherBegin, VerifierInv, TypeOK
      <4> QED
        BY <3>1, <4>1, VerifierAssumption DEF OtherBegin, VerifierInv, TypeOK
    <3> QED
      BY <3>1 DEF OtherEnd, Compact, VerifierInv, TypeOK
  <2> QED
    BY <1>1, <2>1, <2>2, <2>3 DEF VerifierInv, TypeOK
<1>3. XidInv'
  <2>1. /\ table \in [Objects -> 0..MaxXid] /\ nextXid \in Nat /\ open \subseteq Nat
        /\ watcher.hwm \in Nat /\ ver.count \in Nat /\ ver.xid \in Nat
    BY VerifierAssumption DEF VerifierInv, TypeOK, Names, Verifiers
  <2>2. CASE OtherBegin
    BY <1>1, <2>1, <2>2 DEF OtherBegin, VerifierInv, XidInv, InFlight
  <2>3. ASSUME NEW x \in open, OtherEnd(x) PROVE XidInv'
    <3>1. x < nextXid
      BY <2>3 DEF VerifierInv, XidInv, InFlight
    <3>2. \A o \in Objects : table'[o] < nextXid
      BY <2>1, <2>3, <3>1 DEF OtherEnd, VerifierInv, XidInv
    <3> QED
      BY <1>1, <2>3, <3>2 DEF OtherEnd, VerifierInv, XidInv, InFlight
  <2>4. ASSUME NEW x \in Others, Compact(x) PROVE XidInv'
    <3>1. \A o \in Objects : table'[o] < nextXid
      BY <2>1, <2>4, NamesFacts DEF Compact, VerifierInv, XidInv, TypeOK
    <3> QED
      BY <1>1, <2>4, <3>1 DEF Compact, VerifierInv, XidInv, InFlight
  <2> QED
    BY <2>2, <2>3, <2>4
<1>4. PendingInv' /\ Accounted'
  BY <1>1 DEF VerifierInv, PendingInv, Accounted
<1>5. CanaryOnItsWay'
  BY <1>1, AwaitedFacts DEF VerifierInv, CanaryOnItsWay, Awaited
<1> QED
  BY <1>2, <1>3, <1>4, <1>5 DEF VerifierInv

-----------------------------------------------------------------------------
(***************************************************************************)
(* The watcher.                                                            *)
(***************************************************************************)

\* A poll that returns as many events as it found rows, in the order of their
\* stamps, returns every row it found.
LEMMA PollsAll ==
    ASSUME VerifierInv, NEW evs \in [1..Cardinality(Found) -> Found], InOrder(evs)
    PROVE  /\ evs \in Seq([object : Objects, stamp : 1..MaxXid])
           /\ DOMAIN evs = 1..Cardinality(Found) /\ Cardinality(Found) \in Nat
           /\ \A f \in Found : \E i \in DOMAIN evs : evs[i] = f
<1>1. table \in [Objects -> 0..MaxXid] /\ watcher.hwm \in Nat
  BY DEF VerifierInv, TypeOK
<1>2. Found \subseteq [object : Objects, stamp : 1..MaxXid]
  BY <1>1, VerifierAssumption DEF Found
<1>3. IsFiniteSet(Found) /\ Cardinality(Found) \in Nat
  <2> DEFINE B == {o \in Objects : table[o] > watcher.hwm}
             h == [o \in B |-> [object |-> o, stamp |-> table[o]]]
  <2>1. IsFiniteSet(B)
    BY NamesFacts, FS_Subset
  <2>2. h \in Surjection(B, Found)
    BY Fun_IsSurj DEF Found
  <2> QED
    BY <2>1, <2>2, FS_Surjection, FS_CardinalityType
<1> DEFINE n == Cardinality(Found)
<1> HIDE DEF n
<1>4. evs \in [1..n -> Found] /\ n \in Nat
  BY <1>3 DEF n
<1>5. \A i, j \in 1..n : i # j => evs[i] # evs[j]
  <2> SUFFICES ASSUME NEW i \in 1..n, NEW j \in 1..n, i < j PROVE evs[i] # evs[j]
    BY <1>4
  <2>1. evs[i].stamp < evs[j].stamp
    BY <1>4 DEF InOrder
  <2>2. evs[i].stamp \in Nat
    <3>1. evs[i] \in [object : Objects, stamp : 1..MaxXid]
      BY <1>2, <1>4
    <3> QED
      BY <3>1
  <2> QED
    BY <2>1, <2>2
<1>6. evs \in Injection(1..n, Found)
  BY <1>4, <1>5, Fun_IsInj
<1>7. IsFiniteSet(1..n) /\ Cardinality(1..n) = n
  BY <1>4, FS_Interval
<1>8. evs \in Surjection(1..n, Found)
  BY <1>3, <1>6, <1>7, FS_Injection DEF n
<1>9. evs \in Seq([object : Objects, stamp : 1..MaxXid])
  <2>1. evs \in [1..n -> [object : Objects, stamp : 1..MaxXid]]
    BY <1>2, <1>4
  <2> QED
    BY <1>4, <2>1, SegmentIsSeq
<1> QED
  BY <1>3, <1>4, <1>8, <1>9, Fun_SurjectionProperties DEF n

\* The watcher polls, or ends.
LEMMA WatcherKeepsInv ==
    ASSUME VerifierInv, Poll \/ WatcherEnds
    PROVE  VerifierInv'
<1>1. UNCHANGED <<dbVars, ver, restarts>>
  BY DEF Poll, WatcherEnds
<1>2. /\ watcher \in [alive : BOOLEAN, hwm : 0..MaxXid,
                      events : Seq([object : Objects, stamp : 1..MaxXid])]
      /\ nextXid \in 1..(MaxXid + 1) /\ table \in [Objects -> 0..MaxXid]
  BY DEF VerifierInv, TypeOK
<1>3. PendingInv' /\ Accounted' /\ Awaited' = Awaited /\ InFlight' = InFlight
  BY <1>1 DEF VerifierInv, PendingInv, Accounted, Awaited, InFlight, dbVars
<1>4. CASE WatcherEnds
  <2>1. watcher' = [watcher EXCEPT !.alive = FALSE]
    BY <1>4 DEF WatcherEnds
  <2>2. TypeOK'
    BY <1>1, <1>2, <2>1 DEF VerifierInv, TypeOK, dbVars
  <2>3. XidInv' /\ CanaryOnItsWay'
    BY <1>1, <1>2, <1>3, <2>1 DEF VerifierInv, XidInv, CanaryOnItsWay, dbVars
  <2> QED
    BY <1>3, <2>2, <2>3 DEF VerifierInv
<1>5. CASE Poll
  <2>1. PICK x, evs :
            /\ x \in 1..nextXid
            /\ evs \in [1..Cardinality(Found) -> Found]
            /\ IsXmin(x)
            /\ InOrder(evs)
            /\ watcher' = [watcher EXCEPT !.hwm = IF x - 1 > @ THEN x - 1 ELSE @,
                                         !.events = @ \o evs]
    BY <1>5 DEF Poll
  <2>2. /\ evs \in Seq([object : Objects, stamp : 1..MaxXid])
        /\ \A f \in Found : \E i \in DOMAIN evs : evs[i] = f
    BY <2>1, PollsAll
  <2> DEFINE old == watcher.events
  <2>3. /\ watcher'.hwm = (IF x - 1 > watcher.hwm THEN x - 1 ELSE watcher.hwm)
        /\ watcher'.events = old \o evs
        /\ old \in Seq([object : Objects, stamp : 1..MaxXid])
    BY <1>2, <2>1
  <2>4. PICK new \in Seq([object : Objects, stamp : 1..MaxXid]) :
            new = old \o evs /\ Within(old, new) /\ Within(evs, new)
    <3> DEFINE Ev == [object : Objects, stamp : 1..MaxXid]
    <3>1. old \in Seq(Ev) /\ evs \in Seq(Ev)
      BY <2>2, <2>3
    <3> HIDE DEF old, Ev
    <3>2. old \o evs \in Seq(Ev) /\ Within(old, old \o evs) /\ Within(evs, old \o evs)
      BY <3>1, ConcatElements
    <3> QED
      BY <3>2 DEF Ev
  <2>5. TypeOK'
    <3>1. watcher'.hwm \in 0..MaxXid
      BY <1>2, <2>1, <2>3, VerifierAssumption
    <3> DEFINE Q == Seq([object : Objects, stamp : 1..MaxXid])
    <3>3. watcher' = [alive |-> watcher.alive, hwm |-> watcher'.hwm, events |-> new] /\ new \in Q
      BY <1>2, <2>1, <2>4
    <3>4. watcher.alive \in BOOLEAN
      BY <1>2
    <3> HIDE DEF Q
    <3>5. watcher' \in [alive : BOOLEAN, hwm : 0..MaxXid, events : Q]
      BY <3>1, <3>3, <3>4
    <3> QED
      BY <1>1, <3>5 DEF VerifierInv, TypeOK, dbVars, Q
  <2>6. XidInv'
    <3>1. \A y \in InFlight : x <= y /\ y \in Nat
      BY <2>1 DEF IsXmin, InFlight, VerifierInv, TypeOK, Verifiers
    <3>2. watcher'.hwm < nextXid /\ \A y \in InFlight : watcher'.hwm < y
      BY <1>2, <2>1, <2>3, <3>1 DEF VerifierInv, XidInv
    <3> QED
      BY <1>1, <1>3, <3>2 DEF VerifierInv, XidInv, dbVars
  <2>7. CanaryOnItsWay'
    <3> SUFFICES ASSUME NEW n \in Awaited
                 PROVE  \E i \in DOMAIN new : new[i].object = n
      <4>1. watcher'.events = new
        BY <2>3, <2>4
      <4> QED
        BY <1>3, <4>1 DEF CanaryOnItsWay
    <3>1. watcher.alive /\ n \in Objects
      BY <1>5, NamesFacts, AwaitedFacts DEF Poll
    <3>2. CASE table[n] > watcher.hwm
      <4>1. [object |-> n, stamp |-> table[n]] \in Found
        BY <3>1, <3>2 DEF Found
      <4>2. PICK i \in DOMAIN evs : evs[i].object = n
        BY <2>2, <4>1
      <4> QED
        BY <2>4, <4>2 DEF Within
    <3>3. CASE \E i \in DOMAIN old : old[i].object = n
      BY <2>4, <3>3 DEF Within
    <3> QED
      BY <3>1, <3>2, <3>3 DEF VerifierInv, CanaryOnItsWay
  <2> QED
    BY <1>3, <2>5, <2>6, <2>7 DEF VerifierInv
<1> QED
  BY <1>4, <1>5

-----------------------------------------------------------------------------
(***************************************************************************)
(* The verifier.                                                           *)
(***************************************************************************)

\* A measurement fills the slot that is next.
LEMMA MeasureFills ==
    ASSUME VerifierInv
    PROVE  LET v == Measure(ver) IN
           /\ v = [ver EXCEPT !.idx = v.idx, !.full = v.full, !.measured = ver.measured + 1]
           /\ v.idx \in 0..(RingSize - 1) /\ v.full \in BOOLEAN
           /\ v.idx = (ver.measured + 1) % RingSize
           /\ v.full <=> ver.measured + 1 >= RingSize
<1> DEFINE v == Measure(ver)
<1>1. /\ ver.idx \in 0..(RingSize - 1) /\ ver.full \in BOOLEAN /\ ver.measured \in Nat
      /\ RingSize \in Nat \ {0}
  BY VerifierAssumption DEF VerifierInv, TypeOK, Verifiers
<1>2. /\ v = [ver EXCEPT !.idx = IF ver.idx + 1 >= RingSize THEN 0 ELSE ver.idx + 1,
                         !.full = ver.full \/ ver.idx + 1 >= RingSize,
                         !.measured = ver.measured + 1]
      /\ v.idx = (IF ver.idx + 1 >= RingSize THEN 0 ELSE ver.idx + 1)
      /\ v.full = (ver.full \/ ver.idx + 1 >= RingSize)
  BY DEF Measure, VerifierInv, TypeOK
<1> HIDE DEF v
<1>3. v.idx \in 0..(RingSize - 1) /\ v.full \in BOOLEAN
  BY <1>1, <1>2
<1>4. ver.idx = ver.measured % RingSize /\ (ver.full <=> ver.measured >= RingSize)
  BY DEF VerifierInv, Accounted
<1>5. v.idx = (ver.measured + 1) % RingSize
  BY <1>1, <1>2, <1>4, NextSlot
<1>6. ver.measured < RingSize => ver.idx = ver.measured
  BY <1>1, <1>4
<1>7. v.full <=> ver.measured + 1 >= RingSize
  <2>1. CASE ver.measured >= RingSize
    BY <1>1, <1>2, <1>4, <2>1
  <2>2. CASE ver.measured < RingSize
    <3>1. ~ver.full
      BY <1>1, <1>4, <2>2
    <3>2. v.full <=> ver.idx + 1 >= RingSize
      BY <1>2, <3>1
    <3> QED
      BY <1>6, <2>2, <3>2
  <2> QED
    BY <1>1, <2>1, <2>2
<1> QED
  BY <1>2, <1>3, <1>5, <1>7 DEF v

\* An event is taken: a pending canary is measured, and is no longer awaited.
LEMMA CheckEventKeepsInv ==
    ASSUME VerifierInv, CheckEvent
    PROVE  VerifierInv'
<1> DEFINE T == [object : Objects, stamp : 1..MaxXid]
           old == watcher.events
           e == Head(old)
           arrived == e.object \in ver.pending
<1>1. /\ old \in Seq(T) /\ old # <<>>
      /\ watcher \in [alive : BOOLEAN, hwm : 0..MaxXid, events : Seq(T)]
  BY DEF VerifierInv, TypeOK, CheckEvent
<1>2. /\ e \in T /\ Tail(old) \in Seq(T) /\ e = old[1]
      /\ \A i \in DOMAIN old : i # 1 => \E j \in DOMAIN Tail(old) : Tail(old)[j] = old[i]
  <2> HIDE DEF T, old
  <2>1. e \in T /\ Tail(old) \in Seq(T) /\ e = old[1]
    BY <1>1
  <2>2. ASSUME NEW i \in DOMAIN old, i # 1
        PROVE  i - 1 \in DOMAIN Tail(old) /\ Tail(old)[i - 1] = old[i]
    BY <1>1, <2>2
  <2> QED
    BY <2>1, <2>2
<1>3. /\ watcher' = [watcher EXCEPT !.events = Tail(old)]
      /\ ver.pc = "loop" /\ ver' = Checked(ver, e)
      /\ UNCHANGED <<table, horizon, nextXid, open, restarts>>
  BY DEF CheckEvent, dbVars
<1>4. watcher' \in [alive : BOOLEAN, hwm : 0..MaxXid, events : Seq(T)]
      /\ watcher'.alive = watcher.alive /\ watcher'.hwm = watcher.hwm
      /\ watcher'.events = Tail(old)
  <2> HIDE DEF T
  <2> QED
    BY <1>1, <1>2, <1>3
<1>5. e.object \in Objects /\ e.stamp \in 0..MaxXid
  BY <1>2, VerifierAssumption
<1> HIDE DEF e
<1>6. PICK v : /\ v = IF arrived THEN Measure(ver) ELSE ver
               /\ ver' = [v EXCEPT !.pending = IF arrived THEN @ \ {e.object} ELSE @,
                                   !.hwm = IF e.stamp > @ THEN e.stamp ELSE @]
  BY <1>3 DEF Checked
<1>7. /\ ver \in Verifiers
  BY DEF VerifierInv, TypeOK
<1>8. /\ v \in Verifiers
      /\ v.pc = "loop" /\ v.xid = ver.xid /\ v.hwm = ver.hwm /\ v.count = ver.count
      /\ v.pending = ver.pending /\ v.dropped = ver.dropped /\ v.stale = ver.stale
      /\ v.measured = ver.measured + (IF arrived THEN 1 ELSE 0)
      /\ v.idx = v.measured % RingSize
      /\ v.full <=> v.measured >= RingSize
  <2>1. CASE arrived
    <3> DEFINE i == Measure(ver).idx
               f == Measure(ver).full
    <3>1. /\ v = [ver EXCEPT !.idx = i, !.full = f, !.measured = ver.measured + 1]
          /\ i \in 0..(RingSize - 1) /\ f \in BOOLEAN
          /\ i = (ver.measured + 1) % RingSize /\ (f <=> ver.measured + 1 >= RingSize)
      BY <1>6, <2>1, MeasureFills
    <3> HIDE DEF i, f
    <3>2. ver.measured + 1 \in Nat
      BY <1>7 DEF Verifiers
    <3>3. /\ v \in Verifiers
      BY <1>7, <3>1, <3>2 DEF Verifiers
    <3>4. /\ v.pc = ver.pc /\ v.xid = ver.xid /\ v.hwm = ver.hwm /\ v.count = ver.count
          /\ v.pending = ver.pending /\ v.dropped = ver.dropped /\ v.stale = ver.stale
          /\ v.measured = ver.measured + 1 /\ v.idx = i /\ v.full = f
      BY <1>7, <3>1
    <3> QED
      BY <1>3, <2>1, <3>1, <3>3, <3>4
  <2>2. CASE ~arrived
    BY <1>3, <1>6, <1>7, <2>2 DEF VerifierInv, Accounted, Verifiers
  <2> QED
    BY <2>1, <2>2
<1> DEFINE p == IF arrived THEN ver.pending \ {e.object} ELSE ver.pending
           h == IF e.stamp > ver.hwm THEN e.stamp ELSE ver.hwm
<1>9. /\ ver' = [v EXCEPT !.pending = p, !.hwm = h]
      /\ p \in SUBSET Names /\ h \in 0..MaxXid /\ p \subseteq ver.pending
  BY <1>5, <1>6, <1>7, <1>8 DEF Verifiers
<1> HIDE DEF p, h
<1>10. /\ ver' \in Verifiers
       /\ ver'.pc = "loop" /\ ver'.count = ver.count /\ ver'.pending = p /\ ver'.stale = ver.stale
       /\ ver'.measured = v.measured /\ ver'.dropped = ver.dropped
       /\ ver'.idx = v.idx /\ ver'.full = v.full
  BY <1>8, <1>9 DEF Verifiers
<1>11. TypeOK'
  BY <1>3, <1>4, <1>10 DEF VerifierInv, TypeOK
<1>12. XidInv' /\ PendingInv'
  BY <1>3, <1>4, <1>9, <1>10 DEF VerifierInv, XidInv, PendingInv, InFlight
<1>13. Accounted'
  <2>1. /\ ver.count = ver.measured + ver.dropped + Cardinality(ver.pending)
        /\ Cardinality(ver.pending) <= RingSize /\ RingSize \in Nat
        /\ IsFiniteSet(ver.pending) /\ Cardinality(ver.pending) \in Nat
        /\ ver.measured \in Nat /\ ver.dropped \in Nat
    BY <1>7, AwaitedFacts, VerifierAssumption DEF VerifierInv, Accounted, Verifiers
  <2>2. CASE arrived
    <3>1. Cardinality(p) = Cardinality(ver.pending) - 1
      BY <2>1, <2>2, FS_RemoveElement DEF p
    <3>2. v.measured = ver.measured + 1
      BY <1>8, <2>2
    <3>3. /\ ver.count = (ver.measured + 1) + ver.dropped + (Cardinality(ver.pending) - 1)
          /\ Cardinality(ver.pending) - 1 <= RingSize
      BY <2>1
    <3> QED
      BY <1>8, <1>10, <3>1, <3>2, <3>3 DEF Accounted
  <2>3. CASE ~arrived
    <3>1. p = ver.pending /\ v.measured = ver.measured
      BY <1>7, <1>8, <2>3 DEF p, Verifiers
    <3> QED
      BY <1>8, <1>10, <2>1, <3>1 DEF Accounted
  <2> QED
    BY <2>2, <2>3
<1>14. CanaryOnItsWay'
  <2> SUFFICES ASSUME watcher'.alive, NEW n \in Awaited'
               PROVE  \/ table'[n] > watcher'.hwm
                      \/ \E i \in DOMAIN watcher'.events : watcher'.events[i].object = n
    BY DEF CanaryOnItsWay
  <2>1. n \in p /\ n \in Awaited
    BY <1>3, <1>9, <1>10 DEF Awaited
  <2>2. n # e.object
    BY <1>9, <2>1 DEF p
  <2>3. CASE table[n] > watcher.hwm
    BY <1>3, <1>4, <2>3
  <2>4. CASE \E i \in DOMAIN old : old[i].object = n
    <3>1. PICK i \in DOMAIN old : old[i].object = n
      BY <2>4
    <3>2. i # 1
      BY <1>2, <2>2, <3>1
    <3> QED
      BY <1>2, <1>4, <3>1, <3>2
  <2> QED
    BY <1>4, <2>1, <2>3, <2>4 DEF VerifierInv, CanaryOnItsWay
<1> QED
  BY <1>11, <1>12, <1>13, <1>14 DEF VerifierInv

\* The steps of the canary's write.
LEMMA CanaryKeepsInv ==
    ASSUME VerifierInv, CanaryBegin \/ CanaryCommit \/ CanarySuppressed \/ CanaryFails
    PROVE  VerifierInv'
<1>1. /\ ver \in Verifiers
      /\ table \in [Objects -> 0..MaxXid] /\ nextXid \in 1..(MaxXid + 1) /\ MaxXid \in Nat
      /\ ver.count \in Objects /\ ver.count \in Nat
  BY VerifierAssumption, NamesFacts DEF VerifierInv, TypeOK, Verifiers
<1>2. UNCHANGED <<horizon, open, watcher, restarts>>
  BY DEF CanaryBegin, CanaryCommit, CanarySuppressed, CanaryFails, dbVars
<1>3. /\ ver'.count = ver.count /\ ver'.pending = ver.pending /\ ver'.idx = ver.idx
      /\ ver'.full = ver.full /\ ver'.measured = ver.measured /\ ver'.dropped = ver.dropped
      /\ ver.stale \subseteq ver'.stale
  BY <1>1 DEF CanaryBegin, CanaryCommit, CanarySuppressed, CanaryFails, Verifiers
<1>4. PendingInv' /\ Accounted'
  BY <1>3 DEF VerifierInv, PendingInv, Accounted
<1>5. CASE CanaryBegin
  <2>1. /\ ver' = [ver EXCEPT !.pc = "write", !.xid = nextXid] /\ ver.pc = "loop"
        /\ nextXid' = nextXid + 1 /\ table' = table /\ nextXid \in 0..MaxXid
    BY <1>1, <1>5 DEF CanaryBegin
  <2>2. ver'.pc = "write" /\ ver'.xid = nextXid /\ ver'.stale = ver.stale
    BY <1>1, <2>1
  <2>3. TypeOK'
    <3>1. ver' \in Verifiers
      BY <1>1, <2>1 DEF Verifiers
    <3>2. nextXid' \in 1..(MaxXid + 1)
      BY <1>1, <2>1
    <3> QED
      BY <1>1, <1>2, <2>1, <3>1, <3>2 DEF VerifierInv, TypeOK
  <2>4. XidInv'
    <3>1. InFlight' = open \cup {nextXid} /\ open \subseteq InFlight
      BY <1>2, <2>2 DEF InFlight
    <3>2. /\ \A o \in Objects : table[o] < nextXid + 1
          /\ \A x \in InFlight' : watcher.hwm < x /\ x < nextXid + 1
          /\ watcher.hwm < nextXid + 1
      BY <1>1, <3>1 DEF VerifierInv, XidInv, TypeOK
    <3>3. ver.count + 1 < nextXid + 1
      BY <1>1, <2>1 DEF VerifierInv, XidInv
    <3> QED
      BY <1>2, <1>3, <2>1, <2>2, <3>2, <3>3 DEF XidInv
  <2>5. CanaryOnItsWay'
    BY <1>2, <1>3, <2>1, <2>2 DEF VerifierInv, CanaryOnItsWay, Awaited
  <2> QED
    BY <1>4, <2>3, <2>4, <2>5 DEF VerifierInv
<1>6. CASE CanaryCommit \/ CanarySuppressed \/ CanaryFails
  <2>1. /\ ver.pc = "write" /\ ver'.xid = ver.xid /\ nextXid' = nextXid
        /\ ver'.pc \in {"record", "loop"}
        /\ ver'.pc = "record" => \/ table'[ver.count] = ver.xid
                                 \/ ver.count \in ver'.stale
        /\ \/ table' = table
           \/ table[ver.count] = 0 /\ table' = [table EXCEPT ![ver.count] = ver.xid]
    BY <1>1, <1>6 DEF CanaryCommit, CanarySuppressed, CanaryFails, Land, dbVars, Verifiers
  <2>2. watcher.hwm < ver.xid /\ ver.xid < nextXid
    BY <2>1 DEF VerifierInv, XidInv, InFlight
  <2>3. /\ table' \in [Objects -> 0..MaxXid]
        /\ \A o \in Objects : o # ver.count => table'[o] = table[o]
        /\ table'[ver.count] \in {table[ver.count], ver.xid}
    BY <1>1, <2>1 DEF Verifiers
  <2>4. TypeOK'
    <3>1. ASSUME CanaryCommit \/ CanaryFails PROVE ver' \in Verifiers
      BY <1>1, <3>1 DEF CanaryCommit, CanaryFails, Verifiers
    <3>2. ASSUME CanarySuppressed PROVE ver' \in Verifiers
      <4>1. /\ ver' = [ver EXCEPT !.pc = "record", !.stale = ver.stale \cup {ver.count}]
            /\ ver.stale \cup {ver.count} \in SUBSET Names
        BY <1>1, <3>2 DEF CanarySuppressed, Verifiers
      <4> QED
        BY <1>1, <4>1 DEF Verifiers
    <3>3. ver' \in Verifiers
      BY <1>6, <3>1, <3>2
    <3> QED
      BY <1>2, <2>1, <2>3, <3>3 DEF VerifierInv, TypeOK
  <2>5. XidInv'
    <3>1. \A o \in Objects : table'[o] < nextXid
      BY <2>2, <2>3 DEF VerifierInv, XidInv
    <3>2. InFlight' \subseteq InFlight
      BY <1>2, <2>1 DEF InFlight
    <3>3. ver.count + 1 < nextXid /\ ver.count < nextXid
      BY <1>1, <2>1 DEF VerifierInv, XidInv
    <3> QED
      BY <1>1, <1>2, <1>3, <2>1, <3>1, <3>2, <3>3 DEF VerifierInv, XidInv
  <2>6. CanaryOnItsWay'
    <3> SUFFICES ASSUME watcher.alive, NEW n \in Awaited'
                 PROVE  \/ table'[n] > watcher.hwm
                        \/ \E i \in DOMAIN watcher.events : watcher.events[i].object = n
      BY <1>2 DEF CanaryOnItsWay
    <3>1. CASE n = ver.count
      <4>1. n \notin ver.pending
        BY <1>1, <3>1 DEF VerifierInv, PendingInv
      <4>2. ver'.pc = "record" /\ n \notin ver'.stale
        BY <1>3, <4>1 DEF Awaited
      <4>3. table'[n] = ver.xid
        BY <2>1, <3>1, <4>2
      <4> QED
        BY <1>1, <2>2, <4>3 DEF VerifierInv, TypeOK
    <3>2. CASE n # ver.count
      <4>1. n \in Awaited /\ n \in Objects
        BY <1>1, <1>3, <3>2, NamesFacts DEF Awaited, Verifiers
      <4> QED
        BY <2>3, <3>2, <4>1 DEF VerifierInv, CanaryOnItsWay
    <3> QED
      BY <3>1, <3>2
  <2> QED
    BY <1>4, <2>4, <2>5, <2>6 DEF VerifierInv
<1> QED
  BY <1>5, <1>6

\* A canary is recorded: it takes the place of another one when there is none.
LEMMA RecordKeepsInv ==
    ASSUME VerifierInv, CanaryRecord
    PROVE  VerifierInv'
<1>1. /\ ver \in Verifiers
      /\ nextXid \in 1..(MaxXid + 1) /\ MaxXid \in Nat /\ RingSize \in Nat \ {0}
      /\ ver.count \in Nat /\ ver.count \notin ver.pending
  <2>1. ver \in Verifiers /\ nextXid \in 1..(MaxXid + 1)
    BY DEF VerifierInv, TypeOK
  <2>2. ver.count \in Nat
    BY <2>1, NamesFacts DEF Verifiers
  <2>3. ver.count \notin ver.pending
    BY <2>2 DEF VerifierInv, PendingInv
  <2> QED
    BY <2>1, <2>2, <2>3, VerifierAssumption
<1>2. /\ UNCHANGED <<table, horizon, nextXid, open, watcher, restarts>>
      /\ ver.pc = "record"
  BY DEF CanaryRecord, dbVars
<1>3. /\ ver.count = ver.measured + ver.dropped + Cardinality(ver.pending)
      /\ Cardinality(ver.pending) <= RingSize
      /\ ver.idx = ver.measured % RingSize
      /\ ver.full <=> ver.measured >= RingSize
      /\ IsFiniteSet(ver.pending) /\ Cardinality(ver.pending) \in Nat
      /\ ver.measured \in Nat /\ ver.dropped \in Nat
  BY <1>1, AwaitedFacts DEF VerifierInv, Accounted, Verifiers
<1>4. PICK d \in Nat, p \in SUBSET Names :
        /\ ver' = [ver EXCEPT !.pc = "loop", !.count = ver.count + 1, !.dropped = d, !.pending = p]
        /\ p \subseteq ver.pending \cup {ver.count}
        /\ ver.count + 1 = ver.measured + d + Cardinality(p)
        /\ Cardinality(p) <= RingSize
  <2> DEFINE P == ver.pending
  <2>1. CASE Cardinality(ver.pending) >= RingSize
    <3>1. PICK n \in ver.pending :
            ver' = [ver EXCEPT !.pc = "loop", !.count = @ + 1, !.dropped = @ + 1,
                               !.pending = (@ \ {n}) \cup {ver.count}]
      BY <2>1 DEF CanaryRecord
    <3> DEFINE p == (ver.pending \ {n}) \cup {ver.count}
    <3>2. IsFiniteSet(P \ {n}) /\ Cardinality(P \ {n}) = Cardinality(P) - 1
      BY <1>3, FS_RemoveElement
    <3>3. Cardinality(p) = Cardinality(P)
      <4>1. ver.count \notin P \ {n}
        BY <1>1
      <4>2. Cardinality((P \ {n}) \cup {ver.count}) = Cardinality(P \ {n}) + 1
        BY <3>2, <4>1, FS_AddElement
      <4> QED
        BY <1>3, <3>2, <4>2
    <3>4. /\ ver' = [ver EXCEPT !.pc = "loop", !.count = ver.count + 1,
                                !.dropped = ver.dropped + 1, !.pending = p]
          /\ p \in SUBSET Names /\ p \subseteq ver.pending \cup {ver.count}
      BY <1>1, <3>1 DEF Verifiers
    <3> HIDE DEF p
    <3>5. /\ ver.count + 1 = ver.measured + (ver.dropped + 1) + Cardinality(p)
          /\ Cardinality(p) <= RingSize /\ ver.dropped + 1 \in Nat
      BY <1>3, <3>3
    <3> QED
      BY <3>4, <3>5
  <2>2. CASE ~(Cardinality(ver.pending) >= RingSize)
    <3> DEFINE p == ver.pending \cup {ver.count}
    <3>1. Cardinality(p) = Cardinality(P) + 1
      BY <1>1, <1>3, FS_AddElement
    <3>2. /\ ver' = [ver EXCEPT !.pc = "loop", !.count = ver.count + 1,
                                !.dropped = ver.dropped, !.pending = p]
          /\ p \in SUBSET Names /\ p \subseteq ver.pending \cup {ver.count}
      BY <1>1, <2>2 DEF CanaryRecord, Verifiers
    <3> HIDE DEF p
    <3>3. /\ ver.count + 1 = ver.measured + ver.dropped + Cardinality(p)
          /\ Cardinality(p) <= RingSize
      BY <1>1, <1>3, <2>2, <3>1
    <3> QED
      BY <1>3, <3>2, <3>3
  <2> QED
    BY <2>1, <2>2
<1>5. /\ ver'.pc = "loop" /\ ver'.count = ver.count + 1 /\ ver'.dropped = d /\ ver'.pending = p
      /\ ver'.idx = ver.idx /\ ver'.full = ver.full /\ ver'.measured = ver.measured
      /\ ver'.stale = ver.stale /\ ver'.xid = ver.xid
  BY <1>1, <1>4
<1>6. ver.count + 1 < nextXid
  BY <1>2 DEF VerifierInv, XidInv
<1>7. TypeOK'
  <2>1. ver.count + 1 \in Names
    BY <1>1, <1>6 DEF Names
  <2>2. ver' \in Verifiers
    BY <1>1, <1>4, <2>1 DEF Verifiers
  <2> QED
    BY <1>2, <2>2 DEF VerifierInv, TypeOK
<1>8. XidInv'
  <2>1. InFlight' \subseteq InFlight
    BY <1>2, <1>5 DEF InFlight
  <2> QED
    BY <1>1, <1>2, <1>5, <1>6, <2>1 DEF VerifierInv, XidInv
<1>9. PendingInv'
  <2>1. \A n \in p : n < ver.count + 1
    BY <1>1, <1>4, NamesFacts DEF VerifierInv, PendingInv
  <2> QED
    BY <1>5, <2>1 DEF PendingInv
<1>10. Accounted'
  BY <1>3, <1>4, <1>5 DEF Accounted
<1>11. CanaryOnItsWay'
  <2>1. Awaited' \subseteq Awaited
    BY <1>2, <1>4, <1>5 DEF Awaited
  <2> QED
    BY <1>2, <2>1 DEF VerifierInv, CanaryOnItsWay
<1> QED
  BY <1>7, <1>8, <1>9, <1>10, <1>11 DEF VerifierInv

\* Run returns.
LEMMA ReturnKeepsInv ==
    ASSUME VerifierInv, RunReturns
    PROVE  VerifierInv'
<1>1. /\ ver' = [ver EXCEPT !.pc = "ended"] /\ ver.pc = "loop"
      /\ UNCHANGED <<table, horizon, nextXid, open, watcher, restarts>>
  BY DEF RunReturns, dbVars
<1>2. TypeOK'
  BY <1>1 DEF VerifierInv, TypeOK, Verifiers
<1>3. /\ ver'.pc = "ended" /\ ver'.count = ver.count /\ ver'.dropped = ver.dropped
      /\ ver'.pending = ver.pending /\ ver'.stale = ver.stale
      /\ ver'.idx = ver.idx /\ ver'.full = ver.full /\ ver'.measured = ver.measured
  BY <1>1 DEF VerifierInv, TypeOK
<1>4. XidInv' /\ PendingInv' /\ Accounted' /\ CanaryOnItsWay'
  BY <1>1, <1>3 DEF VerifierInv, XidInv, PendingInv, Accounted, CanaryOnItsWay, Awaited, InFlight
<1> QED
  BY <1>2, <1>4 DEF VerifierInv

\* The process starts anew, and its watcher from 0.
LEMMA RestartKeepsInv ==
    ASSUME VerifierInv, Restart
    PROVE  VerifierInv'
<1>1. /\ watcher' = NewWatcher /\ ver' = NewVerifier /\ restarts' = restarts + 1
      /\ restarts < MaxRestarts
      /\ UNCHANGED <<horizon, nextXid, open>>
      /\ \/ table' = table
         \/ ver.pc = "write" /\ table' = [table EXCEPT ![ver.count] = ver.xid]
  BY DEF Restart, Land
<1>2. /\ table \in [Objects -> 0..MaxXid] /\ nextXid \in 1..(MaxXid + 1) /\ MaxXid \in Nat
      /\ ver.count \in Objects /\ ver.xid \in 0..MaxXid /\ restarts \in 0..MaxRestarts
      /\ MaxRestarts \in Nat /\ RingSize \in Nat \ {0} /\ open \subseteq 1..MaxXid
  BY VerifierAssumption, NamesFacts DEF VerifierInv, TypeOK, Verifiers
<1>3. table' \in [Objects -> 0..MaxXid]
  BY <1>1, <1>2
<1>4. TypeOK'
  <2>1. ver' \in Verifiers
    BY <1>1, <1>2 DEF NewVerifier, Names, Verifiers
  <2>2. watcher' \in [alive : BOOLEAN, hwm : 0..MaxXid,
                      events : Seq([object : Objects, stamp : 1..MaxXid])]
    BY <1>1, <1>2 DEF NewWatcher
  <2>3. restarts' \in 0..MaxRestarts
    BY <1>1, <1>2
  <2> QED
    BY <1>1, <1>3, <2>1, <2>2, <2>3 DEF VerifierInv, TypeOK
<1>5. XidInv'
  <2>1. \A o \in Objects : table'[o] < nextXid
    BY <1>1, <1>2 DEF VerifierInv, XidInv, InFlight
  <2>2. InFlight' = open /\ \A x \in open : 0 < x /\ x < nextXid
    BY <1>1, <1>2 DEF InFlight, NewVerifier, VerifierInv, XidInv
  <2> QED
    BY <1>1, <1>2, <2>1, <2>2 DEF XidInv, NewVerifier, NewWatcher
<1>6. PendingInv' /\ CanaryOnItsWay'
  BY <1>1 DEF PendingInv, CanaryOnItsWay, Awaited, NewVerifier
<1>7. Accounted'
  BY <1>1, <1>2, FS_EmptySet DEF Accounted, NewVerifier
<1> QED
  BY <1>4, <1>5, <1>6, <1>7 DEF VerifierInv

-----------------------------------------------------------------------------
(***************************************************************************)
(* The theorems.                                                           *)
(***************************************************************************)

\* Every step keeps the invariant.
LEMMA NextKeepsInv == VerifierInv /\ [Next]_vars => VerifierInv'
<1> SUFFICES ASSUME VerifierInv, [Next]_vars PROVE VerifierInv'
  OBVIOUS
<1>1. CASE UNCHANGED vars
  BY <1>1 DEF vars, dbVars, VerifierInv, TypeOK, XidInv, PendingInv, Accounted, CanaryOnItsWay,
              Awaited, InFlight
<1> QED
  BY <1>1, DatabaseKeepsInv, WatcherKeepsInv, CheckEventKeepsInv, CanaryKeepsInv, RecordKeepsInv,
     ReturnKeepsInv, RestartKeepsInv DEF Next, Canary

\* For any number of canaries, other objects, restarts and slots of the ring:
\* everything VerifierInv says, the types too.
THEOREM VerifierInvariant == Spec => []VerifierInv
  BY InitInv, NextKeepsInv, PTL DEF Spec

\* The books balance: each canary written is pending, measured or dropped, and
\* the ring's index and flag are what the number of measurements makes them.
THEOREM CanariesAccounted == Spec => []Accounted
<1>1. VerifierInv => Accounted
  BY DEF VerifierInv
<1> QED
  BY <1>1, VerifierInvariant, PTL

\* Completeness: no canary the probe waits for has been passed over by polls,
\* whichever transactions of other sessions are open meanwhile.
THEOREM CanariesOnTheirWay == Spec => []CanaryOnItsWay
<1>1. VerifierInv => CanaryOnItsWay
  BY DEF VerifierInv
<1> QED
  BY <1>1, VerifierInvariant, PTL

=============================================================================
