---------------------------- MODULE ClientProofs ----------------------------
(***************************************************************************)
(* Proofs about Client for any number of controllers and calls: what a     *)
(* copy that was read or written whole is worth, and that a deletion is    *)
(* not undone in the first life of a name.                                 *)
(***************************************************************************)
EXTENDS Client, TLAPS

-----------------------------------------------------------------------------
(***************************************************************************)
(* The operators.                                                          *)
(***************************************************************************)

\* A copy of a row has what the row has.
LEMMA CopyFacts ==
    ASSUME NEW r \in Row
    PROVE  /\ CopyOf(r) \in Copy
           /\ CopyOf(r).uid = r.uid /\ CopyOf(r).rv = r.ver /\ CopyOf(r).whole
           /\ CopyOf(r).spec = r.spec /\ CopyOf(r).status = r.status
  BY DEF CopyOf, Copy, Row

\* The copy that a controller without one holds.
LEMMA NoCopyFacts == NoCopy \in Copy /\ NoCopy.uid = 0 /\ NoCopy.rv = 0
  BY ClientAssumption DEF NoCopy, Copy

\* The request of a controller that has none to make.
LEMMA NoArgTyped == NoArg \in Request
  BY ClientAssumption DEF NoArg, NoCopy, FullWrite, Request

\* What an UPDATE leaves: the next version of the same object.
LEMMA UpdatedFacts ==
    ASSUME NEW r \in Request, NEW x \in Nat, NEW old \in Row, r.statusOnly => r.status # Null
    PROVE  LET new == Updated(old, r, x) IN
           /\ new \in Row
           /\ new.uid = old.uid
           /\ new.ver = old.ver + 1
           /\ new.spec = IF r.statusOnly THEN old.spec ELSE r.spec
           /\ new.status = IF r.status = Null THEN old.status ELSE r.status
           /\ new.del = IF r.statusOnly THEN old.del ELSE r.del
<1> DEFINE n == old.ver + 1
           st == IF r.status = Null THEN old.status ELSE r.status
<1>1. n \in Nat /\ st \in Vals /\ r.spec \in Vals /\ r.fin \in BOOLEAN /\ r.del \in Nat
  BY DEF Row, Request
<1>2. CASE r.statusOnly
  <2>1. Updated(old, r, x) = [old EXCEPT !.stamp = x, !.ver = n, !.status = st]
    BY <1>2 DEF Updated
  <2> HIDE DEF n, st
  <2> QED
    BY <1>1, <1>2, <2>1 DEF Row, n, st
<1>3. CASE ~r.statusOnly
  <2>1. Updated(old, r, x) = [old EXCEPT !.stamp = x, !.ver = n, !.spec = r.spec,
                                         !.status = st, !.fin = r.fin, !.del = r.del]
    BY <1>3 DEF Updated
  <2> HIDE DEF n, st
  <2> QED
    BY <1>1, <1>3, <2>1 DEF Row, n, st
<1> QED
  BY <1>2, <1>3

\* What a create leaves, in an empty place or in that of a tombstone.
LEMMA CreatedFacts ==
    ASSUME NEW r \in Request, NEW x \in Nat, r.status # Null
    PROVE  /\ Inserted(r, x) \in Row /\ Inserted(r, x).uid = x /\ Inserted(r, x).ver = 1
           /\ Revived(r, x) \in Row /\ Revived(r, x).uid = x /\ Revived(r, x).ver = 1
  BY RowAssumption DEF Inserted, Revived, Row, Request

\* The outcomes of a call of pgctl_write.
Outcome(r, x, res) ==
    \/ /\ res.code = "suppressed" /\ res.row = row /\ row # NoRow /\ res.ver = row.ver
       /\ IF r.statusOnly THEN row.status = r.status
                          ELSE row.spec = r.spec /\ r.status \in {Null, row.status}
    \/ /\ res.code = "ok" /\ r.expected > 0 /\ row # NoRow /\ row.ver = r.expected
       /\ res.row = Updated(row, r, x) /\ res.ver = row.ver + 1
    \/ /\ res.code = "ok" /\ r.expected = 0 /\ Shown(row) = NoRow
       /\ res.row \in {Inserted(r, x), Revived(r, x)} /\ res.ver = 1
    \/ res.code \in {"conflict", "exists"} /\ res.row = row

\* A call of pgctl_write has one of these outcomes.
LEMMA WriteOutcomes ==
    ASSUME NEW r \in Request, NEW x \in Nat
    PROVE  Outcome(r, x, PgctlWrite(row, r, x))
<1> DEFINE res == PgctlWrite(row, r, x)
<1>0. r.expected \in Nat
  BY DEF Request
<1>1. CASE Suppresses(row, r)
  <2>1. res = [row |-> row, code |-> "suppressed", ver |-> row.ver]
    BY <1>1 DEF PgctlWrite
  <2> QED
    BY <1>1, <2>1 DEF Outcome, Suppresses
<1>2. CASE ~Suppresses(row, r) /\ r.expected > 0 /\ Matches(row, r)
  <2>1. res = [row |-> Updated(row, r, x), code |-> "ok", ver |-> row.ver + 1]
    BY <1>0, <1>2 DEF PgctlWrite
  <2> QED
    BY <1>2, <2>1 DEF Outcome, Matches
<1>3. CASE ~Suppresses(row, r) /\ r.expected > 0 /\ ~Matches(row, r)
  <2>1. res = [row |-> row, code |-> "conflict", ver |-> 0]
    BY <1>0, <1>3 DEF PgctlWrite
  <2> QED
    BY <2>1 DEF Outcome
<1>4. CASE ~Suppresses(row, r) /\ r.expected = 0 /\ row = NoRow
  <2>1. res = [row |-> Inserted(r, x), code |-> "ok", ver |-> 1]
    BY <1>0, <1>4 DEF PgctlWrite, Tombstone
  <2> QED
    BY <1>4, <2>1 DEF Outcome, Shown
<1>5. CASE ~Suppresses(row, r) /\ r.expected = 0 /\ Tombstone(row)
  <2>1. res = [row |-> Revived(r, x), code |-> "ok", ver |-> 1]
    BY <1>0, <1>5 DEF PgctlWrite, Tombstone
  <2> QED
    BY <1>5, <2>1 DEF Outcome, Shown
<1>6. CASE ~Suppresses(row, r) /\ r.expected = 0 /\ row # NoRow /\ ~Tombstone(row)
  <2>1. res = [row |-> row, code |-> "exists", ver |-> 0]
    BY <1>0, <1>6 DEF PgctlWrite
  <2> QED
    BY <2>1 DEF Outcome
<1> QED
  BY <1>0, <1>1, <1>2, <1>3, <1>4, <1>5, <1>6

-----------------------------------------------------------------------------
(***************************************************************************)
(* The steps before a write, and Compact.                                  *)
(***************************************************************************)

\* Nothing was created, nobody holds a copy.
LEMMA InitInv == Init => ClientInv
<1> SUFFICES ASSUME Init PROVE ClientInv
  OBVIOUS
<1>1. TypeOK
  BY NoArgTyped, NoCopyFacts DEF Init, TypeOK, Codes
<1>2. CallInv /\ FreshInv /\ CopiesBehind /\ CopyFaithful /\ FirstLife
  BY NoCopyFacts DEF Init, CallInv, FreshInv, CopiesBehind, CopyFaithful, SameVersion, FirstLife
<1> QED
  BY <1>1, <1>2 DEF ClientInv

\* A call reserves a fresh number and goes on to write what it was given.
LEMMA CallKeepsInv ==
    ASSUME ClientInv, NEW a \in Actors, Ready(a), NEW r \in Request,
           NEW call \in {"update", "status", "delete", "create"},
           Call(a, call, r), UNCHANGED <<row, obj, created>>,
           r.status = Null <=> call = "update",
           r.statusOnly <=> call = "status",
           r.expected = 0 <=> call = "create",
           call \in {"update", "status"} => r.expected = obj[a].rv,
           call = "delete" => r.del # 0,
           call # "create" => created # 0,
           call = "update" /\ row # NoRow => r.del = row.del
    PROVE  ClientInv'
<1> USE DEF Call
<1>1. /\ pc \in [Actors -> {"idle", "update", "status", "delete", "create"}] /\ fresh \in Nat
      /\ arg \in [Actors -> Request] /\ tid \in [Actors -> Nat] /\ pc[a] = "idle"
      /\ obj \in [Actors -> Copy] /\ created \in Nat /\ row \in Row \cup {NoRow}
  BY DEF ClientInv, TypeOK, Ready
<1>2. \A b \in Actors : pc'[b] = (IF b = a THEN call ELSE pc[b])
                       /\ arg'[b] = (IF b = a THEN r ELSE arg[b])
                       /\ tid'[b] = (IF b = a THEN fresh ELSE tid[b])
  BY <1>1
<1>3. TypeOK'
  BY <1>1 DEF ClientInv, TypeOK
<1>4. CallInv'
  BY <1>1, <1>2 DEF ClientInv, CallInv, FreshInv
<1>5. FreshInv'
  <2>1. \A b \in Actors : obj[b].uid \in Nat /\ tid[b] \in Nat
    BY <1>1 DEF Copy
  <2>2. row # NoRow => row.uid \in Nat
    BY <1>1 DEF Row
  <2> QED
    BY <1>1, <1>2, <2>1, <2>2 DEF ClientInv, CallInv, FreshInv
<1>6. CopiesBehind' /\ CopyFaithful'
  BY DEF ClientInv, CopiesBehind, CopyFaithful, SameVersion, SameContent
<1>7. FirstLife'
  BY <1>1, <1>2 DEF ClientInv, FirstLife
<1> QED
  BY <1>3, <1>4, <1>5, <1>6, <1>7 DEF ClientInv

\* A call that only reads ends: the caller's copy is of the row, or as it was.
LEMMA AnswerKeepsInv ==
    ASSUME ClientInv, NEW a \in Actors, NEW code \in Codes, NEW changed \in BOOLEAN,
           Answer(a, code, changed), UNCHANGED <<row, fresh, created>>, pc[a] = "idle",
           \/ obj' = obj
           \/ row # NoRow /\ obj' = [obj EXCEPT ![a] = CopyOf(row)]
    PROVE  ClientInv'
<1> USE DEF Answer
<1>1. /\ pc \in [Actors -> {"idle", "update", "status", "delete", "create"}] /\ fresh \in Nat
      /\ arg \in [Actors -> Request] /\ tid \in [Actors -> Nat]
      /\ obj \in [Actors -> Copy] /\ created \in Nat /\ row \in Row \cup {NoRow}
  BY DEF ClientInv, TypeOK
<1>2. \A b \in Actors : pc'[b] = pc[b] /\ (pc[b] # "idle" => arg'[b] = arg[b] /\ tid'[b] = tid[b])
  BY <1>1
<1>3. obj' \in [Actors -> Copy]
  BY <1>1, CopyFacts
<1>4. \A b \in Actors :
        \/ obj'[b] = obj[b]
        \/ /\ b = a /\ row # NoRow /\ obj'[b].uid = row.uid /\ obj'[b].rv = row.ver
           /\ obj'[b].spec = row.spec /\ obj'[b].status = row.status
  <2>1. CASE obj' = obj
    BY <2>1
  <2>2. CASE row # NoRow /\ obj' = [obj EXCEPT ![a] = CopyOf(row)]
    <3>1. \A b \in Actors : obj'[b] = IF b = a THEN CopyOf(row) ELSE obj[b]
      BY <1>1, <2>2
    <3>2. row \in Row
      BY <1>1, <2>2
    <3> QED
      BY <2>2, <3>1, <3>2, CopyFacts
  <2> QED
    BY <2>1, <2>2
<1>5. TypeOK'
  BY <1>1, <1>3, NoArgTyped DEF ClientInv, TypeOK
<1>6. CallInv' /\ FreshInv'
  BY <1>2, <1>4 DEF ClientInv, CallInv, FreshInv
<1>7. CopiesBehind' /\ CopyFaithful'
  <2>1. row # NoRow => row.ver \in Nat
    BY <1>1 DEF Row
  <2> QED
    BY <1>4, <2>1 DEF ClientInv, CopiesBehind, CopyFaithful, SameVersion, SameContent
<1>8. FirstLife'
  <2>1. row # NoRow => row.ver \in Nat
    BY <1>1 DEF Row
  <2> QED
    BY <1>2, <1>4, <2>1 DEF ClientInv, FirstLife, CallInv
<1> QED
  BY <1>5, <1>6, <1>7, <1>8 DEF ClientInv

\* Compact takes a tombstone away.
LEMMA CompactKeepsInv ==
    ASSUME ClientInv, Compact PROVE ClientInv'
<1> USE DEF Compact, ClientInv
<1>1. TypeOK'
  BY DEF TypeOK
<1>2. CallInv' /\ FreshInv'
  BY DEF CallInv, FreshInv
<1>3. CopiesBehind' /\ CopyFaithful' /\ FirstLife'
  BY DEF CopiesBehind, CopyFaithful, SameVersion, FirstLife, Tombstone
<1> QED
  BY <1>1, <1>2, <1>3

-----------------------------------------------------------------------------
(***************************************************************************)
(* The write of a call.                                                    *)
(***************************************************************************)

\* A call that has written, whether or not its caller learns of it. The copy of
\* a caller that does is the row created, or its old copy with what was written.
WriteEnds(a, code, changed, res) ==
    /\ pc[a] # "idle"
    /\ res = PgctlWrite(row, arg[a], tid[a])
    /\ row' = res.row
    /\ created' = IF pc[a] = "create" /\ res.code = "ok" THEN created + 1 ELSE created
    /\ \/ obj' = obj
       \/ /\ res.code \in {"ok", "suppressed"}
          /\ obj' = [obj EXCEPT ![a] = Written(@, pc[a], arg[a], res)]
    /\ Answer(a, code, changed)
    /\ UNCHANGED fresh

\* Both ends of a call's write are of that form.
LEMMA WritesEnd ==
    ASSUME ClientInv, NEW a \in Actors, Write(a) \/ WriteReplyLost(a)
    PROVE  \E code \in Codes, changed \in BOOLEAN :
                WriteEnds(a, code, changed, PgctlWrite(row, arg[a], tid[a]))
<1> DEFINE res == PgctlWrite(row, arg[a], tid[a])
<1>1. obj \in [Actors -> Copy] /\ arg[a] \in Request /\ tid[a] \in Nat
  BY DEF ClientInv, TypeOK
<1>2. res.code \in Codes
  BY <1>1, WriteOutcomes DEF Outcome, Codes
<1> HIDE DEF res
<1>3. CASE Write(a)
  <2>1. obj' = obj \/ (/\ res.code \in {"ok", "suppressed"}
                     /\ obj' = [obj EXCEPT ![a] = Written(@, pc[a], arg[a], res)])
    BY <1>1, <1>3 DEF Write, res
  <2>2. WriteEnds(a, res.code, res.code = "ok", res)
    BY <1>3, <2>1 DEF Write, WriteEnds, res
  <2> QED
    BY <1>2, <2>2 DEF res
<1>4. CASE WriteReplyLost(a)
  <2>1. WriteEnds(a, "unknown", res.code = "ok", res)
    BY <1>4 DEF WriteReplyLost, WriteEnds, res
  <2> QED
    BY <2>1 DEF res, Codes
<1> QED
  BY <1>3, <1>4

\* What a write may do to the row.
RowMoves(a) ==
    \/ row' = row /\ created' = created
    \/ /\ row # NoRow /\ row' \in Row /\ created' = created /\ pc[a] # "create"
       /\ row.ver = arg[a].expected
       /\ row'.uid = row.uid /\ row'.ver = row.ver + 1
       /\ row'.spec = IF pc[a] = "status" THEN row.spec ELSE arg[a].spec
       /\ row'.status = IF pc[a] = "update" THEN row.status ELSE arg[a].status
       /\ row'.del = IF pc[a] = "status" THEN row.del ELSE arg[a].del
    \/ /\ pc[a] = "create" /\ row' \in Row /\ created' = created + 1
       /\ row'.uid = tid[a] /\ row'.ver = 1

\* What it may do to the copy of its caller.
CopyMoves(a) ==
    \/ obj'[a] = obj[a]
    \/ /\ row' # NoRow /\ obj'[a].uid = row'.uid /\ obj'[a].rv = row'.ver /\ pc[a] = "create"
       /\ obj'[a].spec = row'.spec /\ obj'[a].status = row'.status
    \/ /\ row' # NoRow /\ pc[a] \in {"update", "status"} /\ row # NoRow
       /\ obj'[a].uid = obj[a].uid /\ obj'[a].rv = row'.ver
       /\ obj'[a].whole => /\ obj[a].whole /\ obj[a].uid = row'.uid
                           /\ obj[a].rv = row.ver
       /\ pc[a] = "update" => obj'[a].spec = row'.spec /\ obj'[a].status = obj[a].status
       /\ pc[a] = "status" => obj'[a].status = row'.status /\ obj'[a].spec = obj[a].spec

\* A write moves the row in one of these ways.
LEMMA RowMovesSo ==
    ASSUME ClientInv, NEW a \in Actors, NEW code, NEW changed, NEW res,
           WriteEnds(a, code, changed, res)
    PROVE  RowMoves(a)
<1>1. /\ row \in Row \cup {NoRow} /\ arg[a] \in Request /\ tid[a] \in Nat
      /\ pc[a] \in {"update", "status", "delete", "create"}
  BY DEF ClientInv, TypeOK, WriteEnds
<1>2. /\ arg[a].status = Null <=> pc[a] = "update"
      /\ arg[a].statusOnly <=> pc[a] = "status"
      /\ arg[a].expected = 0 <=> pc[a] = "create"
  BY <1>1 DEF ClientInv, CallInv
<1>3. /\ Outcome(arg[a], tid[a], res) /\ row' = res.row
      /\ created' = IF pc[a] = "create" /\ res.code = "ok" THEN created + 1 ELSE created
  BY <1>1, WriteOutcomes DEF WriteEnds
<1>4. CASE res.code # "ok"
  BY <1>3, <1>4 DEF Outcome, RowMoves
<1>5. CASE /\ res.code = "ok" /\ arg[a].expected > 0 /\ row # NoRow /\ row.ver = arg[a].expected
           /\ res.row = Updated(row, arg[a], tid[a])
  <2>1. row \in Row /\ (arg[a].statusOnly => arg[a].status # Null) /\ pc[a] # "create"
    BY <1>1, <1>2, <1>5
  <2> QED
    BY <1>1, <1>2, <1>3, <1>5, <2>1, UpdatedFacts DEF RowMoves
<1>6. CASE /\ res.code = "ok" /\ arg[a].expected = 0
           /\ res.row \in {Inserted(arg[a], tid[a]), Revived(arg[a], tid[a])}
  BY <1>1, <1>2, <1>3, <1>6, CreatedFacts DEF RowMoves
<1> QED
  BY <1>3, <1>4, <1>5, <1>6 DEF Outcome

\* A write changes the copy of its caller in one of these ways, and no other.
LEMMA CopyMovesSo ==
    ASSUME ClientInv, NEW a \in Actors, NEW code, NEW changed, NEW res,
           WriteEnds(a, code, changed, res)
    PROVE  /\ CopyMoves(a)
           /\ obj' \in [Actors -> Copy]
           /\ \A b \in Actors \ {a} : obj'[b] = obj[b]
<1>1. /\ row \in Row \cup {NoRow} /\ arg[a] \in Request /\ tid[a] \in Nat
      /\ pc[a] \in {"update", "status", "delete", "create"} /\ obj \in [Actors -> Copy]
      /\ obj[a] \in Copy
  BY DEF ClientInv, TypeOK, WriteEnds
<1>2. /\ arg[a].status = Null <=> pc[a] = "update"
      /\ arg[a].statusOnly <=> pc[a] = "status"
      /\ arg[a].expected = 0 <=> pc[a] = "create"
      /\ pc[a] \in {"update", "status"} => arg[a].expected = obj[a].rv
  BY <1>1 DEF ClientInv, CallInv
<1>3. Outcome(arg[a], tid[a], res) /\ row' = res.row
  BY <1>1, WriteOutcomes DEF WriteEnds
<1>4. CASE obj' = obj
  BY <1>1, <1>4 DEF CopyMoves
<1>5. CASE /\ res.code \in {"ok", "suppressed"}
           /\ obj' = [obj EXCEPT ![a] = Written(@, pc[a], arg[a], res)]
  <2> DEFINE w == Written(obj[a], pc[a], arg[a], res)
  <2>1. obj' = [obj EXCEPT ![a] = w]
    BY <1>1, <1>5
  <2>2. RowMoves(a)
    BY RowMovesSo
  <2>3. row' \in Row /\ res.ver = row'.ver /\ res.ver \in Nat
    <3>1. CASE res.code = "suppressed"
      BY <1>1, <1>3, <3>1 DEF Outcome, Row
    <3>2. CASE res.code = "ok" /\ arg[a].expected > 0 /\ row # NoRow
               /\ res.row = Updated(row, arg[a], tid[a]) /\ res.ver = row.ver + 1
      <4>1. row \in Row /\ row.ver \in Nat /\ (arg[a].statusOnly => arg[a].status # Null)
        BY <1>1, <1>2, <3>2 DEF Row
      <4> QED
        BY <1>1, <1>3, <3>2, <4>1, UpdatedFacts
    <3>3. CASE res.code = "ok" /\ arg[a].expected = 0 /\ res.ver = 1
               /\ res.row \in {Inserted(arg[a], tid[a]), Revived(arg[a], tid[a])}
      BY <1>1, <1>2, <1>3, <3>3, CreatedFacts
    <3> QED
      BY <1>3, <1>5, <3>1, <3>2, <3>3 DEF Outcome
  <2> DEFINE kept == obj[a].whole /\ obj[a].uid = res.row.uid /\ (res.code = "ok" \/ res.ver = obj[a].rv)
  <2>4. /\ w \in Copy
        /\ pc[a] = "create" => w = CopyOf(row')
        /\ pc[a] = "delete" => w = obj[a]
        /\ pc[a] \in {"update", "status"} => w.uid = obj[a].uid /\ w.rv = row'.ver /\ w.whole = kept
        /\ pc[a] = "update" => w.spec = arg[a].spec /\ w.status = obj[a].status
        /\ pc[a] = "status" => w.status = arg[a].status /\ w.spec = obj[a].spec
    <3>1. CASE pc[a] = "create"
      BY <1>3, <2>3, <3>1, CopyFacts DEF Written
    <3>2. CASE pc[a] = "delete"
      BY <1>1, <3>2 DEF Written
    <3>3. CASE pc[a] = "update"
      <4>1. arg[a].spec \in Vals /\ arg[a].fin \in BOOLEAN /\ kept \in BOOLEAN
        BY <1>1 DEF Request
      <4>2. w = [obj[a] EXCEPT !.rv = res.ver, !.spec = arg[a].spec, !.fin = arg[a].fin, !.whole = kept]
        BY <3>3 DEF Written
      <4> HIDE DEF w, kept
      <4> QED
        BY <1>1, <2>3, <3>3, <4>1, <4>2 DEF Copy
    <3>4. CASE pc[a] = "status"
      <4>1. arg[a].status \in Vals /\ kept \in BOOLEAN
        BY <1>1, <1>2, <3>4 DEF Request
      <4>2. w = [obj[a] EXCEPT !.rv = res.ver, !.status = arg[a].status, !.whole = kept]
        BY <3>4 DEF Written
      <4> HIDE DEF w, kept
      <4> QED
        BY <1>1, <2>3, <3>4, <4>1, <4>2 DEF Copy
    <3> QED
      BY <1>1, <3>1, <3>2, <3>3, <3>4
  <2> HIDE DEF w
  <2>5. obj'[a] = w /\ obj' \in [Actors -> Copy] /\ \A b \in Actors \ {a} : obj'[b] = obj[b]
    BY <1>1, <2>1, <2>4
  <2>6. CASE pc[a] \in {"update", "status"}
    <3>1. /\ row # NoRow /\ row' # NoRow
          /\ pc[a] = "update" => arg[a].spec = row'.spec
          /\ pc[a] = "status" => arg[a].status = row'.status
      <4>1. CASE res.code = "suppressed"
        BY <1>2, <1>3, <2>6, <4>1 DEF Outcome
      <4>2. CASE res.code = "ok"
        <5>1. arg[a].expected # 0
          BY <1>2, <2>6
        <5>2. row # NoRow /\ res.row = Updated(row, arg[a], tid[a])
          BY <1>3, <4>2, <5>1 DEF Outcome
        <5> QED
          BY <1>1, <1>2, <1>3, <2>3, <2>6, <5>2, UpdatedFacts, RowAssumption
      <4> QED
        BY <1>5, <4>1, <4>2
    <3>2. /\ res.code = "ok" => obj[a].rv = row.ver
          /\ res.code = "suppressed" => res.ver = row.ver
      BY <1>2, <1>3, <2>6 DEF Outcome
    <3> QED
      BY <1>2, <1>3, <1>5, <2>4, <2>5, <2>6, <3>1, <3>2 DEF CopyMoves
  <2>7. CASE pc[a] \in {"create", "delete"}
    BY <2>3, <2>4, <2>5, <2>7, CopyFacts, RowAssumption DEF CopyMoves
  <2> QED
    BY <1>1, <2>5, <2>6, <2>7
<1> QED
  BY <1>4, <1>5 DEF WriteEnds

\* A write keeps the invariant: it moves the row to a version no whole copy of
\* the object has yet, or to an object that nobody has a copy of.
LEMMA WriteKeepsInv ==
    ASSUME ClientInv, NEW a \in Actors, NEW code \in Codes, NEW changed \in BOOLEAN, NEW res,
           WriteEnds(a, code, changed, res)
    PROVE  ClientInv'
<1>1. /\ pc \in [Actors -> {"idle", "update", "status", "delete", "create"}] /\ fresh \in Nat
      /\ arg \in [Actors -> Request] /\ tid \in [Actors -> Nat] /\ created \in Nat
      /\ obj \in [Actors -> Copy] /\ row \in Row \cup {NoRow} /\ pc[a] # "idle"
  BY DEF ClientInv, TypeOK, WriteEnds
<1>2. /\ fresh' = fresh /\ pc'[a] = "idle"
      /\ \A b \in Actors \ {a} : pc'[b] = pc[b] /\ arg'[b] = arg[b] /\ tid'[b] = tid[b]
  BY <1>1 DEF WriteEnds, Answer
<1>3. RowMoves(a)
  BY RowMovesSo
<1>4. /\ CopyMoves(a) /\ obj' \in [Actors -> Copy]
      /\ \A b \in Actors \ {a} : obj'[b] = obj[b]
  BY CopyMovesSo
<1>5. row' \in Row \cup {NoRow} /\ created' \in Nat
  BY <1>1, <1>3 DEF RowMoves
<1>6. /\ row # NoRow => row.ver \in Nat /\ row.uid \in Nat
      /\ row' # NoRow => row'.ver \in Nat /\ row'.uid \in Nat
      /\ \A b \in Actors : obj[b].rv \in Nat /\ obj[b].uid \in Nat /\ tid[b] \in Nat
  BY <1>1, <1>5 DEF Row, Copy
<1>7. TypeOK'
  BY <1>1, <1>2, <1>4, <1>5, NoArgTyped DEF ClientInv, TypeOK, WriteEnds, Answer
<1>8. CallInv'
  BY <1>2, <1>4 DEF ClientInv, CallInv
<1>9. FreshInv'
  <2>1. 0 < tid[a] /\ tid[a] < fresh
    BY <1>1 DEF ClientInv, CallInv
  <2>2. fresh' > 0 /\ (row' # NoRow => row'.uid < fresh' /\ row'.ver > 0)
    BY <1>1, <1>2, <1>3, <1>6, <2>1 DEF ClientInv, FreshInv, RowMoves
  <2>3. \A b \in Actors : obj'[b].uid < fresh'
    BY <1>2, <1>4, <2>2 DEF ClientInv, FreshInv, CopyMoves
  <2>4. ASSUME NEW b \in Actors \ {a}, pc[b] # "idle"
        PROVE  (row' # NoRow => row'.uid # tid[b]) /\ \A c \in Actors : obj'[c].uid # tid[b]
    <3>1. row' # NoRow => row'.uid # tid[b]
      BY <1>1, <1>3, <2>4 DEF ClientInv, FreshInv, RowMoves
    <3> QED
      BY <1>4, <2>4, <3>1 DEF ClientInv, FreshInv, CopyMoves
  <2> QED
    BY <1>2, <2>2, <2>3, <2>4 DEF ClientInv, FreshInv
<1>10. CopiesBehind'
  <2> SUFFICES ASSUME NEW b \in Actors, obj'[b].whole, row' # NoRow, obj'[b].uid = row'.uid
               PROVE  obj'[b].rv <= row'.ver
    BY DEF CopiesBehind
  <2>1. CASE obj'[b] = obj[b]
    BY <1>1, <1>3, <1>6, <2>1 DEF RowMoves, ClientInv, CopiesBehind, FreshInv
  <2>2. CASE obj'[b] # obj[b]
    BY <1>4, <1>6, <2>2 DEF CopyMoves
  <2> QED
    BY <2>1, <2>2
<1>11. CopyFaithful'
  <2> SUFFICES ASSUME NEW b \in Actors, obj'[b].whole, row' # NoRow, obj'[b].rv = row'.ver,
                      obj'[b].uid = row'.uid
               PROVE  obj'[b].spec = row'.spec /\ obj'[b].status = row'.status
    BY DEF CopyFaithful, SameVersion, SameContent
  <2>1. CASE obj'[b] = obj[b]
    BY <1>1, <1>3, <1>6, <2>1
    DEF RowMoves, ClientInv, CopiesBehind, FreshInv, CopyFaithful, SameVersion, SameContent
  <2>2. CASE obj'[b] # obj[b] /\ pc[a] = "create"
    BY <1>4, <2>2 DEF CopyMoves
  <2>3. CASE obj'[b] # obj[b] /\ pc[a] # "create"
    <3>1. b = a /\ row # NoRow /\ obj[a].whole /\ obj[a].uid = row'.uid /\ obj[a].rv = row.ver
      BY <1>4, <2>3 DEF CopyMoves
    <3>2. row'.uid = row.uid
      BY <1>3, <2>3 DEF RowMoves
    <3>3. obj[a].spec = row.spec /\ obj[a].status = row.status
      BY <3>1, <3>2 DEF ClientInv, CopyFaithful, SameVersion, SameContent
    <3> QED
      BY <1>3, <1>4, <2>3, <3>1, <3>3 DEF CopyMoves, RowMoves
  <2> QED
    BY <2>1, <2>2, <2>3
<1>12. FirstLife'
  <2>1. ASSUME created' = 0
        PROVE  row' = NoRow /\ \A b \in Actors : obj'[b].rv = 0 /\ pc'[b] \in {"idle", "create"}
    <3>1. created = 0 /\ row' = row /\ row = NoRow
      BY <1>1, <1>3, <2>1 DEF ClientInv, FirstLife, RowMoves
    <3> QED
      BY <1>2, <1>4, <3>1 DEF ClientInv, FirstLife, CopyMoves
  <2>2. ASSUME created' <= 1, row' # NoRow, NEW b \in Actors
        PROVE  /\ obj'[b].rv <= row'.ver
               /\ pc'[b] = "update" /\ arg'[b].expected = row'.ver /\ row'.del # 0 => arg'[b].del # 0
    <3>1. CASE row' = row /\ created' = created
      <4>1. obj[b].rv <= row.ver
        BY <2>2, <3>1 DEF ClientInv, FirstLife
      <4>2. obj'[b].rv <= row'.ver
        BY <1>4, <1>6, <2>2, <3>1, <4>1 DEF CopyMoves
      <4> QED
        BY <1>2, <2>2, <3>1, <4>2 DEF ClientInv, FirstLife
    <3>2. CASE row # NoRow /\ created' = created /\ row'.ver = row.ver + 1
      <4>1. obj[b].rv <= row.ver
        BY <2>2, <3>2 DEF ClientInv, FirstLife
      <4>2. obj'[b].rv <= row'.ver
        BY <1>4, <1>6, <2>2, <3>2, <4>1 DEF CopyMoves
      <4>3. pc'[b] = "update" => arg'[b].expected = obj[b].rv
        BY <1>2 DEF ClientInv, CallInv
      <4> QED
        BY <1>6, <2>2, <3>2, <4>1, <4>2, <4>3
    <3>3. CASE created' = created + 1 /\ row'.ver = 1
      <4>1. created = 0
        BY <1>1, <2>2, <3>3
      <4>2. obj[b].rv = 0 /\ pc[b] \in {"idle", "create"}
        BY <4>1 DEF ClientInv, FirstLife
      <4> QED
        BY <1>2, <1>4, <1>6, <3>3, <4>2 DEF CopyMoves
    <3> QED
      BY <1>3, <3>1, <3>2, <3>3 DEF RowMoves
  <2> QED
    BY <2>1, <2>2 DEF FirstLife
<1> QED
  BY <1>7, <1>8, <1>9, <1>10, <1>11, <1>12 DEF ClientInv

-----------------------------------------------------------------------------
(***************************************************************************)
(* The theorems.                                                           *)
(***************************************************************************)

\* The calls of a controller up to the write.
LEMMA CallsKeepInv ==
    ASSUME ClientInv, NEW a \in Actors, NEW edit \in BOOLEAN, NEW fin \in BOOLEAN,
           UpdateRead(a, edit, fin) \/ StatusUpdate(a, edit) \/ Delete(a) \/ DeleteRead(a) \/ Create(a, fin)
    PROVE  ClientInv'
<1>1. /\ obj[a] \in Copy /\ obj[a].spec \in Vals /\ obj[a].status \in Vals
      /\ obj[a].fin \in BOOLEAN /\ obj[a].rv \in Nat
      /\ row \in Row \cup {NoRow} /\ pc[a] = "idle" /\ Ready(a) /\ UNCHANGED <<row, obj, created>>
      /\ fresh \in Nat /\ fresh > 0 /\ fresh \in Vals
  <2>1. pc[a] = "idle" /\ Ready(a) /\ fresh <= MaxCalls /\ UNCHANGED <<row, obj, created>>
    BY DEF UpdateRead, StatusUpdate, Delete, DeleteRead, Create, Ready
  <2>2. obj[a] \in Copy /\ row \in Row \cup {NoRow} /\ fresh \in Nat /\ fresh > 0
    BY DEF ClientInv, TypeOK, FreshInv
  <2>3. fresh \in Vals
    BY <2>1, <2>2, ClientAssumption
  <2> QED
    BY <2>1, <2>2, <2>3 DEF Copy
<1>2. obj[a].rv > 0 \/ row # NoRow => created # 0
  BY <1>1 DEF ClientInv, FirstLife
<1>3. Current # NoRow => Current = row /\ row \in Row
  BY <1>1 DEF Current, Shown
<1>4. ASSUME Current = NoRow, Answer(a, "notfound", FALSE), UNCHANGED fresh
      PROVE  ClientInv'
  BY <1>1, <1>4, AnswerKeepsInv DEF Codes
<1>5. CASE UpdateRead(a, edit, fin)
  <2> DEFINE o == [obj[a] EXCEPT !.spec = IF edit THEN fresh ELSE @, !.fin = fin]
             r == ObjectWrite(o, obj[a].rv, Current.del)
  <2>1. o.spec \in Vals /\ o.status \in Vals /\ o.fin \in BOOLEAN
    BY <1>1 DEF Copy
  <2>2. obj[a].rv > 0
    BY <1>5 DEF UpdateRead
  <2>3. CASE Current # NoRow
    <3>1. Call(a, "update", r)
      BY <1>5, <2>3 DEF UpdateRead
    <3>2. Current.del \in Nat /\ Current.del = row.del
      BY <1>3, <2>3 DEF Row
    <3> HIDE DEF o
    <3>3. /\ r \in Request /\ r.status = Null /\ r.statusOnly = FALSE
          /\ r.expected = obj[a].rv /\ r.del = row.del
      BY <1>1, <2>1, <3>2, ClientAssumption DEF ObjectWrite, FullWrite, Request
    <3> HIDE DEF r
    <3> QED
      BY <1>1, <1>2, <2>2, <3>1, <3>3, CallKeepsInv
  <2> QED
    BY <1>4, <1>5, <2>3 DEF UpdateRead
<1>6. CASE StatusUpdate(a, edit)
  <2> DEFINE o == [obj[a] EXCEPT !.status = IF edit THEN fresh ELSE @]
             r == StatusWrite(o, obj[a].rv)
  <2>1. o.spec \in Vals /\ o.status \in Vals /\ o.fin \in BOOLEAN
    BY <1>1 DEF Copy
  <2>2. obj[a].rv > 0 /\ Call(a, "status", r)
    BY <1>6 DEF StatusUpdate
  <2> HIDE DEF o
  <2>3. r \in Request /\ r.status # Null /\ r.statusOnly = TRUE /\ r.expected = obj[a].rv
    BY <1>1, <2>1, RowAssumption, ClientAssumption DEF StatusWrite, FullWrite, Request
  <2> HIDE DEF r
  <2> QED
    BY <1>1, <1>2, <2>2, <2>3, CallKeepsInv
<1>7. CASE Delete(a)
  <2> DEFINE r == FullWrite(obj[a], obj[a].rv, fresh)
  <2>1. obj[a].rv > 0 /\ Call(a, "delete", r)
    BY <1>7 DEF Delete
  <2>2. /\ r \in Request /\ r.status # Null /\ r.statusOnly = FALSE
        /\ r.expected = obj[a].rv /\ r.del # 0
    BY <1>1, RowAssumption, ClientAssumption DEF FullWrite, Request
  <2> HIDE DEF r
  <2> QED
    BY <1>1, <1>2, <2>1, <2>2, CallKeepsInv
<1>8. CASE DeleteRead(a)
  <2> DEFINE d == IF Current.del # 0 THEN Current.del ELSE fresh
             r == FullWrite(Current, Current.ver, d)
  <2>1. CASE Current # NoRow
    <3>1. Call(a, "delete", r)
      BY <1>8, <2>1 DEF DeleteRead
    <3>2. /\ Current.spec \in Vals /\ Current.status \in Vals /\ Current.fin \in BOOLEAN
          /\ Current.ver \in Nat /\ d \in Nat /\ d # 0 /\ Current.ver > 0 /\ row # NoRow
      BY <1>1, <1>3, <2>1, RowAssumption DEF Row, ClientInv, FreshInv
    <3> HIDE DEF d
    <3>3. /\ r \in Request /\ r.status # Null /\ r.statusOnly = FALSE
          /\ r.expected = Current.ver /\ r.del # 0
      BY <3>2, RowAssumption, ClientAssumption DEF FullWrite, Request
    <3> HIDE DEF r
    <3> QED
      BY <1>1, <1>2, <3>1, <3>2, <3>3, CallKeepsInv
  <2> QED
    BY <1>4, <1>8, <2>1 DEF DeleteRead
<1>9. CASE Create(a, fin)
  <2> DEFINE o == [NoCopy EXCEPT !.spec = fresh, !.fin = fin]
             r == FullWrite(o, 0, 0)
  <2>1. o.spec \in Vals /\ o.status \in Vals /\ o.fin \in BOOLEAN
    BY <1>1, ClientAssumption DEF NoCopy
  <2>2. Call(a, "create", r)
    BY <1>9 DEF Create
  <2> HIDE DEF o
  <2>3. r \in Request /\ r.status # Null /\ r.statusOnly = FALSE /\ r.expected = 0
    BY <2>1, RowAssumption, ClientAssumption DEF FullWrite, Request
  <2> HIDE DEF r
  <2> QED
    BY <1>1, <2>2, <2>3, CallKeepsInv
<1> QED
  BY <1>5, <1>6, <1>7, <1>8, <1>9

\* Every step keeps the invariant.
LEMMA NextKeepsInv == ClientInv /\ [Next]_vars => ClientInv'
<1> SUFFICES ASSUME ClientInv, [Next]_vars PROVE ClientInv'
  OBVIOUS
<1>1. ASSUME NEW a \in Actors, Get(a) PROVE ClientInv'
  <2>1. row # NoRow => (Shown(row) = NoRow \/ Shown(row) = row)
    BY DEF Shown
  <2>2. CASE Shown(row) = NoRow
    <3>1. obj' = obj
      BY <1>1, <2>2 DEF Get, ClientInv, TypeOK
    <3> QED
      BY <1>1, <2>2, <3>1, AnswerKeepsInv DEF Get, Codes
  <2>3. CASE Shown(row) # NoRow
    <3>1. row # NoRow /\ obj' = [obj EXCEPT ![a] = CopyOf(row)]
      BY <1>1, <2>3 DEF Get, Shown
    <3> QED
      BY <1>1, <2>3, <3>1, AnswerKeepsInv DEF Get, Codes
  <2> QED
    BY <2>2, <2>3
<1>2. ASSUME NEW a \in Actors, Write(a) \/ WriteReplyLost(a) PROVE ClientInv'
  BY <1>2, WritesEnd, WriteKeepsInv
<1>3. CASE Compact
  BY <1>3, CompactKeepsInv
<1>4. CASE UNCHANGED vars
  BY <1>4 DEF vars, ClientInv, TypeOK, CallInv, FreshInv, CopiesBehind, CopyFaithful,
              SameVersion, SameContent, FirstLife
<1> QED
  BY <1>1, <1>2, <1>3, <1>4, CallsKeepInv DEF Next

\* For any number of controllers, calls and lives of the name, with replies lost
\* or not: everything ClientInv says of rows, copies and pending writes.
THEOREM ClientInvariant == Spec => []ClientInv
  BY InitInv, NextKeepsInv, PTL DEF Spec

\* I6, as far as it holds, for any number of controllers and calls.
THEOREM CopiesFaithful == Spec => []CopyFaithful
<1>1. ClientInv => CopyFaithful
  BY DEF ClientInv
<1> QED
  BY <1>1, ClientInvariant, PTL

\* A deletion that was accepted is not undone while its name is not reused, for
\* any number of controllers that update, patch and delete the object at once.
THEOREM DeletionsStick == Spec => DeletionSticks
<1>1. ClientInv /\ [Next]_vars =>
        [created' <= 1 /\ row # NoRow /\ row' # NoRow /\ row.del # 0 => row'.del # 0]_vars
  <2> SUFFICES ASSUME ClientInv, [Next]_vars, created' <= 1, row # NoRow, row' # NoRow, row.del # 0
               PROVE  row'.del # 0
    BY DEF vars
  <2>1. CASE UNCHANGED row
    BY <2>1
  <2>2. ASSUME NEW a \in Actors, Write(a) \/ WriteReplyLost(a) PROVE row'.del # 0
    <3>1. PICK code \in Codes, changed \in BOOLEAN :
                WriteEnds(a, code, changed, PgctlWrite(row, arg[a], tid[a]))
      BY <2>2, WritesEnd
    <3>2. RowMoves(a)
      BY <3>1, RowMovesSo
    <3>3. created \in Nat /\ created # 0 /\ pc[a] \in {"update", "status", "delete", "create"}
      BY <3>1 DEF ClientInv, TypeOK, FirstLife, WriteEnds
    <3>4. CASE created' = created /\ pc[a] # "create" /\ row.ver = arg[a].expected
               /\ row'.del = IF pc[a] = "status" THEN row.del ELSE arg[a].del
      <4>1. pc[a] = "delete" => arg[a].del # 0
        BY DEF ClientInv, CallInv
      <4>2. pc[a] = "update" => arg[a].del # 0
        BY <3>4 DEF ClientInv, FirstLife
      <4> QED
        BY <3>3, <3>4, <4>1, <4>2
    <3> QED
      BY <3>2, <3>3, <3>4 DEF RowMoves
  <2> QED
    BY <2>1, <2>2 DEF Next, Get, UpdateRead, StatusUpdate, Delete, DeleteRead, Create, Compact, vars
<1> QED
  BY <1>1, ClientInvariant, PTL DEF Spec, DeletionSticks

-----------------------------------------------------------------------------
\* The bounds of the two lost-update findings.

\* A write that ends and has changed the row found the version that its caller's
\* copy has.
LEMMA LandedMatched ==
    ASSUME ClientInv, [Next]_vars, NEW a \in Actors, pc[a] \in {"update", "status"},
           pc'[a] = "idle", landed'[a]
    PROVE  SameVersion(obj[a]) /\ created' = created /\ obj[a].rv > 0
<1>1. /\ pc \in [Actors -> {"idle", "update", "status", "delete", "create"}]
      /\ arg \in [Actors -> Request] /\ tid \in [Actors -> Nat]
      /\ landed \in [Actors -> BOOLEAN] /\ row \in Row \cup {NoRow}
  BY DEF ClientInv, TypeOK
<1>2. ASSUME NEW b \in Actors, b # a, Write(b) \/ WriteReplyLost(b) PROVE pc'[a] = pc[a]
  BY <1>1, <1>2 DEF Write, WriteReplyLost, Answer
<1>3. ASSUME NEW b \in Actors, pc[b] = "idle",
             \/ \E code : Answer(b, code, FALSE)
             \/ \E call, r : Call(b, call, r)
      PROVE  pc'[a] = pc[a]
  BY <1>1, <1>3 DEF Answer, Call
<1>4. Write(a) \/ WriteReplyLost(a)
  <2>1. pc'[a] # pc[a]
    OBVIOUS
  <2>2. ~UNCHANGED vars /\ ~Compact
    BY <2>1 DEF vars, Compact
  <2>3. PICK b \in Actors :
           \/ Get(b)
           \/ \E edit, fin \in BOOLEAN : UpdateRead(b, edit, fin)
           \/ \E edit \in BOOLEAN : StatusUpdate(b, edit)
           \/ Delete(b)
           \/ DeleteRead(b)
           \/ \E fin \in BOOLEAN : Create(b, fin)
           \/ Write(b)
           \/ WriteReplyLost(b)
    BY <2>2 DEF Next
  <2>4. ASSUME ~(Write(b) \/ WriteReplyLost(b)) PROVE FALSE
    <3>1. /\ pc[b] = "idle"
          /\ \/ \E code : Answer(b, code, FALSE)
             \/ \E call, r : Call(b, call, r)
      BY <2>3, <2>4 DEF Get, UpdateRead, StatusUpdate, Delete, DeleteRead, Create, Ready
    <3> QED
      BY <1>3, <2>1, <3>1
  <2> QED
    BY <1>2, <2>1, <2>4
<1> DEFINE res == PgctlWrite(row, arg[a], tid[a])
<1>5. res.code = "ok" /\ created' = created
  <2> HIDE DEF res
  <2>1. landed' = [landed EXCEPT ![a] = (res.code = "ok")]
    BY <1>4 DEF Write, WriteReplyLost, Answer, res
  <2>2. pc[a] # "create"
    OBVIOUS
  <2> QED
    BY <1>1, <1>4, <2>1, <2>2 DEF Write, WriteReplyLost, res
<1>6. Outcome(arg[a], tid[a], res)
  BY <1>1, WriteOutcomes
<1> HIDE DEF res
<1>7. arg[a].expected # 0 /\ arg[a].expected = obj[a].rv
  BY DEF ClientInv, CallInv
<1>8. row # NoRow /\ row.ver = obj[a].rv
  BY <1>5, <1>6, <1>7 DEF Outcome
<1>9. obj[a].rv \in Nat
  BY DEF ClientInv, TypeOK, Copy
<1> QED
  BY <1>5, <1>7, <1>8, <1>9 DEF SameVersion

\* I6 where it holds, for any number of controllers, calls and lives of the name: a
\* write that pgctl_write accepts from a copy read or written whole replaces what that
\* copy shows. So the refresh of a stale copy by a suppressed write, in
\* pgClient.Update, is all there is to the lost update.
THEOREM WholeCopiesSafe == Spec => WholeCopiesLoseNothing
<1> DEFINE A == \A a \in Actors :
        /\ pc[a] \in {"update", "status"}
        /\ pc'[a] = "idle" /\ landed'[a]
        /\ obj[a].whole /\ obj[a].uid = row.uid
        => SameContent(obj[a])
<1>1. ClientInv /\ [Next]_vars => [A]_vars
  <2> SUFFICES ASSUME ClientInv, [Next]_vars, NEW a \in Actors, pc[a] \in {"update", "status"},
                      pc'[a] = "idle", landed'[a], obj[a].whole, obj[a].uid = row.uid
               PROVE  SameContent(obj[a])
    OBVIOUS
  <2>1. SameVersion(obj[a])
    BY LandedMatched
  <2> QED
    BY <2>1 DEF ClientInv, CopyFaithful
<1> QED
  BY <1>1, ClientInvariant, PTL DEF Spec, WholeCopiesLoseNothing

\* Copies are of the one object of the name, until it has another.
LEMMA OneObjectNext == ClientInv /\ OneObject /\ [Next]_vars => OneObject'
<1> SUFFICES ASSUME ClientInv, OneObject, [Next]_vars, created' <= 1, row' # NoRow,
                    NEW a \in Actors, obj'[a].rv > 0
             PROVE  obj'[a].uid = row'.uid
  BY DEF OneObject
<1>1. obj \in [Actors -> Copy] /\ row \in Row \cup {NoRow} /\ created \in Nat
  BY DEF ClientInv, TypeOK
<1>2. CASE UNCHANGED <<row, obj, created>>
  BY <1>2 DEF OneObject
<1>3. ASSUME NEW b \in Actors, Get(b) PROVE obj'[a].uid = row'.uid
  <2>1. UNCHANGED <<row, created>> /\ row # NoRow
    BY <1>3 DEF Get
  <2>2. obj'[a] = obj[a] \/ obj'[a] = CopyOf(row)
    BY <1>1, <1>3 DEF Get
  <2>3. CopyOf(row).uid = row.uid
    BY <1>1, <2>1, CopyFacts
  <2> QED
    BY <2>1, <2>2, <2>3 DEF OneObject
<1>4. ASSUME NEW b \in Actors, Write(b) \/ WriteReplyLost(b) PROVE obj'[a].uid = row'.uid
  <2>1. PICK code \in Codes, changed \in BOOLEAN :
              WriteEnds(b, code, changed, PgctlWrite(row, arg[b], tid[b]))
    BY <1>4, WritesEnd
  <2>2. RowMoves(b)
    BY <2>1, RowMovesSo
  <2>3. CopyMoves(b) /\ \A c \in Actors \ {b} : obj'[c] = obj[c]
    BY <2>1, CopyMovesSo
  <2>4. CASE row # NoRow /\ created' = created /\ row'.uid = row.uid
    <3>1. \A c \in Actors : obj[c].rv > 0 => obj[c].uid = row.uid
      BY <2>4 DEF OneObject
    <3>2. CASE obj'[a] = obj[a]
      BY <2>4, <3>1, <3>2
    <3>3. CASE a = b /\ obj'[a].uid = row'.uid
      BY <3>3
    <3>4. CASE a = b /\ pc[a] \in {"update", "status"} /\ obj'[a].uid = obj[a].uid
      <4>1. obj[a].rv # 0 /\ obj[a].rv \in Nat
        BY <1>1, <3>4 DEF ClientInv, CallInv, Copy
      <4> QED
        BY <2>4, <3>1, <3>4, <4>1
    <3> QED
      BY <2>3, <3>2, <3>3, <3>4 DEF CopyMoves
  <2>5. CASE pc[b] = "create" /\ created' = created + 1
    <3>1. created = 0
      BY <1>1, <2>5
    <3>2. \A c \in Actors : obj[c].rv = 0
      BY <3>1 DEF ClientInv, FirstLife
    <3> QED
      BY <2>3, <2>5, <3>2 DEF CopyMoves
  <2> QED
    BY <2>2, <2>4, <2>5 DEF RowMoves
<1> QED
  BY <1>2, <1>3, <1>4 DEF Next, UpdateRead, StatusUpdate, Delete, DeleteRead, Create, Compact, vars

\* A write based on one object is accepted on another only when the name has been
\* reused, for any number of controllers and calls: versions that restart at 1 are
\* all there is to that finding.
THEOREM FirstLifeSafe == Spec => FirstLifeWritesOwnObject
<1> DEFINE A == \A a \in Actors :
        /\ created' <= 1
        /\ pc[a] \in {"update", "status"}
        /\ pc'[a] = "idle" /\ landed'[a]
        => obj[a].uid = row.uid
<1>1. Init => OneObject
  BY DEF Init, OneObject
<1>2. ClientInv /\ OneObject /\ [Next]_vars => [A]_vars
  <2> SUFFICES ASSUME ClientInv, OneObject, [Next]_vars, NEW a \in Actors, created' <= 1,
                      pc[a] \in {"update", "status"}, pc'[a] = "idle", landed'[a]
               PROVE  obj[a].uid = row.uid
    OBVIOUS
  <2>1. SameVersion(obj[a]) /\ created' = created /\ obj[a].rv > 0
    BY LandedMatched
  <2> QED
    BY <2>1 DEF OneObject, SameVersion
<1>3. Spec => []OneObject
  BY <1>1, OneObjectNext, ClientInvariant, PTL DEF Spec
<1> QED
  BY <1>2, <1>3, ClientInvariant, PTL DEF Spec, FirstLifeWritesOwnObject

=============================================================================
