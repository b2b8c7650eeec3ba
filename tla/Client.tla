------------------------------- MODULE Client -------------------------------
(***************************************************************************)
(* pgClient: controllers that read one object, change their copy and write *)
(* it back with the resourceVersion they hold.  The calls of the client    *)
(* that read the current row and then write are two steps; each write is   *)
(* one call of pgctl_write on the object's row, whose statements act as    *)
(* one (CallIsAtomic of Store).  A create that fails with AlreadyExists    *)
(* because Compact came between its two statements is left out: it changes *)
(* nothing, and succeeds when it is tried again.                           *)
(*                                                                         *)
(* Every edit, deletion timestamp and uid is a fresh number, reserved when *)
(* the call is made, so that all of them are distinct; stamps play no role *)
(* here.  The generation is left out: it changes with the spec, and two    *)
(* specs are never equal.  Get reads into an object of its own, and a      *)
(* controller whose call failed drops the edits it made for it.            *)
(***************************************************************************)
EXTENDS Resource

CONSTANTS
    Actors,           \* controllers
    Key,              \* the object
    MaxCalls,         \* bound: calls that write
    MaxIncarnations,  \* bound: no create is called after that many
    RepliesLost       \* whether a connection may break before the reply

ASSUME ClientAssumption ==
    /\ Key \in Keys
    /\ MaxCalls \in Nat
    /\ MaxIncarnations \in Nat
    /\ RepliesLost \in BOOLEAN
    /\ Vals = 0..MaxCalls

VARIABLES
    row,        \* the object's row or NoRow
    fresh,      \* the next fresh number
    obj,        \* each controller's copy of the object
    pc,         \* "idle", or the write a call goes on to make
    arg,        \* the request of that write
    tid,        \* the number reserved for it
    answer,     \* how each controller's last call ended
    landed,     \* whether that call changed the row
    created     \* creates that succeeded

vars == <<row, fresh, obj, pc, arg, tid, answer, landed, created>>

\* A copy: rv is the object version in its resourceVersion, 0 for none. The
\* field whole is a history variable: all of the copy was read, or written and
\* stored, at version rv.
Copy == [uid : Nat, rv : Nat, spec : Vals, status : Vals, fin : BOOLEAN,
         del : Nat, whole : BOOLEAN]

NoCopy == [uid |-> 0, rv |-> 0, spec |-> 0, status |-> 0, fin |-> FALSE,
           del |-> 0, whole |-> TRUE]

CopyOf(r) == [uid |-> r.uid, rv |-> r.ver, spec |-> r.spec, status |-> r.status,
              fin |-> r.fin, del |-> r.del, whole |-> TRUE]

Codes == {"none", "ok", "suppressed", "conflict", "exists", "notfound",
          "unknown"}

FullWrite(o, n, d) ==
    [statusOnly |-> FALSE, key |-> Key, expected |-> n, force |-> FALSE,
     spec |-> o.spec, status |-> o.status, fin |-> o.fin, del |-> d]

ObjectWrite(o, n, d) == [FullWrite(o, n, d) EXCEPT !.status = Null]

\* Mutant: the status is passed as nil, the way spec and metadata are.
StatusWrite_Nil(o, n) ==
    [FullWrite(o, n, 0) EXCEPT !.statusOnly = TRUE, !.status = Null]

StatusWrite(o, n) == [FullWrite(o, n, 0) EXCEPT !.statusOnly = TRUE]

NoArg == FullWrite(NoCopy, 0, 0)

Init ==
    /\ row = NoRow
    /\ fresh = 1
    /\ obj = [a \in Actors |-> NoCopy]
    /\ pc = [a \in Actors |-> "idle"]
    /\ arg = [a \in Actors |-> NoArg]
    /\ tid = [a \in Actors |-> 0]
    /\ answer = [a \in Actors |-> "none"]
    /\ landed = [a \in Actors |-> FALSE]
    /\ created = 0

Answer(a, code, changed) ==
    /\ pc' = [pc EXCEPT ![a] = "idle"]
    /\ arg' = [arg EXCEPT ![a] = NoArg]
    /\ tid' = [tid EXCEPT ![a] = 0]
    /\ answer' = [answer EXCEPT ![a] = code]
    /\ landed' = [landed EXCEPT ![a] = changed]

\* The call goes on to write request r.
Call(a, call, r) ==
    /\ pc' = [pc EXCEPT ![a] = call]
    /\ arg' = [arg EXCEPT ![a] = r]
    /\ tid' = [tid EXCEPT ![a] = fresh]
    /\ fresh' = fresh + 1
    /\ UNCHANGED <<answer, landed>>

Ready(a) == pc[a] = "idle" /\ fresh <= MaxCalls

\* readCurrentResource: the live or dying object, or NoRow.
Current == Shown(row)

Get(a) ==
    /\ pc[a] = "idle"
    /\ obj' = [obj EXCEPT ![a] = IF Shown(row) = NoRow THEN @ ELSE CopyOf(row)]
    /\ Answer(a, IF Shown(row) = NoRow THEN "notfound" ELSE "ok", FALSE)
    /\ UNCHANGED <<row, fresh, created>>

\* Mutant: Update passes no deletion timestamp.
UpdateRead_NoDeletion(a, edit, fin) ==
    LET o == [obj[a] EXCEPT !.spec = IF edit THEN fresh ELSE @, !.fin = fin] IN
    /\ Ready(a)
    /\ obj[a].rv > 0
    /\ IF Current = NoRow
       THEN Answer(a, "notfound", FALSE) /\ UNCHANGED fresh
       ELSE Call(a, "update", ObjectWrite(o, obj[a].rv, 0))
    /\ UNCHANGED <<row, obj, created>>

\* A controller edits its copy and calls Update: a new spec or the one it has,
\* finalizers kept or removed. The row read here decides NotFound and supplies
\* the deletion timestamp of the write. (Update and Status().Update without a
\* resourceVersion are left out: they fail and write nothing.)
UpdateRead(a, edit, fin) ==
    LET o == [obj[a] EXCEPT !.spec = IF edit THEN fresh ELSE @, !.fin = fin] IN
    /\ Ready(a)
    /\ obj[a].rv > 0
    /\ IF Current = NoRow
       THEN Answer(a, "notfound", FALSE) /\ UNCHANGED fresh
       ELSE Call(a, "update", ObjectWrite(o, obj[a].rv, Current.del))
    /\ UNCHANGED <<row, obj, created>>

StatusUpdate(a, edit) ==
    LET o == [obj[a] EXCEPT !.status = IF edit THEN fresh ELSE @] IN
    /\ Ready(a)
    /\ obj[a].rv > 0
    /\ Call(a, "status", StatusWrite(o, obj[a].rv))
    /\ UNCHANGED <<row, obj, created>>

\* Delete of an object with a resourceVersion writes the caller's copy, with
\* the time of the call as deletion timestamp.
Delete(a) ==
    /\ Ready(a)
    /\ obj[a].rv > 0
    /\ Call(a, "delete", FullWrite(obj[a], obj[a].rv, fresh))
    /\ UNCHANGED <<row, obj, created>>

\* Delete without one reads the current row and writes that.
DeleteRead(a) ==
    /\ Ready(a)
    /\ IF Current = NoRow
       THEN Answer(a, "notfound", FALSE) /\ UNCHANGED fresh
       ELSE Call(a, "delete",
                 FullWrite(Current, Current.ver,
                           IF Current.del # 0 THEN Current.del ELSE fresh))
    /\ UNCHANGED <<row, obj, created>>

Create(a, fin) ==
    LET o == [NoCopy EXCEPT !.spec = fresh, !.fin = fin] IN
    /\ Ready(a)
    /\ created < MaxIncarnations
    /\ Call(a, "create", FullWrite(o, 0, 0))
    /\ UNCHANGED <<row, obj, created>>

\* What the caller's object looks like after a successful write: Update and
\* Status().Update set its resourceVersion to the version returned, whether
\* or not the write was suppressed; Delete leaves it alone.
Written(o, call, r, res) ==
    LET kept == /\ o.whole
                /\ o.uid = res.row.uid
                /\ res.code = "ok" \/ res.ver = o.rv
    IN
    CASE call = "create" -> CopyOf(res.row)
      [] call = "update" -> [o EXCEPT !.rv = res.ver, !.spec = r.spec, !.fin = r.fin,
                                      !.whole = kept]
      [] call = "status" -> [o EXCEPT !.rv = res.ver, !.status = r.status,
                                      !.whole = kept]
      [] OTHER -> o

\* The call of pgctl_write and its answer.
Write(a) ==
    LET res == PgctlWrite(row, arg[a], tid[a]) IN
    /\ pc[a] # "idle"
    /\ row' = res.row
    /\ obj' = [obj EXCEPT ![a] =
         IF res.code \in {"ok", "suppressed"} THEN Written(@, pc[a], arg[a], res) ELSE @]
    /\ created' = IF pc[a] = "create" /\ res.code = "ok" THEN created + 1 ELSE created
    /\ Answer(a, res.code, res.code = "ok")
    /\ UNCHANGED fresh

\* The connection breaks after the server has run the call. The error is an
\* AmbiguousCommitError; the read-back is sent over the connection that broke
\* and fails, and the caller is told that the outcome is not known.
WriteReplyLost(a) ==
    LET res == PgctlWrite(row, arg[a], tid[a]) IN
    /\ RepliesLost
    /\ pc[a] # "idle"
    /\ row' = res.row
    /\ created' = IF pc[a] = "create" /\ res.code = "ok" THEN created + 1 ELSE created
    /\ Answer(a, "unknown", res.code = "ok")
    /\ UNCHANGED <<obj, fresh>>

\* Compact removes a tombstone past its retention time.
Compact ==
    /\ Tombstone(row)
    /\ row' = NoRow
    /\ UNCHANGED <<fresh, obj, pc, arg, tid, answer, landed, created>>

Next ==
    \/ \E a \in Actors :
        \/ Get(a)
        \/ \E edit, fin \in BOOLEAN : UpdateRead(a, edit, fin)
        \/ \E edit \in BOOLEAN : StatusUpdate(a, edit)
        \/ Delete(a)
        \/ DeleteRead(a)
        \/ \E fin \in BOOLEAN : Create(a, fin)
        \/ Write(a)
        \/ WriteReplyLost(a)
    \/ Compact

Spec == Init /\ [][Next]_vars

-----------------------------------------------------------------------------

TypeOK ==
    /\ row \in Row \cup {NoRow}
    /\ fresh \in Nat
    /\ obj \in [Actors -> Copy]
    /\ pc \in [Actors -> {"idle", "update", "status", "delete", "create"}]
    /\ arg \in [Actors -> Request]
    /\ tid \in [Actors -> Nat]
    /\ answer \in [Actors -> Codes]
    /\ landed \in [Actors -> BOOLEAN]
    /\ created \in Nat

\* The copy is of the stored object, by version and by content.
SameVersion(o) == row # NoRow /\ o.rv = row.ver

SameContent(o) == o.spec = row.spec /\ o.status = row.status

\* I6, as far as it holds: a copy that was read or written whole and carries
\* the version now stored for the same object is that object, so the write it
\* is presented with overwrites nothing its holder has not seen.
CopyFaithful ==
    \A a \in Actors :
        obj[a].whole /\ SameVersion(obj[a]) /\ obj[a].uid = row.uid => SameContent(obj[a])

\* What a call that has yet to write will write.
CallInv ==
    \A a \in Actors : pc[a] # "idle" =>
        /\ 0 < tid[a] /\ tid[a] < fresh
        /\ arg[a].status = Null <=> pc[a] = "update"
        /\ arg[a].statusOnly <=> pc[a] = "status"
        /\ arg[a].expected = 0 <=> pc[a] = "create"
        /\ pc[a] \in {"update", "status"} => arg[a].expected = obj[a].rv
        /\ pc[a] = "delete" => arg[a].del # 0

\* The numbers reserved for calls that have yet to write are in no object.
FreshInv ==
    /\ fresh > 0
    /\ row # NoRow => row.uid < fresh /\ row.ver > 0
    /\ \A a \in Actors : obj[a].uid < fresh
    /\ \A a \in Actors : pc[a] # "idle" =>
        /\ row # NoRow => row.uid # tid[a]
        /\ \A b \in Actors : obj[b].uid # tid[a]
        /\ \A b \in Actors : pc[b] # "idle" /\ tid[b] = tid[a] => b = a

\* No copy that is whole is ahead of the object it is of.
CopiesBehind ==
    \A a \in Actors :
        obj[a].whole /\ row # NoRow /\ obj[a].uid = row.uid => obj[a].rv <= row.ver

\* In the first life of a name every copy is of the one object there is, so an
\* update that carries the version stored carries its deletion timestamp too.
FirstLife ==
    /\ created = 0 => row = NoRow /\ \A a \in Actors : obj[a].rv = 0 /\ pc[a] \in {"idle", "create"}
    /\ created <= 1 /\ row # NoRow => \A a \in Actors :
        /\ obj[a].rv <= row.ver
        /\ pc[a] = "update" /\ arg[a].expected = row.ver /\ row.del # 0 => arg[a].del # 0

\* The inductive invariant of the clients of one object.
ClientInv == TypeOK /\ CallInv /\ FreshInv /\ CopiesBehind /\ CopyFaithful /\ FirstLife

\* While a name is not reused, a deletion that was accepted is never undone,
\* although Update writes back a deletion timestamp that it read earlier.
DeletionSticks ==
    [][created' <= 1 /\ row # NoRow /\ row' # NoRow /\ row.del # 0 => row'.del # 0]_vars

\* I6 as documented: an accepted write replaces the spec, or the status, that
\* its holder's copy shows. A suppressed write of a stale copy gives it the
\* current version without the current content, and the next write is accepted.
NoLostUpdate ==
    [][\A a \in Actors :
        /\ pc[a] \in {"update", "status"}
        /\ pc'[a] = "idle" /\ landed'[a]
        /\ obj[a].uid = row.uid
        => IF pc[a] = "update" THEN obj[a].spec = row.spec
                               ELSE obj[a].status = row.status]_vars

\* I6 as documented, over the life of a name: a write based on an object that
\* was deleted since is not accepted on the object created in its place.
WritesOwnObject ==
    [][\A a \in Actors : pc[a] \in {"update", "status"} /\ landed'[a] /\ pc'[a] = "idle" =>
        obj[a].uid = row.uid]_vars

\* Where I6 does hold: an accepted write of a copy that is whole replaces the very
\* spec and status that the copy shows, whatever else was written, and whether
\* or not replies were lost. The refresh of a stale copy by a suppressed write is
\* the one way around it.
WholeCopiesLoseNothing ==
    [][\A a \in Actors :
        /\ pc[a] \in {"update", "status"}
        /\ pc'[a] = "idle" /\ landed'[a]
        /\ obj[a].whole /\ obj[a].uid = row.uid
        => SameContent(obj[a])]_vars

\* While the name has had one object, every copy is of that object.
OneObject ==
    created <= 1 /\ row # NoRow =>
        \A a \in Actors : obj[a].rv > 0 => obj[a].uid = row.uid

\* Reuse of the name is the one way for a write to reach another object than the
\* one it was based on.
FirstLifeWritesOwnObject ==
    [][\A a \in Actors :
        /\ created' <= 1
        /\ pc[a] \in {"update", "status"}
        /\ pc'[a] = "idle" /\ landed'[a]
        => obj[a].uid = row.uid]_vars

\* R5 as documented: an ambiguous commit is resolved by reading the row back, so
\* a write that landed is never reported as anything but a success.
AmbiguityResolved ==
    \A a \in Actors : landed[a] => answer[a] = "ok"

=============================================================================
