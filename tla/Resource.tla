------------------------------ MODULE Resource ------------------------------
(***************************************************************************)
(* A row of the table kubernetes_resources and the pure parts of the       *)
(* stored procedure pgctl_write: what it compares, what it refuses and     *)
(* which row each of its branches leaves behind.                           *)
(*                                                                         *)
(* Abstractions:                                                           *)
(*  - one GVK, so a key stands for (namespace, name);                      *)
(*  - spec stands for the spec column and for the metadata column without  *)
(*    its finalizers; fin says whether metadata->'finalizers' holds any;   *)
(*  - del is the deletion timestamp, 0 for SQL NULL;                       *)
(*  - uid is the id of the transaction that generated the UUID: a          *)
(*    transaction generates at most one and ids are never reused;          *)
(*  - created_at and updated_at are left out (see Compact in Store).       *)
(***************************************************************************)
EXTENDS Integers

CONSTANTS
    Keys,       \* the objects of one GVK
    Vals,       \* values of the JSON columns
    Empty,      \* the value '{}' of such a column
    Null,       \* SQL NULL for the parameter p_status
    NoRow       \* there is no row with that key

Row == [uid : Nat, stamp : Nat, ver : Nat, spec : Vals, status : Vals,
        fin : BOOLEAN, del : Nat]

\* The arguments of pgctl_write. Write, WriteStatus and WriteObject refuse
\* an ExpectedVersion of 0 for everything but a full write with a status.
Request == [statusOnly : BOOLEAN, key : Keys, expected : Nat, force : BOOLEAN,
            spec : Vals, status : Vals \cup {Null}, fin : BOOLEAN, del : Nat]

Admitted(r) ==
    /\ r.statusOnly => r.expected > 0 /\ r.status # Null
    /\ r.status = Null => r.expected > 0

ASSUME RowAssumption ==
    /\ NoRow \notin Row
    /\ Null \notin Vals
    /\ Empty \in Vals

-----------------------------------------------------------------------------

\* Fully deleted: no longer an object for any reader, but still a row.
Tombstone(row) == row # NoRow /\ row.del # 0 /\ ~row.fin

\* What a reader is shown of a row: a live or dying object, or nothing.
Shown(row) == IF row = NoRow \/ Tombstone(row) THEN NoRow ELSE row

\* A write whose content is already stored returns without an upsert.
Suppresses(row, r) ==
    /\ ~r.force
    /\ row # NoRow
    /\ IF r.statusOnly
       THEN row.status = r.status
       ELSE /\ row.spec = r.spec
            /\ r.status \in {Null, row.status}
            /\ row.fin = r.fin
            /\ row.del = r.del

\* The WHERE clause of the two UPDATE branches.
Matches(row, r) == row # NoRow /\ row.ver = r.expected

\* Mutant: a missing COALESCE, a write without a status stores NULL.
Updated_NoCoalesce(row, r, x) ==
    IF r.statusOnly
    THEN [row EXCEPT !.stamp = x, !.ver = @ + 1, !.status = r.status]
    ELSE [row EXCEPT !.stamp = x, !.ver = @ + 1, !.spec = r.spec,
                     !.status = r.status, !.fin = r.fin, !.del = r.del]

\* Mutant: a status write does not restamp the row.
Updated_KeepsStamp(row, r, x) ==
    IF r.statusOnly
    THEN [row EXCEPT !.ver = @ + 1, !.status = r.status]
    ELSE [row EXCEPT !.stamp = x, !.ver = @ + 1, !.spec = r.spec,
                     !.status = IF r.status = Null THEN @ ELSE r.status,
                     !.fin = r.fin, !.del = r.del]

\* Mutant: a status write does not bump the version.
Updated_KeepsVersion(row, r, x) ==
    IF r.statusOnly
    THEN [row EXCEPT !.stamp = x, !.status = r.status]
    ELSE [row EXCEPT !.stamp = x, !.ver = @ + 1, !.spec = r.spec,
                     !.status = IF r.status = Null THEN @ ELSE r.status,
                     !.fin = r.fin, !.del = r.del]

Updated(row, r, x) ==
    IF r.statusOnly
    THEN [row EXCEPT !.stamp = x, !.ver = @ + 1, !.status = r.status]
    ELSE [row EXCEPT !.stamp = x, !.ver = @ + 1, !.spec = r.spec,
                     !.status = IF r.status = Null THEN @ ELSE r.status,
                     !.fin = r.fin, !.del = r.del]

Inserted(r, x) ==
    [uid |-> x, stamp |-> x, ver |-> 1, spec |-> r.spec, status |-> r.status,
     fin |-> r.fin, del |-> r.del]

\* A tombstone taken over by a create: a new object in the old row.
Revived(r, x) ==
    [uid |-> x, stamp |-> x, ver |-> 1, spec |-> r.spec,
     status |-> IF r.status = Null THEN Empty ELSE r.status,
     fin |-> r.fin, del |-> 0]

\* A whole call of pgctl_write on a row no other transaction holds: the row it
\* leaves, its outcome, and the version it returns.
PgctlWrite(row, r, x) ==
    CASE Suppresses(row, r) ->
            [row |-> row, code |-> "suppressed", ver |-> row.ver]
      [] ~Suppresses(row, r) /\ r.expected > 0 /\ Matches(row, r) ->
            [row |-> Updated(row, r, x), code |-> "ok", ver |-> row.ver + 1]
      [] ~Suppresses(row, r) /\ r.expected > 0 /\ ~Matches(row, r) ->
            [row |-> row, code |-> "conflict", ver |-> 0]
      [] ~Suppresses(row, r) /\ r.expected = 0 /\ row = NoRow ->
            [row |-> Inserted(r, x), code |-> "ok", ver |-> 1]
      [] ~Suppresses(row, r) /\ r.expected = 0 /\ Tombstone(row) ->
            [row |-> Revived(r, x), code |-> "ok", ver |-> 1]
      [] OTHER ->
            [row |-> row, code |-> "exists", ver |-> 0]
=============================================================================
