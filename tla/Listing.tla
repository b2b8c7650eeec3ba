------------------------------ MODULE Listing -------------------------------
(***************************************************************************)
(* client.List with a limit: pages of the rows that match, in the order of *)
(* their stamps.  Each page is a transaction of its own, which skips as    *)
(* many rows as the continue token says, while the sessions of Store write *)
(* and compact between the pages.  pgCache.List is the same code.          *)
(*                                                                         *)
(* A page is a set of objects; their order within a page is left out.  All *)
(* statements of a page read one snapshot, so a page is one step.  A call  *)
(* that fails changes nothing: the caller still has its token.             *)
(***************************************************************************)
EXTENDS Store, FiniteSets, Sequences

CONSTANTS
    InNamespace,    \* the keys in listOpts.Namespace, or all of them
    Requirements,   \* the field selector
    Labels,         \* the specs (with metadata) that match the label selector
    Limit,          \* listOpts.Limit
    Seeds,          \* creates that were committed before, one per key
    HashBits,       \* width of hashtext
    Hash,           \* the hash of each key's namespace
    Replicas        \* the ShardSpecs of the informers that share the table

S == INSTANCE Shard

R == INSTANCE ResourceVersion

ASSUME ListingAssumption ==
    /\ IsFiniteSet(Keys)
    /\ InNamespace \subseteq Keys
    /\ Labels \subseteq Vals
    /\ Limit \in Nat \ {0}
    /\ Seeds \in Seq({r \in Request : r.expected = 0 /\ Admitted(r)})
    /\ HashBits \in Nat \ {0}
    /\ Hash \in [Keys -> S!Hashes(HashBits)]
    /\ \A s \in Replicas : s.mod \in Nat /\ S!Validate(s)
    /\ Requirements \subseteq [field : {"name", "spec", "status"},
                               op : {"=", "==", "!="}, value : Vals \cup Keys]

VARIABLES
    lpc,        \* "first", "more" or "done"
    token,      \* the continue token of the last page
    rv,         \* the resourceVersion of the first page, as a text
    times,      \* how often each object was returned
    copy,       \* the object as it was last returned
    stable,     \* history: matched at the first page, unchanged since
    left,       \* history: rows that left the part already paged over
    entered     \* history: rows that entered it

listVars == <<lpc, token, rv, times, copy, stable, left, entered>>
vars == <<storeVars, listVars>>

-----------------------------------------------------------------------------

\* The column or JSON path a field selector compares; a path that is not there
\* is SQL NULL.
FieldPathToSQL(field, k, row) ==
    CASE field = "name" -> k
      [] field = "spec" -> IF row.spec = Empty THEN Null ELSE row.spec
      [] field = "status" -> IF row.status = Empty THEN Null ELSE row.status

\* A comparison with NULL is not true, whichever way it goes.
SelectionOpToSQL(op, actual, value) ==
    /\ actual # Null
    /\ IF op \in {"=", "=="} THEN actual = value ELSE actual # value

\* The WHERE clause: the clauses of buildListFilter and List's own.
Where(k, row) ==
    /\ Shown(row) # NoRow
    /\ k \in InNamespace
    /\ \A r \in Requirements :
        SelectionOpToSQL(r.op, FieldPathToSQL(r.field, k, row), r.value)

Matching == {k \in Keys : Where(k, rows[k])}

\* ORDER BY txid_stamp: the place of a matching row, from 1.
Place(k) == Cardinality({j \in Matching : rows[j].stamp <= rows[k].stamp})

NoToken == [kind |-> "none"]

EncodeContinue(offset) == [kind |-> "token", offset |-> offset]

DecodeContinue(t) == IF t = NoToken THEN 0 ELSE t.offset

\* Mutant: the offset is taken for the first row to return.
Scan_FromOffset(offset) ==
    {k \in Matching : offset <= Place(k) /\ Place(k) <= offset + Limit}

\* LIMIT and OFFSET.
Scan(offset) == {k \in Matching : offset < Place(k) /\ Place(k) <= offset + Limit}

Returned(ks) == {k \in ks : rows[k].spec \in Labels}

ListingInit ==
    /\ rows = [k \in Keys |->
        IF \E i \in DOMAIN Seeds : Seeds[i].key = k
        THEN LET i == CHOOSE i \in DOMAIN Seeds : Seeds[i].key = k
             IN  Inserted(Seeds[i], i)
        ELSE NoRow]
    /\ nextXid = Cardinality(DOMAIN Seeds) + 1
    /\ horizon = 0
    /\ pc = [c \in Clients |-> "idle"]
    /\ xid = [c \in Clients |-> 0]
    /\ req = [c \in Clients |-> NoReq]
    /\ pend = [c \in Clients |-> NoRow]
    /\ gone = [c \in Clients |-> {}]
    /\ lpc = "first"
    /\ token = NoToken
    /\ rv = <<>>
    /\ times = [k \in Keys |-> 0]
    /\ copy = [k \in Keys |-> NoRow]
    /\ stable = {}
    /\ left = 0
    /\ entered = 0

\* What the caller does with the objects of a page.
Collect(ks) ==
    /\ times' = [k \in Keys |-> IF k \in ks THEN times[k] + 1 ELSE times[k]]
    /\ copy' = [k \in Keys |-> IF k \in ks THEN rows[k] ELSE copy[k]]

\* Mutant: the token is the one of this page.
Continue_SameOffset(scanned) ==
    LET offset == DecodeContinue(token) IN
    IF Cardinality(scanned) = Limit
    THEN lpc' = "more" /\ token' = EncodeContinue(offset)
    ELSE lpc' = "done" /\ UNCHANGED token

\* A full page, before the label selector, comes with a token for the next.
Continue(scanned) ==
    LET offset == DecodeContinue(token) IN
    IF Cardinality(scanned) = Limit
    THEN lpc' = "more" /\ token' = EncodeContinue(offset + Limit)
    ELSE lpc' = "done" /\ UNCHANGED token

\* Mutant: the objects that passed the label selector are counted.
Page_CountsItems ==
    LET scanned == Scan(DecodeContinue(token)) IN
    /\ lpc # "done"
    /\ Collect(Returned(scanned))
    /\ Continue(Returned(scanned))
    /\ IF lpc = "first"
       THEN /\ \E x \in 1..nextXid : IsXmin(x) /\ rv' = R!String(R!RV(0, x - 1))
            /\ stable' = Matching
       ELSE UNCHANGED <<rv, stable>>
    /\ UNCHANGED <<left, entered>>

\* Mutant: a page's resourceVersion is the next transaction id.
Page_CurrentXid ==
    LET scanned == Scan(DecodeContinue(token)) IN
    /\ lpc # "done"
    /\ Collect(Returned(scanned))
    /\ Continue(scanned)
    /\ IF lpc = "first"
       THEN rv' = R!String(R!RV(0, nextXid - 1)) /\ stable' = Matching
       ELSE UNCHANGED <<rv, stable>>
    /\ UNCHANGED <<left, entered>>

\* One call of List.
Page ==
    LET scanned == Scan(DecodeContinue(token)) IN
    /\ lpc # "done"
    /\ Collect(Returned(scanned))
    /\ Continue(scanned)
    /\ IF lpc = "first"
       THEN /\ \E x \in 1..nextXid : IsXmin(x) /\ rv' = R!String(R!RV(0, x - 1))
            /\ stable' = Matching
       ELSE UNCHANGED <<rv, stable>>
    /\ UNCHANGED <<left, entered>>

\* The keys within the part of the order that has been paged over.
Prefix == {k \in Matching : lpc = "more" /\ Place(k) <= DecodeContinue(token)}

StoreStep ==
    LET changed == {k \in Keys : rows'[k] # rows[k]} IN
    /\ StoreNext
    /\ UNCHANGED <<lpc, token, rv, times, copy>>
    /\ stable' = stable \ changed
    /\ left' = left + Cardinality(changed \cap Prefix)
    /\ entered' = entered + Cardinality(changed \cap Prefix')

Next == StoreStep \/ (Page /\ UNCHANGED storeVars)

Spec == ListingInit /\ [][Next]_vars

-----------------------------------------------------------------------------

\* The types: a continue token always skips something, what is returned is a row.
ListingTypeOK ==
    /\ lpc \in {"first", "more", "done"}
    /\ token \in {NoToken} \cup [kind : {"token"}, offset : Nat \ {0}]
    /\ rv \in Seq(R!Token)
    /\ times \in [Keys -> Nat]
    /\ copy \in [Keys -> Row \cup {NoRow}]
    /\ stable \in SUBSET Keys
    /\ left \in Nat /\ entered \in Nat

\* Objects that were there all along and that the pages so far have passed over.
Missed ==
    {k \in Returned(stable) : times[k] = 0 /\ (lpc = "done" \/ k \in Prefix)}

\* OFFSET paging skips an object that matched all along and was not touched
\* only when another one, already paged over, was changed or removed, and one
\* object at most for each such change. In particular the label selector,
\* which is applied after LIMIT, does not end the listing, and a listing
\* during which nobody writes to the objects already returned is complete.
SkipsExplained == Cardinality(Missed) <= left

\* Every time, but the first, that an unchanged object was returned.
Repeats == UNION {{k} \X (2..times[k]) : k \in stable}

\* An object is returned again only when another one was committed into the
\* part already paged over (with a stamp older than its commit), and one
\* object at most for each such commit.
RepeatsExplained == Cardinality(Repeats) <= entered

\* Unchanged objects that were returned and that a later page may return again:
\* they have been pushed out of the part already paged over.
PushedOut == {k \in stable : times[k] > 0 /\ lpc = "more" /\ k \notin Prefix}

\* Each commit into that part pays for one repetition, past or still possible.
RepeatBudget == Cardinality(Repeats) + Cardinality(PushedOut) <= entered

\* The watermark that a watch started from the first page's resourceVersion has.
From == R!Parse(rv).watermark

\* The resourceVersion of the first page is behind every later change of what
\* any page returned: a watch from there brings each copy up to date, or gets
\* 410 Gone. (That of the last page is not: it has moved past changes of what
\* earlier pages returned.)
FirstPageCovers ==
    \A k \in Keys : copy[k] # NoRow =>
        \/ rows[k] = copy[k]
        \/ rows[k] # NoRow /\ rows[k].stamp > From
        \/ rows[k] = NoRow /\ horizon > From

\* Before the first page nothing has been collected, a token leads from each
\* full page to the next, what was collected were objects, what is still
\* unchanged still matches, and whoever is writing has an id above From.
PageInv ==
    /\ lpc = "first" =>
        /\ token = NoToken /\ rv = <<>> /\ stable = {}
        /\ \A k \in Keys : times[k] = 0 /\ copy[k] = NoRow
    /\ lpc = "more" => token # NoToken
    /\ \A k \in Keys : ~Tombstone(copy[k])
    /\ stable \subseteq Matching
    /\ From \in Nat /\ From < nextXid
    /\ \A c \in Clients : InFlight(c) => From < xid[c]

\* The inductive invariant: the store's, that stamps order the rows, and the
\* budgets of skips and repetitions that paging by OFFSET in that order keeps.
ListingInv ==
    /\ StoreInv /\ StampsDistinct
    /\ ListingTypeOK /\ PageInv
    /\ FirstPageCovers /\ SkipsExplained /\ RepeatBudget

\* The residues of the replicas partition 0..Mod-1.
Partitioned ==
    /\ Replicas # {}
    /\ \A s, t \in Replicas :
        /\ s.mod = t.mod
        /\ s # t => s.owned \cap t.owned = {}
        /\ UNION {u.owned : u \in Replicas} = 0..(s.mod - 1)

\* I7: when the residues of the replicas are a partition, every object that
\* readers see is in the informers of exactly one replica, whatever the sign
\* of the hash of its namespace.
ShardsPartition ==
    Partitioned => \A k \in Keys : Shown(rows[k]) # NoRow =>
        \E s \in Replicas : \A t \in Replicas :
            S!Owns(t, Hash[k], HashBits) <=> t = s

=============================================================================
