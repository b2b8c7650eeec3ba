------------------------------- MODULE Shard --------------------------------
(***************************************************************************)
(* The predicate that restricts an informer's List and Watch to the        *)
(* namespaces of its replica: abs(hashtext(namespace)::bigint) % Mod is    *)
(* one of the owned residues.                                              *)
(***************************************************************************)
EXTENDS Integers

\* What hashtext returns: a signed integer of w bits (32 in PostgreSQL).
Hashes(w) == -(2^(w - 1)) .. (2^(w - 1) - 1)

\* A ShardSpec: the list of owned residues is a set, as Validate refuses
\* duplicates.
Spec(m, owned) == [mod |-> m, owned |-> owned]

Validate(s) ==
    /\ s.mod > 0
    /\ s.owned # {}
    /\ \A o \in s.owned : 0 <= o /\ o < s.mod

\* Mutant: no cast to bigint. PostgreSQL then fails with "integer out of range" for
\* the lowest hash; here it has no absolute value, and so no owner either.
Abs_SameWidth(h, w) ==
    IF h >= 0 \/ h = -(2^(w - 1)) THEN h ELSE -h

\* abs of a bigint: every hash has an absolute value.
Abs(h, w) == IF h >= 0 THEN h ELSE -h

\* SQL's % has the sign of the dividend.
Residue(h, m, w) ==
    IF Abs(h, w) >= 0 THEN Abs(h, w) % m ELSE -((-Abs(h, w)) % m)

\* Which namespaces the clause lets through, by their hash.
Owns(s, h, w) == Residue(h, s.mod, w) \in s.owned

=============================================================================
