------------------------------ MODULE MCStore -------------------------------
(***************************************************************************)
(* Small instances of Store.                                               *)
(***************************************************************************)
EXTENDS Store, TLC

CONSTANTS k1, k2, c1, c2, c3, v1, v2

\* Every kind of call for key k: create (of a live object or, as the tests of
\* Compact and of revival do, of a tombstone), status write, object write (of a
\* new spec, of a deletion that finalizers hold up, of a final deletion).
Create(k, d) ==
    [statusOnly |-> FALSE, key |-> k, expected |-> 0, force |-> FALSE,
     spec |-> v1, status |-> Empty, fin |-> FALSE, del |-> d]

Object(k, n, s, f, d) ==
    [statusOnly |-> FALSE, key |-> k, expected |-> n, force |-> FALSE,
     spec |-> s, status |-> Null, fin |-> f, del |-> d]

Status(k, n, s, f) ==
    [statusOnly |-> TRUE, key |-> k, expected |-> n, force |-> f,
     spec |-> Empty, status |-> s, fin |-> FALSE, del |-> 0]

StoreRequests ==
    {Create(k1, 0), Create(k1, 1), Status(k1, 1, v1, FALSE), Status(k1, 2, Empty, TRUE),
     Object(k1, 1, v2, FALSE, 0), Object(k1, 1, v1, FALSE, 1),
     Object(k1, 2, v1, TRUE, 1), Object(k1, 2, v1, FALSE, 1),
     Create(k2, 1)}

ClientSymmetry == Permutations(Clients \ Hooked)
=============================================================================
