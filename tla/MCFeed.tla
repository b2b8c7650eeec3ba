------------------------------- MODULE MCFeed -------------------------------
(***************************************************************************)
(* A small instance of WatchFeed: two objects, with writes that conflict,  *)
(* one that is deleted and revived, one that finalizers keep.              *)
(***************************************************************************)
EXTENDS WatchFeed, TLC

CONSTANTS k1, k2, c1, c2, v1

Create(k) ==
    [statusOnly |-> FALSE, key |-> k, expected |-> 0, force |-> FALSE,
     spec |-> v1, status |-> Empty, fin |-> FALSE, del |-> 0]

Delete(k, n, f) ==
    [statusOnly |-> FALSE, key |-> k, expected |-> n, force |-> FALSE,
     spec |-> v1, status |-> Null, fin |-> f, del |-> 1]

WatchRequests ==
    {Create(k1), Delete(k1, 1, FALSE), Create(k2), Delete(k2, 1, TRUE)}

ClientSymmetry == Permutations(Clients)
=============================================================================
