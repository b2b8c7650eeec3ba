----------------------------- MODULE MCListing ------------------------------
(***************************************************************************)
(* A small instance of Listing: three objects, one of which the label      *)
(* selector leaves out, are listed while they are changed or removed and a *)
(* fourth one is created.                                                  *)
(***************************************************************************)
EXTENDS Listing, TLC

CONSTANTS k1, k2, k3, k4, c1, c2, v1, v2, v3

Create(k, s) ==
    [statusOnly |-> FALSE, key |-> k, expected |-> 0, force |-> FALSE,
     spec |-> s, status |-> Empty, fin |-> FALSE, del |-> 0]

Object(k, n, s, d) ==
    [statusOnly |-> FALSE, key |-> k, expected |-> n, force |-> FALSE,
     spec |-> s, status |-> Null, fin |-> FALSE, del |-> d]

Status(k, n) ==
    [statusOnly |-> TRUE, key |-> k, expected |-> n, force |-> FALSE,
     spec |-> Empty, status |-> v1, fin |-> FALSE, del |-> 0]

ListingSeeds == <<Create(k1, v1), Create(k2, v2), Create(k3, v1)>>

\* A create, a deletion, a change after which the field selector no longer
\* matches, and one after which it still does.
ListingRequests ==
    {Create(k4, v1), Object(k1, 1, v1, 1), Object(k2, 1, v3, 0), Status(k3, 1)}

NotV3 == {[field |-> "spec", op |-> "!=", value |-> v3]}

ThreeBitHash == k1 :> -4 @@ k2 :> -1 @@ k3 :> 2 @@ k4 :> 3

TwoReplicas == {S!Spec(3, {0, 2}), S!Spec(3, {1})}

ClientSymmetry == Permutations(Clients)
=============================================================================
