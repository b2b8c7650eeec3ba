------------------------------ MODULE MCWatch -------------------------------
(***************************************************************************)
(* A small instance of Watch for its liveness properties.                  *)
(***************************************************************************)
EXTENDS Watch

CONSTANTS k1, c1, c2, v1

Create(k) ==
    [statusOnly |-> FALSE, key |-> k, expected |-> 0, force |-> FALSE,
     spec |-> v1, status |-> Empty, fin |-> FALSE, del |-> 0]

Delete(k, n, f) ==
    [statusOnly |-> FALSE, key |-> k, expected |-> n, force |-> FALSE,
     spec |-> v1, status |-> Null, fin |-> f, del |-> 1]

\* One object, with writes that conflict, finalize and revive.
OneKeyRequests ==
    {Create(k1), Delete(k1, 1, FALSE), Delete(k1, 1, TRUE)}

=============================================================================
