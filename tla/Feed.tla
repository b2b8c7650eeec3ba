-------------------------------- MODULE Feed --------------------------------
(***************************************************************************)
(* What List+Watch promises its consumer, without transactions, snapshots, *)
(* high-water marks or channels.                                           *)
(*                                                                         *)
(* The table has a history, one entry per commit that readers can see.     *)
(* The consumer's view of each object is what some entry of that history   *)
(* says.  The entry may be old, it may differ between objects, and entries *)
(* may be skipped (a delete and a create between two polls are one change  *)
(* of the view), but it never goes back, unless the consumer starts over.  *)
(***************************************************************************)
EXTENDS Naturals, Sequences

CONSTANTS
    Objects,    \* the objects the consumer follows
    Nothing     \* there is no such object

VARIABLES
    log,        \* the states of the table that readers could see, oldest first
    at,         \* the entry of the log that the view of each object is from
    view        \* the consumer's copy of each object

feedVars == <<log, at, view>>

NoObjects == [k \in Objects |-> Nothing]

Init ==
    /\ log = <<NoObjects>>
    /\ at = [k \in Objects |-> 1]
    /\ view = NoObjects

\* A commit changes what readers see; the consumer learns of it later.
Change ==
    /\ Len(log') = Len(log) + 1
    /\ SubSeq(log', 1, Len(log)) = log
    /\ UNCHANGED <<at, view>>

\* The consumer's view of some objects moves on, to any later entry.
Follow ==
    /\ at' \in [Objects -> 1..Len(log)]
    /\ \A k \in Objects : at[k] <= at'[k]
    /\ view' = [k \in Objects |-> log[at'[k]][k]]
    /\ UNCHANGED log

\* The consumer's process starts anew, with nothing.
StartOver ==
    /\ at' = [k \in Objects |-> 1]
    /\ view' = NoObjects
    /\ UNCHANGED log

Next == Change \/ Follow \/ StartOver

Spec == Init /\ [][Next]_feedVars

=============================================================================
