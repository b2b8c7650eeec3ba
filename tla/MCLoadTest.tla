----------------------------- MODULE MCLoadTest -----------------------------
(***************************************************************************)
(* LoadTest for TLC: each phase with writers by itself, on tables with and *)
(* without rows of an earlier run; phase 5 with one watcher and two writes *)
(* and with two watchers and one write; and two phases with a ticker that  *)
(* gets in the way of main's checkpoints.                                  *)
(***************************************************************************)
EXTENDS LoadTest

CONSTANTS v1, v2

PoolPhase ==
    {[enabled |-> {p}, seed |-> s, watchers |-> {}, writes |-> 0, ticks |-> 0] :
        p \in {"ceiling", "steady", "skew", "avalanche"}, s \in BOOLEAN}

PollPhase ==
    {[enabled |-> {"poll"}, seed |-> TRUE, watchers |-> w[1], writes |-> w[2], ticks |-> 0] :
        w \in {<<{v1}, 2>>, <<{v1, v2}, 1>>}}

TwoPhases ==
    [enabled |-> {"baseline", "skew"}, seed |-> FALSE, watchers |-> {}, writes |-> 0, ticks |-> 2]

AllConfigs == PoolPhase \cup PollPhase \cup {TwoPhases}

=============================================================================
