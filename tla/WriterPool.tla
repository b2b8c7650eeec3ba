----------------------------- MODULE WriterPool -----------------------------
(***************************************************************************)
(* The writers of the load test's phases 1, 2, 2b and 3.                   *)
(*                                                                         *)
(* In phases 1 (ceiling) and 3 (avalanche) each writer has names of its    *)
(* own and tries a name again until a write of it returns.  In phases 2    *)
(* (steady) and 2b (skew) a producer numbers the jobs and the writers take *)
(* them from a channel; a job whose write fails is gone.  Each phase has   *)
(* its own namespace, so only the rows of the running phase are kept.      *)
(* Durations are left out: the clock may move whenever it likes.           *)
(***************************************************************************)
EXTENDS Naturals, Sequences, FiniteSets

CONSTANTS
    Workers,        \* the writers that a phase starts
    QueueCap,       \* capacity of jobCh
    NumToKill,      \* writers that phase 3 kills
    MaxNames,       \* bound: names per writer
    MaxJobs,        \* bound: jobs
    MaxErrors       \* bound: failed writes per phase

ASSUME WriterPoolAssumption ==
    /\ IsFiniteSet(Workers)
    /\ QueueCap \in Nat \ {0}
    /\ NumToKill \in 0..Cardinality(Workers)
    /\ MaxNames \in Nat
    /\ MaxJobs \in Nat
    /\ MaxErrors \in Nat

VARIABLES
    kind,       \* the phase whose writers run, or "none"
    clock,      \* "warmup", "run" or "over"
    producer,   \* the rate loop of phases 2 and 2b: "check", "send" or "closed"
    queue,      \* jobCh
    counter,    \* writeCounter, the number of the next job
    wpc,        \* where each writer is
    at,         \* writeNum, or the job that a writer works on
    warmed,     \* the writers that count what they write
    killed,     \* the writers that phase 3 has cancelled
    rows,       \* names of the phase that have a row
    fresh,      \* history: rows that this phase has made
    counted,    \* history: names whose write was counted
    tally       \* totalWrites, the two error counts, writers that never connected

poolVars == <<kind, clock, producer, queue, counter, wpc, at, warmed, killed,
              rows, fresh, counted, tally>>

\* Phase 3 starts a survivor for each holder that it kills; the others only
\* have holders.
Ids == {"holder", "survivor"} \X Workers

Queued == kind \in {"steady", "skew"}

NameOf(id, n) == IF Queued THEN <<"job", n>> ELSE <<id[1], id[2], n>>

NewTally == [writes |-> 0, ser |-> 0, other |-> 0, lost |-> 0]

\* No phase with writers runs.
PoolInit ==
    /\ kind = "none"
    /\ clock = "over"
    /\ producer = "closed"
    /\ queue = <<>>
    /\ counter = 0
    /\ wpc = [id \in Ids |-> "absent"]
    /\ at = [id \in Ids |-> 0]
    /\ warmed = {}
    /\ killed = {}
    /\ rows = {}
    /\ fresh = {}
    /\ counted = {}
    /\ tally = NewTally

-----------------------------------------------------------------------------

\* A phase starts its writers on a table that holds the rows that are
\* left, if any, of its namespace. When its verifier cannot connect it returns instead (LoadTest).
PoolStart(k, c, p, rest) ==
    /\ kind' = k
    /\ clock' = c
    /\ producer' = p
    /\ queue' = <<>>
    /\ counter' = 0
    /\ wpc' = [id \in Ids |-> IF id[1] = "holder" THEN "connect" ELSE "absent"]
    /\ at' = [id \in Ids |-> 0]
    /\ warmed' = {}
    /\ killed' = {}
    /\ rows' = rest
    /\ fresh' = {}
    /\ counted' = {}
    /\ tally' = NewTally

\* A warm-up of zero is over at once.
RunPhase1Single(rest) == \E c \in {"warmup", "run"} : PoolStart("ceiling", c, "closed", rest)

RunPhase2(rest) == PoolStart("steady", "run", "check", rest)

RunPhase2b(rest) == PoolStart("skew", "run", "check", rest)

RunPhase3(rest) == PoolStart("avalanche", "warmup", "closed", rest)

\* Mutant: the context of the new writers is never cancelled.
Cancelled_HoldersOnly(id) == id[1] = "holder" /\ (clock = "over" \/ id[2] \in killed)

\* The context of phase 3's writer is cancelled: it was killed, or the phase is
\* over.
Cancelled(id) == clock = "over" \/ (id[1] = "holder" /\ id[2] \in killed)

\* A writer that cannot connect counts one error and is gone.
Connect(id) ==
    /\ wpc[id] = "connect"
    /\ \/ wpc' = [wpc EXCEPT ![id] = "idle"] /\ UNCHANGED tally
       \/ /\ wpc' = [wpc EXCEPT ![id] = "gone"]
          /\ tally' = [tally EXCEPT !.other = @ + 1, !.lost = @ + 1]
    /\ UNCHANGED <<kind, clock, producer, queue, counter, at, warmed, killed,
                   rows, fresh, counted>>

\* Phase 1 goes on before the deadline, phase 3 until the context is cancelled.
\* Phase 1 looks at the clock before the write to see whether to count it.
OwnWrite(id) ==
    /\ kind \in {"ceiling", "avalanche"}
    /\ wpc[id] = "idle"
    /\ IF kind = "ceiling" THEN clock # "over" ELSE ~Cancelled(id)
    /\ at[id] < MaxNames
    /\ wpc' = [wpc EXCEPT ![id] = "write"]
    /\ warmed' = IF kind = "avalanche" \/ clock = "run" THEN warmed \cup {id} ELSE warmed
    /\ UNCHANGED <<kind, clock, producer, queue, counter, at, killed, rows, fresh,
                   counted, tally>>

\* A writer of phase 2 or 2b takes the next job.
TakeJob(id) ==
    /\ Queued
    /\ wpc[id] = "idle"
    /\ queue # <<>>
    /\ wpc' = [wpc EXCEPT ![id] = "write"]
    /\ at' = [at EXCEPT ![id] = Head(queue)]
    /\ queue' = Tail(queue)
    /\ warmed' = warmed \cup {id}
    /\ UNCHANGED <<kind, clock, producer, counter, killed, rows, fresh, counted, tally>>

\* The write has an effect: a create, or nothing when the row is there already,
\* for the content of a name is always the same.
Landed(name) ==
    /\ rows' = rows \cup {name}
    /\ fresh' = fresh \cup ({name} \ rows)

\* Mutant: the number of the next name stays.
WriteReturns_SameName(id) ==
    LET name == NameOf(id, at[id]) IN
    /\ wpc[id] = "write"
    /\ Landed(name)
    /\ IF id \in warmed
       THEN /\ counted' = counted \cup {name}
            /\ tally' = [tally EXCEPT !.writes = @ + 1]
       ELSE UNCHANGED <<counted, tally>>
    /\ wpc' = [wpc EXCEPT ![id] = "idle"]
    /\ UNCHANGED <<kind, clock, producer, queue, counter, at, warmed, killed>>

WriteReturns(id) ==
    LET name == NameOf(id, at[id]) IN
    /\ wpc[id] = "write"
    /\ Landed(name)
    /\ IF id \in warmed
       THEN /\ counted' = counted \cup {name}
            /\ tally' = [tally EXCEPT !.writes = @ + 1]
       ELSE UNCHANGED <<counted, tally>>
    /\ at' = IF Queued THEN at ELSE [at EXCEPT ![id] = @ + 1]
    /\ wpc' = [wpc EXCEPT ![id] = "idle"]
    /\ UNCHANGED <<kind, clock, producer, queue, counter, warmed, killed>>

\* An error, also that of a cancelled context, before the commit or after it.
WriteErrs(id) ==
    /\ wpc[id] = "write"
    /\ tally.ser + tally.other < MaxErrors + tally.lost
    /\ \/ tally' = [tally EXCEPT !.ser = @ + 1]
       \/ tally' = [tally EXCEPT !.other = @ + 1]
    /\ Landed(NameOf(id, at[id])) \/ UNCHANGED <<rows, fresh>>
    /\ wpc' = [wpc EXCEPT ![id] = "idle"]
    /\ UNCHANGED <<kind, clock, producer, queue, counter, at, warmed, killed, counted>>

\* The deadline has passed, the context was cancelled, or the channel is closed
\* and empty.
WriterLeaves(id) ==
    /\ wpc[id] = "idle"
    /\ CASE kind = "ceiling"   -> clock = "over"
         [] kind = "avalanche" -> Cancelled(id)
         [] OTHER              -> producer = "closed" /\ queue = <<>>
    /\ wpc' = [wpc EXCEPT ![id] = "gone"]
    /\ UNCHANGED <<kind, clock, producer, queue, counter, at, warmed, killed, rows,
                   fresh, counted, tally>>

\* The rate loop looks at the time (bursts only change how long it sleeps), ...
RateCheck ==
    /\ producer = "check"
    /\ \/ clock = "over" /\ producer' = "closed"
       \/ clock # "over" /\ counter < MaxJobs /\ producer' = "send"
    /\ UNCHANGED <<kind, clock, queue, counter, wpc, at, warmed, killed, rows, fresh,
                   counted, tally>>

\* ... and then waits until the channel takes the job; its context never ends.
RateSend ==
    /\ producer = "send"
    /\ Len(queue) < QueueCap
    /\ queue' = Append(queue, counter)
    /\ counter' = counter + 1
    /\ producer' = "check"
    /\ UNCHANGED <<kind, clock, wpc, at, warmed, killed, rows, fresh, counted, tally>>

\* Phase 1: the warm-up ends. Phase 3: some writers are killed, new ones start.
WarmupEnds ==
    /\ clock = "warmup"
    /\ clock' = "run"
    /\ \/ kind = "ceiling" /\ UNCHANGED <<killed, wpc>>
       \/ /\ kind = "avalanche"
          /\ killed' \in {K \in SUBSET Workers : Cardinality(K) = NumToKill}
          /\ wpc' = [id \in Ids |-> IF id[1] = "survivor" /\ id[2] \in killed'
                                    THEN "connect" ELSE wpc[id]]
    /\ UNCHANGED <<kind, producer, queue, counter, at, warmed, rows, fresh, counted, tally>>

\* The duration of the phase has passed.
TimeIsUp ==
    /\ clock = "run"
    /\ clock' = "over"
    /\ UNCHANGED <<kind, producer, queue, counter, wpc, at, warmed, killed, rows, fresh,
                   counted, tally>>

PoolStep ==
    \/ \E id \in Ids :
        \/ Connect(id) \/ OwnWrite(id) \/ TakeJob(id)
        \/ WriteReturns(id) \/ WriteErrs(id) \/ WriterLeaves(id)
    \/ RateCheck
    \/ RateSend
    \/ WarmupEnds
    \/ TimeIsUp

\* The phase waits for its writers, phase 3 also for its time.
PoolDone ==
    /\ kind # "none"
    /\ \A id \in Ids : wpc[id] \in {"absent", "gone"}
    /\ producer = "closed"
    /\ kind = "avalanche" => clock = "over"

\* The phase returns. Of its rows those that the next phase meets are kept.
PoolReturn(kept) ==
    /\ kind' = "none"
    /\ clock' = "over"
    /\ queue' = <<>>
    /\ counter' = 0
    /\ wpc' = [id \in Ids |-> "absent"]
    /\ at' = [id \in Ids |-> 0]
    /\ warmed' = {}
    /\ killed' = {}
    /\ rows' = kept
    /\ fresh' = {}
    /\ counted' = {}
    /\ tally' = NewTally
    /\ UNCHANGED producer

\* Whether the phase passed. Phases 1 and 2 have targets that they may miss, and
\* phase 1 accepts no serialization failure. All four also want no violation of
\* the verifier, which never records one.
Verdicts1 == IF tally.ser > 0 THEN {FALSE} ELSE BOOLEAN

Verdicts2 == BOOLEAN

Verdicts2b == {TRUE}

Verdicts3 == {TRUE}

Verdicts ==
    CASE kind = "ceiling"   -> Verdicts1
      [] kind = "steady"    -> Verdicts2
      [] kind = "skew"      -> Verdicts2b
      [] kind = "avalanche" -> Verdicts3

=============================================================================
