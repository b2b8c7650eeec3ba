------------------------------- MODULE Drill --------------------------------
(***************************************************************************)
(* Phase 5 of the load test.  Watchers start where a list left off (round  *)
(* B), a writer writes writeCount objects, and a collector per watcher     *)
(* counts what arrives.  In round C the watchers have no LISTEN connection *)
(* and start from the highest HWM() of round B; the phase passes when the  *)
(* collectors of round C counted enough.                                   *)
(*                                                                         *)
(* A poll is one step, as in Verifier.  Other sessions matter through      *)
(* their transactions in flight.  Latencies are left out.                  *)
(*                                                                         *)
(* Rows that an earlier run left in the drill's namespaces, which only a   *)
(* run without a seed meets, count here through the writes they suppress.  *)
(* They are below the watermark of the list, so no watcher is given them,  *)
(* unless the list failed: round B may then count them, and so does round  *)
(* C if no watcher of round B ever polled.  That case is left out.         *)
(***************************************************************************)
EXTENDS Naturals, Sequences, FiniteSets, Functions

CONSTANTS
    ChanCap,        \* capacity of a watcher's channel
    MaxPins         \* bound: transactions of other sessions

ASSUME DrillAssumption ==
    /\ ChanCap \in Nat \ {0}
    /\ MaxPins \in Nat

VARIABLES
    watchers,   \* the watchers, numWatchers of them
    writeCount, \* writes per round
    dpc,        \* "off", "list", "idle" (A), "doorbell" (B), "loss" (C)
    startRV,    \* the watermark of the list
    dxid,       \* the next transaction id
    pins,       \* transactions of other sessions in flight
    pinned,     \* history: whether a watcher polled while there was one
    sent,       \* writes of the round begun
    writing,    \* the transaction of the write in flight, or 0
    drows,      \* the rows of both rounds
    wt          \* watcher and collector, see NewWatch

drillVars == <<watchers, writeCount, dpc, startRV, dxid, pins, pinned, sent, writing, drows, wt>>

Rounds == {"doorbell", "loss"}

\* A watcher of a round, what its channel holds and what its collector has.
NewWatch(hwm) ==
    [alive |-> TRUE, hwm |-> hwm, events |-> <<>>, collected |-> 0, got |-> {},
     done |-> FALSE]

DrillInit ==
    /\ watchers = {}
    /\ writeCount = 0
    /\ dpc = "off"
    /\ startRV = 0
    /\ dxid = 1
    /\ pins = {}
    /\ pinned = FALSE
    /\ sent = 0
    /\ writing = 0
    /\ drows = {}
    /\ wt = <<>>

InFlightOrNext == pins \cup {dxid} \cup ({writing} \ {0})

\* The xmin of a snapshot taken now.
DrillXmin == CHOOSE x \in InFlightOrNext : \A y \in InFlightOrNext : x <= y

WritesBegun == sent + (IF dpc = "loss" THEN writeCount ELSE 0)

\* Another session takes a transaction id.
Pin ==
    /\ dpc \in Rounds \cup {"list", "idle"}
    /\ dxid - 1 - WritesBegun < MaxPins
    /\ pins' = pins \cup {dxid}
    /\ dxid' = dxid + 1
    /\ UNCHANGED <<watchers, writeCount, dpc, startRV, pinned, sent, writing, drows, wt>>

\* It ends.
Unpin(x) ==
    /\ pins' = pins \ {x}
    /\ UNCHANGED <<watchers, writeCount, dpc, startRV, dxid, pinned, sent, writing, drows, wt>>

-----------------------------------------------------------------------------

DrillStart(ws, writes) ==
    /\ watchers' = ws
    /\ writeCount' = writes
    /\ dpc' = "list"
    /\ UNCHANGED <<startRV, dxid, pins, pinned, sent, writing, drows, wt>>

\* The list gives the watermark; when it fails the watchers start from zero.
DrillList ==
    /\ dpc = "list"
    /\ startRV' \in {DrillXmin - 1, 0}
    /\ dpc' = "idle"
    /\ UNCHANGED <<watchers, writeCount, dxid, pins, pinned, sent, writing, drows, wt>>

Round(r, hwm) ==
    /\ dpc' = r
    /\ sent' = 0
    /\ wt' = [w \in watchers |-> NewWatch(hwm)]
    /\ UNCHANGED <<watchers, writeCount, startRV, dxid, pins, pinned, writing, drows>>

\* The watchers of round A have been timed and stopped; nobody took their events.
DrillDoorbell ==
    /\ dpc = "idle"
    /\ Round("doorbell", startRV)

DrillWriteBegin ==
    /\ dpc \in Rounds
    /\ writing = 0
    /\ sent < writeCount
    /\ sent' = sent + 1
    /\ writing' = dxid
    /\ dxid' = dxid + 1
    /\ UNCHANGED <<watchers, writeCount, dpc, startRV, pins, pinned, drows, wt>>

\* The write lands, or it does not: an error, or a row from an earlier run of the
\* load test that makes it a write of the same content.
DrillWriteEnd ==
    /\ writing # 0
    /\ writing' = 0
    /\ \/ drows' = drows \cup {[round |-> dpc, n |-> sent, stamp |-> writing]}
       \/ UNCHANGED drows
    /\ UNCHANGED <<watchers, writeCount, dpc, startRV, dxid, pins, pinned, sent, wt>>

Above(hwm) == {r \in drows : r.stamp > hwm}

\* Mutant: the high-water mark follows the ids handed out.
DrillPoll_ToLast(w) ==
    /\ dpc \in Rounds
    /\ wt[w].alive
    /\ Len(wt[w].events) <= ChanCap
    /\ \E evs \in [1..Cardinality(Above(wt[w].hwm)) -> Above(wt[w].hwm)] :
        /\ \A i, j \in DOMAIN evs : i < j => evs[i].stamp < evs[j].stamp
        /\ wt' = [wt EXCEPT ![w].events = @ \o evs, ![w].hwm = dxid - 1]
    /\ pinned' = (pinned \/ pins # {})
    /\ UNCHANGED <<watchers, writeCount, dpc, startRV, dxid, pins, sent, writing, drows>>

DrillPoll(w) ==
    /\ dpc \in Rounds
    /\ wt[w].alive
    /\ Len(wt[w].events) <= ChanCap
    /\ \E evs \in [1..Cardinality(Above(wt[w].hwm)) -> Above(wt[w].hwm)] :
        /\ \A i, j \in DOMAIN evs : i < j => evs[i].stamp < evs[j].stamp
        /\ wt' = [wt EXCEPT ![w].events = @ \o evs,
                            ![w].hwm = IF DrillXmin - 1 > @ THEN DrillXmin - 1 ELSE @]
    /\ pinned' = (pinned \/ pins # {})
    /\ UNCHANGED <<watchers, writeCount, dpc, startRV, dxid, pins, sent, writing, drows>>

\* A 410 or a database error closes the channel.
WatcherDies(w) ==
    /\ dpc \in Rounds
    /\ wt[w].alive
    /\ Len(wt[w].events) <= ChanCap
    /\ wt' = [wt EXCEPT ![w].alive = FALSE]
    /\ UNCHANGED <<watchers, writeCount, dpc, startRV, dxid, pins, pinned, sent, writing, drows>>

Got(c, e) ==
    [c EXCEPT !.collected = @ + 1, !.got = @ \cup {e.n},
              !.done = c.collected + 1 = writeCount]

\* The collector takes an event, and counts it when it is of the round's
\* namespace, whether or not it had it before.
Collect(w) ==
    LET e == Head(wt[w].events)
        rest == [wt[w] EXCEPT !.events = Tail(wt[w].events)] IN
    /\ dpc \in Rounds
    /\ ~wt[w].done
    /\ wt[w].events # <<>>
    /\ wt' = [wt EXCEPT ![w] = IF e.round = dpc THEN Got(rest, e) ELSE rest]
    /\ UNCHANGED <<watchers, writeCount, dpc, startRV, dxid, pins, pinned, sent, writing, drows>>

\* The channel is closed and empty, or the collector's deadline has passed.
CollectorGivesUp(w) ==
    /\ dpc \in Rounds
    /\ ~wt[w].done
    /\ wt' = [wt EXCEPT ![w].done = TRUE]
    /\ UNCHANGED <<watchers, writeCount, dpc, startRV, dxid, pins, pinned, sent, writing, drows>>

RoundOver ==
    /\ sent = writeCount
    /\ writing = 0
    /\ \A w \in watchers : wt[w].done

\* The highest HWM() of the watchers.
MaxHwm == CHOOSE h \in {wt[w].hwm : w \in watchers} : \A w \in watchers : wt[w].hwm <= h

DrillLoss ==
    /\ dpc = "doorbell"
    /\ RoundOver
    /\ Round("loss", MaxHwm)

\* What lossDeliveredCount counts in round C: every event that a collector counted.
Delivered == UNION {{w} \X (1..wt[w].collected) : w \in watchers}

\* The phase passes, its latencies permitting, when the collectors of round C
\* counted writeCount events each; without the drill only the latencies count.
DrillVerdicts ==
    IF dpc = "loss"
    THEN {FALSE, Cardinality(Delivered) >= writeCount * Cardinality(watchers)}
    ELSE BOOLEAN

\* The phase returns.
DrillReturn ==
    /\ watchers' = {}
    /\ writeCount' = 0
    /\ dpc' = "off"
    /\ startRV' = 0
    /\ dxid' = 1
    /\ pins' = {}
    /\ pinned' = FALSE
    /\ sent' = 0
    /\ writing' = 0
    /\ drows' = {}
    /\ wt' = <<>>

\* The rounds are over, or a connection that the phase needs cannot be opened.
DrillDone == dpc \in Rounds /\ RoundOver

DrillCanFail == dpc \in {"list", "idle"} \/ (dpc \in Rounds /\ sent = 0)

DrillStep ==
    \/ Pin
    \/ \E x \in pins : Unpin(x)
    \/ DrillList
    \/ DrillDoorbell
    \/ DrillWriteBegin
    \/ DrillWriteEnd
    \/ \E w \in watchers :
        DrillPoll(w) \/ WatcherDies(w) \/ Collect(w) \/ CollectorGivesUp(w)
    \/ DrillLoss

=============================================================================
