------------------------------ MODULE LoadTest ------------------------------
(***************************************************************************)
(* The load test's main program: it seeds the tables, runs the enabled     *)
(* phases one after the other (WriterPool, Drill), records their results,  *)
(* and writes a checkpoint file after each, while a ticker goroutine       *)
(* writes the same file now and then.                                      *)
(*                                                                         *)
(* os.WriteFile opens the file, which empties it, and then writes; the     *)
(* lock is only held while the snapshot of the progress is taken.          *)
(***************************************************************************)
EXTENDS WriterPool, Drill

CONSTANTS
    SweepRuns,      \* runs of phase 1's worker sweep
    Configs         \* configurations: the phases enabled, whether there is a seed,
                    \* watchers and writes of phase 5, and a bound on the ticks of
                    \* the checkpoint ticker

Phases == <<"baseline", "ceiling", "steady", "skew", "avalanche", "poll">>

ASSUME LoadTestAssumption ==
    /\ SweepRuns \in Nat \ {0}
    /\ \A c \in Configs : c.enabled \subseteq Range(Phases) /\ c.seed \in BOOLEAN /\ c.ticks \in Nat
                        /\ IsFiniteSet(c.watchers) /\ c.writes \in Nat

VARIABLES
    config,     \* the configuration
    pc,         \* main: "seed", "next", "start", "running", "write", "report" or "exited"
    phase,      \* index of the phase
    truncated,  \* whether no row of an earlier run of the load test is left
    left,       \* runs left of the sweep, batches left of the baseline
    sweepOK,    \* the sweep's allPassed
    allPassed,  \* main's allPassed
    report,     \* report.Phases, whether each passed
    progress,   \* CheckpointWriter: completed phases, all passed so far, current phase
    cpw,        \* the two writers of the checkpoint file, and what they write
    file,       \* the checkpoint file
    ticks,      \* ticks so far
    alone       \* history: main's last write of the file worked, with none beside it

mainVars == <<config, pc, phase, truncated, left, sweepOK, allPassed, report>>
cpVars == <<progress, cpw, file, ticks, alone>>
vars == <<poolVars, drillVars, mainVars, cpVars>>

Current == Phases[phase]

SyncCommitBatches == 2  \* synchronous_commit on, off

StoredProcBatches == 3  \* the Go writer twice, the stored procedure

\* The batches of phase 0; the pings before them and the statistics only take time.
RunPhase0 == SyncCommitBatches + StoredProcBatches

Goroutines == {"main", "ticker"}

NoProgress == [completed |-> <<>>, passed |-> TRUE, current |-> 0]

NotWriting == [pc |-> "idle", snap |-> NoProgress]

Init ==
    /\ PoolInit
    /\ DrillInit
    /\ config \in Configs
    /\ pc = "seed"
    /\ phase = 1
    /\ truncated = FALSE
    /\ left = 0
    /\ sweepOK = TRUE
    /\ allPassed = TRUE
    /\ report = <<>>
    /\ progress = NoProgress
    /\ cpw = [g \in Goroutines |-> NotWriting]
    /\ file = [state |-> "absent", snap |-> NoProgress]
    /\ ticks = 0
    /\ alone = TRUE

-----------------------------------------------------------------------------

\* Truncate and seed, when there is something to seed.
Seed ==
    /\ pc = "seed"
    /\ pc' = "next"
    /\ truncated' = config.seed
    /\ UNCHANGED <<poolVars, drillVars, config, phase, left, sweepOK, allPassed, report, cpVars>>

\* An error up to here is fatal.
SeedFails ==
    /\ pc = "seed"
    /\ pc' = "exited"
    /\ allPassed' = FALSE
    /\ UNCHANGED <<poolVars, drillVars, config, phase, truncated, left, sweepOK, report, cpVars>>

\* The phase is not enabled.
SkipPhase ==
    /\ pc = "next"
    /\ phase <= Len(Phases)
    /\ Current \notin config.enabled
    /\ phase' = phase + 1
    /\ UNCHANGED <<poolVars, drillVars, config, pc, truncated, left, sweepOK, allPassed, report, cpVars>>

\* SetCurrentPhase.
BeginPhase ==
    /\ pc = "next"
    /\ phase <= Len(Phases)
    /\ Current \in config.enabled
    /\ pc' = "start"
    /\ progress' = [progress EXCEPT !.current = phase]
    /\ left' \in CASE Current = "baseline" -> {RunPhase0}
                   [] Current = "ceiling"  -> {0, SweepRuns}
                   [] OTHER                -> {0}
    /\ sweepOK' = TRUE
    /\ UNCHANGED <<poolVars, drillVars, config, phase, truncated, allPassed, report, cpw, file,
                   ticks, alone>>

\* Names that the phase of kind k writes first, and an earlier run wrote too.
Stale(k) ==
    IF k \in {"steady", "skew"} THEN {<<"job", 0>>}
    ELSE {<<"holder", w, 0>> : w \in Workers}

\* The current phase with its writers, on the rows that are left.
RunWriters(rest) ==
    \/ Current = "ceiling"   /\ RunPhase1Single(rest)
    \/ Current = "steady"    /\ RunPhase2(rest)
    \/ Current = "skew"      /\ RunPhase2b(rest)
    \/ Current = "avalanche" /\ RunPhase3(rest)

\* The writers start. A run of the sweep truncates and seeds the tables first.
StartWriters ==
    /\ pc = "start"
    /\ pc' = "running"
    /\ \/ RunWriters({})
       \/ ~truncated /\ left = 0 /\ RunWriters(Stale(Current))
    /\ UNCHANGED <<drillVars, config, phase, truncated, left, sweepOK, allPassed, report, cpVars>>

StartDrill ==
    /\ pc = "start"
    /\ Current = "poll"
    /\ pc' = "running"
    /\ DrillStart(config.watchers, config.writes)
    /\ UNCHANGED <<poolVars, config, phase, truncated, left, sweepOK, allPassed, report, cpVars>>

\* Mutant: a later phase that passes hides an earlier one that did not.
Complete_LastOnly(passed) ==
    /\ report' = Append(report, passed)
    /\ allPassed' = (allPassed /\ passed)
    /\ progress' = [completed |-> Append(progress.completed, passed),
                    passed    |-> passed,
                    current   |-> 0]
    /\ pc' = "write"

\* main records the result, in the report and with RecordPhaseComplete.
Complete(passed) ==
    /\ report' = Append(report, passed)
    /\ allPassed' = (allPassed /\ passed)
    /\ progress' = [completed |-> Append(progress.completed, passed),
                    passed    |-> progress.passed /\ passed,
                    current   |-> 0]
    /\ pc' = "write"

\* Before its writers or watchers run, or between runs of the sweep, a phase
\* returns an error: a connection, the truncation or the seed failed.
PhaseErrs ==
    /\ pc = "start" \/ (pc = "running" /\ DrillCanFail)
    /\ Complete(FALSE)
    /\ DrillReturn
    /\ UNCHANGED <<kind, clock, producer, queue, counter, wpc, at, warmed, killed, fresh,
                   counted, tally>>
    /\ rows' = {}
    /\ UNCHANGED <<config, phase, truncated, left, sweepOK, cpw, file, ticks, alone>>

\* Phase 0 writes its batches one after the other, each to a truncated table.
\* The first error ends it.
BaselineBatch ==
    /\ pc = "start"
    /\ Current = "baseline"
    /\ truncated' = TRUE
    /\ \/ left > 0 /\ left' = left - 1 /\ UNCHANGED <<pc, allPassed, report, progress>>
       \/ left > 0 /\ Complete(FALSE) /\ UNCHANGED left
       \/ left = 0 /\ Complete(TRUE) /\ UNCHANGED left
    /\ UNCHANGED <<poolVars, drillVars, config, phase, sweepOK, cpw, file, ticks, alone>>

\* A run of the sweep has ended and is not the last one.
SweepOn(passed) ==
    /\ left > 1
    /\ left' = left - 1
    /\ sweepOK' = (sweepOK /\ passed)
    /\ pc' = "start"
    /\ UNCHANGED <<allPassed, report, progress>>

\* The writers have ended: the next run of the sweep, or the phase's result.
WritersDone ==
    /\ pc = "running"
    /\ PoolDone
    /\ \E passed \in Verdicts :
        \/ SweepOn(passed) /\ PoolReturn(rows)
        \/ left <= 1 /\ Complete(passed /\ sweepOK) /\ PoolReturn({}) /\ UNCHANGED <<left, sweepOK>>
    /\ UNCHANGED <<drillVars, config, phase, truncated, cpw, file, ticks, alone>>

\* Round C has ended, or round B and there is no drill.
DrillReturns ==
    /\ pc = "running"
    /\ DrillDone
    /\ \E passed \in DrillVerdicts : Complete(passed)
    /\ DrillReturn
    /\ UNCHANGED <<poolVars, config, phase, truncated, left, sweepOK, cpw, file, ticks, alone>>

\* All phases are through: the report, and the exit code.
Report ==
    /\ pc = "next"
    /\ phase > Len(Phases)
    /\ pc' = "report"
    /\ UNCHANGED <<poolVars, drillVars, config, phase, truncated, left, sweepOK, allPassed, report, cpVars>>

Exit ==
    /\ pc = "report"
    /\ pc' = "exited"
    /\ UNCHANGED <<poolVars, drillVars, config, phase, truncated, left, sweepOK, allPassed, report, cpVars>>

-----------------------------------------------------------------------------

Quiet(g) == cpw[g].pc = "idle"

\* CheckpointWriter.Write takes its snapshot, under the lock: main after each
\* phase, the ticker until the program exits.
Snapshot(g) ==
    /\ Quiet(g)
    /\ IF g = "main" THEN pc = "write" ELSE pc \notin {"seed", "exited"} /\ ticks < config.ticks
    /\ cpw' = [cpw EXCEPT ![g] = [pc |-> "open", snap |-> progress]]
    /\ ticks' = IF g = "ticker" THEN ticks + 1 ELSE ticks
    /\ alone' = IF g = "main" THEN Quiet("ticker") ELSE alone /\ Quiet("main")
    /\ UNCHANGED <<poolVars, drillVars, mainVars, progress, file>>

\* Write returns; main goes on to the next phase.
Return(g) ==
    /\ cpw' = [cpw EXCEPT ![g] = NotWriting]
    /\ IF g = "main" THEN pc' = "next" /\ phase' = phase + 1 ELSE UNCHANGED <<pc, phase>>

\* os.WriteFile opens the file and so empties it, or fails.
Open(g) ==
    /\ pc # "exited"
    /\ cpw[g].pc = "open"
    /\ \/ /\ file' = [state |-> "empty", snap |-> NoProgress]
          /\ cpw' = [cpw EXCEPT ![g].pc = "data"]
          /\ UNCHANGED <<pc, phase, alone>>
       \/ /\ Return(g)
          /\ alone' = (alone /\ g = "ticker")
          /\ UNCHANGED file
    /\ UNCHANGED <<poolVars, drillVars, config, truncated, left, sweepOK, allPassed, report,
                   progress, ticks>>

\* The data goes to the start of the file. When the other goroutine has written
\* since the open and its data is longer, the end of that is left behind.
Data(g) ==
    /\ pc # "exited"
    /\ cpw[g].pc = "data"
    /\ \/ file' = [state |-> "whole", snap |-> cpw[g].snap]
       \/ file.state # "empty" /\ file' = [state |-> "torn", snap |-> NoProgress]
    /\ Return(g)
    /\ UNCHANGED <<poolVars, drillVars, config, truncated, left, sweepOK, allPassed, report,
                   progress, ticks, alone>>

Writers == pc = "running" /\ kind # "none" /\ PoolStep /\ UNCHANGED <<drillVars, mainVars, cpVars>>

Watching(A) == pc = "running" /\ A /\ UNCHANGED <<poolVars, mainVars, cpVars>>

MainStep ==
    \/ Seed \/ SeedFails \/ SkipPhase \/ BeginPhase \/ StartWriters \/ StartDrill
    \/ PhaseErrs \/ BaselineBatch \/ WritersDone \/ DrillReturns \/ Report \/ Exit
    \/ Snapshot("main") \/ Open("main") \/ Data("main")

\* The steps of the ticker commute with those inside a phase, which touch nothing
\* that it reads or writes, so they are taken before the phase runs or after it.
TickerStep == pc # "running" /\ (Snapshot("ticker") \/ Open("ticker") \/ Data("ticker"))

Next ==
    \/ MainStep
    \/ TickerStep
    \/ Writers
    \/ Watching(DrillStep)

AllWatchers == UNION {c.watchers : c \in Configs}

\* main and the writers go on; the drill's writer and the deadlines of its
\* collectors do too. Nothing is assumed of the watchers.
Fairness ==
    /\ WF_vars(MainStep)
    /\ WF_vars(Writers)
    /\ WF_vars(Watching(DrillList \/ DrillDoorbell \/ DrillWriteBegin \/ DrillWriteEnd))
    /\ \A w \in AllWatchers : WF_vars(Watching(w \in watchers /\ CollectorGivesUp(w)))

Spec == Init /\ [][Next]_vars /\ Fairness

-----------------------------------------------------------------------------

\* The types of what Tally speaks of.
TypeOK ==
    /\ kind \in {"none", "ceiling", "steady", "skew", "avalanche"}
    /\ clock \in {"warmup", "run", "over"}
    /\ producer \in {"check", "send", "closed"}
    /\ queue \in Seq(0..MaxJobs) /\ Len(queue) <= QueueCap
    /\ counter \in 0..MaxJobs
    /\ wpc \in [Ids -> {"absent", "connect", "idle", "write", "gone"}]
    /\ at \in [Ids -> Nat]
    /\ warmed \in SUBSET Ids
    /\ killed \in SUBSET Workers
    /\ fresh \in SUBSET rows
    /\ pc \in {"seed", "next", "start", "running", "write", "report", "exited"}
    /\ phase \in 1..(Len(Phases) + 1)
    /\ file.state \in {"absent", "empty", "whole", "torn"}

\* What the phases report as writes is right, whatever failed and was tried again:
\* no name is counted twice, each has a row, and, unless an earlier run of the load
\* test left rows behind, the phase made that row; outside the warm-up the rows it
\* made and did not count are at most the errors it counted. Every job of phases 2
\* and 2b is queued, in hand, counted, or one of the errors.
Tally ==
    LET failed == tally.ser + tally.other - tally.lost IN
    /\ TypeOK
    /\ tally.writes = Cardinality(counted)
    /\ counted \subseteq rows
    /\ truncated \/ left > 0 => counted \subseteq fresh
    /\ kind = "avalanche" \/ Queued => Cardinality(fresh \ counted) <= failed
    /\ Queued => counter = Len(queue) + Cardinality({id \in Ids : wpc[id] = "write"})
                             + tally.writes + failed

\* Between the phases with writers there is nothing to count.
PoolIdle ==
    /\ producer = "closed"
    /\ queue = <<>>
    /\ counter = 0
    /\ wpc = [id \in Ids |-> "absent"]
    /\ fresh = {}
    /\ counted = {}
    /\ tally = NewTally

\* A writer with names of its own has not counted the one it works on, nor any
\* after it.
OwnNamesInv ==
    \A id \in Ids :
        /\ wpc[id] = "write" => at[id] < MaxNames
        /\ \A n \in at[id]..MaxNames : <<id[1], id[2], n>> \notin counted

\* A job is in one place: in the channel, in the hands of one writer, or counted;
\* those still to be numbered are nowhere.
JobsInv ==
    LET InHand == {id \in Ids : wpc[id] = "write"} IN
    /\ \A i \in DOMAIN queue :
        /\ queue[i] < counter /\ <<"job", queue[i]>> \notin counted
        /\ \A j \in DOMAIN queue : i # j => queue[i] # queue[j]
        /\ \A id \in InHand : queue[i] # at[id]
    /\ \A id \in InHand :
        /\ at[id] < counter /\ <<"job", at[id]>> \notin counted
        /\ \A other \in InHand : id # other => at[id] # at[other]
    /\ \A n \in counter..MaxJobs : <<"job", n>> \notin counted

\* What the writers of a phase count, by the pool alone.
PoolInv ==
    /\ tally \in [writes : Nat, ser : Nat, other : Nat, lost : Nat] /\ tally.lost <= tally.other
    /\ IsFiniteSet(fresh) /\ IsFiniteSet(counted)
    /\ producer = "send" => counter < MaxJobs
    /\ kind = "none" => PoolIdle
    /\ kind = "avalanche" \/ Queued => \A id \in Ids : wpc[id] = "write" => id \in warmed
    /\ kind \in {"ceiling", "avalanche"} => OwnNamesInv
    /\ Queued => JobsInv

\* The inductive invariant of the counts. Writers only run inside their phase, and
\* on a truncated table every row is one that the phase has made.
TallyInv ==
    /\ Tally
    /\ PoolInv
    /\ kind # "none" => pc = "running" /\ dpc = "off"
    /\ dpc # "off" => pc = "running"
    /\ pc \in {"start", "running", "write"} => phase <= Len(Phases)
    /\ kind # "none" /\ (truncated \/ left > 0) => rows \subseteq fresh

\* A write of the round is never lost to a running watcher, although round C
\* starts from another watcher's HWM(): it is above the high-water mark, in the
\* channel, or collected.
NothingLost ==
    dpc \in Rounds =>
        \A w \in watchers, r \in drows :
            (r.round = dpc /\ wt[w].alive /\ ~wt[w].done) =>
                \/ r.stamp > wt[w].hwm
                \/ r.n \in wt[w].got
                \/ \E i \in DOMAIN wt[w].events : wt[w].events[i] = r

\* The drill's verdict can be trusted as far as it goes: nothing is lost, and when
\* round C passes and no transaction of another session made polls deliver rows
\* again, every watcher has delivered every write.
DrillSound ==
    /\ NothingLost
    /\ (dpc = "loss" /\ RoundOver /\ TRUE \in DrillVerdicts /\ ~pinned) =>
        \A w \in watchers : wt[w].got = 1..writeCount

\* The types of the drill.
DrillTypes ==
    /\ dpc \in Rounds \cup {"off", "list", "idle"}
    /\ dxid \in Nat \ {0}
    /\ sent \in Nat
    /\ startRV \in 0..(dxid - 1)
    /\ writing \in 0..(dxid - 1)
    /\ pins \subseteq 1..(dxid - 1)
    /\ drows \subseteq [round : Rounds, n : Nat, stamp : 1..(dxid - 1)] /\ IsFiniteSet(drows)
    /\ dpc \in Rounds =>
        wt \in [watchers -> [alive : BOOLEAN, hwm : 0..(dxid - 1), events : Seq(drows),
                            collected : Nat, got : SUBSET Nat, done : BOOLEAN]]

\* The inductive invariant of NothingLost: a round begins without rows of its own,
\* and no high-water mark reaches the write in flight.
DrillInv ==
    /\ DrillTypes
    /\ dpc \notin Rounds => drows = {} /\ writing = 0
    /\ dpc = "doorbell" => \A r \in drows : r.round = "doorbell"
    /\ dpc \in Rounds /\ writing # 0 => \A w \in watchers : wt[w].hwm < writing
    /\ NothingLost

RoundRows == {r \in drows : r.round = dpc}

\* The writes of a round have numbers of their own up to sent, and their stamps
\* grow.
WritesInv ==
    /\ writeCount \in Nat
    /\ IsFiniteSet(watchers)
    /\ dpc \in Rounds => sent <= writeCount
    /\ writing # 0 => sent > 0 /\ \A r \in drows : r.stamp < writing
    /\ \A r \in RoundRows : r.n \in 1..sent /\ (writing # 0 => r.n # sent)
    /\ \A r, q \in RoundRows : r.n = q.n => r = q

\* Of the rows rs of its round, watcher c delivers each at most once: what it has
\* delivered is at or below its mark, and what waits in its channel is new.
Once(c, rs) ==
    /\ \A n \in c.got : \E r \in rs : r.n = n /\ r.stamp <= c.hwm
    /\ c.collected = Cardinality(c.got)
    /\ \A i \in DOMAIN c.events :
        /\ c.events[i].stamp <= c.hwm
        /\ c.events[i] \in rs => c.events[i].n \notin c.got
        /\ \A j \in DOMAIN c.events : i # j => c.events[i] # c.events[j]

\* The inductive invariant of the verdict: as long as no watcher polled beside a
\* transaction of another session, what collectors count are different writes.
OnceInv ==
    /\ config \in Configs
    /\ WritesInv
    /\ dpc \in Rounds /\ ~pinned => \A w \in watchers : Once(wt[w], RoundRows)

AllOf(results) == \A i \in DOMAIN results : results[i]

\* The checkpoint file, whoever wrote it, is torn or one moment of the run: the
\* phases that were complete and whether all of them had passed. Once main has
\* written it after a phase it has that phase, unless the ticker wrote at the same
\* time or has just emptied the file. The exit code agrees with the report.
CheckpointSound ==
    /\ file.state = "whole" =>
        /\ file.snap.completed = SubSeq(report, 1, Len(file.snap.completed))
        /\ file.snap.passed <=> AllOf(file.snap.completed)
    /\ (report # <<>> /\ pc # "write" /\ alone /\ cpw["ticker"].pc # "data") =>
        file.state = "whole" /\ file.snap.completed = report
    /\ pc = "report" => (allPassed <=> AllOf(report))

\* A snapshot of the progress: the first results of the report, and whether all
\* of them are good.
Moment(snap) ==
    /\ Len(snap.completed) <= Len(report)
    /\ \A i \in 1..Len(snap.completed) : snap.completed[i] = report[i]
    /\ snap.passed <=> AllOf(snap.completed)

\* What a goroutine that is writing the file has in hand. When main writes alone,
\* or the ticker between main's writes, what it will write is up to date and the
\* file that it has opened is still empty.
WritersInv ==
    /\ \A g \in Goroutines : cpw[g].pc # "idle" => Moment(cpw[g].snap)
    /\ cpw["main"].pc # "idle" => pc = "write" /\ cpw["main"].snap.completed = report
    /\ alone /\ cpw["main"].pc # "idle" => cpw["ticker"].pc = "idle"
    /\ alone /\ cpw["main"].pc = "data" => file.state = "empty"
    /\ alone /\ pc # "write" /\ cpw["ticker"].pc # "idle" => cpw["ticker"].snap.completed = report
    /\ alone /\ pc # "write" /\ cpw["ticker"].pc = "data" => file.state = "empty"

\* The types of what the checkpoints depend on.
CheckpointTypes ==
    LET Progress == [completed : Seq(BOOLEAN), passed : BOOLEAN, current : Nat] IN
    /\ kind \in {"none", "ceiling", "steady", "skew", "avalanche"}
    /\ pc \in {"seed", "next", "start", "running", "write", "report", "exited"}
    /\ phase \in Nat
    /\ sweepOK \in BOOLEAN /\ allPassed \in BOOLEAN /\ alone \in BOOLEAN
    /\ report \in Seq(BOOLEAN)
    /\ progress \in Progress
    /\ cpw \in [Goroutines -> [pc : {"idle", "open", "data"}, snap : Progress]]
    /\ file \in [state : {"absent", "empty", "whole", "torn"}, snap : Progress]

\* The inductive invariant of the checkpoints: report and progress say the same,
\* and so does what the two goroutines write.
CheckpointInv ==
    /\ CheckpointTypes
    /\ progress.completed = report
    /\ progress.passed <=> AllOf(report)
    /\ pc # "exited" => (allPassed <=> AllOf(report))
    /\ file.state = "whole" => Moment(file.snap)
    /\ WritersInv
    /\ CheckpointSound

\* No writer of phase 2 or 2b got a connection, jobCh is full, and the producer
\* waits for ever to hand over a job.
Stuck ==
    /\ Queued
    /\ producer = "send"
    /\ Len(queue) = QueueCap
    /\ tally.lost = Cardinality(Workers)

\* The load test ends, however its phases fail, except when it is Stuck.
RunEnds == <>(pc = "exited" \/ Stuck)

=============================================================================
