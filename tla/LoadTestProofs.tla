--------------------------- MODULE LoadTestProofs ---------------------------
(***************************************************************************)
(* Proofs about the load test, for every configuration, number of writers  *)
(* and watchers, and bound: its checkpoints, the counts of its writers,    *)
(* and the watchers of its drill, in this order.                           *)
(***************************************************************************)
EXTENDS LoadTest, FiniteSetTheorems, FunctionTheorems, SequenceTheorems,
        WellFoundedInduction, TLAPS

-----------------------------------------------------------------------------

\* A result more: the earlier ones stay, and all are good if they and it are.
LEMMA ResultAdded ==
    ASSUME NEW s \in Seq(BOOLEAN), NEW p \in BOOLEAN
    PROVE  /\ Append(s, p) \in Seq(BOOLEAN) /\ Append(s, p) # <<>>
           /\ Len(Append(s, p)) = Len(s) + 1
           /\ \A i \in 1..Len(s) : Append(s, p)[i] = s[i]
           /\ AllOf(Append(s, p)) <=> AllOf(s) /\ p
<1>1. /\ Append(s, p) \in Seq(BOOLEAN) /\ Append(s, p) # <<>>
      /\ Len(Append(s, p)) = Len(s) + 1
      /\ \A i \in 1..Len(s) : Append(s, p)[i] = s[i]
      /\ Append(s, p)[Len(s) + 1] = p
      /\ Len(s) \in Nat
  OBVIOUS
<1>2. DOMAIN s = 1..Len(s) /\ DOMAIN Append(s, p) = 1..(Len(s) + 1)
  OBVIOUS
<1>3. ASSUME AllOf(s), p PROVE AllOf(Append(s, p))
  <2> SUFFICES ASSUME NEW i \in 1..(Len(s) + 1) PROVE Append(s, p)[i]
    BY <1>2 DEF AllOf
  <2>1. CASE i = Len(s) + 1
    BY <1>1, <1>3, <2>1
  <2>2. CASE i # Len(s) + 1
    <3>1. i \in 1..Len(s)
      BY <1>1, <2>2
    <3> QED
      BY <1>1, <1>2, <1>3, <3>1 DEF AllOf
  <2> QED
    BY <2>1, <2>2
<1>4. ASSUME AllOf(Append(s, p)) PROVE AllOf(s) /\ p
  <2>1. \A i \in 1..(Len(s) + 1) : Append(s, p)[i]
    BY <1>2, <1>4 DEF AllOf
  <2>2. ASSUME NEW i \in 1..Len(s) PROVE s[i]
    <3>1. i \in 1..(Len(s) + 1)
      BY <1>1
    <3> QED
      BY <1>1, <2>1, <3>1
  <2>3. Len(s) + 1 \in 1..(Len(s) + 1)
    BY <1>1
  <2>4. p
    BY <1>1, <2>1, <2>3
  <2> QED
    BY <1>2, <2>2, <2>4 DEF AllOf
<1> QED
  BY <1>1, <1>3, <1>4

\* A sequence that agrees with another as far as it goes is its beginning.
LEMMA Beginning ==
    ASSUME NEW s \in Seq(BOOLEAN), NEW t \in Seq(BOOLEAN), Len(s) <= Len(t),
           \A i \in 1..Len(s) : s[i] = t[i]
    PROVE  s = SubSeq(t, 1, Len(s))
<1>1. Len(s) \in Nat /\ Len(t) \in Nat /\ DOMAIN s = 1..Len(s) /\ DOMAIN t = 1..Len(t)
  OBVIOUS
<1>2. SubSeq(t, 1, Len(s)) = [i \in 1..Len(s) |-> t[i]]
  BY <1>1
<1>3. s = [i \in 1..Len(s) |-> s[i]]
  BY <1>1
<1>4. [i \in 1..Len(s) |-> s[i]] = [i \in 1..Len(s) |-> t[i]]
  OBVIOUS
<1> QED
  BY <1>2, <1>3, <1>4

-----------------------------------------------------------------------------

\* At the start the report is empty and nobody writes.
LEMMA CheckpointInit == Init => CheckpointInv
<1> SUFFICES ASSUME Init PROVE CheckpointInv
  OBVIOUS
<1>1. <<>> \in Seq(BOOLEAN) /\ AllOf(<<>>)
  BY DEF AllOf
<1>2. CheckpointTypes
  BY <1>1 DEF Init, PoolInit, CheckpointTypes, NoProgress, NotWriting
<1>3. /\ report = <<>> /\ progress = NoProgress /\ allPassed = TRUE /\ pc = "seed"
      /\ file.state = "absent" /\ \A g \in Goroutines : cpw[g].pc = "idle"
  BY DEF Init, NotWriting
<1>4. progress.completed = report /\ (progress.passed <=> AllOf(report))
  BY <1>1, <1>3 DEF NoProgress
<1>5. WritersInv
  BY <1>3 DEF WritersInv, Goroutines
<1>6. CheckpointSound
  BY <1>3 DEF CheckpointSound
<1> QED
  BY <1>1, <1>2, <1>3, <1>4, <1>5, <1>6 DEF CheckpointInv

\* A moment of the run stays one when the report grows.
LEMMA MomentStays ==
    ASSUME NEW snap, Moment(snap), snap.completed \in Seq(BOOLEAN), report \in Seq(BOOLEAN),
           \/ report' = report
           \/ \E p \in BOOLEAN : report' = Append(report, p)
    PROVE  Moment(snap)'
<1>1. CASE report' = report
  BY <1>1 DEF Moment
<1>2. ASSUME NEW p \in BOOLEAN, report' = Append(report, p) PROVE Moment(snap)'
  <2>1. /\ Len(report') = Len(report) + 1 /\ Len(report) \in Nat /\ Len(snap.completed) \in Nat
        /\ \A i \in 1..Len(report) : report'[i] = report[i]
    BY <1>2, ResultAdded
  <2>2. Len(snap.completed) <= Len(report)
    BY DEF Moment
  <2>3. \A i \in 1..Len(snap.completed) : snap.completed[i] = report'[i]
    BY <2>1, <2>2 DEF Moment
  <2>4. Len(snap.completed) <= Len(report')
    BY <2>1, <2>2
  <2> QED
    BY <2>3, <2>4 DEF Moment
<1> QED
  BY <1>1, <1>2

\* What a moment of the run says of the file.
LEMMA FileSound ==
    ASSUME CheckpointTypes', (file.state = "whole" => Moment(file.snap))'
    PROVE  (file.state = "whole" =>
               /\ file.snap.completed = SubSeq(report, 1, Len(file.snap.completed))
               /\ file.snap.passed <=> AllOf(file.snap.completed))'
<1> SUFFICES ASSUME file'.state = "whole"
             PROVE  /\ file'.snap.completed = SubSeq(report', 1, Len(file'.snap.completed))
                    /\ file'.snap.passed <=> AllOf(file'.snap.completed)
  OBVIOUS
<1>1. /\ Len(file'.snap.completed) <= Len(report')
      /\ \A i \in 1..Len(file'.snap.completed) : file'.snap.completed[i] = report'[i]
      /\ file'.snap.passed <=> AllOf(file'.snap.completed)
  BY DEF Moment
<1>2. file'.snap.completed \in Seq(BOOLEAN) /\ report' \in Seq(BOOLEAN)
  BY DEF CheckpointTypes
<1> QED
  BY <1>1, <1>2, Beginning

-----------------------------------------------------------------------------
(***************************************************************************)
(* Steps of main, of the writers and of the drill.                         *)
(***************************************************************************)

\* A step that completes no phase and writes no file.
LEMMA OtherKeepsInv ==
    ASSUME CheckpointInv, CheckpointTypes', UNCHANGED <<report, cpw, file, alone>>,
           progress'.completed = progress.completed, progress'.passed = progress.passed,
           pc # "exited", pc' = "write" <=> pc = "write",
           pc' = "exited" \/ allPassed' = allPassed
    PROVE  CheckpointInv'
<1>1. \A snap : Moment(snap)' <=> Moment(snap)
  BY DEF Moment
<1>2. WritersInv'
  BY <1>1 DEF CheckpointInv, WritersInv
<1>3. progress'.completed = report' /\ (progress'.passed <=> AllOf(report'))
      /\ (pc' # "exited" => (allPassed' <=> AllOf(report')))
  BY DEF CheckpointInv
<1>4. file'.state = "whole" => Moment(file.snap)'
  BY <1>1 DEF CheckpointInv
<1>5. CheckpointSound'
  BY <1>3 DEF CheckpointInv, CheckpointSound
<1> QED
  BY <1>2, <1>3, <1>4, <1>5 DEF CheckpointInv

\* A phase returns and main records its result.
LEMMA CompleteKeepsInv ==
    ASSUME CheckpointInv, NEW p \in BOOLEAN, Complete(p), UNCHANGED <<cpw, file, alone>>,
           pc \notin {"write", "exited"}, kind' \in {"none", kind}, phase' = phase,
           sweepOK' \in BOOLEAN
    PROVE  CheckpointInv'
<1>1. /\ report' = Append(report, p) /\ pc' = "write" /\ allPassed' = (allPassed /\ p)
      /\ progress' = [completed |-> Append(progress.completed, p),
                      passed |-> progress.passed /\ p, current |-> 0]
  BY DEF Complete
<1>2. /\ CheckpointTypes /\ progress.completed = report
      /\ progress.passed <=> AllOf(report)
      /\ allPassed <=> AllOf(report)
      /\ file.state = "whole" => Moment(file.snap)
      /\ WritersInv
  BY DEF CheckpointInv
<1>3. report \in Seq(BOOLEAN) /\ allPassed \in BOOLEAN /\ progress.passed \in BOOLEAN
      /\ file.snap.completed \in Seq(BOOLEAN)
      /\ \A g \in Goroutines : cpw[g].snap.completed \in Seq(BOOLEAN)
  BY <1>2 DEF CheckpointTypes
<1>4. report' \in Seq(BOOLEAN) /\ (AllOf(report') <=> AllOf(report) /\ p)
  BY <1>1, <1>3, ResultAdded
<1>5. progress'.completed = report' /\ (progress'.passed <=> AllOf(report'))
      /\ (allPassed' <=> AllOf(report'))
  BY <1>1, <1>2, <1>4
<1>6. CheckpointTypes'
  BY <1>1, <1>2, <1>3, <1>4 DEF CheckpointTypes
<1>7. file'.state = "whole" => Moment(file.snap)'
  BY <1>1, <1>2, <1>3, MomentStays
<1>8. WritersInv'
  <2>1. \A g \in Goroutines : cpw[g].pc # "idle" => Moment(cpw[g].snap)'
    BY <1>1, <1>2, <1>3, MomentStays DEF WritersInv
  <2>2. cpw["main"].pc = "idle"
    BY <1>2 DEF WritersInv
  <2> QED
    BY <1>1, <2>1, <2>2 DEF WritersInv
<1>9. CheckpointSound'
  BY <1>1, <1>6, <1>7, FileSound DEF CheckpointSound
<1> QED
  BY <1>5, <1>6, <1>7, <1>8, <1>9 DEF CheckpointInv

-----------------------------------------------------------------------------
(***************************************************************************)
(* The two goroutines that write the checkpoint file.                      *)
(***************************************************************************)

\* What CheckpointInv says, when only cpw, file, alone, pc and ticks change.
LEMMA WritersKeepInv ==
    ASSUME CheckpointInv, CheckpointTypes', UNCHANGED <<report, progress, allPassed>>,
           pc # "exited", pc' # "exited",
           (file.state = "whole" => Moment(file.snap))', WritersInv',
           (report # <<>> /\ pc # "write" /\ alone /\ cpw["ticker"].pc # "data" =>
               file.state = "whole" /\ file.snap.completed = report)'
    PROVE  CheckpointInv'
<1>1. /\ progress'.completed = report' /\ (progress'.passed <=> AllOf(report'))
      /\ allPassed' <=> AllOf(report')
  BY DEF CheckpointInv
<1>2. CheckpointSound'
  BY <1>1, FileSound DEF CheckpointSound
<1> QED
  BY <1>1, <1>2 DEF CheckpointInv

\* The snapshot is of now; main's is the only one when alone is set.
LEMMA SnapshotKeepsInv ==
    ASSUME CheckpointInv, NEW g \in Goroutines, Snapshot(g)
    PROVE  CheckpointInv'
<1>1. /\ UNCHANGED <<report, progress, allPassed, pc, phase, kind, sweepOK, file>>
      /\ cpw' = [cpw EXCEPT ![g] = [pc |-> "open", snap |-> progress]]
      /\ cpw[g].pc = "idle"
      /\ IF g = "main" THEN pc = "write" ELSE pc # "exited"
      /\ alone' = IF g = "main" THEN cpw["ticker"].pc = "idle"
                  ELSE alone /\ cpw["main"].pc = "idle"
  BY DEF Snapshot, Quiet, mainVars, poolVars
<1>2. CheckpointTypes /\ WritersInv /\ CheckpointSound /\ progress.completed = report
      /\ (progress.passed <=> AllOf(report)) /\ (file.state = "whole" => Moment(file.snap))
  BY DEF CheckpointInv
<1>3. report \in Seq(BOOLEAN) /\ alone \in BOOLEAN
  BY <1>2 DEF CheckpointTypes
<1>4. \A snap : Moment(snap)' <=> Moment(snap)
  BY <1>1 DEF Moment
<1>5. Moment(progress)
  BY <1>2, <1>3 DEF Moment
<1>6. CheckpointTypes'
  <2>1. alone' \in BOOLEAN
    BY <1>1, <1>3
  <2> QED
    BY <1>1, <1>2, <2>1 DEF CheckpointTypes
<1>7. /\ cpw'[g].pc = "open" /\ cpw'[g].snap = progress
      /\ \A h \in Goroutines \ {g} : cpw'[h] = cpw[h]
  BY <1>1, <1>2 DEF CheckpointTypes
<1>8. CASE g = "main"
  <2>1. pc' = "write" /\ cpw'["main"].pc = "open" /\ cpw'["main"].snap.completed = report'
        /\ cpw'["ticker"] = cpw["ticker"] /\ (alone' <=> cpw["ticker"].pc = "idle")
    BY <1>1, <1>2, <1>7, <1>8 DEF Goroutines
  <2>2. WritersInv'
    BY <1>2, <1>4, <1>5, <1>7, <2>1 DEF WritersInv, Goroutines
  <2> QED
    BY <1>1, <1>2, <1>4, <1>6, <2>1, <2>2, WritersKeepInv
<1>9. CASE g = "ticker"
  <2>1. pc' = pc /\ pc # "exited" /\ cpw'["ticker"].pc = "open"
        /\ cpw'["ticker"].snap.completed = report'
        /\ cpw'["main"] = cpw["main"] /\ (alone' <=> alone /\ cpw["main"].pc = "idle")
    BY <1>1, <1>2, <1>7, <1>9 DEF Goroutines
  <2>2. WritersInv'
    BY <1>1, <1>2, <1>4, <1>5, <1>7, <2>1 DEF WritersInv, Goroutines
  <2>3. (report # <<>> /\ pc # "write" /\ alone /\ cpw["ticker"].pc # "data" =>
            file.state = "whole" /\ file.snap.completed = report)'
    BY <1>1, <1>2, <1>9, <2>1 DEF CheckpointSound
  <2> QED
    BY <1>1, <1>2, <1>4, <1>6, <2>1, <2>2, <2>3, WritersKeepInv
<1> QED
  BY <1>8, <1>9 DEF Goroutines

\* What Return does, seen from the file.
LEMMA ReturnFacts ==
    ASSUME CheckpointTypes, NEW g \in Goroutines, Return(g)
    PROVE  /\ cpw' \in [Goroutines -> [pc : {"idle", "open", "data"},
                 snap : [completed : Seq(BOOLEAN), passed : BOOLEAN, current : Nat]]]
           /\ cpw'[g].pc = "idle"
           /\ \A h \in Goroutines \ {g} : cpw'[h] = cpw[h]
           /\ g = "main" => pc' = "next"
           /\ g = "ticker" => pc' = pc
           /\ phase' \in Nat
<1>1. NotWriting \in [pc : {"idle", "open", "data"},
                 snap : [completed : Seq(BOOLEAN), passed : BOOLEAN, current : Nat]]
      /\ NotWriting.pc = "idle"
  BY DEF NotWriting, NoProgress
<1>2. cpw' = [cpw EXCEPT ![g] = NotWriting]
      /\ IF g = "main" THEN pc' = "next" /\ phase' = phase + 1 ELSE UNCHANGED <<pc, phase>>
  BY DEF Return
<1> HIDE DEF NotWriting
<1>3. phase' \in Nat
  BY <1>2 DEF CheckpointTypes
<1>4. (g = "main" => pc' = "next") /\ (g = "ticker" => pc' = pc)
  BY <1>2
<1> QED
  BY <1>1, <1>2, <1>3, <1>4 DEF CheckpointTypes

\* Opening the file empties it; an open that fails leaves it.
LEMMA OpenKeepsInv ==
    ASSUME CheckpointInv, NEW g \in Goroutines, Open(g)
    PROVE  CheckpointInv'
<1>1. /\ UNCHANGED <<report, progress, allPassed, kind, sweepOK>>
      /\ pc # "exited" /\ cpw[g].pc = "open"
      /\ \/ /\ file' = [state |-> "empty", snap |-> NoProgress]
            /\ cpw' = [cpw EXCEPT ![g].pc = "data"]
            /\ UNCHANGED <<pc, phase, alone>>
         \/ /\ Return(g)
            /\ alone' = (alone /\ g = "ticker")
            /\ UNCHANGED file
  BY DEF Open, poolVars
<1>2. CheckpointTypes /\ WritersInv /\ CheckpointSound
      /\ (file.state = "whole" => Moment(file.snap))
  BY DEF CheckpointInv
<1>3. \A snap : Moment(snap)' <=> Moment(snap)
  BY <1>1 DEF Moment
<1>4. g = "main" \/ g = "ticker"
  BY DEF Goroutines
<1>5. CASE /\ file' = [state |-> "empty", snap |-> NoProgress]
           /\ cpw' = [cpw EXCEPT ![g].pc = "data"]
           /\ UNCHANGED <<pc, phase, alone>>
  <2>1. /\ cpw'[g].pc = "data" /\ cpw'[g].snap = cpw[g].snap
        /\ \A h \in Goroutines \ {g} : cpw'[h] = cpw[h]
    BY <1>2, <1>5 DEF CheckpointTypes
  <2>2. file'.state = "empty"
    BY <1>5
  <2>3. CheckpointTypes'
    <3>1. file' \in [state : {"absent", "empty", "whole", "torn"},
                     snap : [completed : Seq(BOOLEAN), passed : BOOLEAN, current : Nat]]
      BY <1>5 DEF NoProgress
    <3>2. cpw' \in [Goroutines -> [pc : {"idle", "open", "data"},
                     snap : [completed : Seq(BOOLEAN), passed : BOOLEAN, current : Nat]]]
      BY <1>2, <1>5 DEF CheckpointTypes
    <3> QED
      BY <1>1, <1>2, <1>5, <3>1, <3>2 DEF CheckpointTypes
  <2>4. CASE g = "main"
    <3>1. cpw'["main"].pc = "data" /\ cpw'["main"].snap = cpw["main"].snap
          /\ cpw'["ticker"] = cpw["ticker"] /\ cpw["main"].pc = "open" /\ pc = "write"
      BY <1>1, <1>2, <2>1, <2>4 DEF Goroutines, WritersInv
    <3>2. WritersInv'
      BY <1>1, <1>2, <1>3, <1>5, <2>2, <3>1 DEF WritersInv, Goroutines
    <3> QED
      BY <1>1, <1>5, <2>2, <2>3, <3>1, <3>2, WritersKeepInv
  <2>5. CASE g = "ticker"
    <3>1. cpw'["ticker"].pc = "data" /\ cpw'["ticker"].snap = cpw["ticker"].snap
          /\ cpw'["main"] = cpw["main"] /\ cpw["ticker"].pc = "open"
      BY <1>1, <2>1, <2>5 DEF Goroutines
    <3>2. WritersInv'
      BY <1>1, <1>2, <1>3, <1>5, <2>2, <3>1 DEF WritersInv, Goroutines
    <3> QED
      BY <1>1, <1>5, <2>2, <2>3, <3>1, <3>2, WritersKeepInv
  <2> QED
    BY <1>4, <2>4, <2>5
<1>6. CASE Return(g) /\ alone' = (alone /\ g = "ticker") /\ UNCHANGED file
  <2>1. /\ cpw'[g].pc = "idle"
        /\ \A h \in Goroutines \ {g} : cpw'[h] = cpw[h]
        /\ g = "main" => pc' = "next"
        /\ g = "ticker" => pc' = pc
    BY <1>2, <1>6, ReturnFacts
  <2>2. CheckpointTypes'
    <3>1. alone' \in BOOLEAN /\ pc' \in {pc, "next"}
      BY <1>2, <1>4, <1>6, <2>1 DEF CheckpointTypes
    <3> QED
      BY <1>1, <1>2, <1>6, <3>1, ReturnFacts DEF CheckpointTypes
  <2>3. file'.state = "whole" => Moment(file.snap)'
    BY <1>2, <1>3, <1>6
  <2>4. CASE g = "main"
    <3>1. cpw'["main"].pc = "idle" /\ cpw'["ticker"] = cpw["ticker"] /\ ~alone' /\ pc' = "next"
      BY <1>6, <2>1, <2>4 DEF Goroutines
    <3>2. WritersInv'
      BY <1>2, <1>3, <3>1 DEF WritersInv, Goroutines
    <3> QED
      BY <1>1, <2>2, <2>3, <3>1, <3>2, WritersKeepInv
  <2>5. CASE g = "ticker"
    <3>1. cpw'["ticker"].pc = "idle" /\ cpw'["main"] = cpw["main"] /\ (alone' <=> alone)
          /\ pc' = pc /\ cpw["ticker"].pc = "open"
      BY <1>1, <1>6, <2>1, <2>5 DEF Goroutines
    <3>2. WritersInv'
      BY <1>1, <1>2, <1>3, <1>6, <3>1 DEF WritersInv, Goroutines
    <3>3. (report # <<>> /\ pc # "write" /\ alone /\ cpw["ticker"].pc # "data" =>
              file.state = "whole" /\ file.snap.completed = report)'
      BY <1>1, <1>2, <1>6, <3>1 DEF CheckpointSound
    <3> QED
      BY <1>1, <2>2, <2>3, <3>1, <3>2, <3>3, WritersKeepInv
  <2> QED
    BY <1>4, <2>4, <2>5
<1> QED
  BY <1>1, <1>5, <1>6

\* The data of a writer that is alone makes the file whole and up to date.
LEMMA DataKeepsInv ==
    ASSUME CheckpointInv, NEW g \in Goroutines, Data(g)
    PROVE  CheckpointInv'
<1>1. /\ UNCHANGED <<report, progress, allPassed, kind, sweepOK, alone>>
      /\ pc # "exited" /\ cpw[g].pc = "data"
      /\ \/ file' = [state |-> "whole", snap |-> cpw[g].snap]
         \/ file.state # "empty" /\ file' = [state |-> "torn", snap |-> NoProgress]
      /\ Return(g)
  BY DEF Data, poolVars
<1>2. CheckpointTypes /\ WritersInv /\ CheckpointSound
      /\ (file.state = "whole" => Moment(file.snap))
  BY DEF CheckpointInv
<1>3. \A snap : Moment(snap)' <=> Moment(snap)
  BY <1>1 DEF Moment
<1>4. g = "main" \/ g = "ticker"
  BY DEF Goroutines
<1>5. /\ cpw'[g].pc = "idle"
      /\ \A h \in Goroutines \ {g} : cpw'[h] = cpw[h]
      /\ g = "main" => pc' = "next"
      /\ g = "ticker" => pc' = pc
  BY <1>1, <1>2, ReturnFacts
<1>6. CheckpointTypes'
  <2>1. pc' \in {pc, "next"}
    BY <1>4, <1>5
  <2>2. file' \in [state : {"absent", "empty", "whole", "torn"},
                   snap : [completed : Seq(BOOLEAN), passed : BOOLEAN, current : Nat]]
    <3> DEFINE P == [completed : Seq(BOOLEAN), passed : BOOLEAN, current : Nat]
    <3>1. cpw[g].snap \in P /\ NoProgress \in P
      BY <1>2 DEF CheckpointTypes, NoProgress
    <3> HIDE DEF P
    <3>2. file' \in [state : {"absent", "empty", "whole", "torn"}, snap : P]
      BY <1>1, <3>1
    <3> QED
      BY <3>2 DEF P
  <2> QED
    BY <1>1, <1>2, <2>1, <2>2, ReturnFacts DEF CheckpointTypes
<1>7. Moment(cpw[g].snap)
  BY <1>1, <1>2 DEF WritersInv
<1>8. file'.state = "whole" => Moment(file.snap)'
  BY <1>1, <1>3, <1>7
<1>9. file.state = "empty" => file'.state = "whole" /\ file'.snap = cpw[g].snap
  BY <1>1
<1>10. CASE g = "main"
  <2>1. cpw'["main"].pc = "idle" /\ cpw'["ticker"] = cpw["ticker"] /\ pc' = "next"
        /\ cpw["main"].pc = "data" /\ pc = "write" /\ cpw["main"].snap.completed = report
    BY <1>1, <1>2, <1>5, <1>10 DEF Goroutines, WritersInv
  <2>2. alone => file.state = "empty" /\ cpw["ticker"].pc = "idle"
    BY <1>2, <2>1 DEF WritersInv
  <2>3. WritersInv'
    BY <1>1, <1>2, <1>3, <2>1, <2>2 DEF WritersInv, Goroutines
  <2>4. (report # <<>> /\ pc # "write" /\ alone /\ cpw["ticker"].pc # "data" =>
            file.state = "whole" /\ file.snap.completed = report)'
    BY <1>1, <1>9, <1>10, <2>1, <2>2
  <2> QED
    BY <1>1, <1>6, <1>8, <2>1, <2>3, <2>4, WritersKeepInv
<1>11. CASE g = "ticker"
  <2>1. cpw'["ticker"].pc = "idle" /\ cpw'["main"] = cpw["main"] /\ pc' = pc
        /\ cpw["ticker"].pc = "data"
    BY <1>1, <1>5, <1>11 DEF Goroutines
  <2>2. alone => cpw["main"].pc = "idle"
    BY <1>2, <2>1 DEF WritersInv
  <2>3. alone /\ pc # "write" => file.state = "empty" /\ cpw["ticker"].snap.completed = report
    BY <1>2, <2>1 DEF WritersInv
  <2>4. WritersInv'
    BY <1>1, <1>2, <1>3, <2>1, <2>2 DEF WritersInv, Goroutines
  <2>5. (report # <<>> /\ pc # "write" /\ alone /\ cpw["ticker"].pc # "data" =>
            file.state = "whole" /\ file.snap.completed = report)'
    BY <1>1, <1>9, <1>11, <2>1, <2>3
  <2> QED
    BY <1>1, <1>6, <1>8, <2>1, <2>4, <2>5, WritersKeepInv
<1> QED
  BY <1>4, <1>10, <1>11

-----------------------------------------------------------------------------

\* What a phase says of itself is a truth value.
LEMMA VerdictsBoolean ==
    /\ CheckpointTypes /\ kind # "none" => Verdicts \subseteq BOOLEAN
    /\ DrillVerdicts \subseteq BOOLEAN
<1>1. ASSUME CheckpointTypes, kind # "none"
      PROVE  Verdicts \subseteq BOOLEAN
  <2>1. kind \in {"ceiling", "steady", "skew", "avalanche"}
    BY <1>1 DEF CheckpointTypes
  <2>2. CASE kind = "ceiling"
    BY <2>2 DEF Verdicts, Verdicts1
  <2>3. CASE kind = "steady"
    BY <2>3 DEF Verdicts, Verdicts2
  <2>4. CASE kind = "skew"
    BY <2>4 DEF Verdicts, Verdicts2b
  <2>5. CASE kind = "avalanche"
    BY <2>5 DEF Verdicts, Verdicts3
  <2> QED
    BY <2>1, <2>2, <2>3, <2>4, <2>5
<1>2. ASSUME NEW n, NEW m
      PROVE  {FALSE, n >= m} \subseteq BOOLEAN
  OBVIOUS
<1>3. DrillVerdicts \subseteq BOOLEAN
  BY <1>2 DEF DrillVerdicts
<1> QED
  BY <1>1, <1>3

\* main's steps between the phases.
LEMMA MainKeepsInv ==
    ASSUME CheckpointInv,
           \/ Seed \/ SeedFails \/ SkipPhase \/ BeginPhase \/ StartDrill \/ Report \/ Exit
    PROVE  CheckpointInv'
<1>1. CheckpointTypes /\ progress \in [completed : Seq(BOOLEAN), passed : BOOLEAN, current : Nat]
  BY DEF CheckpointInv, CheckpointTypes
<1>2. CASE BeginPhase
  <2>1. /\ UNCHANGED <<report, cpw, file, alone, allPassed, kind, phase>>
        /\ pc = "next" /\ pc' = "start" /\ sweepOK' = TRUE
        /\ progress' = [progress EXCEPT !.current = phase]
    BY <1>2 DEF BeginPhase, poolVars
  <2>2. /\ progress' \in [completed : Seq(BOOLEAN), passed : BOOLEAN, current : Nat]
        /\ progress'.completed = progress.completed /\ progress'.passed = progress.passed
    BY <1>1, <2>1 DEF CheckpointTypes
  <2>3. CheckpointTypes'
    BY <1>1, <2>1, <2>2 DEF CheckpointTypes
  <2> QED
    BY <2>1, <2>2, <2>3, OtherKeepsInv
<1>3. CASE Seed \/ SeedFails \/ SkipPhase \/ StartDrill \/ Report \/ Exit
  <2>1. /\ UNCHANGED <<report, cpw, file, alone, kind, progress, sweepOK>>
        /\ pc \notin {"write", "exited"} /\ pc' \in {"next", "start", "running", "report", "exited"}
        /\ pc' = "exited" \/ allPassed' = allPassed
        /\ allPassed' \in {allPassed, FALSE}
        /\ phase' \in {phase, phase + 1}
    BY <1>3 DEF Seed, SeedFails, SkipPhase, StartDrill, Report, Exit, cpVars, poolVars
  <2>2. phase \in Nat /\ allPassed \in BOOLEAN
    BY <1>1 DEF CheckpointTypes
  <2>3. phase' \in Nat
    BY <2>1, <2>2
  <2>4. allPassed' \in BOOLEAN
    BY <2>1, <2>2
  <2>5. CheckpointTypes'
    BY <1>1, <2>1, <2>3, <2>4 DEF CheckpointTypes
  <2> QED
    BY <2>1, <2>5, OtherKeepsInv
<1> QED
  BY <1>2, <1>3

\* The phases with writers, and what runs inside a phase.
LEMMA WritersRunKeepsInv ==
    ASSUME CheckpointInv, StartWriters \/ Writers \/ Watching(DrillStep)
    PROVE  CheckpointInv'
<1>1. /\ UNCHANGED <<report, cpw, file, alone, progress, sweepOK, allPassed, phase>>
      /\ pc \in {"start", "running"} /\ pc' = "running"
  BY DEF StartWriters, Writers, Watching, cpVars, mainVars
<1>2. kind' \in {kind, "ceiling", "steady", "skew", "avalanche"}
  <2>1. CASE StartWriters
    BY <2>1 DEF StartWriters, RunWriters, RunPhase1Single, RunPhase2, RunPhase2b, RunPhase3, PoolStart
  <2>2. CASE Writers
    BY <2>2 DEF Writers, PoolStep, Connect, OwnWrite, TakeJob, WriteReturns, WriteErrs,
                WriterLeaves, RateCheck, RateSend, WarmupEnds, TimeIsUp
  <2>3. CASE Watching(DrillStep)
    BY <2>3 DEF Watching, poolVars
  <2> QED
    BY <2>1, <2>2, <2>3
<1>3. CheckpointTypes'
  BY <1>1, <1>2 DEF CheckpointInv, CheckpointTypes
<1> QED
  BY <1>1, <1>3, OtherKeepsInv

\* The ends of the phases.
LEMMA PhaseEndKeepsInv ==
    ASSUME CheckpointInv, PhaseErrs \/ BaselineBatch \/ WritersDone \/ DrillReturns
    PROVE  CheckpointInv'
<1>1. CheckpointTypes /\ sweepOK \in BOOLEAN
  BY DEF CheckpointInv, CheckpointTypes
<1>2. UNCHANGED <<cpw, file, alone, phase>> /\ pc \in {"start", "running"}
      /\ kind' \in {"none", kind}
  BY DEF PhaseErrs, BaselineBatch, WritersDone, DrillReturns, PoolReturn, poolVars
<1>3. ASSUME NEW p \in BOOLEAN, Complete(p), sweepOK' = sweepOK PROVE CheckpointInv'
  BY <1>1, <1>2, <1>3, CompleteKeepsInv
<1>4. CASE PhaseErrs
  BY <1>3, <1>4 DEF PhaseErrs
<1>5. CASE BaselineBatch
  <2>1. sweepOK' = sweepOK /\ kind' = kind
        /\ (Complete(FALSE) \/ Complete(TRUE) \/ UNCHANGED <<pc, allPassed, report, progress>>)
    BY <1>5 DEF BaselineBatch, poolVars
  <2>2. CASE UNCHANGED <<pc, allPassed, report, progress>>
    <3>1. CheckpointTypes'
      BY <1>1, <1>2, <2>1, <2>2 DEF CheckpointTypes
    <3> QED
      BY <1>2, <2>2, <3>1, OtherKeepsInv
  <2> QED
    BY <1>3, <2>1, <2>2
<1>6. CASE WritersDone
  <2>1. PICK passed \in Verdicts :
          \/ SweepOn(passed)
          \/ Complete(passed /\ sweepOK) /\ sweepOK' = sweepOK
    BY <1>6 DEF WritersDone
  <2>2. kind # "none"
    BY <1>6 DEF WritersDone, PoolDone
  <2>3. passed \in BOOLEAN
    BY <1>1, <2>2, VerdictsBoolean
  <2>4. CASE SweepOn(passed)
    <3>1. /\ pc' = "start" /\ sweepOK' = (sweepOK /\ passed)
          /\ UNCHANGED <<allPassed, report, progress>>
      BY <2>4 DEF SweepOn
    <3>2. sweepOK' \in BOOLEAN
      BY <1>1, <2>3, <3>1
    <3>3. CheckpointTypes'
      BY <1>1, <1>2, <3>1, <3>2 DEF CheckpointTypes
    <3> QED
      BY <1>2, <3>1, <3>3, OtherKeepsInv
  <2>5. CASE Complete(passed /\ sweepOK) /\ sweepOK' = sweepOK
    <3>1. (passed /\ sweepOK) \in BOOLEAN
      OBVIOUS
    <3> QED
      BY <1>3, <2>5, <3>1
  <2> QED
    BY <2>1, <2>4, <2>5
<1>7. CASE DrillReturns
  <2>1. PICK passed \in DrillVerdicts : Complete(passed)
    BY <1>7 DEF DrillReturns
  <2>2. passed \in BOOLEAN /\ sweepOK' = sweepOK
    BY <1>7, VerdictsBoolean DEF DrillReturns
  <2> QED
    BY <1>3, <2>1, <2>2
<1> QED
  BY <1>4, <1>5, <1>6, <1>7

\* Every step keeps the invariant of the checkpoints.
LEMMA CheckpointNext == CheckpointInv /\ [Next]_vars => CheckpointInv'
<1> SUFFICES ASSUME CheckpointInv, [Next]_vars PROVE CheckpointInv'
  OBVIOUS
<1>1. "main" \in Goroutines /\ "ticker" \in Goroutines
  BY DEF Goroutines
<1>2. CASE Seed \/ SeedFails \/ SkipPhase \/ BeginPhase \/ StartDrill \/ Report \/ Exit
  BY <1>2, MainKeepsInv
<1>3. CASE StartWriters \/ Writers \/ Watching(DrillStep)
  BY <1>3, WritersRunKeepsInv
<1>4. CASE PhaseErrs \/ BaselineBatch \/ WritersDone \/ DrillReturns
  BY <1>4, PhaseEndKeepsInv
<1>5. CASE Snapshot("main") \/ Open("main") \/ Data("main")
  BY <1>1, <1>5, SnapshotKeepsInv, OpenKeepsInv, DataKeepsInv
<1>6. CASE TickerStep
  BY <1>1, <1>6, SnapshotKeepsInv, OpenKeepsInv, DataKeepsInv DEF TickerStep
<1>7. CASE UNCHANGED vars
  <2>1. UNCHANGED <<kind, pc, phase, sweepOK, allPassed, report, progress, cpw, file, alone>>
    BY <1>7 DEF vars, poolVars, mainVars, cpVars
  <2> QED
    BY <2>1 DEF CheckpointInv, CheckpointTypes, Moment, WritersInv, CheckpointSound
<1> QED
  BY <1>2, <1>3, <1>4, <1>5, <1>6, <1>7 DEF Next, MainStep

\* The inductive invariant of the report and the checkpoint file that main and
\* the ticker goroutine write.
THEOREM CheckpointInvariant == Spec => []CheckpointInv
<1> QED
  BY CheckpointInit, CheckpointNext, PTL DEF Spec

\* Whatever main and the ticker do to each other's writes, a checkpoint file that
\* is whole is one moment of the run.
THEOREM CheckpointsSound == Spec => []CheckpointSound
<1>1. CheckpointInv => CheckpointSound
  BY DEF CheckpointInv
<1> QED
  BY <1>1, CheckpointInvariant, PTL

-----------------------------------------------------------------------------
\* The counts of the writers.

\* The writers that have a write under way.
InHand(w) == {id \in Ids : w[id] = "write"}

\* The part of TypeOK that is about the writers.
PoolTypes ==
    /\ kind \in {"none", "ceiling", "steady", "skew", "avalanche"}
    /\ clock \in {"warmup", "run", "over"}
    /\ producer \in {"check", "send", "closed"}
    /\ queue \in Seq(0..MaxJobs) /\ Len(queue) <= QueueCap
    /\ counter \in 0..MaxJobs
    /\ wpc \in [Ids -> {"absent", "connect", "idle", "write", "gone"}]
    /\ at \in [Ids -> Nat]
    /\ warmed \in SUBSET Ids
    /\ killed \in SUBSET Workers
    /\ fresh \in SUBSET rows

Failed == tally.ser + tally.other - tally.lost

\* The part of Tally that is about the writers alone.
PoolCounts ==
    /\ tally.writes = Cardinality(counted)
    /\ counted \subseteq rows
    /\ kind = "avalanche" \/ Queued => Cardinality(fresh \ counted) <= Failed
    /\ Queued => counter = Len(queue) + Cardinality(InHand(wpc)) + tally.writes + Failed

PoolSound == PoolTypes /\ PoolCounts /\ PoolInv

LEMMA TallyParts ==
    TallyInv <=>
        /\ PoolSound
        /\ truncated \/ left > 0 => counted \subseteq fresh
        /\ pc \in {"seed", "next", "start", "running", "write", "report", "exited"}
        /\ phase \in 1..(Len(Phases) + 1)
        /\ file.state \in {"absent", "empty", "whole", "torn"}
        /\ kind # "none" => pc = "running" /\ dpc = "off"
        /\ dpc # "off" => pc = "running"
        /\ pc \in {"start", "running", "write"} => phase <= Len(Phases)
        /\ kind # "none" /\ (truncated \/ left > 0) => rows \subseteq fresh
  BY DEF TallyInv, Tally, TypeOK, PoolSound, PoolTypes, PoolCounts, Failed, InHand

LEMMA IdsFinite == IsFiniteSet(Ids)
<1>1. IsFiniteSet({"holder", "survivor"})
  <2>1. IsFiniteSet({} \cup {"holder"})
    BY FS_EmptySet, FS_AddElement
  <2>2. IsFiniteSet(({} \cup {"holder"}) \cup {"survivor"})
    BY <2>1, FS_AddElement
  <2>3. ({} \cup {"holder"}) \cup {"survivor"} = {"holder", "survivor"}
    OBVIOUS
  <2> QED
    BY <2>2, <2>3
<1> QED
  BY <1>1, FS_Product, WriterPoolAssumption DEF Ids

\* Writers that take a write in hand, or put it down.
LEMMA HandChanges ==
    ASSUME NEW w, DOMAIN w = Ids, NEW id \in Ids, NEW v
    PROVE  LET u == [w EXCEPT ![id] = v] IN
           /\ Cardinality(InHand(w)) \in Nat
           /\ w[id] # "write" /\ v # "write" => InHand(u) = InHand(w)
           /\ w[id] # "write" /\ v = "write" =>
                Cardinality(InHand(u)) = Cardinality(InHand(w)) + 1
           /\ w[id] = "write" /\ v # "write" =>
                Cardinality(InHand(u)) = Cardinality(InHand(w)) - 1
<1> DEFINE u == [w EXCEPT ![id] = v]
<1>1. IsFiniteSet(InHand(w))
  BY IdsFinite, FS_Subset DEF InHand
<1>2. w[id] # "write" /\ v # "write" => InHand(u) = InHand(w)
  BY DEF InHand
<1>3. w[id] # "write" /\ v = "write" => InHand(u) = InHand(w) \cup {id} /\ id \notin InHand(w)
  BY DEF InHand
<1>4. w[id] = "write" /\ v # "write" => InHand(u) = InHand(w) \ {id} /\ id \in InHand(w)
  BY DEF InHand
<1> HIDE DEF u
<1>5. Cardinality(InHand(w)) \in Nat
  BY <1>1, FS_CardinalityType
<1> QED
  BY <1>1, <1>2, <1>3, <1>4, <1>5, FS_AddElement, FS_RemoveElement DEF u

LEMMA TallyNumbers ==
    ASSUME PoolInv
    PROVE  /\ tally.writes \in Nat /\ tally.ser \in Nat /\ tally.other \in Nat /\ tally.lost \in Nat
           /\ Failed \in Nat
  BY DEF PoolInv, Failed

LEMMA MemberOfSeq ==
    ASSUME NEW S, NEW q \in Seq(S), NEW i \in 1..Len(q)
    PROVE  q[i] \in S
  OBVIOUS

\* JobsInv, piece by piece.
LEMMA JobsParts ==
    JobsInv <=>
        /\ \A i \in DOMAIN queue : queue[i] < counter /\ <<"job", queue[i]>> \notin counted
        /\ \A i, j \in DOMAIN queue : i # j => queue[i] # queue[j]
        /\ \A i \in DOMAIN queue, id \in InHand(wpc) : queue[i] # at[id]
        /\ \A id \in InHand(wpc) : at[id] < counter /\ <<"job", at[id]>> \notin counted
        /\ \A id, other \in InHand(wpc) : id # other => at[id] # at[other]
        /\ \A n \in counter..MaxJobs : <<"job", n>> \notin counted
  BY Zenon DEF JobsInv, InHand

LEMMA JobsPartsNext ==
    JobsInv' <=>
        /\ \A i \in DOMAIN queue' : queue'[i] < counter' /\ <<"job", queue'[i]>> \notin counted'
        /\ \A i, j \in DOMAIN queue' : i # j => queue'[i] # queue'[j]
        /\ \A i \in DOMAIN queue', id \in InHand(wpc') : queue'[i] # at'[id]
        /\ \A id \in InHand(wpc') : at'[id] < counter' /\ <<"job", at'[id]>> \notin counted'
        /\ \A id, other \in InHand(wpc') : id # other => at'[id] # at'[other]
        /\ \A n \in counter'..MaxJobs : <<"job", n>> \notin counted'
  BY Zenon DEF JobsInv, InHand

\* Steps that neither begin nor end a write.
LEMMA QuietKeepsPool ==
    ASSUME PoolSound, PoolTypes',
           UNCHANGED <<kind, queue, counter, at, warmed, rows, fresh, counted>>,
           kind # "none",
           InHand(wpc') \subseteq InHand(wpc), Queued => InHand(wpc') = InHand(wpc),
           tally' \in [writes : Nat, ser : Nat, other : Nat, lost : Nat],
           tally'.lost <= tally'.other, tally'.writes = tally.writes, Failed' = Failed,
           producer' = "send" => counter < MaxJobs
    PROVE  PoolSound'
<1>1. PoolTypes /\ PoolCounts /\ PoolInv /\ Queued' = Queued
  BY DEF PoolSound, Queued
<1>2. PoolCounts'
  BY <1>1 DEF PoolCounts
<1>3. \A id \in Ids : wpc'[id] = "write" => wpc[id] = "write"
  BY DEF InHand
<1>4. kind \in {"ceiling", "avalanche"} => OwnNamesInv'
  BY <1>1, <1>3 DEF OwnNamesInv, PoolInv
<1>5. Queued => JobsInv'
  BY <1>1, <1>3 DEF JobsInv, PoolInv
<1>6. PoolInv'
  BY <1>1, <1>3, <1>4, <1>5 DEF PoolInv
<1> QED
  BY <1>2, <1>6 DEF PoolSound

\* A writer connects or gives up, or leaves.
LEMMA WriterComesKeepsPool ==
    ASSUME PoolSound, kind # "none", NEW id \in Ids, Connect(id) \/ WriterLeaves(id)
    PROVE  PoolSound' /\ rows' = rows /\ fresh' = fresh
<1>1. PoolTypes /\ PoolInv
  BY DEF PoolSound
<1>2. PICK v \in {"idle", "gone"} : wpc' = [wpc EXCEPT ![id] = v]
  BY DEF Connect, WriterLeaves
<1>3. UNCHANGED <<kind, clock, producer, queue, counter, at, warmed, killed, rows, fresh, counted>>
  BY DEF Connect, WriterLeaves
<1>4. wpc[id] # "write" /\ DOMAIN wpc = Ids
  BY <1>1 DEF Connect, WriterLeaves, PoolTypes
<1>5. InHand(wpc') = InHand(wpc)
  BY <1>2, <1>4, HandChanges
<1>6. PoolTypes'
  BY <1>1, <1>2, <1>3 DEF PoolTypes
<1>7. /\ tally' \in [writes : Nat, ser : Nat, other : Nat, lost : Nat]
      /\ tally'.lost <= tally'.other /\ tally'.writes = tally.writes /\ Failed' = Failed
  <2>1. CASE tally' = tally
    BY <1>1, <2>1 DEF PoolInv, Failed
  <2>2. CASE tally' = [tally EXCEPT !.other = @ + 1, !.lost = @ + 1]
    <3>1. /\ tally \in [writes : Nat, ser : Nat, other : Nat, lost : Nat]
          /\ tally.lost <= tally.other
      BY <1>1 DEF PoolInv
    <3>2. /\ tally.writes \in Nat /\ tally.ser \in Nat /\ tally.other \in Nat /\ tally.lost \in Nat
          /\ tally.lost + 1 \in Nat /\ tally.other + 1 \in Nat
      BY <3>1
    <3>3. /\ tally'.lost = tally.lost + 1 /\ tally'.other = tally.other + 1
          /\ tally'.ser = tally.ser /\ tally'.writes = tally.writes
      BY <2>2, <3>1
    <3>4. tally' \in [writes : Nat, ser : Nat, other : Nat, lost : Nat]
      BY <2>2, <3>1, <3>2
    <3> QED
      BY <3>1, <3>2, <3>3, <3>4 DEF Failed
  <2> QED
    BY <2>1, <2>2 DEF Connect, WriterLeaves
<1>8. producer' = "send" => counter < MaxJobs
  BY <1>1, <1>3 DEF PoolInv
<1> QED
  BY <1>3, <1>5, <1>6, <1>7, <1>8, QuietKeepsPool

\* The clock, and the producer when it looks at it.
LEMMA ClockKeepsPool ==
    ASSUME PoolSound, kind # "none", RateCheck \/ WarmupEnds \/ TimeIsUp
    PROVE  PoolSound' /\ rows' = rows /\ fresh' = fresh
<1>1. PoolTypes /\ PoolInv
  BY DEF PoolSound
<1>2. UNCHANGED <<kind, queue, counter, at, warmed, rows, fresh, counted, tally>>
  BY DEF RateCheck, WarmupEnds, TimeIsUp
<1>3. /\ tally' \in [writes : Nat, ser : Nat, other : Nat, lost : Nat]
      /\ tally'.lost <= tally'.other /\ tally'.writes = tally.writes /\ Failed' = Failed
  BY <1>1, <1>2 DEF PoolInv, Failed
<1>4. CASE RateCheck \/ TimeIsUp \/ (WarmupEnds /\ kind = "ceiling")
  <2>1. UNCHANGED <<wpc, killed>>
    BY <1>4 DEF RateCheck, TimeIsUp, WarmupEnds
  <2>2. clock' \in {"warmup", "run", "over"} /\ producer' \in {"check", "send", "closed"}
    BY <1>1, <1>4 DEF RateCheck, TimeIsUp, WarmupEnds, PoolTypes
  <2>3. PoolTypes'
    BY <1>1, <1>2, <2>1, <2>2 DEF PoolTypes
  <2>4. producer' = "send" => counter < MaxJobs
    BY <1>1, <1>4 DEF RateCheck, TimeIsUp, WarmupEnds, PoolInv
  <2> QED
    BY <1>2, <1>3, <2>1, <2>3, <2>4, QuietKeepsPool
<1>5. CASE WarmupEnds /\ kind = "avalanche"
  <2>1. /\ clock' = "run" /\ producer' = producer
        /\ killed' \in SUBSET Workers
        /\ wpc' = [id \in Ids |-> IF id[1] = "survivor" /\ id[2] \in killed'
                                  THEN "connect" ELSE wpc[id]]
    BY <1>5 DEF WarmupEnds
  <2>2. PoolTypes'
    BY <1>1, <1>2, <2>1 DEF PoolTypes
  <2>3. InHand(wpc') \subseteq InHand(wpc)
    BY <2>1 DEF InHand
  <2>4. ~Queued /\ (producer' = "send" => counter < MaxJobs)
    BY <1>1, <1>5, <2>1 DEF Queued, PoolInv
  <2> QED
    BY <1>2, <1>3, <2>2, <2>3, <2>4, QuietKeepsPool
<1> QED
  BY <1>4, <1>5 DEF WarmupEnds

\* The channel takes a job.
LEMMA RateSendKeepsPool ==
    ASSUME PoolSound, kind # "none", RateSend
    PROVE  PoolSound' /\ rows' = rows /\ fresh' = fresh
<1>1. PoolTypes /\ PoolCounts /\ PoolInv
  BY DEF PoolSound
<1>2. /\ UNCHANGED <<kind, clock, wpc, at, warmed, killed, rows, fresh, counted, tally>>
      /\ producer = "send" /\ producer' = "check" /\ Len(queue) < QueueCap
      /\ queue' = Append(queue, counter) /\ counter' = counter + 1
  BY DEF RateSend
<1>3. counter \in Nat /\ counter < MaxJobs /\ MaxJobs \in Nat /\ QueueCap \in Nat
  BY <1>1, <1>2, WriterPoolAssumption DEF PoolInv, PoolTypes
<1>4. /\ queue' \in Seq(0..MaxJobs) /\ Len(queue') = Len(queue) + 1 /\ Len(queue) \in Nat
      /\ DOMAIN queue' = 1..(Len(queue) + 1) /\ DOMAIN queue = 1..Len(queue)
      /\ \A i \in 1..Len(queue) : queue'[i] = queue[i]
      /\ queue'[Len(queue) + 1] = counter
  BY <1>1, <1>2, <1>3 DEF PoolTypes
<1>5. PoolTypes'
  BY <1>1, <1>2, <1>3, <1>4 DEF PoolTypes
<1>6. Failed' = Failed /\ Queued' = Queued /\ Failed \in Nat /\ tally.writes \in Nat
  BY <1>1, <1>2, TallyNumbers DEF Failed, Queued
<1>7. Cardinality(InHand(wpc)) \in Nat
  BY IdsFinite, FS_Subset, FS_CardinalityType DEF InHand
<1>8. PoolCounts'
  BY <1>1, <1>2, <1>3, <1>4, <1>6, <1>7 DEF PoolCounts
<1>9. Queued => JobsInv'
  <2> SUFFICES ASSUME Queued PROVE JobsInv'
    OBVIOUS
  <2>1. JobsInv /\ counter' = counter + 1 /\ counted' = counted
    BY <1>1, <1>2 DEF PoolInv
  <2>0. \A i \in DOMAIN queue : queue[i] \in Nat
    <3>1. queue \in Seq(0..MaxJobs)
      BY <1>1 DEF PoolTypes
    <3> SUFFICES ASSUME NEW i \in 1..Len(queue) PROVE queue[i] \in Nat
      BY <1>4
    <3>2. queue[i] \in 0..MaxJobs
      BY <3>1, MemberOfSeq
    <3> QED
      BY <1>3, <3>2
  <2>2. \A id \in InHand(wpc) : at[id] \in Nat /\ at[id] < counter /\ <<"job", at[id]>> \notin counted
    BY <1>1, <2>1, JobsParts DEF InHand, PoolTypes
  <2>3. \A i \in DOMAIN queue :
            /\ queue[i] < counter /\ <<"job", queue[i]>> \notin counted
            /\ \A id \in InHand(wpc) : queue[i] # at[id]
    BY <2>1, JobsParts
  <2>4. \A i, j \in DOMAIN queue : i # j => queue[i] # queue[j]
    BY <2>1, JobsParts
  <2>5. \A n \in counter..MaxJobs : <<"job", n>> \notin counted
    BY <2>1, JobsParts
  <2>6. \A i \in DOMAIN queue' :
            /\ queue'[i] < counter' /\ <<"job", queue'[i]>> \notin counted'
            /\ \A id \in InHand(wpc) : queue'[i] # at[id]
    <3> SUFFICES ASSUME NEW i \in 1..(Len(queue) + 1)
                 PROVE  /\ queue'[i] < counter' /\ <<"job", queue'[i]>> \notin counted'
                        /\ \A id \in InHand(wpc) : queue'[i] # at[id]
      BY <1>4
    <3>1. CASE i = Len(queue) + 1
      <4>1. queue'[i] = counter /\ counter \in counter..MaxJobs /\ counter < counter + 1
        BY <1>3, <1>4, <3>1
      <4>2. ASSUME NEW id \in InHand(wpc) PROVE counter # at[id]
        <5>1. at[id] \in Nat /\ at[id] < counter
          BY <2>2
        <5> QED
          BY <1>3, <5>1
      <4> QED
        BY <2>1, <2>5, <4>1, <4>2
    <3>2. CASE i \in 1..Len(queue)
      <4>1. i \in DOMAIN queue /\ queue'[i] = queue[i]
        BY <1>4, <3>2
      <4>2. queue[i] < counter + 1
        <5>1. queue[i] \in Nat /\ queue[i] < counter
          BY <2>0, <2>3, <4>1
        <5> QED
          BY <1>3, <5>1
      <4> QED
        BY <2>1, <2>3, <4>1, <4>2
    <3> QED
      BY <1>4, <3>1, <3>2
  <2>7. \A i, j \in DOMAIN queue' : i # j => queue'[i] # queue'[j]
    <3>1. \A i \in 1..Len(queue) : queue[i] \in Nat /\ queue[i] < counter
      BY <1>4, <2>0, <2>3
    <3>2. \A i \in 1..(Len(queue) + 1) : i \in 1..Len(queue) \/ i = Len(queue) + 1
      BY <1>4
    <3> QED
      BY <1>3, <1>4, <2>4, <3>1, <3>2
  <2>8. \A n \in counter'..MaxJobs : n \in counter..MaxJobs
    BY <1>2, <1>3
  <2>9. ASSUME NEW id \in InHand(wpc) PROVE at[id] < counter'
    <3>1. at[id] \in Nat /\ at[id] < counter
      BY <2>2
    <3> QED
      BY <1>3, <2>1, <3>1
  <2>10. \A id, other \in InHand(wpc) : id # other => at[id] # at[other]
    BY <2>1, JobsParts
  <2> QED
    BY <1>2, <2>2, <2>5, <2>6, <2>7, <2>8, <2>9, <2>10, JobsPartsNext
<1>10. kind \in {"ceiling", "avalanche"} => OwnNamesInv'
  BY <1>1, <1>2 DEF OwnNamesInv, PoolInv
<1>11. PoolInv'
  BY <1>1, <1>2, <1>6, <1>9, <1>10 DEF PoolInv
<1> QED
  BY <1>2, <1>5, <1>8, <1>11 DEF PoolSound

\* A writer of phase 1 or 3 begins to write its next name.
LEMMA OwnWriteKeepsPool ==
    ASSUME PoolSound, NEW id \in Ids, OwnWrite(id)
    PROVE  PoolSound' /\ rows' = rows /\ fresh' = fresh
<1>1. PoolTypes /\ PoolCounts /\ PoolInv
  BY DEF PoolSound
<1>2. /\ UNCHANGED <<kind, clock, producer, queue, counter, at, killed, rows, fresh, counted, tally>>
      /\ kind \in {"ceiling", "avalanche"} /\ at[id] < MaxNames
      /\ wpc' = [wpc EXCEPT ![id] = "write"]
      /\ warmed' = IF kind = "avalanche" \/ clock = "run" THEN warmed \cup {id} ELSE warmed
  BY DEF OwnWrite
<1>3. ~Queued /\ ~Queued'
  BY <1>2 DEF Queued
<1>4. PoolTypes'
  BY <1>1, <1>2 DEF PoolTypes
<1>5. PoolCounts'
  BY <1>1, <1>2, <1>3 DEF PoolCounts, Failed
<1>6. OwnNamesInv'
  BY <1>1, <1>2 DEF OwnNamesInv, PoolInv, PoolTypes
<1>7. kind = "avalanche" => \A i \in Ids : wpc'[i] = "write" => i \in warmed'
  BY <1>1, <1>2 DEF PoolInv, PoolTypes
<1>8. PoolInv'
  BY <1>1, <1>2, <1>3, <1>6, <1>7 DEF PoolInv
<1> QED
  BY <1>2, <1>4, <1>5, <1>8 DEF PoolSound

\* A writer of phase 2 or 2b takes a job from the channel.
LEMMA TakeJobKeepsPool ==
    ASSUME PoolSound, NEW id \in Ids, TakeJob(id)
    PROVE  PoolSound' /\ rows' = rows /\ fresh' = fresh
<1>1. PoolTypes /\ PoolCounts /\ PoolInv
  BY DEF PoolSound
<1>2. /\ UNCHANGED <<kind, clock, producer, counter, killed, rows, fresh, counted, tally>>
      /\ Queued /\ wpc[id] = "idle" /\ queue # <<>>
      /\ wpc' = [wpc EXCEPT ![id] = "write"]
      /\ at' = [at EXCEPT ![id] = Head(queue)]
      /\ queue' = Tail(queue)
      /\ warmed' = warmed \cup {id}
  BY DEF TakeJob
<1>3. Queued' /\ kind # "none" /\ kind # "ceiling" /\ kind # "avalanche" /\ kind' = kind
  BY <1>2 DEF Queued
<1>4. queue \in Seq(0..MaxJobs) /\ MaxJobs \in Nat /\ Len(queue) <= QueueCap /\ QueueCap \in Nat
  BY <1>1, WriterPoolAssumption DEF PoolTypes
<1>5. /\ queue' \in Seq(0..MaxJobs) /\ Len(queue') = Len(queue) - 1 /\ Len(queue) \in Nat
      /\ Len(queue) > 0
      /\ DOMAIN queue' = 1..(Len(queue) - 1) /\ DOMAIN queue = 1..Len(queue)
      /\ \A i \in 1..(Len(queue) - 1) : queue'[i] = queue[i + 1]
      /\ Head(queue) = queue[1]
  BY <1>2, <1>4
<1>6. 1 \in DOMAIN queue /\ Head(queue) \in Nat
  <2>1. 1 \in 1..Len(queue)
    BY <1>5
  <2>2. queue[1] \in 0..MaxJobs
    BY <1>4, <2>1, MemberOfSeq
  <2> QED
    BY <1>4, <1>5, <2>1, <2>2
<1>7. PoolTypes'
  <2>1. Len(queue') <= QueueCap
    BY <1>4, <1>5
  <2>2. at' \in [Ids -> Nat]
    BY <1>1, <1>2, <1>6 DEF PoolTypes
  <2> QED
    BY <1>1, <1>2, <1>5, <2>1, <2>2 DEF PoolTypes
<1>8. DOMAIN wpc = Ids /\ DOMAIN at = Ids
  BY <1>1 DEF PoolTypes
<1>9. /\ Cardinality(InHand(wpc')) = Cardinality(InHand(wpc)) + 1
      /\ Cardinality(InHand(wpc)) \in Nat
  BY <1>2, <1>8, HandChanges
<1>10. Failed' = Failed /\ Failed \in Nat /\ tally.writes \in Nat
  BY <1>1, <1>2, TallyNumbers DEF Failed
<1>11. PoolCounts'
  <2>1. counter = Len(queue) + Cardinality(InHand(wpc)) + tally.writes + Failed
    BY <1>1, <1>2 DEF PoolCounts
  <2>2. counter' = Len(queue') + Cardinality(InHand(wpc')) + tally'.writes + Failed'
    BY <1>2, <1>5, <1>9, <1>10, <2>1
  <2> QED
    BY <1>1, <1>2, <1>3, <1>10, <2>2 DEF PoolCounts
<1>12. JobsInv'
  <2>1. JobsInv
    BY <1>1, <1>2 DEF PoolInv
  <2>2. \A o \in InHand(wpc') : o = id \/ (o # id /\ o \in InHand(wpc) /\ at'[o] = at[o])
    BY <1>2, <1>8 DEF InHand
  <2>3. at'[id] = queue[1] /\ id \notin InHand(wpc)
    BY <1>2, <1>5, <1>8 DEF InHand
  <2>4. \A i \in DOMAIN queue' : i + 1 \in DOMAIN queue /\ i + 1 # 1 /\ queue'[i] = queue[i + 1]
    BY <1>5
  <2>5. /\ \A i \in DOMAIN queue : queue[i] < counter /\ <<"job", queue[i]>> \notin counted
        /\ \A i, j \in DOMAIN queue : i # j => queue[i] # queue[j]
        /\ \A i \in DOMAIN queue, o \in InHand(wpc) : queue[i] # at[o]
        /\ \A o \in InHand(wpc) : at[o] < counter /\ <<"job", at[o]>> \notin counted
        /\ \A o, other \in InHand(wpc) : o # other => at[o] # at[other]
        /\ \A n \in counter..MaxJobs : <<"job", n>> \notin counted
    BY <2>1, JobsParts
  <2>6. counter' = counter /\ counted' = counted
    BY <1>2
  <2>7. \A i \in DOMAIN queue' : queue'[i] < counter' /\ <<"job", queue'[i]>> \notin counted'
    BY <2>4, <2>5, <2>6
  <2>8. \A i, j \in DOMAIN queue' : i # j => i + 1 # j + 1
    BY <1>5
  <2>9. \A i, j \in DOMAIN queue' : i # j => queue'[i] # queue'[j]
    BY <2>4, <2>5, <2>8
  <2>10. \A i \in DOMAIN queue', o \in InHand(wpc') : queue'[i] # at'[o]
    BY <1>6, <2>2, <2>3, <2>4, <2>5
  <2>11. \A o \in InHand(wpc') : at'[o] < counter' /\ <<"job", at'[o]>> \notin counted'
    BY <1>6, <2>2, <2>3, <2>5, <2>6
  <2>12. \A o, other \in InHand(wpc') : o # other => at'[o] # at'[other]
    BY <1>6, <2>2, <2>3, <2>5
  <2> QED
    BY <2>5, <2>6, <2>7, <2>9, <2>10, <2>11, <2>12, JobsPartsNext
<1>13. \A i \in Ids : wpc'[i] = "write" => i \in warmed'
  BY <1>1, <1>2 DEF PoolInv, PoolTypes
<1>14. PoolInv'
  BY <1>1, <1>2, <1>3, <1>12, <1>13 DEF PoolInv
<1> QED
  BY <1>2, <1>7, <1>11, <1>14 DEF PoolSound

\* The name that a writer works on is one that was not counted.
LEMMA NotYetCounted ==
    ASSUME PoolSound, kind # "none", NEW id \in Ids, wpc[id] = "write"
    PROVE  NameOf(id, at[id]) \notin counted
<1>1. PoolTypes /\ PoolInv
  BY DEF PoolSound
<1>2. CASE Queued
  <2>1. id \in InHand(wpc) /\ JobsInv
    BY <1>1, <1>2 DEF InHand, PoolInv
  <2> QED
    BY <1>2, <2>1, JobsParts DEF NameOf
<1>3. CASE ~Queued
  <2>1. OwnNamesInv
    BY <1>1, <1>3 DEF PoolInv, PoolTypes, Queued
  <2>2. at[id] < MaxNames /\ at[id] \in Nat /\ MaxNames \in Nat
    BY <1>1, <2>1, WriterPoolAssumption DEF OwnNamesInv, PoolTypes
  <2>3. at[id] \in at[id]..MaxNames
    BY <2>2
  <2>4. <<id[1], id[2], at[id]>> \notin counted
    BY <2>1, <2>3 DEF OwnNamesInv
  <2> QED
    BY <1>3, <2>4 DEF NameOf
<1> QED
  BY <1>2, <1>3

\* A writer puts a job down: the others still have theirs, and nothing else of the
\* jobs has changed but that this one may be counted.
LEMMA JobDone ==
    ASSUME PoolTypes, Queued, JobsInv, NEW id \in Ids, wpc[id] = "write",
           wpc' = [wpc EXCEPT ![id] = "idle"], UNCHANGED <<queue, counter, at>>,
           counted' \subseteq counted \cup {<<"job", at[id]>>}
    PROVE  JobsInv'
<1>1. DOMAIN wpc = Ids /\ at[id] \in Nat /\ counter \in Nat
  BY WriterPoolAssumption DEF PoolTypes
<1>2. InHand(wpc') = InHand(wpc) \ {id} /\ id \in InHand(wpc)
  BY <1>1 DEF InHand
<1>3. /\ \A i \in DOMAIN queue : queue[i] < counter /\ <<"job", queue[i]>> \notin counted
      /\ \A i, j \in DOMAIN queue : i # j => queue[i] # queue[j]
      /\ \A i \in DOMAIN queue, o \in InHand(wpc) : queue[i] # at[o]
      /\ \A o \in InHand(wpc) : at[o] < counter /\ <<"job", at[o]>> \notin counted
      /\ \A o, other \in InHand(wpc) : o # other => at[o] # at[other]
      /\ \A n \in counter..MaxJobs : <<"job", n>> \notin counted
  BY JobsParts
<1>4. \A n : n # at[id] /\ <<"job", n>> \notin counted => <<"job", n>> \notin counted'
  OBVIOUS
<1>5. \A n \in counter..MaxJobs : n # at[id]
  <2>1. at[id] < counter
    BY <1>2, <1>3
  <2> QED
    BY <1>1, <2>1
<1>6. \A n \in counter'..MaxJobs : <<"job", n>> \notin counted'
  BY <1>3, <1>4, <1>5
<1>7. \A i \in DOMAIN queue' : queue'[i] < counter' /\ <<"job", queue'[i]>> \notin counted'
  BY <1>2, <1>3, <1>4
<1>8. \A o \in InHand(wpc') : at'[o] < counter' /\ <<"job", at'[o]>> \notin counted'
  BY <1>2, <1>3, <1>4
<1> QED
  BY <1>2, <1>3, <1>6, <1>7, <1>8, JobsPartsNext

\* The rows after a write that had its effect, or not.
LEMMA AfterWrite ==
    ASSUME PoolSound, NEW name,
           Landed(name) \/ UNCHANGED <<rows, fresh>>
    PROVE  /\ rows \subseteq rows' /\ fresh' \subseteq rows'
           /\ fresh' \subseteq fresh \cup {name}
           /\ IsFiniteSet(fresh')
           /\ rows \subseteq fresh => rows' \subseteq fresh'
<1>1. IsFiniteSet(fresh) /\ fresh \subseteq rows
  BY DEF PoolSound, PoolInv, PoolTypes
<1>2. fresh' \subseteq fresh \cup {name}
  BY DEF Landed
<1>3. IsFiniteSet(fresh')
  BY <1>1, <1>2, FS_AddElement, FS_Subset
<1> QED
  BY <1>1, <1>2, <1>3 DEF Landed

\* The write returns: the name is counted if the writer counts, and the writer goes
\* on to its next name.
LEMMA WriteReturnsKeepsPool ==
    ASSUME PoolSound, kind # "none", NEW id \in Ids, WriteReturns(id)
    PROVE  PoolSound' /\ (rows \subseteq fresh => rows' \subseteq fresh')
<1> DEFINE name == NameOf(id, at[id])
<1>1. PoolTypes /\ PoolCounts /\ PoolInv
  BY DEF PoolSound
<1>2. /\ UNCHANGED <<kind, clock, producer, queue, counter, warmed, killed>>
      /\ wpc[id] = "write" /\ wpc' = [wpc EXCEPT ![id] = "idle"]
      /\ at' = IF Queued THEN at ELSE [at EXCEPT ![id] = @ + 1]
      /\ rows' = rows \cup {name} /\ fresh' = fresh \cup ({name} \ rows)
      /\ IF id \in warmed
         THEN /\ counted' = counted \cup {name}
              /\ tally' = [tally EXCEPT !.writes = @ + 1]
         ELSE UNCHANGED <<counted, tally>>
  BY DEF WriteReturns, Landed
<1>3. name \notin counted
  BY <1>2, NotYetCounted
<1>4. /\ rows \subseteq rows' /\ fresh' \subseteq rows' /\ IsFiniteSet(fresh')
      /\ rows \subseteq fresh => rows' \subseteq fresh'
  <2>1. Landed(name)
    BY DEF WriteReturns
  <2> HIDE DEF name
  <2> QED
    BY <2>1, AfterWrite
<1> HIDE DEF name
<1>5. DOMAIN wpc = Ids /\ at[id] \in Nat /\ Queued' = Queued
  BY <1>1, <1>2 DEF PoolTypes, Queued
<1>6. PoolTypes'
  <2>1. at' \in [Ids -> Nat]
    BY <1>1, <1>2 DEF PoolTypes
  <2>2. wpc' \in [Ids -> {"absent", "connect", "idle", "write", "gone"}]
    BY <1>1, <1>2 DEF PoolTypes
  <2> QED
    BY <1>1, <1>2, <1>4, <2>1, <2>2 DEF PoolTypes
<1>7. /\ tally' \in [writes : Nat, ser : Nat, other : Nat, lost : Nat]
      /\ tally'.ser = tally.ser /\ tally'.other = tally.other /\ tally'.lost = tally.lost
      /\ tally'.writes = IF id \in warmed THEN tally.writes + 1 ELSE tally.writes
  <2>1. tally \in [writes : Nat, ser : Nat, other : Nat, lost : Nat]
    BY <1>1 DEF PoolInv
  <2>2. tally.writes + 1 \in Nat
    BY <2>1
  <2> QED
    BY <1>2, <2>1, <2>2
<1>8. Failed' = Failed /\ Failed \in Nat /\ tally.writes \in Nat /\ tally'.lost <= tally'.other
  BY <1>1, <1>7, TallyNumbers DEF Failed, PoolInv
<1>9. IsFiniteSet(counted') /\ tally'.writes = Cardinality(counted') /\ counted' \subseteq rows'
  <2>1. IsFiniteSet(counted) /\ tally.writes = Cardinality(counted) /\ counted \subseteq rows
    BY <1>1 DEF PoolInv, PoolCounts
  <2>2. CASE id \in warmed
    <3>1. counted' = counted \cup {name} /\ rows' = rows \cup {name}
      BY <1>2, <2>2
    <3>2. IsFiniteSet(counted \cup {name}) /\ Cardinality(counted \cup {name}) = Cardinality(counted) + 1
      BY <1>3, <2>1, FS_AddElement
    <3> QED
      BY <1>7, <2>1, <2>2, <3>1, <3>2
  <2>3. CASE id \notin warmed
    BY <1>2, <1>7, <2>1, <2>3
  <2> QED
    BY <2>2, <2>3
<1>10. kind = "avalanche" \/ Queued => id \in warmed
  BY <1>1, <1>2 DEF PoolInv
<1>11. kind = "avalanche" \/ Queued => Cardinality(fresh' \ counted') <= Failed'
  <2> SUFFICES ASSUME kind = "avalanche" \/ Queued PROVE Cardinality(fresh' \ counted') <= Failed'
    OBVIOUS
  <2>1. fresh' \ counted' \subseteq fresh \ counted
    BY <1>2, <1>10
  <2>2. IsFiniteSet(fresh \ counted)
    BY <1>1, FS_Subset DEF PoolInv
  <2>3. /\ Cardinality(fresh' \ counted') <= Cardinality(fresh \ counted)
        /\ Cardinality(fresh' \ counted') \in Nat /\ Cardinality(fresh \ counted) \in Nat
    BY <2>1, <2>2, FS_Subset, FS_CardinalityType
  <2>4. Cardinality(fresh \ counted) <= Failed
    BY <1>1 DEF PoolCounts
  <2> QED
    BY <1>8, <2>3, <2>4
<1>12. Queued => counter' = Len(queue') + Cardinality(InHand(wpc')) + tally'.writes + Failed'
  <2> SUFFICES ASSUME Queued
               PROVE  counter' = Len(queue') + Cardinality(InHand(wpc')) + tally'.writes + Failed'
    OBVIOUS
  <2>1. /\ Cardinality(InHand(wpc)) \in Nat
        /\ Cardinality(InHand(wpc')) = Cardinality(InHand(wpc)) - 1
    BY <1>2, <1>5, HandChanges
  <2>2. counter = Len(queue) + Cardinality(InHand(wpc)) + tally.writes + Failed /\ Len(queue) \in Nat
    BY <1>1 DEF PoolCounts, PoolTypes
  <2>3. counter' = counter /\ Len(queue') = Len(queue) /\ tally'.writes = tally.writes + 1
    BY <1>2, <1>7, <1>10
  <2> QED
    BY <1>8, <2>1, <2>2, <2>3
<1>13. PoolCounts'
  BY <1>2, <1>5, <1>9, <1>11, <1>12 DEF PoolCounts
<1>14. Queued => JobsInv'
  <2> SUFFICES ASSUME Queued PROVE JobsInv'
    OBVIOUS
  <2>1. JobsInv /\ name = <<"job", at[id]>>
    BY <1>1 DEF PoolInv, name, NameOf
  <2>2. counted' \subseteq counted \cup {<<"job", at[id]>>} /\ at' = at
    BY <1>2, <2>1
  <2> QED
    BY <1>1, <1>2, <2>1, <2>2, JobDone
<1>15. kind \in {"ceiling", "avalanche"} => OwnNamesInv'
  <2> SUFFICES ASSUME kind \in {"ceiling", "avalanche"} PROVE OwnNamesInv'
    OBVIOUS
  <2>1. OwnNamesInv /\ name = <<id[1], id[2], at[id]>> /\ ~Queued
    BY <1>1 DEF PoolInv, name, NameOf, Queued
  <2>2. at' = [at EXCEPT ![id] = @ + 1] /\ counted' \subseteq counted \cup {name}
    BY <1>2, <2>1
  <2> SUFFICES ASSUME NEW i \in Ids
               PROVE  /\ wpc'[i] = "write" => at'[i] < MaxNames
                      /\ \A n \in at'[i]..MaxNames : <<i[1], i[2], n>> \notin counted'
    BY DEF OwnNamesInv
  <2>3. CASE i = id
    <3>1. wpc'[i] = "idle" /\ at'[i] = at[id] + 1
      BY <1>1, <1>2, <1>5, <2>2, <2>3 DEF PoolTypes
    <3>2. \A n \in (at[id] + 1)..MaxNames : n \in at[id]..MaxNames /\ n # at[id]
      BY <1>5
    <3>3. \A n \in at[id]..MaxNames : <<id[1], id[2], n>> \notin counted
      BY <2>1 DEF OwnNamesInv
    <3> QED
      BY <2>1, <2>2, <2>3, <3>1, <3>2, <3>3
  <2>4. CASE i # id
    <3>1. wpc'[i] = wpc[i] /\ at'[i] = at[i]
      BY <1>1, <1>2, <2>2, <2>4 DEF PoolTypes
    <3>2. i[1] # id[1] \/ i[2] # id[2]
      BY <2>4 DEF Ids
    <3>3. \A n : <<i[1], i[2], n>> # name
      BY <2>1, <3>2
    <3> QED
      BY <2>1, <2>2, <3>1, <3>3 DEF OwnNamesInv
  <2> QED
    BY <2>3, <2>4
<1>16. \A i \in Ids : wpc'[i] = "write" => wpc[i] = "write"
  BY <1>2, <1>5
<1>17. PoolInv'
  BY <1>1, <1>2, <1>4, <1>5, <1>7, <1>8, <1>9, <1>14, <1>15, <1>16 DEF PoolInv
<1> QED
  BY <1>4, <1>6, <1>13, <1>17 DEF PoolSound

\* The write fails: an error more, and at most one row that is not counted.
LEMMA WriteErrsKeepsPool ==
    ASSUME PoolSound, kind # "none", NEW id \in Ids, WriteErrs(id)
    PROVE  PoolSound' /\ (rows \subseteq fresh => rows' \subseteq fresh')
<1> DEFINE name == NameOf(id, at[id])
<1>1. PoolTypes /\ PoolCounts /\ PoolInv
  BY DEF PoolSound
<1>2. /\ UNCHANGED <<kind, clock, producer, queue, counter, at, warmed, killed, counted>>
      /\ wpc[id] = "write" /\ wpc' = [wpc EXCEPT ![id] = "idle"]
      /\ Landed(name) \/ UNCHANGED <<rows, fresh>>
      /\ \/ tally' = [tally EXCEPT !.ser = @ + 1]
         \/ tally' = [tally EXCEPT !.other = @ + 1]
  BY DEF WriteErrs
<1> HIDE DEF name
<1>3. /\ rows \subseteq rows' /\ fresh' \subseteq rows' /\ IsFiniteSet(fresh')
      /\ fresh' \subseteq fresh \cup {name}
      /\ rows \subseteq fresh => rows' \subseteq fresh'
  BY <1>2, AfterWrite
<1>4. DOMAIN wpc = Ids /\ Queued' = Queued
  BY <1>1, <1>2 DEF PoolTypes, Queued
<1>5. PoolTypes'
  <2>1. wpc' \in [Ids -> {"absent", "connect", "idle", "write", "gone"}]
    BY <1>1, <1>2 DEF PoolTypes
  <2> QED
    BY <1>1, <1>2, <1>3, <2>1 DEF PoolTypes
<1>6. /\ tally' \in [writes : Nat, ser : Nat, other : Nat, lost : Nat]
      /\ tally'.writes = tally.writes /\ tally'.lost <= tally'.other
      /\ Failed' = Failed + 1
  <2>1. tally \in [writes : Nat, ser : Nat, other : Nat, lost : Nat] /\ tally.lost <= tally.other
    BY <1>1 DEF PoolInv
  <2>2. /\ tally.ser \in Nat /\ tally.other \in Nat /\ tally.lost \in Nat
        /\ tally.ser + 1 \in Nat /\ tally.other + 1 \in Nat
    BY <2>1
  <2>3. CASE tally' = [tally EXCEPT !.ser = @ + 1]
    <3>1. /\ tally'.lost = tally.lost /\ tally'.other = tally.other
          /\ tally'.ser = tally.ser + 1 /\ tally'.writes = tally.writes
      BY <2>1, <2>3
    <3>2. tally' \in [writes : Nat, ser : Nat, other : Nat, lost : Nat]
      BY <2>1, <2>2, <2>3
    <3> QED
      BY <2>1, <2>2, <3>1, <3>2 DEF Failed
  <2>4. CASE tally' = [tally EXCEPT !.other = @ + 1]
    <3>1. /\ tally'.lost = tally.lost /\ tally'.other = tally.other + 1
          /\ tally'.ser = tally.ser /\ tally'.writes = tally.writes
      BY <2>1, <2>4
    <3>2. tally' \in [writes : Nat, ser : Nat, other : Nat, lost : Nat]
      BY <2>1, <2>2, <2>4
    <3> QED
      BY <2>1, <2>2, <3>1, <3>2 DEF Failed
  <2> QED
    BY <1>2, <2>3, <2>4
<1>7. Failed \in Nat /\ tally.writes \in Nat
  BY <1>1, TallyNumbers
<1>8. kind = "avalanche" \/ Queued => Cardinality(fresh' \ counted') <= Failed'
  <2> SUFFICES ASSUME kind = "avalanche" \/ Queued PROVE Cardinality(fresh' \ counted') <= Failed'
    OBVIOUS
  <2>1. fresh' \ counted' \subseteq (fresh \ counted) \cup {name}
    BY <1>2, <1>3
  <2>2. IsFiniteSet(fresh \ counted)
    BY <1>1, FS_Subset DEF PoolInv
  <2>3. /\ Cardinality(fresh \ counted) \in Nat
        /\ IsFiniteSet((fresh \ counted) \cup {name})
        /\ Cardinality((fresh \ counted) \cup {name}) \in Nat
        /\ Cardinality((fresh \ counted) \cup {name}) <= Cardinality(fresh \ counted) + 1
    BY <2>2, FS_AddElement, FS_CardinalityType
  <2>4. /\ Cardinality(fresh' \ counted') <= Cardinality((fresh \ counted) \cup {name})
        /\ Cardinality(fresh' \ counted') \in Nat
    BY <2>1, <2>3, FS_Subset, FS_CardinalityType
  <2>5. Cardinality(fresh \ counted) <= Failed
    BY <1>1 DEF PoolCounts
  <2> QED
    BY <1>6, <1>7, <2>3, <2>4, <2>5
<1>9. Queued => counter' = Len(queue') + Cardinality(InHand(wpc')) + tally'.writes + Failed'
  <2> SUFFICES ASSUME Queued
               PROVE  counter' = Len(queue') + Cardinality(InHand(wpc')) + tally'.writes + Failed'
    OBVIOUS
  <2>1. /\ Cardinality(InHand(wpc)) \in Nat
        /\ Cardinality(InHand(wpc')) = Cardinality(InHand(wpc)) - 1
    BY <1>2, <1>4, HandChanges
  <2>2. counter = Len(queue) + Cardinality(InHand(wpc)) + tally.writes + Failed /\ Len(queue) \in Nat
    BY <1>1 DEF PoolCounts, PoolTypes
  <2>3. counter' = counter /\ Len(queue') = Len(queue)
    BY <1>2
  <2> QED
    BY <1>6, <1>7, <2>1, <2>2, <2>3
<1>10. PoolCounts'
  BY <1>1, <1>2, <1>3, <1>4, <1>6, <1>8, <1>9 DEF PoolCounts
<1>11. Queued => JobsInv'
  BY <1>1, <1>2, JobDone DEF PoolInv
<1>12. \A i \in Ids : wpc'[i] = "write" => wpc[i] = "write"
  BY <1>2, <1>4
<1>13. kind \in {"ceiling", "avalanche"} => OwnNamesInv'
  BY <1>1, <1>2, <1>12 DEF PoolInv, OwnNamesInv
<1>14. PoolInv'
  BY <1>1, <1>2, <1>3, <1>4, <1>6, <1>11, <1>12, <1>13 DEF PoolInv
<1> QED
  BY <1>3, <1>5, <1>10, <1>14 DEF PoolSound

\* A step of the writers keeps what they count right.
LEMMA PoolStepKeepsPool ==
    ASSUME PoolSound, kind # "none", PoolStep
    PROVE  PoolSound' /\ kind' = kind /\ (rows \subseteq fresh => rows' \subseteq fresh')
<1>1. kind' = kind
  BY DEF PoolStep, Connect, OwnWrite, TakeJob, WriteReturns, WriteErrs, WriterLeaves, RateCheck,
         RateSend, WarmupEnds, TimeIsUp
<1>2. ASSUME NEW id \in Ids,
             \/ Connect(id) \/ OwnWrite(id) \/ TakeJob(id)
             \/ WriteReturns(id) \/ WriteErrs(id) \/ WriterLeaves(id)
      PROVE  PoolSound' /\ (rows \subseteq fresh => rows' \subseteq fresh')
  BY <1>2, WriterComesKeepsPool, OwnWriteKeepsPool, TakeJobKeepsPool, WriteReturnsKeepsPool,
     WriteErrsKeepsPool
<1>3. CASE RateCheck \/ WarmupEnds \/ TimeIsUp
  BY <1>1, <1>3, ClockKeepsPool
<1>4. CASE RateSend
  BY <1>1, <1>4, RateSendKeepsPool
<1> QED
  BY <1>1, <1>2, <1>3, <1>4 DEF PoolStep

\* The numbers of a phase that has not begun.
LEMMA NothingCounted ==
    /\ NewTally \in [writes : Nat, ser : Nat, other : Nat, lost : Nat]
    /\ NewTally.writes = 0 /\ NewTally.ser = 0 /\ NewTally.other = 0 /\ NewTally.lost = 0
    /\ IsFiniteSet({}) /\ Cardinality({}) = 0
    /\ <<>> \in Seq(0..MaxJobs) /\ Len(<<>>) = 0
    /\ MaxJobs \in Nat /\ QueueCap \in Nat
  BY FS_EmptySet, WriterPoolAssumption DEF NewTally

LEMMA PoolBegins == PoolInit => PoolSound
<1> SUFFICES ASSUME PoolInit PROVE PoolSound
  OBVIOUS
<1>1. PoolTypes
  BY NothingCounted DEF PoolInit, PoolTypes
<1>2. ~Queued /\ kind = "none" /\ counted = {} /\ fresh = {} /\ tally = NewTally /\ producer = "closed"
  BY DEF PoolInit, Queued
<1>3. PoolCounts
  BY <1>2, NothingCounted DEF PoolCounts
<1>4. PoolIdle
  BY DEF PoolInit, PoolIdle
<1>5. PoolInv
  BY <1>2, <1>4, NothingCounted DEF PoolInv
<1> QED
  BY <1>1, <1>3, <1>5 DEF PoolSound

\* The writers of a phase start with nothing counted.
LEMMA PoolStartKeepsPool ==
    ASSUME NEW k \in {"ceiling", "steady", "skew", "avalanche"},
           NEW c \in {"warmup", "run"}, NEW p \in {"check", "closed"}, NEW rest,
           PoolStart(k, c, p, rest)
    PROVE  PoolSound' /\ counted' = {} /\ kind' # "none" /\ rows' = rest
<1>1. /\ kind' = k /\ clock' = c /\ producer' = p /\ queue' = <<>> /\ counter' = 0
      /\ wpc' = [id \in Ids |-> IF id[1] = "holder" THEN "connect" ELSE "absent"]
      /\ at' = [id \in Ids |-> 0] /\ warmed' = {} /\ killed' = {}
      /\ rows' = rest /\ fresh' = {} /\ counted' = {} /\ tally' = NewTally
  BY DEF PoolStart
<1>2. PoolTypes'
  BY <1>1, NothingCounted DEF PoolTypes
<1>3. \A id \in Ids : wpc'[id] # "write"
  BY <1>1
<1>4. InHand(wpc') = {}
  BY <1>3 DEF InHand
<1>5. Failed' = 0 /\ fresh' \ counted' = {}
  BY <1>1, NothingCounted DEF Failed
<1>6. PoolCounts'
  <2>1. /\ tally'.writes = 0 /\ Cardinality(counted') = 0 /\ Cardinality(fresh' \ counted') = 0
        /\ Cardinality(InHand(wpc')) = 0 /\ Len(queue') = 0 /\ counter' = 0
        /\ counted' \subseteq rows'
    BY <1>1, <1>4, <1>5, NothingCounted
  <2> QED
    BY <1>5, <2>1 DEF PoolCounts
<1>7. OwnNamesInv'
  BY <1>1, <1>3 DEF OwnNamesInv
<1>8. JobsInv'
  BY <1>1, <1>4, NothingCounted, JobsPartsNext
<1>9. PoolInv'
  BY <1>1, <1>3, <1>7, <1>8, NothingCounted DEF PoolInv
<1> QED
  BY <1>1, <1>2, <1>6, <1>9 DEF PoolSound

\* The phase returns; whatever rows are left, nothing is counted.
LEMMA PoolReturnKeepsPool ==
    ASSUME NEW kept, PoolReturn(kept), producer = "closed"
    PROVE  PoolSound' /\ kind' = "none"
<1>1. /\ kind' = "none" /\ clock' = "over" /\ producer' = "closed" /\ queue' = <<>> /\ counter' = 0
      /\ wpc' = [id \in Ids |-> "absent"] /\ at' = [id \in Ids |-> 0]
      /\ warmed' = {} /\ killed' = {}
      /\ fresh' = {} /\ counted' = {} /\ tally' = NewTally
  BY DEF PoolReturn
<1>2. PoolTypes'
  BY <1>1, NothingCounted DEF PoolTypes
<1>3. ~Queued'
  BY <1>1 DEF Queued
<1>4. PoolCounts'
  BY <1>1, <1>3, NothingCounted DEF PoolCounts
<1>5. PoolIdle'
  BY <1>1 DEF PoolIdle
<1>6. PoolInv'
  BY <1>1, <1>3, <1>5, NothingCounted DEF PoolInv
<1> QED
  BY <1>1, <1>2, <1>4, <1>6 DEF PoolSound

\* Between phases the rows that are there do not matter.
LEMMA IdlePool ==
    ASSUME PoolSound, kind = "none",
           UNCHANGED <<kind, clock, producer, queue, counter, wpc, at, warmed, killed, fresh,
                       counted, tally>>
    PROVE  PoolSound' /\ counted' = {}
<1>1. PoolTypes /\ PoolCounts /\ PoolInv
  BY DEF PoolSound
<1>2. fresh = {} /\ counted = {} /\ PoolIdle
  BY <1>1 DEF PoolInv, PoolIdle
<1>3. ~Queued' /\ kind' = "none" /\ fresh' = {} /\ counted' = {}
  BY <1>2 DEF Queued
<1>4. PoolTypes'
  BY <1>1, <1>3 DEF PoolTypes
<1>5. PoolCounts'
  BY <1>1, <1>2, <1>3 DEF PoolCounts
<1>6. PoolIdle'
  BY <1>2 DEF PoolIdle
<1>7. PoolInv'
  BY <1>1, <1>2, <1>3, <1>6 DEF PoolInv
<1> QED
  BY <1>3, <1>4, <1>5, <1>7 DEF PoolSound

LEMMA TallyPartsNext ==
    TallyInv' <=>
        /\ PoolSound'
        /\ truncated' \/ left' > 0 => counted' \subseteq fresh'
        /\ pc' \in {"seed", "next", "start", "running", "write", "report", "exited"}
        /\ phase' \in 1..(Len(Phases) + 1)
        /\ file'.state \in {"absent", "empty", "whole", "torn"}
        /\ kind' # "none" => pc' = "running" /\ dpc' = "off"
        /\ dpc' # "off" => pc' = "running"
        /\ pc' \in {"start", "running", "write"} => phase' <= Len(Phases)
        /\ kind' # "none" /\ (truncated' \/ left' > 0) => rows' \subseteq fresh'
  BY DEF TallyInv, Tally, TypeOK, PoolSound, PoolTypes, PoolCounts, Failed, InHand

\* What main and the ticker do outside the phases with writers.
LEMMA OutsideKeepsTally ==
    ASSUME TallyInv, CheckpointInv', kind = "none",
           UNCHANGED <<kind, clock, producer, queue, counter, wpc, at, warmed, killed, fresh,
                       counted, tally>>,
           phase' \in 1..(Len(Phases) + 1),
           pc' \in {"start", "running", "write"} => phase' <= Len(Phases),
           dpc' # "off" => pc' = "running"
    PROVE  TallyInv'
<1>1. PoolSound' /\ counted' = {} /\ kind' = "none"
  BY IdlePool, TallyParts
<1>2. /\ pc' \in {"seed", "next", "start", "running", "write", "report", "exited"}
      /\ file'.state \in {"absent", "empty", "whole", "torn"}
  BY DEF CheckpointInv, CheckpointTypes
<1> QED
  BY <1>1, <1>2, TallyPartsNext

LEMMA TallyInit == Init => TallyInv
<1> SUFFICES ASSUME Init PROVE TallyInv
  OBVIOUS
<1>1. PoolSound
  BY PoolBegins DEF Init
<1>2. kind = "none" /\ counted = {} /\ dpc = "off"
  BY DEF Init, PoolInit, DrillInit
<1>3. pc = "seed" /\ phase = 1 /\ file.state = "absent"
  BY DEF Init
<1>4. 1 \in 1..(Len(Phases) + 1)
  BY DEF Phases
<1> QED
  BY <1>1, <1>2, <1>3, <1>4, TallyParts

\* The writers of a phase begin, on an empty table or beside the rows of an
\* earlier run of the load test.
LEMMA StartWritersKeepsTally ==
    ASSUME TallyInv, CheckpointInv', StartWriters
    PROVE  TallyInv'
<1>1. /\ pc = "start" /\ pc' = "running"
      /\ UNCHANGED <<drillVars, phase, truncated, left>>
      /\ RunWriters({}) \/ (~truncated /\ left = 0 /\ RunWriters(Stale(Current)))
  BY DEF StartWriters
<1>2. ASSUME NEW rest, RunWriters(rest)
      PROVE  PoolSound' /\ counted' = {} /\ kind' # "none" /\ rows' = rest
  <2>1. PICK k \in {"ceiling", "steady", "skew", "avalanche"}, c \in {"warmup", "run"},
             p \in {"check", "closed"} : PoolStart(k, c, p, rest)
    BY <1>2 DEF RunWriters, RunPhase1Single, RunPhase2, RunPhase2b, RunPhase3
  <2> QED
    BY <2>1, PoolStartKeepsPool
<1>3. PoolSound' /\ counted' = {} /\ kind' # "none"
  BY <1>1, <1>2
<1>4. truncated' \/ left' > 0 => rows' \subseteq fresh'
  <2>1. CASE RunWriters({})
    BY <1>2, <2>1
  <2>2. CASE ~truncated /\ left = 0
    BY <1>1, <2>2
  <2> QED
    BY <1>1, <2>1, <2>2
<1>5. dpc' = "off"
  BY <1>1, TallyParts DEF drillVars
<1>6. phase' \in 1..(Len(Phases) + 1) /\ phase' <= Len(Phases)
  BY <1>1, TallyParts
<1>7. file'.state \in {"absent", "empty", "whole", "torn"}
  BY DEF CheckpointInv, CheckpointTypes
<1> QED
  BY <1>1, <1>3, <1>4, <1>5, <1>6, <1>7, TallyPartsNext

\* A step of the writers of a phase.
LEMMA WritersKeepTally ==
    ASSUME TallyInv, Writers
    PROVE  TallyInv'
<1>1. kind # "none" /\ PoolStep /\ UNCHANGED <<dpc, pc, phase, truncated, left, file>>
  BY DEF Writers, drillVars, mainVars, cpVars
<1>2. /\ PoolSound /\ pc = "running" /\ dpc = "off"
      /\ phase \in 1..(Len(Phases) + 1) /\ phase <= Len(Phases)
      /\ truncated \/ left > 0 => rows \subseteq fresh
      /\ file.state \in {"absent", "empty", "whole", "torn"}
  BY <1>1, TallyParts
<1>3. PoolSound' /\ kind' = kind /\ (rows \subseteq fresh => rows' \subseteq fresh')
  BY <1>1, <1>2, PoolStepKeepsPool
<1>4. counted' \subseteq rows'
  BY <1>3 DEF PoolSound, PoolCounts
<1> QED
  BY <1>1, <1>2, <1>3, <1>4, TallyPartsNext

\* The writers have ended.
LEMMA WritersDoneKeepsTally ==
    ASSUME TallyInv, CheckpointInv', WritersDone
    PROVE  TallyInv'
<1>1. /\ pc = "running" /\ kind # "none" /\ producer = "closed"
      /\ UNCHANGED <<dpc, phase>>
      /\ pc' \in {"start", "write"}
      /\ \E kept : PoolReturn(kept)
  BY DEF WritersDone, PoolDone, SweepOn, Complete, drillVars
<1>2. PoolSound' /\ kind' = "none"
  BY <1>1, PoolReturnKeepsPool
<1>3. counted' = {}
  BY <1>1 DEF PoolReturn
<1>4. dpc' = "off" /\ phase' \in 1..(Len(Phases) + 1) /\ phase' <= Len(Phases)
  BY <1>1, TallyParts
<1>5. file'.state \in {"absent", "empty", "whole", "torn"}
  BY DEF CheckpointInv, CheckpointTypes
<1> QED
  BY <1>1, <1>2, <1>3, <1>4, <1>5, TallyPartsNext

\* main outside the phases with writers.
LEMMA MainKeepsTally ==
    ASSUME TallyInv, CheckpointInv',
           \/ Seed \/ SeedFails \/ SkipPhase \/ BeginPhase \/ StartDrill \/ Report \/ Exit
           \/ PhaseErrs \/ BaselineBatch \/ DrillReturns
    PROVE  TallyInv'
<1>1. /\ phase \in 1..(Len(Phases) + 1)
      /\ kind # "none" => pc = "running" /\ dpc = "off"
      /\ dpc # "off" => pc = "running"
      /\ pc \in {"start", "running", "write"} => phase <= Len(Phases)
  BY TallyParts
<1>2. Len(Phases) = 6
  BY DEF Phases
<1>3. CASE Seed \/ SeedFails \/ SkipPhase \/ BeginPhase \/ Report \/ Exit
  <2>1. pc # "running" /\ UNCHANGED <<poolVars, drillVars>>
    BY <1>3 DEF Seed, SeedFails, SkipPhase, BeginPhase, Report, Exit
  <2>2. kind = "none" /\ dpc' = "off"
    BY <1>1, <2>1 DEF drillVars
  <2>3. /\ phase' \in 1..(Len(Phases) + 1)
        /\ pc' \in {"start", "running", "write"} => phase' <= Len(Phases)
    BY <1>1, <1>2, <1>3 DEF Seed, SeedFails, SkipPhase, BeginPhase, Report, Exit
  <2> QED
    BY <2>1, <2>2, <2>3, OutsideKeepsTally DEF poolVars
<1>4. CASE StartDrill
  <2>1. pc = "start" /\ pc' = "running" /\ UNCHANGED poolVars /\ phase' = phase
    BY <1>4 DEF StartDrill
  <2> QED
    BY <1>1, <2>1, OutsideKeepsTally DEF poolVars
<1>5. CASE PhaseErrs
  <2>1. /\ UNCHANGED <<kind, clock, producer, queue, counter, wpc, at, warmed, killed, fresh,
                       counted, tally>>
        /\ phase' = phase /\ dpc' = "off" /\ pc' = "write"
        /\ pc = "start" \/ (pc = "running" /\ dpc # "off")
    BY <1>5 DEF PhaseErrs, DrillReturn, DrillCanFail, Rounds, Complete
  <2> QED
    BY <1>1, <2>1, OutsideKeepsTally
<1>6. CASE BaselineBatch
  <2>1. pc = "start" /\ UNCHANGED <<poolVars, drillVars, phase>>
    BY <1>6 DEF BaselineBatch
  <2>2. kind = "none" /\ dpc' = "off"
    BY <1>1, <2>1 DEF drillVars
  <2> QED
    BY <1>1, <2>1, <2>2, OutsideKeepsTally DEF poolVars
<1>7. CASE DrillReturns
  <2>1. /\ UNCHANGED <<poolVars, phase>> /\ dpc' = "off"
        /\ pc = "running" /\ dpc # "off"
    BY <1>7 DEF DrillReturns, DrillReturn, DrillDone, Rounds
  <2> QED
    BY <1>1, <2>1, OutsideKeepsTally DEF poolVars
<1> QED
  BY <1>3, <1>4, <1>5, <1>6, <1>7

\* The writing of the checkpoint file.
LEMMA FileKeepsTally ==
    ASSUME TallyInv, CheckpointInv, CheckpointInv', NEW g \in Goroutines,
           Snapshot(g) \/ Open(g) \/ Data(g), pc # "running" \/ g = "main"
    PROVE  TallyInv'
<1>1. /\ phase \in 1..(Len(Phases) + 1)
      /\ kind # "none" => pc = "running"
      /\ dpc # "off" => pc = "running"
      /\ pc \in {"start", "running", "write"} => phase <= Len(Phases)
  BY TallyParts
<1>2. Len(Phases) = 6
  BY DEF Phases
<1>3. g = "main" => pc = "write"
  BY DEF CheckpointInv, WritersInv, Snapshot, Open, Data, Quiet
<1>4. UNCHANGED <<poolVars, drillVars>>
  BY DEF Snapshot, Open, Data
<1>5. kind = "none" /\ dpc' = "off"
  BY <1>1, <1>3, <1>4 DEF drillVars
<1>6. /\ (pc' = "next" /\ phase' = phase + 1 /\ pc = "write") \/ UNCHANGED <<pc, phase>>
  BY <1>3 DEF Snapshot, Open, Data, Return, mainVars
<1>7. /\ phase' \in 1..(Len(Phases) + 1)
      /\ pc' \in {"start", "running", "write"} => phase' <= Len(Phases)
  BY <1>1, <1>2, <1>6
<1> QED
  BY <1>4, <1>5, <1>7, OutsideKeepsTally DEF poolVars

\* The drill leaves the writers alone, and they it.
LEMMA DrillKeepsTally ==
    ASSUME TallyInv, Watching(DrillStep)
    PROVE  TallyInv'
<1>1. pc = "running" /\ UNCHANGED <<poolVars, pc, phase, truncated, left, file>>
  BY DEF Watching, mainVars, cpVars
<1>2. dpc = "off" => dpc' = "off"
  BY DEF Watching, DrillStep, Pin, Unpin, DrillList, DrillDoorbell, DrillWriteBegin, DrillWriteEnd,
         DrillPoll, WatcherDies, Collect, CollectorGivesUp, DrillLoss, Rounds
<1>3. PoolSound' <=> PoolSound
  BY <1>1 DEF PoolSound, PoolTypes, PoolCounts, PoolInv, PoolIdle, OwnNamesInv, JobsInv, InHand,
              Failed, Queued, poolVars
<1> QED
  BY <1>1, <1>2, <1>3, TallyParts, TallyPartsNext DEF poolVars

LEMMA TallyNext == TallyInv /\ CheckpointInv /\ CheckpointInv' /\ [Next]_vars => TallyInv'
<1> SUFFICES ASSUME TallyInv, CheckpointInv, CheckpointInv', [Next]_vars PROVE TallyInv'
  OBVIOUS
<1>1. "main" \in Goroutines /\ "ticker" \in Goroutines
  BY DEF Goroutines
<1>2. CASE \/ Seed \/ SeedFails \/ SkipPhase \/ BeginPhase \/ StartDrill \/ Report \/ Exit
           \/ PhaseErrs \/ BaselineBatch \/ DrillReturns
  BY <1>2, MainKeepsTally
<1>3. CASE StartWriters \/ WritersDone
  BY <1>3, StartWritersKeepsTally, WritersDoneKeepsTally
<1>4. CASE Snapshot("main") \/ Open("main") \/ Data("main")
  BY <1>1, <1>4, FileKeepsTally
<1>5. CASE TickerStep
  BY <1>1, <1>5, FileKeepsTally DEF TickerStep
<1>6. CASE Writers
  BY <1>6, WritersKeepTally
<1>7. CASE Watching(DrillStep)
  BY <1>7, DrillKeepsTally
<1>8. CASE UNCHANGED vars
  <2>1. UNCHANGED <<poolVars, dpc, pc, phase, truncated, left, file>>
    BY <1>8 DEF vars, drillVars, mainVars, cpVars
  <2>2. PoolSound' <=> PoolSound
    BY <2>1 DEF PoolSound, PoolTypes, PoolCounts, PoolInv, PoolIdle, OwnNamesInv, JobsInv, InHand,
                Failed, Queued, poolVars
  <2> QED
    BY <2>1, <2>2, TallyParts, TallyPartsNext DEF poolVars
<1> QED
  BY <1>2, <1>3, <1>4, <1>5, <1>6, <1>7, <1>8 DEF Next, MainStep

\* The inductive invariant of the writes that phases 1, 2, 2b and 3 count, for any
\* number of writers and errors and any capacity of the channel.
THEOREM TallyInvariant == Spec => []TallyInv
<1> QED
  BY TallyInit, TallyNext, CheckpointInvariant, PTL DEF Spec

\* What the phases report as writes is right, whatever failed and was tried again.
THEOREM TalliesRight == Spec => []Tally
<1>1. TallyInv => Tally
  BY DEF TallyInv
<1> QED
  BY <1>1, TallyInvariant, PTL

-----------------------------------------------------------------------------
\* The drill.

LEMMA LeastNumber ==
    ASSUME NEW T \in SUBSET Nat, T # {}
    PROVE  \E x \in T : \A y \in T : x <= y
<1> DEFINE R == {ss \in Nat \X Nat : ss[1] < ss[2]}
<1>1. IsWellFoundedOn(R, Nat)
  BY NatLessThanWellFounded DEF OpToRel
<1> HIDE DEF R
<1>2. PICK x \in T : \A y \in T : <<y, x>> \notin R
  BY <1>1, WFMin
<1>3. \A y \in T : ~(y < x)
  BY <1>2 DEF R
<1> QED
  BY <1>3

LEMMA LargestNumber ==
    ASSUME NEW T \in SUBSET Nat, T # {}, NEW n \in Nat, \A t \in T : t <= n
    PROVE  \E x \in T : \A y \in T : y <= x
<1> DEFINE U == {n - t : t \in T}
<1>1. U \in SUBSET Nat /\ U # {}
  <2>1. ASSUME NEW t \in T PROVE n - t \in Nat
    <3>1. t \in Nat /\ t <= n
      OBVIOUS
    <3> QED
      BY <3>1
  <2> QED
    BY <2>1
<1>2. PICK u \in U : \A v \in U : u <= v
  <2> HIDE DEF U
  <2> QED
    BY <1>1, LeastNumber
<1>3. PICK x \in T : u = n - x
  OBVIOUS
<1>4. ASSUME NEW y \in T PROVE y <= x
  <2>1. n - x <= n - y
    BY <1>2, <1>3
  <2> QED
    BY <2>1
<1> QED
  BY <1>4

LEMMA WiderSeq ==
    ASSUME NEW A, NEW B, A \subseteq B, NEW s \in Seq(A)
    PROVE  s \in Seq(B)
<1>1. PICK n \in Nat : s \in [1..n -> A]
  BY SeqDef
<1>2. s \in [1..n -> B]
  BY <1>1
<1> QED
  BY <1>2, SeqDef

\* A watcher and its collector when ids below d are in use, and these rows.
WatchOf(d, rs) ==
    [alive : BOOLEAN, hwm : 0..(d - 1), events : Seq(rs), collected : Nat, got : SUBSET Nat,
     done : BOOLEAN]

LEMMA WatchOfWider ==
    ASSUME NEW d \in Nat, NEW e \in Nat, d <= e, NEW A, NEW B, A \subseteq B, NEW W,
           NEW f \in [W -> WatchOf(d, A)]
    PROVE  f \in [W -> WatchOf(e, B)]
<1>1. Seq(A) \subseteq Seq(B)
  BY WiderSeq
<1>2. 0..(d - 1) \subseteq 0..(e - 1)
  OBVIOUS
<1>3. WatchOf(d, A) \subseteq WatchOf(e, B)
  BY <1>1, <1>2 DEF WatchOf
<1> QED
  BY <1>3

\* The oldest transaction in flight, or the next one.
LEMMA XminFacts ==
    ASSUME DrillTypes
    PROVE  /\ DrillXmin \in Nat \ {0} /\ DrillXmin <= dxid
           /\ writing # 0 => DrillXmin <= writing
<1>1. /\ InFlightOrNext \in SUBSET Nat /\ dxid \in InFlightOrNext /\ 0 \notin InFlightOrNext
      /\ writing # 0 => writing \in InFlightOrNext
  BY DEF DrillTypes, InFlightOrNext
<1>2. \E x \in InFlightOrNext : \A y \in InFlightOrNext : x <= y
  BY <1>1, LeastNumber
<1>3. DrillXmin \in InFlightOrNext /\ \A y \in InFlightOrNext : DrillXmin <= y
  BY <1>2 DEF DrillXmin
<1> QED
  BY <1>1, <1>3

\* A poll that returns as many events as there are rows above its mark, in the
\* order of their stamps, returns them all.
LEMMA DrillPollsAll ==
    ASSUME DrillTypes, NEW h,
           NEW evs \in [1..Cardinality(Above(h)) -> Above(h)],
           \A i, j \in DOMAIN evs : i < j => evs[i].stamp < evs[j].stamp
    PROVE  evs \in Seq(drows) /\ \A r \in Above(h) : \E i \in DOMAIN evs : evs[i] = r
<1>1. /\ Above(h) \subseteq drows
      /\ IsFiniteSet(Above(h)) /\ Cardinality(Above(h)) \in Nat
  BY FS_Subset, FS_CardinalityType DEF Above, DrillTypes
<1>2. \A r \in Above(h) : r.stamp \in Nat
  <2> SUFFICES ASSUME NEW r \in Above(h) PROVE r.stamp \in Nat
    OBVIOUS
  <2>1. r \in [round : Rounds, n : Nat, stamp : 1..(dxid - 1)] /\ dxid \in Nat
    BY <1>1 DEF DrillTypes
  <2> QED
    BY <2>1
<1> DEFINE n == Cardinality(Above(h))
           S == Above(h)
<1>3. n \in Nat /\ evs \in [1..n -> S] /\ DOMAIN evs = 1..n
  BY <1>1
<1> HIDE DEF n, S
<1>4. \A i, j \in 1..n : i # j => evs[i] # evs[j]
  <2> SUFFICES ASSUME NEW i \in 1..n, NEW j \in 1..n, i < j PROVE evs[i] # evs[j]
    BY <1>3
  <2>1. evs[i].stamp < evs[j].stamp
    BY <1>3
  <2>2. evs[i].stamp \in Nat
    BY <1>2, <1>3 DEF S
  <2> QED
    BY <2>1, <2>2
<1>5. evs \in Injection(1..n, S)
  BY <1>3, <1>4, Fun_IsInj
<1>6. IsFiniteSet(1..n) /\ Cardinality(1..n) = n
  BY <1>3, FS_Interval
<1>7. evs \in Surjection(1..n, S)
  BY <1>1, <1>5, <1>6, FS_Injection DEF n, S
<1>8. \A r \in S : \E i \in 1..n : evs[i] = r
  BY <1>7 DEF Surjection
<1>9. evs \in [1..n -> drows]
  BY <1>1, <1>3 DEF S
<1>10. evs \in Seq(drows)
  BY <1>3, <1>9, SeqDef
<1> QED
  BY <1>3, <1>8, <1>10 DEF S

\* A row of the round is above the mark, collected or in the channel.
Held(c, r) ==
    \/ r.stamp > c.hwm
    \/ r.n \in c.got
    \/ \E i \in DOMAIN c.events : c.events[i] = r

LEMMA NothingLostAs ==
    NothingLost <=>
        (dpc \in Rounds => \A w \in watchers, r \in drows :
            r.round = dpc /\ wt[w].alive /\ ~wt[w].done => Held(wt[w], r))
  BY DEF NothingLost, Held

LEMMA NothingLostAsNext ==
    NothingLost' <=>
        (dpc' \in Rounds => \A w \in watchers', r \in drows' :
            r.round = dpc' /\ wt'[w].alive /\ ~wt'[w].done => Held(wt'[w], r))
  BY DEF NothingLost, Held

Occurs(r, s) == \E i \in DOMAIN s : s[i] = r

\* A sequence appended to another holds what either held.
LEMMA ConcatHolds ==
    ASSUME NEW S, NEW a \in Seq(S), NEW b \in Seq(S)
    PROVE  /\ a \o b \in Seq(S)
           /\ \A r : Occurs(r, a) \/ Occurs(r, b) => Occurs(r, a \o b)
<1>1. /\ a \o b \in Seq(S) /\ Len(a) \in Nat /\ Len(b) \in Nat
      /\ DOMAIN a = 1..Len(a) /\ DOMAIN b = 1..Len(b) /\ DOMAIN (a \o b) = 1..(Len(a) + Len(b))
  OBVIOUS
<1>2. \A i \in 1..Len(a) : i \in 1..(Len(a) + Len(b)) /\ (a \o b)[i] = a[i]
  BY <1>1
<1>3. \A i \in 1..Len(b) : Len(a) + i \in 1..(Len(a) + Len(b)) /\ (a \o b)[Len(a) + i] = b[i]
  BY <1>1
<1> QED
  BY <1>1, <1>2, <1>3 DEF Occurs

\* One watcher or its collector takes a step.
LEMMA OneWatchKeepsDrill ==
    ASSUME DrillInv, dpc \in Rounds, NEW w \in watchers, NEW c \in WatchOf(dxid, drows),
           UNCHANGED <<watchers, dpc, startRV, dxid, pins, sent, writing, drows>>,
           wt' = [wt EXCEPT ![w] = c],
           writing # 0 => c.hwm < writing,
           \A r \in drows : r.round = dpc /\ c.alive /\ ~c.done => Held(c, r)
    PROVE  DrillInv'
<1>1. DrillTypes /\ wt \in [watchers -> WatchOf(dxid, drows)]
  BY DEF DrillInv, DrillTypes, WatchOf
<1>2. wt'[w] = c /\ \A v \in watchers : v # w => wt'[v] = wt[v]
  BY <1>1
<1>3. wt' \in [watchers -> WatchOf(dxid, drows)]
  BY <1>1
<1>4. DrillTypes'
  BY <1>1, <1>3 DEF DrillTypes, WatchOf
<1>5. \A v \in watchers, r \in drows : r.round = dpc /\ wt'[v].alive /\ ~wt'[v].done => Held(wt'[v], r)
  BY <1>2, NothingLostAs DEF DrillInv
<1>6. NothingLost'
  BY <1>5, NothingLostAsNext
<1>7. writing # 0 => \A v \in watchers : wt'[v].hwm < writing
  BY <1>2 DEF DrillInv
<1> QED
  BY <1>4, <1>6, <1>7 DEF DrillInv

LEMMA PollKeepsDrill ==
    ASSUME DrillInv, NEW w \in watchers, DrillPoll(w)
    PROVE  DrillInv'
<1>1. DrillTypes /\ dpc \in Rounds /\ wt \in [watchers -> WatchOf(dxid, drows)]
  BY DEF DrillInv, DrillTypes, WatchOf, DrillPoll
<1> DEFINE h == IF DrillXmin - 1 > wt[w].hwm THEN DrillXmin - 1 ELSE wt[w].hwm
<1>2. PICK evs \in [1..Cardinality(Above(wt[w].hwm)) -> Above(wt[w].hwm)] :
        /\ \A i, j \in DOMAIN evs : i < j => evs[i].stamp < evs[j].stamp
        /\ wt' = [wt EXCEPT ![w].events = @ \o evs,
                            ![w].hwm = IF DrillXmin - 1 > @ THEN DrillXmin - 1 ELSE @]
  BY DEF DrillPoll
<1>3. UNCHANGED <<watchers, dpc, startRV, dxid, pins, sent, writing, drows>>
  BY DEF DrillPoll
<1>4. evs \in Seq(drows) /\ \A r \in Above(wt[w].hwm) : \E i \in DOMAIN evs : evs[i] = r
  BY <1>1, <1>2, DrillPollsAll
<1>5. /\ wt[w] \in WatchOf(dxid, drows) /\ wt[w].events \in Seq(drows) /\ wt[w].hwm \in 0..(dxid - 1)
      /\ dxid \in Nat /\ writing \in Nat
  BY <1>1 DEF WatchOf, DrillTypes
<1>6. h \in 0..(dxid - 1) /\ (writing # 0 => h < writing)
  <2>1. /\ DrillXmin \in Nat \ {0} /\ DrillXmin <= dxid
        /\ writing # 0 => DrillXmin <= writing
    BY <1>1, XminFacts
  <2>2. writing # 0 => wt[w].hwm < writing
    BY <1>1 DEF DrillInv
  <2> QED
    BY <1>5, <2>1, <2>2
<1> HIDE DEF h
<1> DEFINE es == wt[w].events \o evs
<1>7. /\ es \in Seq(drows)
      /\ \A r : Occurs(r, wt[w].events) \/ Occurs(r, evs) => Occurs(r, es)
  <2>1. evs \in Seq(drows) /\ wt[w].events \in Seq(drows)
    BY <1>4, <1>5
  <2> QED
    BY <2>1, ConcatHolds, Zenon
<1> HIDE DEF es
<1> DEFINE c == [wt[w] EXCEPT !.events = es, !.hwm = h]
<1>8. wt' = [wt EXCEPT ![w] = c]
  BY <1>1, <1>2 DEF h, es
<1>9. /\ c \in WatchOf(dxid, drows) /\ c.events = es /\ c.hwm = h /\ c.got = wt[w].got
      /\ c.alive = wt[w].alive /\ c.done = wt[w].done
  BY <1>5, <1>6, <1>7 DEF WatchOf
<1> HIDE DEF c
<1>10. ASSUME NEW r \in drows, r.round = dpc, c.alive, ~c.done PROVE Held(c, r)
  <2>1. Held(wt[w], r)
    BY <1>1, <1>9, <1>10, NothingLostAs DEF DrillInv
  <2>2. CASE r.stamp > wt[w].hwm
    <3>1. r \in Above(wt[w].hwm)
      BY <2>2 DEF Above
    <3>2. PICK i \in DOMAIN evs : evs[i] = r
      BY <1>4, <3>1
    <3> QED
      BY <1>7, <1>9, <3>2 DEF Held, Occurs
  <2>3. CASE r.n \in wt[w].got
    BY <1>9, <2>3 DEF Held
  <2>4. CASE \E i \in DOMAIN wt[w].events : wt[w].events[i] = r
    BY <1>7, <1>9, <2>4 DEF Held, Occurs
  <2> QED
    BY <2>1, <2>2, <2>3, <2>4 DEF Held
<1> QED
  BY <1>1, <1>3, <1>6, <1>8, <1>9, <1>10, OneWatchKeepsDrill

\* A watcher dies, or its collector gives up: nothing is promised any more.
LEMMA GivingUpKeepsDrill ==
    ASSUME DrillInv, NEW w \in watchers, WatcherDies(w) \/ CollectorGivesUp(w)
    PROVE  DrillInv'
<1>1. DrillTypes /\ dpc \in Rounds /\ wt \in [watchers -> WatchOf(dxid, drows)]
  BY DEF DrillInv, DrillTypes, WatchOf, WatcherDies, CollectorGivesUp
<1>2. UNCHANGED <<watchers, dpc, startRV, dxid, pins, sent, writing, drows>>
  BY DEF WatcherDies, CollectorGivesUp
<1>3. PICK c \in {[wt[w] EXCEPT !.alive = FALSE], [wt[w] EXCEPT !.done = TRUE]} : wt' = [wt EXCEPT ![w] = c]
  BY <1>1 DEF WatcherDies, CollectorGivesUp
<1>4. wt[w] \in WatchOf(dxid, drows)
  BY <1>1
<1>5. c \in WatchOf(dxid, drows) /\ c.hwm = wt[w].hwm /\ (c.alive = FALSE \/ c.done = TRUE)
  BY <1>3, <1>4 DEF WatchOf
<1>6. writing # 0 => c.hwm < writing
  BY <1>1, <1>5 DEF DrillInv
<1> QED
  BY <1>1, <1>2, <1>3, <1>5, <1>6, OneWatchKeepsDrill

\* The collector takes an event.
LEMMA CollectKeepsDrill ==
    ASSUME DrillInv, NEW w \in watchers, Collect(w)
    PROVE  DrillInv'
<1> DEFINE e == Head(wt[w].events)
           b == [wt[w] EXCEPT !.events = Tail(wt[w].events)]
           c == IF e.round = dpc THEN Got(b, e) ELSE b
<1>1. DrillTypes /\ dpc \in Rounds /\ wt \in [watchers -> WatchOf(dxid, drows)]
  BY DEF DrillInv, DrillTypes, WatchOf, Collect
<1>2. UNCHANGED <<watchers, dpc, startRV, dxid, pins, sent, writing, drows>>
  BY DEF Collect
<1>3. wt' = [wt EXCEPT ![w] = c] /\ wt[w].events # <<>>
  BY DEF Collect
<1>4. wt[w] \in WatchOf(dxid, drows) /\ wt[w].events \in Seq(drows)
  BY <1>1 DEF WatchOf
<1>5. /\ e \in drows /\ Tail(wt[w].events) \in Seq(drows)
      /\ \A r : (\E i \in DOMAIN wt[w].events : wt[w].events[i] = r) =>
                r = e \/ \E i \in DOMAIN Tail(wt[w].events) : Tail(wt[w].events)[i] = r
  <2> DEFINE a == wt[w].events
  <2> HIDE DEF a
  <2>1. a \in Seq(drows) /\ a # <<>>
    BY <1>3, <1>4 DEF a
  <2>2. /\ Head(a) \in drows /\ Tail(a) \in Seq(drows) /\ Head(a) = a[1] /\ Len(a) \in Nat
        /\ DOMAIN a = 1..Len(a) /\ DOMAIN Tail(a) = 1..(Len(a) - 1)
        /\ \A i \in 1..(Len(a) - 1) : Tail(a)[i] = a[i + 1]
    BY <2>1
  <2>3. ASSUME NEW i \in DOMAIN a, i # 1 PROVE i - 1 \in DOMAIN Tail(a) /\ Tail(a)[i - 1] = a[i]
    BY <2>2, <2>3
  <2>4. \A r : (\E i \in DOMAIN a : a[i] = r) => r = Head(a) \/ \E i \in DOMAIN Tail(a) : Tail(a)[i] = r
    BY <2>2, <2>3
  <2> QED
    BY <2>2, <2>4 DEF a
<1>6. e.n \in Nat
  <2>1. e \in [round : Rounds, n : Nat, stamp : 1..(dxid - 1)]
    BY <1>1, <1>5 DEF DrillTypes
  <2> QED
    BY <2>1
<1> HIDE DEF e
<1>7. /\ b \in WatchOf(dxid, drows) /\ b.hwm = wt[w].hwm /\ b.events = Tail(wt[w].events)
      /\ b.alive = wt[w].alive /\ b.got = wt[w].got /\ b.done = wt[w].done
      /\ b.collected \in Nat /\ b.done = FALSE
  BY <1>4, <1>5 DEF WatchOf, Collect
<1> HIDE DEF b
<1>8. /\ c \in WatchOf(dxid, drows) /\ c.hwm = wt[w].hwm /\ c.events = Tail(wt[w].events)
      /\ c.alive = wt[w].alive /\ wt[w].got \subseteq c.got
      /\ e.round = dpc => e.n \in c.got
  <2>1. CASE e.round = dpc
    <3>1. b.collected + 1 \in Nat /\ b.got \cup {e.n} \in SUBSET Nat
      BY <1>6, <1>7 DEF WatchOf
    <3>2. Got(b, e) \in WatchOf(dxid, drows)
      BY <1>7, <3>1 DEF Got, WatchOf
    <3> QED
      BY <1>7, <2>1, <3>2 DEF Got, WatchOf
  <2>2. CASE e.round # dpc
    BY <1>7, <2>2
  <2> QED
    BY <2>1, <2>2
<1> HIDE DEF c
<1>9. writing # 0 => c.hwm < writing
  BY <1>1, <1>8 DEF DrillInv
<1>10. ASSUME NEW r \in drows, r.round = dpc, c.alive, ~c.done PROVE Held(c, r)
  <2>1. wt[w].alive /\ ~wt[w].done
    BY <1>8, <1>10 DEF Collect
  <2>2. Held(wt[w], r)
    BY <1>1, <1>10, <2>1, NothingLostAs DEF DrillInv
  <2> QED
    BY <1>5, <1>8, <1>10, <2>2 DEF Held
<1> QED
  BY <1>1, <1>2, <1>3, <1>8, <1>9, <1>10, OneWatchKeepsDrill

\* Transaction ids are handed out, to another session or to a write.
LEMMA NextIdKeepsDrill ==
    ASSUME DrillInv, Pin \/ DrillWriteBegin
    PROVE  DrillInv'
<1>1. DrillTypes /\ dxid' = dxid + 1 /\ UNCHANGED <<watchers, dpc, startRV, drows, wt>>
  BY DEF DrillInv, Pin, DrillWriteBegin
<1>2. dxid \in Nat \ {0} /\ dxid' \in Nat \ {0} /\ dxid <= dxid'
  BY <1>1 DEF DrillTypes
<1>3. 1..(dxid - 1) \subseteq 1..(dxid' - 1) /\ dxid \in 1..(dxid' - 1)
  BY <1>1, <1>2
<1>4. drows' \subseteq [round : Rounds, n : Nat, stamp : 1..(dxid' - 1)]
  BY <1>1, <1>3 DEF DrillTypes
<1>5. dpc \in Rounds => wt' \in [watchers' -> WatchOf(dxid', drows')]
  <2> SUFFICES ASSUME dpc \in Rounds PROVE wt \in [watchers -> WatchOf(dxid', drows)]
    BY <1>1
  <2>1. wt \in [watchers -> WatchOf(dxid, drows)]
    BY <1>1 DEF DrillTypes, WatchOf
  <2> QED
    BY <1>2, <2>1, WatchOfWider
<1>6. /\ startRV' \in 0..(dxid' - 1) /\ writing' \in 0..(dxid' - 1) /\ sent' \in Nat
      /\ pins' \subseteq 1..(dxid' - 1)
  <2>1. /\ startRV \in 0..(dxid - 1) /\ writing \in 0..(dxid - 1) /\ sent \in Nat
        /\ pins \subseteq 1..(dxid - 1)
    BY <1>1 DEF DrillTypes
  <2>2. 0..(dxid - 1) \subseteq 0..(dxid' - 1) /\ dxid \in 0..(dxid' - 1)
    BY <1>1, <1>2
  <2>3. CASE Pin
    <3>1. pins' = pins \cup {dxid} /\ UNCHANGED <<writing, sent>>
      BY <2>3 DEF Pin
    <3> QED
      BY <1>1, <1>3, <2>1, <2>2, <3>1
  <2>4. CASE DrillWriteBegin
    <3>1. sent' = sent + 1 /\ writing' = dxid /\ pins' = pins
      BY <2>4 DEF DrillWriteBegin
    <3>2. sent' \in Nat
      BY <2>1, <3>1
    <3> QED
      BY <1>1, <1>3, <2>1, <2>2, <3>1, <3>2
  <2> QED
    BY <2>3, <2>4
<1>7. DrillTypes'
  BY <1>1, <1>2, <1>4, <1>5, <1>6 DEF DrillTypes, WatchOf
<1>8. NothingLost'
  BY <1>1 DEF DrillInv, NothingLost
<1>9. dpc \notin Rounds => writing' = 0
  BY DEF DrillInv, Pin, DrillWriteBegin
<1>10. dpc \in Rounds /\ writing' # 0 => \A w \in watchers : wt[w].hwm < writing'
  <2> SUFFICES ASSUME dpc \in Rounds, writing' # 0, NEW w \in watchers PROVE wt[w].hwm < writing'
    OBVIOUS
  <2>1. CASE Pin
    BY <2>1 DEF Pin, DrillInv
  <2>2. CASE DrillWriteBegin
    <3>1. wt[w].hwm \in 0..(dxid - 1) /\ writing' = dxid
      BY <1>1, <2>2 DEF DrillTypes, DrillWriteBegin
    <3> QED
      BY <1>2, <3>1
  <2> QED
    BY <2>1, <2>2
<1> QED
  BY <1>1, <1>7, <1>8, <1>9, <1>10 DEF DrillInv

\* A write ends; when it has landed its stamp is above every mark.
LEMMA WriteEndKeepsDrill ==
    ASSUME DrillInv, DrillWriteEnd
    PROVE  DrillInv'
<1> DEFINE row == [round |-> dpc, n |-> sent, stamp |-> writing]
<1>1. /\ DrillTypes /\ writing # 0 /\ writing' = 0
      /\ drows' = drows \cup {row} \/ drows' = drows
      /\ UNCHANGED <<watchers, dpc, startRV, dxid, pins, sent, wt>>
  BY DEF DrillInv, DrillWriteEnd
<1>2. dpc \in Rounds
  BY <1>1 DEF DrillInv
<1>3. /\ dxid \in Nat \ {0} /\ writing \in 1..(dxid - 1) /\ sent \in Nat
      /\ wt \in [watchers -> WatchOf(dxid, drows)]
  BY <1>1, <1>2 DEF DrillTypes, WatchOf
<1>4. row \in [round : Rounds, n : Nat, stamp : 1..(dxid - 1)] /\ row.round = dpc /\ row.stamp = writing
  BY <1>2, <1>3
<1> HIDE DEF row
<1>5. /\ drows' \subseteq [round : Rounds, n : Nat, stamp : 1..(dxid - 1)]
      /\ IsFiniteSet(drows') /\ drows \subseteq drows' /\ drows' \subseteq drows \cup {row}
  <2>1. IsFiniteSet(drows) /\ drows \subseteq [round : Rounds, n : Nat, stamp : 1..(dxid - 1)]
    BY <1>1 DEF DrillTypes
  <2>2. IsFiniteSet(drows \cup {row})
    BY <2>1, FS_AddElement
  <2> QED
    BY <1>1, <1>4, <2>1, <2>2
<1>6. wt \in [watchers -> WatchOf(dxid, drows')]
  BY <1>3, <1>5, WatchOfWider
<1>7. DrillTypes'
  BY <1>1, <1>2, <1>3, <1>5, <1>6 DEF DrillTypes, WatchOf
<1>8. \A w \in watchers : Held(wt[w], row)
  <2> SUFFICES ASSUME NEW w \in watchers PROVE row.stamp > wt[w].hwm
    BY DEF Held
  <2>1. wt[w].hwm < writing
    BY <1>1, <1>2 DEF DrillInv
  <2>2. wt[w].hwm \in Nat
    BY <1>3 DEF WatchOf
  <2> QED
    BY <1>3, <1>4, <2>1, <2>2
<1>9. NothingLost'
  BY <1>1, <1>2, <1>5, <1>8, NothingLostAs, NothingLostAsNext DEF DrillInv
<1>10. dpc = "doorbell" => \A r \in drows' : r.round = "doorbell"
  BY <1>4, <1>5 DEF DrillInv
<1> QED
  BY <1>1, <1>2, <1>7, <1>9, <1>10 DEF DrillInv

\* A round begins; there is no row of it yet.
LEMMA RoundKeepsDrill ==
    ASSUME DrillInv, NEW r \in Rounds, NEW h, Round(r, h), writing = 0,
           watchers # {} => h \in 0..(dxid - 1),
           \A x \in drows : x.round # r,
           r = "doorbell" => drows = {}
    PROVE  DrillInv'
<1>1. DrillTypes /\ dpc' = r /\ sent' = 0 /\ wt' = [w \in watchers |-> NewWatch(h)]
      /\ UNCHANGED <<watchers, startRV, dxid, pins, writing, drows>>
  BY DEF DrillInv, Round
<1>2. <<>> \in Seq(drows)
  OBVIOUS
<1>3. watchers # {} => NewWatch(h) \in WatchOf(dxid, drows)
  BY <1>2 DEF NewWatch, WatchOf
<1>4. wt' \in [watchers -> WatchOf(dxid, drows)]
  BY <1>1, <1>3
<1>5. DrillTypes'
  BY <1>1, <1>4 DEF DrillTypes, WatchOf
<1>6. NothingLost'
  BY <1>1, NothingLostAsNext
<1> QED
  BY <1>1, <1>5, <1>6 DEF DrillInv

\* Every step of the drill keeps the invariant.
LEMMA DrillStepKeepsDrill ==
    ASSUME DrillInv, DrillStep
    PROVE  DrillInv'
<1>1. DrillTypes
  BY DEF DrillInv
<1>2. CASE Pin \/ DrillWriteBegin
  BY <1>2, NextIdKeepsDrill
<1>3. CASE DrillWriteEnd
  BY <1>3, WriteEndKeepsDrill
<1>4. ASSUME NEW w \in watchers, DrillPoll(w) \/ WatcherDies(w) \/ Collect(w) \/ CollectorGivesUp(w)
      PROVE  DrillInv'
  BY <1>4, PollKeepsDrill, GivingUpKeepsDrill, CollectKeepsDrill
<1>5. ASSUME NEW x \in pins, Unpin(x) PROVE DrillInv'
  <2>1. /\ UNCHANGED <<watchers, dpc, startRV, dxid, sent, writing, drows, wt>>
        /\ pins' \subseteq pins
    BY <1>5 DEF Unpin
  <2>2. DrillTypes'
    BY <1>1, <2>1 DEF DrillTypes
  <2> QED
    BY <2>1, <2>2 DEF DrillInv, NothingLost
<1>6. CASE DrillList
  <2>1. /\ UNCHANGED <<watchers, dxid, pins, sent, writing, drows, wt>>
        /\ dpc = "list" /\ dpc' = "idle" /\ startRV' \in {DrillXmin - 1, 0}
    BY <1>6 DEF DrillList
  <2>2. startRV' \in 0..(dxid - 1)
    BY <1>1, <2>1, XminFacts DEF DrillTypes
  <2>3. dpc \notin Rounds /\ dpc' \notin Rounds /\ dpc' # "doorbell"
    BY <2>1 DEF Rounds
  <2>4. DrillTypes'
    BY <1>1, <2>1, <2>2, <2>3 DEF DrillTypes
  <2> QED
    BY <2>1, <2>3, <2>4 DEF DrillInv, NothingLost
<1>7. CASE DrillDoorbell
  <2>1. dpc = "idle" /\ Round("doorbell", startRV) /\ "doorbell" \in Rounds /\ dpc \notin Rounds
    BY <1>7 DEF DrillDoorbell, Rounds
  <2>2. drows = {} /\ writing = 0 /\ startRV \in 0..(dxid - 1)
    BY <2>1 DEF DrillInv, DrillTypes
  <2> QED
    BY <2>1, <2>2, RoundKeepsDrill
<1>8. CASE DrillLoss
  <2>1. /\ dpc = "doorbell" /\ writing = 0 /\ Round("loss", MaxHwm)
        /\ "loss" \in Rounds /\ dpc \in Rounds
    BY <1>8 DEF DrillLoss, RoundOver, Rounds
  <2>2. \A x \in drows : x.round # "loss"
    BY <2>1 DEF DrillInv
  <2>3. watchers # {} => MaxHwm \in 0..(dxid - 1)
    <3> DEFINE H == {wt[w].hwm : w \in watchers}
    <3>1. wt \in [watchers -> WatchOf(dxid, drows)] /\ dxid \in Nat \ {0}
      BY <1>1, <2>1 DEF DrillTypes, WatchOf
    <3>2. \A w \in watchers : wt[w].hwm \in 0..(dxid - 1)
      BY <3>1 DEF WatchOf
    <3>3. H \subseteq 0..(dxid - 1)
      BY <3>2
    <3>4. ASSUME watchers # {} PROVE H # {}
      BY <3>4
    <3>5. ASSUME watchers # {} PROVE \E h \in H : \A w \in watchers : wt[w].hwm <= h
      <4>1. \A w \in watchers : wt[w].hwm \in H
        OBVIOUS
      <4> HIDE DEF H
      <4>2. H \in SUBSET Nat /\ dxid \in Nat /\ \A t \in H : t <= dxid
        BY <3>1, <3>3
      <4>3. PICK h \in H : \A y \in H : y <= h
        BY <3>4, <3>5, <4>2, LargestNumber
      <4> QED
        BY <4>1, <4>3
    <3>6. watchers # {} => MaxHwm \in H
      BY <3>5 DEF MaxHwm
    <3> QED
      BY <3>3, <3>6
  <2> QED
    BY <2>1, <2>2, <2>3, RoundKeepsDrill
<1> QED
  BY <1>2, <1>3, <1>4, <1>5, <1>6, <1>7, <1>8 DEF DrillStep

\* Outside a drill there is nothing to lose.
LEMMA NoDrill == DrillInit => DrillInv
<1> SUFFICES ASSUME DrillInit PROVE DrillInv
  OBVIOUS
<1>1. /\ dpc = "off" /\ startRV = 0 /\ dxid = 1 /\ pins = {} /\ sent = 0 /\ writing = 0 /\ drows = {}
      /\ dpc \notin Rounds
  BY DEF DrillInit, Rounds
<1>2. DrillTypes
  BY <1>1, FS_EmptySet DEF DrillTypes
<1> QED
  BY <1>1, <1>2 DEF DrillInv, NothingLost

LEMMA DrillReturnKeepsDrill == DrillReturn => DrillInv'
<1> SUFFICES ASSUME DrillReturn PROVE DrillInv'
  OBVIOUS
<1>1. /\ dpc' = "off" /\ startRV' = 0 /\ dxid' = 1 /\ pins' = {} /\ sent' = 0 /\ writing' = 0
      /\ drows' = {} /\ dpc' \notin Rounds
  BY DEF DrillReturn, Rounds
<1>2. DrillTypes'
  BY <1>1, FS_EmptySet DEF DrillTypes
<1> QED
  BY <1>1, <1>2 DEF DrillInv, NothingLost

LEMMA DrillNext == DrillInv /\ TallyInv /\ [Next]_vars => DrillInv'
<1> SUFFICES ASSUME DrillInv, TallyInv, [Next]_vars PROVE DrillInv'
  OBVIOUS
<1>1. CASE UNCHANGED drillVars
  BY <1>1 DEF drillVars, DrillInv, DrillTypes, NothingLost
<1>2. CASE StartDrill
  <2>1. /\ pc = "start" /\ dpc' = "list"
        /\ UNCHANGED <<startRV, dxid, pins, sent, writing, drows>>
    BY <1>2 DEF StartDrill, DrillStart
  <2>2. dpc = "off"
    BY <2>1, TallyParts
  <2>3. dpc \notin Rounds /\ dpc' \notin Rounds /\ dpc' # "doorbell"
    BY <2>1, <2>2 DEF Rounds
  <2>4. DrillTypes'
    BY <2>1, <2>3 DEF DrillInv, DrillTypes
  <2> QED
    BY <2>1, <2>3, <2>4 DEF DrillInv, NothingLost
<1>3. CASE PhaseErrs \/ DrillReturns
  BY <1>3, DrillReturnKeepsDrill DEF PhaseErrs, DrillReturns
<1>4. CASE Watching(DrillStep)
  BY <1>4, DrillStepKeepsDrill DEF Watching
<1>5. CASE \/ Seed \/ SeedFails \/ SkipPhase \/ BeginPhase \/ StartWriters \/ BaselineBatch
           \/ WritersDone \/ Report \/ Exit \/ Writers
  <2>1. UNCHANGED drillVars
    BY <1>5 DEF Seed, SeedFails, SkipPhase, BeginPhase, StartWriters, BaselineBatch, WritersDone,
                Report, Exit, Writers
  <2> QED
    BY <1>1, <2>1
<1>6. CASE TickerStep \/ Snapshot("main") \/ Open("main") \/ Data("main")
  <2>1. UNCHANGED drillVars
    BY <1>6 DEF TickerStep, Snapshot, Open, Data
  <2> QED
    BY <1>1, <2>1
<1> QED
  BY <1>1, <1>2, <1>3, <1>4, <1>5, <1>6 DEF Next, MainStep, vars

\* The inductive invariant of the drill of phase 5, for any number of watchers and
\* writes and any capacity of the channels.
THEOREM DrillInvariant == Spec => []DrillInv
<1>1. Init => DrillInv
  BY NoDrill DEF Init
<1> QED
  BY <1>1, DrillNext, TallyInvariant, PTL DEF Spec

\* No write of a round is lost to a watcher that runs, although round C starts from
\* the HWM() of another watcher and other sessions hold transactions open.
THEOREM DrillLosesNothing == Spec => []NothingLost
<1>1. DrillInv => NothingLost
  BY DEF DrillInv
<1> QED
  BY <1>1, DrillInvariant, PTL

-----------------------------------------------------------------------------
\* What the collectors count.

Distinct(s) == \A i, j \in DOMAIN s : i # j => s[i] # s[j]

LEMMA OnceAs ==
    ASSUME NEW c, NEW rs
    PROVE  Once(c, rs) <=>
             /\ \A n \in c.got : \E r \in rs : r.n = n /\ r.stamp <= c.hwm
             /\ c.collected = Cardinality(c.got)
             /\ \A e : Occurs(e, c.events) => e.stamp <= c.hwm /\ (e \in rs => e.n \notin c.got)
             /\ Distinct(c.events)
  BY DEF Once, Occurs, Distinct

\* A sequence appended to another holds nothing else, and nothing twice when they
\* have nothing in common.
LEMMA ConcatDistinct ==
    ASSUME NEW S, NEW a \in Seq(S), NEW b \in Seq(S), Distinct(a), Distinct(b),
           \A e : ~(Occurs(e, a) /\ Occurs(e, b))
    PROVE  /\ \A e : Occurs(e, a \o b) => Occurs(e, a) \/ Occurs(e, b)
           /\ Distinct(a \o b)
<1>1. /\ a \o b \in Seq(S) /\ Len(a) \in Nat /\ Len(b) \in Nat
      /\ DOMAIN a = 1..Len(a) /\ DOMAIN b = 1..Len(b) /\ DOMAIN (a \o b) = 1..(Len(a) + Len(b))
  OBVIOUS
<1>2. \A i \in 1..(Len(a) + Len(b)) :
        \/ i \in 1..Len(a) /\ (a \o b)[i] = a[i]
        \/ i - Len(a) \in 1..Len(b) /\ (a \o b)[i] = b[i - Len(a)]
  BY <1>1
<1>3. \A e : Occurs(e, a \o b) => Occurs(e, a) \/ Occurs(e, b)
  BY <1>1, <1>2 DEF Occurs
<1>4. ASSUME NEW i \in 1..(Len(a) + Len(b)), NEW j \in 1..(Len(a) + Len(b)), i # j
      PROVE  (a \o b)[i] # (a \o b)[j]
  <2>1. CASE i \in 1..Len(a) /\ (a \o b)[i] = a[i]
    <3>1. CASE j \in 1..Len(a) /\ (a \o b)[j] = a[j]
      BY <1>1, <1>4, <2>1, <3>1 DEF Distinct
    <3>2. CASE j - Len(a) \in 1..Len(b) /\ (a \o b)[j] = b[j - Len(a)]
      BY <1>1, <2>1, <3>2 DEF Occurs
    <3> QED
      BY <1>2, <3>1, <3>2
  <2>2. CASE i - Len(a) \in 1..Len(b) /\ (a \o b)[i] = b[i - Len(a)]
    <3>1. CASE j \in 1..Len(a) /\ (a \o b)[j] = a[j]
      BY <1>1, <2>2, <3>1 DEF Occurs
    <3>2. CASE j - Len(a) \in 1..Len(b) /\ (a \o b)[j] = b[j - Len(a)]
      <4>1. i - Len(a) # j - Len(a)
        BY <1>1, <1>4
      <4> QED
        BY <1>1, <2>2, <3>2, <4>1 DEF Distinct
    <3> QED
      BY <1>2, <3>1, <3>2
  <2> QED
    BY <1>2, <2>1, <2>2
<1>5. Distinct(a \o b)
  BY <1>1, <1>4 DEF Distinct
<1> QED
  BY <1>3, <1>5

\* What is left of a sequence without its head.
LEMMA TailDistinct ==
    ASSUME NEW S, NEW a \in Seq(S), a # <<>>, Distinct(a)
    PROVE  /\ Head(a) \in S /\ Occurs(Head(a), a)
           /\ \A e : Occurs(e, Tail(a)) => Occurs(e, a) /\ e # Head(a)
           /\ Distinct(Tail(a))
<1>1. /\ Head(a) \in S /\ Tail(a) \in Seq(S) /\ Head(a) = a[1] /\ Len(a) \in Nat /\ Len(a) > 0
      /\ DOMAIN a = 1..Len(a) /\ DOMAIN Tail(a) = 1..(Len(a) - 1)
      /\ \A i \in 1..(Len(a) - 1) : Tail(a)[i] = a[i + 1]
  OBVIOUS
<1>2. 1 \in DOMAIN a
  BY <1>1
<1>3. \A i \in DOMAIN Tail(a) : i + 1 \in DOMAIN a /\ i + 1 # 1 /\ Tail(a)[i] = a[i + 1]
  BY <1>1
<1>4. \A i, j \in DOMAIN Tail(a) : i # j => i + 1 # j + 1
  BY <1>1
<1>5. \A e : Occurs(e, Tail(a)) => Occurs(e, a) /\ e # Head(a)
  BY <1>1, <1>2, <1>3 DEF Occurs, Distinct
<1>6. Distinct(Tail(a))
  BY <1>3, <1>4 DEF Distinct
<1> QED
  BY <1>1, <1>2, <1>5, <1>6 DEF Occurs

\* One watcher or its collector takes a step.
LEMMA OneWatchKeepsOnce ==
    ASSUME DrillInv, OnceInv, dpc \in Rounds, NEW w \in watchers, NEW c,
           UNCHANGED <<config, watchers, writeCount, dpc, sent, writing, drows>>,
           wt' = [wt EXCEPT ![w] = c],
           pinned => pinned',
           ~pinned' => Once(c, RoundRows)
    PROVE  OnceInv'
<1>1. DOMAIN wt = watchers
  BY DEF DrillInv, DrillTypes
<1>2. wt'[w] = c /\ \A v \in watchers : v # w => wt'[v] = wt[v]
  BY <1>1
<1>3. RoundRows' = RoundRows
  BY DEF RoundRows
<1>4. WritesInv'
  BY <1>3 DEF OnceInv, WritesInv
<1>5. ASSUME ~pinned', NEW v \in watchers PROVE Once(wt'[v], RoundRows)
  <2>1. CASE v = w
    BY <1>2, <1>5, <2>1
  <2>2. CASE v # w
    BY <1>2, <1>5, <2>2 DEF OnceInv
  <2> QED
    BY <2>1, <2>2
<1>6. dpc' \in Rounds /\ ~pinned' => \A v \in watchers' : Once(wt'[v], RoundRows')
  BY <1>3, <1>5
<1>7. config' \in Configs
  BY DEF OnceInv
<1> QED
  BY <1>4, <1>6, <1>7 DEF OnceInv

\* A poll beside no transaction of another session returns what is above the mark,
\* and moves the mark past every row.
LEMMA PollKeepsOnce ==
    ASSUME DrillInv, OnceInv, NEW w \in watchers, DrillPoll(w), config' = config
    PROVE  OnceInv'
<1>1. DrillTypes /\ dpc \in Rounds /\ wt \in [watchers -> WatchOf(dxid, drows)]
  BY DEF DrillInv, DrillTypes, WatchOf, DrillPoll
<1> DEFINE h == IF DrillXmin - 1 > wt[w].hwm THEN DrillXmin - 1 ELSE wt[w].hwm
<1>2. PICK evs \in [1..Cardinality(Above(wt[w].hwm)) -> Above(wt[w].hwm)] :
        /\ \A i, j \in DOMAIN evs : i < j => evs[i].stamp < evs[j].stamp
        /\ wt' = [wt EXCEPT ![w].events = @ \o evs,
                            ![w].hwm = IF DrillXmin - 1 > @ THEN DrillXmin - 1 ELSE @]
  BY DEF DrillPoll
<1>3. /\ UNCHANGED <<config, watchers, writeCount, dpc, sent, writing, drows>>
      /\ pinned' = (pinned \/ pins # {})
  BY DEF DrillPoll
<1>4. evs \in Seq(drows)
  BY <1>1, <1>2, DrillPollsAll
<1>5. /\ wt[w] \in WatchOf(dxid, drows) /\ wt[w].events \in Seq(drows) /\ wt[w].hwm \in Nat
      /\ dxid \in Nat \ {0} /\ writing \in Nat
  BY <1>1 DEF WatchOf, DrillTypes
<1>6. \A r \in drows : r.stamp \in 1..(dxid - 1)
  <2> SUFFICES ASSUME NEW r \in drows PROVE r.stamp \in 1..(dxid - 1)
    OBVIOUS
  <2>1. r \in [round : Rounds, n : Nat, stamp : 1..(dxid - 1)]
    BY <1>1 DEF DrillTypes
  <2> QED
    BY <2>1
<1>7. \A e : Occurs(e, evs) => e \in drows /\ e.stamp > wt[w].hwm
  BY <1>2 DEF Occurs, Above
<1>8. Distinct(evs)
  <2>1. DOMAIN evs \subseteq Nat
    <3>1. Len(evs) \in Nat /\ DOMAIN evs = 1..Len(evs)
      BY <1>4
    <3> QED
      BY <3>1
  <2> SUFFICES ASSUME NEW i \in DOMAIN evs, NEW j \in DOMAIN evs, i < j PROVE evs[i] # evs[j]
    BY <2>1 DEF Distinct
  <2>2. evs[i].stamp < evs[j].stamp
    BY <1>2
  <2>3. evs[i].stamp \in 1..(dxid - 1)
    BY <1>6, <1>7 DEF Occurs
  <2> QED
    BY <1>5, <2>2, <2>3
<1> DEFINE es == wt[w].events \o evs
           c == [wt[w] EXCEPT !.events = es, !.hwm = h]
<1>9. wt' = [wt EXCEPT ![w] = c]
  BY <1>1, <1>2
<1> HIDE DEF es, h
<1>10. c.events = es /\ c.hwm = h /\ c.got = wt[w].got /\ c.collected = wt[w].collected
  BY <1>5 DEF WatchOf
<1> HIDE DEF c
<1>11. ASSUME ~pinned' PROVE Once(c, RoundRows)
  <2>1. ~pinned /\ pins = {}
    BY <1>3, <1>11
  <2>2. Once(wt[w], RoundRows)
    BY <1>1, <2>1 DEF OnceInv
  <2>3. h \in Nat /\ wt[w].hwm <= h
    BY <1>1, <1>5, XminFacts DEF h
  <2>4. ASSUME NEW r \in drows PROVE r.stamp <= h
    <3>1. DrillXmin = (IF writing # 0 THEN writing ELSE dxid)
      <4>1. InFlightOrNext = {dxid} \cup ({writing} \ {0}) /\ writing < dxid
        BY <1>1, <1>5, <2>1 DEF InFlightOrNext, DrillTypes
      <4>2. DrillXmin \in Nat \ {0} /\ DrillXmin <= dxid /\ (writing # 0 => DrillXmin <= writing)
        BY <1>1, XminFacts
      <4>3. DrillXmin \in InFlightOrNext
        <5>1. InFlightOrNext \in SUBSET Nat /\ InFlightOrNext # {}
          BY <1>5, <4>1
        <5>2. \E x \in InFlightOrNext : \A y \in InFlightOrNext : x <= y
          BY <5>1, LeastNumber
        <5> QED
          BY <5>2 DEF DrillXmin
      <4> QED
        BY <1>5, <4>1, <4>2, <4>3
    <3>2. writing # 0 => r.stamp < writing
      BY DEF OnceInv, WritesInv
    <3>3. r.stamp <= DrillXmin - 1
      BY <1>5, <1>6, <3>1, <3>2
    <3>4. r.stamp \in Nat /\ DrillXmin \in Nat
      BY <1>1, <1>6, XminFacts
    <3> QED
      BY <1>5, <3>3, <3>4 DEF h
  <2>5. \A n \in c.got : \E r \in RoundRows : r.n = n /\ r.stamp <= c.hwm
    BY <1>10, <2>2, <2>4 DEF Once, RoundRows
  <2>6. ASSUME NEW e PROVE ~(Occurs(e, wt[w].events) /\ Occurs(e, evs))
    <3> SUFFICES ASSUME Occurs(e, wt[w].events), Occurs(e, evs) PROVE FALSE
      OBVIOUS
    <3>1. e.stamp <= wt[w].hwm
      BY <2>2, OnceAs
    <3>2. e \in drows /\ e.stamp > wt[w].hwm
      BY <1>7
    <3>3. e.stamp \in Nat
      BY <1>6, <3>2
    <3> QED
      BY <1>5, <3>1, <3>2, <3>3
  <2>7. /\ \A e : Occurs(e, es) => Occurs(e, wt[w].events) \/ Occurs(e, evs)
        /\ Distinct(es)
    <3>1. Distinct(wt[w].events)
      BY <2>2, OnceAs
    <3> QED
      BY <1>4, <1>5, <1>8, <2>6, <3>1, ConcatDistinct DEF es
  <2>8. ASSUME NEW e, Occurs(e, es) PROVE e.stamp <= h /\ (e \in RoundRows => e.n \notin wt[w].got)
    <3>1. CASE Occurs(e, wt[w].events)
      <4>1. e \in drows
        BY <1>5, <3>1 DEF Occurs
      <4> QED
        BY <2>2, <2>4, <3>1, <4>1, OnceAs
    <3>2. CASE Occurs(e, evs)
      <4>1. e \in drows /\ e.stamp > wt[w].hwm /\ e.stamp \in Nat
        BY <1>6, <1>7, <3>2
      <4>2. ASSUME e \in RoundRows, e.n \in wt[w].got PROVE FALSE
        <5>1. PICK r \in RoundRows : r.n = e.n /\ r.stamp <= wt[w].hwm
          BY <2>2, <4>2 DEF Once
        <5>2. r = e
          BY <4>2, <5>1 DEF OnceInv, WritesInv
        <5> QED
          BY <1>5, <4>1, <5>1, <5>2
      <4> QED
        BY <2>4, <4>1, <4>2
    <3> QED
      BY <2>7, <2>8, <3>1, <3>2
  <2>9. c.collected = Cardinality(c.got)
    BY <1>10, <2>2 DEF Once
  <2> QED
    BY <1>10, <2>5, <2>7, <2>8, <2>9, OnceAs
<1>12. pinned => pinned'
  BY <1>3
<1> QED
  BY <1>1, <1>3, <1>9, <1>11, <1>12, OneWatchKeepsOnce

\* A watcher dies, or its collector gives up.
LEMMA GivingUpKeepsOnce ==
    ASSUME DrillInv, OnceInv, NEW w \in watchers, WatcherDies(w) \/ CollectorGivesUp(w),
           config' = config
    PROVE  OnceInv'
<1>1. DrillTypes /\ dpc \in Rounds /\ wt \in [watchers -> WatchOf(dxid, drows)]
  BY DEF DrillInv, DrillTypes, WatchOf, WatcherDies, CollectorGivesUp
<1>2. UNCHANGED <<config, watchers, writeCount, dpc, sent, writing, drows, pinned>>
  BY DEF WatcherDies, CollectorGivesUp
<1>3. PICK c \in {[wt[w] EXCEPT !.alive = FALSE], [wt[w] EXCEPT !.done = TRUE]} : wt' = [wt EXCEPT ![w] = c]
  BY <1>1 DEF WatcherDies, CollectorGivesUp
<1>4. wt[w] \in WatchOf(dxid, drows)
  BY <1>1
<1>5. /\ c.hwm = wt[w].hwm /\ c.got = wt[w].got /\ c.collected = wt[w].collected
      /\ c.events = wt[w].events
  BY <1>3, <1>4 DEF WatchOf
<1>6. ~pinned' => Once(c, RoundRows)
  BY <1>1, <1>2, <1>5 DEF OnceInv, Once
<1> QED
  BY <1>1, <1>2, <1>3, <1>6, OneWatchKeepsOnce

\* The collector counts an event: it is a write that it did not have.
LEMMA CollectKeepsOnce ==
    ASSUME DrillInv, OnceInv, NEW w \in watchers, Collect(w), config' = config
    PROVE  OnceInv'
<1> DEFINE e == Head(wt[w].events)
           b == [wt[w] EXCEPT !.events = Tail(wt[w].events)]
           c == IF e.round = dpc THEN Got(b, e) ELSE b
<1>1. DrillTypes /\ dpc \in Rounds /\ wt \in [watchers -> WatchOf(dxid, drows)]
  BY DEF DrillInv, DrillTypes, WatchOf, Collect
<1>2. UNCHANGED <<config, watchers, writeCount, dpc, sent, writing, drows, pinned>>
  BY DEF Collect
<1>3. wt' = [wt EXCEPT ![w] = c] /\ wt[w].events # <<>>
  BY DEF Collect
<1>4. /\ wt[w] \in WatchOf(dxid, drows) /\ wt[w].events \in Seq(drows)
      /\ wt[w].collected \in Nat /\ sent \in Nat
  BY <1>1 DEF WatchOf, DrillTypes
<1>5. /\ b.hwm = wt[w].hwm /\ b.events = Tail(wt[w].events) /\ b.got = wt[w].got
      /\ b.collected = wt[w].collected
      /\ DOMAIN b = DOMAIN wt[w] /\ {"events", "got", "collected", "hwm", "done"} \subseteq DOMAIN b
  BY <1>4 DEF WatchOf
<1> HIDE DEF b, e
<1>6. ASSUME e.round = dpc
      PROVE  /\ c.hwm = wt[w].hwm /\ c.events = Tail(wt[w].events) /\ c.got = wt[w].got \cup {e.n}
             /\ c.collected = wt[w].collected + 1
  BY <1>5, <1>6 DEF Got
<1>7. ASSUME e.round # dpc
      PROVE  /\ c.hwm = wt[w].hwm /\ c.events = Tail(wt[w].events) /\ c.got = wt[w].got
             /\ c.collected = wt[w].collected
  BY <1>5, <1>7
<1> HIDE DEF c
<1>8. ASSUME ~pinned' PROVE Once(c, RoundRows)
  <2>1. Once(wt[w], RoundRows)
    BY <1>1, <1>2, <1>8 DEF OnceInv
  <2>2. Distinct(wt[w].events)
    BY <2>1, OnceAs
  <2>3. /\ e \in drows /\ Occurs(e, wt[w].events)
        /\ \A x : Occurs(x, Tail(wt[w].events)) => Occurs(x, wt[w].events) /\ x # e
        /\ Distinct(Tail(wt[w].events))
    BY <1>3, <1>4, <2>2, TailDistinct DEF e
  <2>4. \A x : Occurs(x, wt[w].events) => x.stamp <= wt[w].hwm /\ (x \in RoundRows => x.n \notin wt[w].got)
    BY <2>1, OnceAs
  <2>5. CASE e.round # dpc
    <3>1. \A n \in c.got : \E r \in RoundRows : r.n = n /\ r.stamp <= c.hwm
      BY <1>7, <2>1, <2>5 DEF Once
    <3>2. c.collected = Cardinality(c.got)
      BY <1>7, <2>1, <2>5 DEF Once
    <3> QED
      BY <1>7, <2>3, <2>4, <2>5, <3>1, <3>2, OnceAs
  <2>6. CASE e.round = dpc
    <3>1. e \in RoundRows /\ e.n \notin wt[w].got /\ e.stamp <= wt[w].hwm
      BY <2>3, <2>4, <2>6 DEF RoundRows
    <3>2. \A n \in wt[w].got : \E r \in RoundRows : r.n = n /\ r.stamp <= wt[w].hwm
      BY <2>1 DEF Once
    <3>3. \A n \in c.got : \E r \in RoundRows : r.n = n /\ r.stamp <= c.hwm
      BY <1>6, <2>6, <3>1, <3>2
    <3>4. c.collected = Cardinality(c.got)
      <4>1. wt[w].got \subseteq 1..sent
        BY <3>2 DEF OnceInv, WritesInv
      <4>2. IsFiniteSet(1..sent)
        BY <1>4, FS_Interval
      <4>3. IsFiniteSet(wt[w].got)
        BY <4>1, <4>2, FS_Subset
      <4>4. Cardinality(wt[w].got \cup {e.n}) = Cardinality(wt[w].got) + 1
        BY <3>1, <4>3, FS_AddElement
      <4> QED
        BY <1>6, <2>1, <2>6, <4>4 DEF Once
    <3>5. ASSUME NEW x, Occurs(x, c.events) PROVE x.stamp <= c.hwm /\ (x \in RoundRows => x.n \notin c.got)
      <4>1. Occurs(x, wt[w].events) /\ x # e
        BY <1>6, <2>3, <2>6, <3>5
      <4>2. x \in RoundRows => x.n # e.n
        BY <3>1, <4>1 DEF OnceInv, WritesInv
      <4> QED
        BY <1>6, <2>4, <2>6, <4>1, <4>2
    <3> QED
      BY <1>6, <2>3, <2>6, <3>3, <3>4, <3>5, OnceAs
  <2> QED
    BY <2>5, <2>6
<1> QED
  BY <1>1, <1>2, <1>3, <1>8, OneWatchKeepsOnce

\* Nothing moves but transactions of other sessions, or the mark of the list.
LEMMA OthersKeepOnce ==
    ASSUME OnceInv, UNCHANGED <<config, watchers, writeCount, sent, writing, drows, wt, pinned>>,
           dpc' = dpc \/ (dpc' \notin Rounds /\ drows = {})
    PROVE  OnceInv'
<1>1. CASE dpc' = dpc
  BY <1>1 DEF OnceInv, WritesInv, RoundRows
<1>2. CASE dpc' \notin Rounds /\ drows = {}
  BY <1>2 DEF OnceInv, WritesInv, RoundRows
<1> QED
  BY <1>1, <1>2

\* A write begins: its number and its stamp are new.
LEMMA WriteBeginKeepsOnce ==
    ASSUME DrillInv, OnceInv, DrillWriteBegin, config' = config
    PROVE  OnceInv'
<1>1. /\ dpc \in Rounds /\ writing = 0 /\ sent < writeCount /\ sent' = sent + 1 /\ writing' = dxid
      /\ UNCHANGED <<config, watchers, writeCount, dpc, pinned, drows, wt>>
  BY DEF DrillWriteBegin
<1>2. /\ DrillTypes /\ sent \in Nat /\ writeCount \in Nat /\ dxid \in Nat \ {0}
      /\ RoundRows' = RoundRows
  BY <1>1 DEF DrillInv, DrillTypes, OnceInv, WritesInv, RoundRows
<1>3. sent' <= writeCount /\ sent' > 0
  BY <1>1, <1>2
<1>4. ASSUME NEW r \in drows PROVE r.stamp < writing'
  <2>1. r \in [round : Rounds, n : Nat, stamp : 1..(dxid - 1)]
    BY <1>2 DEF DrillTypes
  <2>2. r.stamp \in 1..(dxid - 1)
    BY <2>1
  <2> QED
    BY <1>1, <1>2, <2>2
<1>5. ASSUME NEW r \in RoundRows PROVE r.n \in 1..sent' /\ r.n # sent'
  <2>1. r.n \in 1..sent
    BY DEF OnceInv, WritesInv
  <2> QED
    BY <1>1, <1>2, <2>1
<1>6. WritesInv'
  BY <1>1, <1>2, <1>3, <1>4, <1>5 DEF OnceInv, WritesInv
<1> QED
  BY <1>1, <1>2, <1>6 DEF OnceInv

\* More rows take nothing from what a watcher has, when they are above its mark.
LEMMA OnceWider ==
    ASSUME NEW c, NEW A, NEW B, A \subseteq B, Once(c, A),
           \A i \in DOMAIN c.events : c.events[i] \in B => c.events[i] \in A
    PROVE  Once(c, B)
  BY DEF Once

\* A write ends; it is the last one of the round so far.
LEMMA WriteEndKeepsOnce ==
    ASSUME DrillInv, OnceInv, DrillWriteEnd, config' = config
    PROVE  OnceInv'
<1> DEFINE row == [round |-> dpc, n |-> sent, stamp |-> writing]
<1>1. /\ writing # 0 /\ writing' = 0
      /\ drows' = drows \cup {row} \/ drows' = drows
      /\ UNCHANGED <<config, watchers, writeCount, dpc, sent, pinned, wt>>
  BY DEF DrillWriteEnd
<1>2. DrillTypes /\ dpc \in Rounds
  BY <1>1 DEF DrillInv
<1>3. /\ sent \in Nat /\ writing \in Nat /\ dxid \in Nat /\ sent <= writeCount
      /\ wt \in [watchers -> WatchOf(dxid, drows)]
  BY <1>2 DEF DrillTypes, WatchOf, OnceInv, WritesInv
<1>4. row.round = dpc /\ row.n = sent /\ row.stamp = writing
  OBVIOUS
<1> HIDE DEF row
<1>5. RoundRows' = RoundRows \/ RoundRows' = RoundRows \cup {row}
  BY <1>1, <1>4 DEF RoundRows
<1>6. \A r \in RoundRows : r.n \in 1..sent /\ r.n # sent
  BY <1>1 DEF OnceInv, WritesInv
<1>7. CASE drows' = drows
  <2>1. RoundRows' = RoundRows
    BY <1>1, <1>7 DEF RoundRows
  <2>2. WritesInv'
    BY <1>1, <1>7, <2>1 DEF OnceInv, WritesInv
  <2> QED
    BY <1>1, <2>1, <2>2 DEF OnceInv
<1>8. CASE drows' = drows \cup {row}
  <2>1. RoundRows' = RoundRows \cup {row}
    BY <1>1, <1>4, <1>8 DEF RoundRows
  <2>2. sent \in 1..sent
    <3>1. sent > 0
      BY <1>1 DEF OnceInv, WritesInv
    <3> QED
      BY <1>3, <3>1
  <2>3. \A r \in RoundRows' : r.n \in 1..sent
    BY <1>4, <1>6, <2>1, <2>2
  <2>4. \A r, q \in RoundRows' : r.n = q.n => r = q
    <3>1. \A r, q \in RoundRows : r.n = q.n => r = q
      BY DEF OnceInv, WritesInv
    <3> QED
      BY <1>4, <1>6, <2>1, <3>1
  <2>5. WritesInv'
    BY <1>1, <2>3, <2>4 DEF OnceInv, WritesInv
  <2>6. ASSUME ~pinned, NEW w \in watchers PROVE Once(wt[w], RoundRows')
    <3>1. Once(wt[w], RoundRows)
      BY <1>2, <2>6 DEF OnceInv
    <3>2. ASSUME NEW i \in DOMAIN wt[w].events PROVE wt[w].events[i] # row
      <4>1. wt[w].events[i] \in drows
        <5>1. wt[w].events \in Seq(drows)
          BY <1>3 DEF WatchOf
        <5> QED
          BY <5>1
      <4>2. wt[w].events[i].stamp < writing
        BY <1>1, <4>1 DEF OnceInv, WritesInv
      <4> QED
        BY <1>3, <1>4, <4>2
    <3> QED
      BY <2>1, <3>1, <3>2, OnceWider
  <2> QED
    BY <1>1, <2>5, <2>6 DEF OnceInv
<1> QED
  BY <1>1, <1>7, <1>8

\* A round begins with nothing written and nothing collected.
LEMMA RoundKeepsOnce ==
    ASSUME OnceInv, NEW r \in Rounds, NEW h, Round(r, h), writing = 0,
           \A x \in drows : x.round # r, config' = config
    PROVE  OnceInv'
<1>1. /\ dpc' = r /\ sent' = 0 /\ wt' = [w \in watchers |-> NewWatch(h)]
      /\ UNCHANGED <<config, watchers, writeCount, writing, drows>>
  BY DEF Round
<1>2. RoundRows' = {}
  BY <1>1 DEF RoundRows
<1>3. writeCount \in Nat /\ IsFiniteSet(watchers)
  BY DEF OnceInv, WritesInv
<1>4. sent' <= writeCount'
  BY <1>1, <1>3
<1>5. WritesInv'
  BY <1>1, <1>2, <1>3, <1>4 DEF WritesInv
<1>6. Once(NewWatch(h), {})
  <2>1. Cardinality({}) = 0
    BY FS_EmptySet
  <2>2. NewWatch(h).got = {} /\ NewWatch(h).collected = 0 /\ NewWatch(h).events = <<>>
    BY DEF NewWatch
  <2>3. DOMAIN NewWatch(h).events = {}
    BY <2>2
  <2> QED
    BY <2>1, <2>2, <2>3 DEF Once
<1>7. \A w \in watchers' : Once(wt'[w], RoundRows')
  BY <1>1, <1>2, <1>6
<1> QED
  BY <1>1, <1>5, <1>7 DEF OnceInv

\* Every step of the drill keeps the invariant.
LEMMA DrillStepKeepsOnce ==
    ASSUME DrillInv, OnceInv, DrillStep, config' = config
    PROVE  OnceInv'
<1>1. CASE Pin
  BY <1>1, OthersKeepOnce DEF Pin
<1>2. ASSUME NEW x \in pins, Unpin(x) PROVE OnceInv'
  BY <1>2, OthersKeepOnce DEF Unpin
<1>3. CASE DrillList
  <2>1. /\ UNCHANGED <<config, watchers, writeCount, sent, writing, drows, wt, pinned>>
        /\ dpc = "list" /\ dpc' = "idle"
    BY <1>3 DEF DrillList
  <2>2. dpc \notin Rounds /\ dpc' \notin Rounds
    BY <2>1 DEF Rounds
  <2>3. drows = {}
    BY <2>2 DEF DrillInv
  <2> QED
    BY <2>1, <2>2, <2>3, OthersKeepOnce
<1>4. CASE DrillDoorbell
  <2>1. dpc = "idle" /\ Round("doorbell", startRV) /\ "doorbell" \in Rounds /\ dpc \notin Rounds
    BY <1>4 DEF DrillDoorbell, Rounds
  <2>2. drows = {} /\ writing = 0
    BY <2>1 DEF DrillInv
  <2> QED
    BY <2>1, <2>2, RoundKeepsOnce
<1>5. CASE DrillWriteBegin
  BY <1>5, WriteBeginKeepsOnce
<1>6. CASE DrillWriteEnd
  BY <1>6, WriteEndKeepsOnce
<1>7. ASSUME NEW w \in watchers, DrillPoll(w) \/ WatcherDies(w) \/ Collect(w) \/ CollectorGivesUp(w)
      PROVE  OnceInv'
  BY <1>7, PollKeepsOnce, GivingUpKeepsOnce, CollectKeepsOnce
<1>8. CASE DrillLoss
  <2>1. /\ dpc = "doorbell" /\ writing = 0 /\ Round("loss", MaxHwm) /\ "loss" \in Rounds
    BY <1>8 DEF DrillLoss, RoundOver, Rounds
  <2>2. \A x \in drows : x.round # "loss"
    BY <2>1 DEF DrillInv
  <2> QED
    BY <2>1, <2>2, RoundKeepsOnce
<1> QED
  BY <1>1, <1>2, <1>3, <1>4, <1>5, <1>6, <1>7, <1>8 DEF DrillStep

\* Outside the rounds there is nothing to count.
LEMMA OnceInit == Init => OnceInv
<1> SUFFICES ASSUME Init PROVE OnceInv
  OBVIOUS
<1>1. /\ config \in Configs /\ dpc = "off" /\ dpc \notin Rounds /\ writeCount = 0 /\ writing = 0
      /\ watchers = {} /\ drows = {}
  BY DEF Init, DrillInit, Rounds
<1>2. IsFiniteSet(watchers)
  BY <1>1, FS_EmptySet
<1> QED
  BY <1>1, <1>2 DEF OnceInv, WritesInv, RoundRows

LEMMA DrillReturnKeepsOnce == OnceInv /\ DrillReturn /\ config' = config => OnceInv'
<1> SUFFICES ASSUME OnceInv, DrillReturn, config' = config PROVE OnceInv'
  OBVIOUS
<1>1. /\ dpc' = "off" /\ dpc' \notin Rounds /\ writeCount' = 0 /\ writing' = 0
      /\ watchers' = {} /\ drows' = {}
  BY DEF DrillReturn, Rounds
<1>2. IsFiniteSet(watchers')
  BY <1>1, FS_EmptySet
<1> QED
  BY <1>1, <1>2 DEF OnceInv, WritesInv, RoundRows

LEMMA OnceNext == OnceInv /\ DrillInv /\ TallyInv /\ [Next]_vars => OnceInv'
<1> SUFFICES ASSUME OnceInv, DrillInv, TallyInv, [Next]_vars PROVE OnceInv'
  OBVIOUS
<1>1. ASSUME UNCHANGED <<config, drillVars>> PROVE OnceInv'
  BY <1>1 DEF drillVars, OnceInv, WritesInv, RoundRows
<1>2. CASE StartDrill
  <2>1. /\ pc = "start" /\ dpc' = "list" /\ watchers' = config.watchers /\ writeCount' = config.writes
        /\ UNCHANGED <<config, writing, drows>>
    BY <1>2 DEF StartDrill, DrillStart
  <2>2. dpc = "off"
    BY <2>1, TallyParts
  <2>3. dpc \notin Rounds /\ dpc' \notin Rounds
    BY <2>1, <2>2 DEF Rounds
  <2>4. drows = {} /\ writing = 0
    BY <2>3 DEF DrillInv
  <2>5. IsFiniteSet(config.watchers) /\ config.writes \in Nat
    BY LoadTestAssumption DEF OnceInv
  <2> QED
    BY <2>1, <2>3, <2>4, <2>5 DEF OnceInv, WritesInv, RoundRows
<1>3. CASE PhaseErrs \/ DrillReturns
  BY <1>3, DrillReturnKeepsOnce DEF PhaseErrs, DrillReturns
<1>4. CASE Watching(DrillStep)
  BY <1>4, DrillStepKeepsOnce DEF Watching, mainVars
<1>5. CASE \/ Seed \/ SeedFails \/ SkipPhase \/ BeginPhase \/ StartWriters \/ BaselineBatch
           \/ WritersDone \/ Report \/ Exit \/ Writers
  <2>1. UNCHANGED <<config, drillVars>>
    BY <1>5 DEF Seed, SeedFails, SkipPhase, BeginPhase, StartWriters, BaselineBatch, WritersDone,
                Report, Exit, Writers, mainVars
  <2> QED
    BY <1>1, <2>1
<1>6. CASE TickerStep \/ Snapshot("main") \/ Open("main") \/ Data("main")
  <2>1. UNCHANGED <<config, drillVars>>
    BY <1>6 DEF TickerStep, Snapshot, Open, Data, mainVars
  <2> QED
    BY <1>1, <2>1
<1>7. CASE UNCHANGED vars
  BY <1>1, <1>7 DEF vars, mainVars
<1> QED
  BY <1>2, <1>3, <1>4, <1>5, <1>6, <1>7 DEF Next, MainStep

\* As long as no watcher polls beside a transaction of another session, what the
\* collectors of phase 5 count are different writes, for any number of watchers and
\* writes, of sessions and of channel slots.
THEOREM OnceInvariant == Spec => []OnceInv
  BY OnceInit, OnceNext, DrillInvariant, TallyInvariant, PTL DEF Spec

\* When the collectors together have counted writeCount events each and no event
\* was counted twice, each has them all.
LEMMA PassedMeansAll ==
    ASSUME DrillInv, OnceInv, dpc = "loss", RoundOver, TRUE \in DrillVerdicts, ~pinned,
           NEW w \in watchers
    PROVE  wt[w].got = 1..writeCount
<1>1. dpc \in Rounds /\ writeCount \in Nat /\ IsFiniteSet(watchers) /\ sent = writeCount
  BY DEF OnceInv, WritesInv, Rounds, RoundOver
<1>2. Cardinality(Delivered) >= writeCount * Cardinality(watchers)
  BY DEF DrillVerdicts
<1>3. IsFiniteSet(1..writeCount) /\ Cardinality(1..writeCount) = writeCount
  BY <1>1, FS_Interval
<1>4. ASSUME NEW v \in watchers
      PROVE  /\ wt[v].got \subseteq 1..writeCount
             /\ wt[v].collected = Cardinality(wt[v].got)
             /\ wt[v].collected \in 0..writeCount
  <2>1. Once(wt[v], RoundRows)
    BY <1>1 DEF OnceInv
  <2>2. wt[v].got \subseteq 1..writeCount
    <3>1. \A r \in RoundRows : r.n \in 1..writeCount
      BY <1>1 DEF OnceInv, WritesInv
    <3> QED
      BY <2>1, <3>1 DEF Once
  <2>3. wt[v].collected = Cardinality(wt[v].got)
    BY <2>1 DEF Once
  <2>4. Cardinality(wt[v].got) <= writeCount /\ Cardinality(wt[v].got) \in Nat
    BY <1>3, <2>2, FS_Subset, FS_CardinalityType
  <2> QED
    BY <1>1, <2>2, <2>3, <2>4
<1> DEFINE P == watchers \X (1..writeCount)
<1>5. Delivered \subseteq P
  <2> SUFFICES ASSUME NEW v \in watchers, NEW d \in {v} \X (1..wt[v].collected) PROVE d \in P
    BY DEF Delivered
  <2>1. d[1] = v /\ d[2] \in 1..wt[v].collected /\ d = <<d[1], d[2]>>
    OBVIOUS
  <2>2. d[2] \in 1..writeCount
    BY <1>1, <1>4, <2>1
  <2> QED
    BY <2>1, <2>2
<1>6. IsFiniteSet(P) /\ Cardinality(P) = Cardinality(watchers) * writeCount
  BY <1>1, <1>3, FS_Product
<1>7. Delivered = P
  <2> HIDE DEF P
  <2>1. Cardinality(watchers) \in Nat /\ Cardinality(Delivered) \in Nat
    BY <1>1, <1>5, <1>6, FS_CardinalityType, FS_Subset
  <2>2. writeCount * Cardinality(watchers) = Cardinality(watchers) * writeCount
    BY <1>1, <2>1
  <2>3. Cardinality(P) \in Nat /\ Cardinality(Delivered) >= Cardinality(P)
    BY <1>2, <1>6, <2>2, FS_CardinalityType
  <2>4. Cardinality(Delivered) <= Cardinality(P)
    BY <1>5, <1>6, FS_Subset
  <2>5. Cardinality(Delivered) = Cardinality(P)
    BY <2>1, <2>3, <2>4
  <2> QED
    BY <1>5, <1>6, <2>5, FS_Subset
<1>8. wt[w].collected = writeCount
  <2>1. CASE writeCount = 0
    BY <1>1, <1>4, <2>1
  <2>2. CASE writeCount # 0
    <3>1. <<w, writeCount>> \in P
      BY <1>1, <2>2
    <3>2. PICK v \in watchers : <<w, writeCount>> \in {v} \X (1..wt[v].collected)
      BY <1>7, <3>1 DEF Delivered
    <3>3. writeCount \in 1..wt[w].collected
      BY <3>2
    <3> QED
      BY <1>1, <1>4, <3>3
  <2> QED
    BY <2>1, <2>2
<1> QED
  BY <1>3, <1>4, <1>8, FS_Subset

\* The verdict of phase 5 is sound: nothing is lost to a running watcher, and when
\* round C passes and no transaction of another session made polls deliver rows
\* again, every watcher has delivered every write, for any number of watchers and
\* writes.
THEOREM DrillsSound == Spec => []DrillSound
<1>1. DrillInv /\ OnceInv => DrillSound
  BY PassedMeansAll DEF DrillSound, DrillInv
<1> QED
  BY <1>1, DrillInvariant, OnceInvariant, PTL

=============================================================================
