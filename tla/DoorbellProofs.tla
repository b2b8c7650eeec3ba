--------------------------- MODULE DoorbellProofs ---------------------------
(***************************************************************************)
(* Proofs about Doorbell for every window, floor, baseline interval and    *)
(* poll time.                                                              *)
(***************************************************************************)
EXTENDS Doorbell, TLAPS

\* The larger of two natural numbers.
LEMMA LargerFacts ==
    ASSUME NEW a \in Nat, NEW b \in Nat
    PROVE  Larger(a, b) \in Nat /\ Larger(a, b) >= a /\ Larger(a, b) >= b
  BY DEF Larger

\* A watcher that has not polled yet satisfies the inductive invariant.
LEMMA InitInv == Init => DoorbellInv
<1>1. Larger(Floor, Baseline) \in Nat /\ Larger(Floor, Baseline) >= Baseline
  BY DoorbellAssumption, LargerFacts
<1> SUFFICES ASSUME Init PROVE DoorbellInv
  OBVIOUS
<1>2. /\ dirty \in BOOLEAN /\ closing \in BOOLEAN /\ inbox \in BOOLEAN
      /\ bell \in BOOLEAN /\ stop \in BOOLEAN /\ pending \in BOOLEAN
  BY Zenon DEF Init
<1>3. /\ dpc \in {"loop"} /\ tick \in 0..Window /\ since \in 0..Floor
      /\ timer \in Nat /\ busy \in 0..PollTime /\ timer <= Larger(Floor, Baseline)
  BY DoorbellAssumption, <1>1 DEF Init
<1>4. TypeOK
  BY <1>2, <1>3 DEF Init, TypeOK
<1>5. CountersInv
  BY <1>3 DEF Init, CountersInv
<1>6. ToldInv /\ UnreadInv
  BY DEF Init, ToldInv, UnreadInv
<1> QED
  BY <1>4, <1>5, <1>6 DEF DoorbellInv

\* The invariant is inductive.
LEMMA NextKeepsInv == DoorbellInv /\ [Next]_vars => DoorbellInv'
<1> DEFINE M == Larger(Floor, Baseline)
           L == Larger(Window, PollTime + Floor)
           Flags == /\ dirty \in BOOLEAN /\ closing \in BOOLEAN /\ inbox \in BOOLEAN
                    /\ bell \in BOOLEAN /\ stop \in BOOLEAN /\ pending \in BOOLEAN
           Counters == /\ dpc \in {"loop", "send", "last", "done"}
                       /\ tick \in 0..Window
                       /\ lpc \in {"off", "listen", "up", "down", "ended"}
                       /\ rpc \in {"poll", "deliver", "wait", "stopping", "ended"}
                       /\ since \in 0..Floor
                       /\ timer \in Nat
                       /\ busy \in 0..PollTime
                       /\ unread \in Nat \cup {None}
                       /\ told \in Nat \cup {None}
<1> SUFFICES ASSUME DoorbellInv, [Next]_vars
             PROVE  DoorbellInv'
  OBVIOUS
<1>1. /\ M \in Nat /\ M >= Floor /\ M >= Baseline
      /\ L \in Nat /\ L >= Window /\ L >= PollTime + Floor
  <2>1. PollTime + Floor \in Nat
    BY DoorbellAssumption
  <2>2. Floor \in Nat /\ Baseline \in Nat /\ Window \in Nat
    BY DoorbellAssumption
  <2> QED BY <2>1, <2>2, LargerFacts
<1> HIDE DEF M, L, Flags, Counters
<1> USE DoorbellAssumption, <1>1
    DEF DoorbellInv, TypeOK, CountersInv, None, Started, debVars, runVars
<1>2. CASE WriteCommitted
  BY <1>2 DEF WriteCommitted, ToldInv, UnreadInv, RingStage, Running, M, L
<1>3. CASE Ring
  BY <1>3 DEF Ring, ToldInv, UnreadInv, RingStage, Running, M, L
<1>4. CASE Close
  BY <1>4 DEF Close, ToldInv, UnreadInv, RingStage, Running, M, L
<1>5. CASE Flush
  <2>1. Flags'
    BY <1>5, Zenon DEF Flush, Flags
  <2>2. Counters' /\ CountersInv'
    BY <1>5 DEF Flush, Counters, Running, M
  <2>3. TypeOK' /\ CountersInv'
    BY <2>1, <2>2 DEF Flags, Counters
  <2>4. ToldInv'
    BY <1>5 DEF Flush, ToldInv, RingStage, Running, L
  <2>5. UnreadInv'
    BY <1>5 DEF Flush, UnreadInv, Running, M
  <2> QED BY <2>3, <2>4, <2>5
<1>6. CASE LastFlush
  <2>1. Flags'
    BY <1>6, Zenon DEF LastFlush, Flags
  <2>2. Counters' /\ CountersInv'
    BY <1>6 DEF LastFlush, Counters, Running, M
  <2>3. TypeOK' /\ CountersInv'
    BY <2>1, <2>2 DEF Flags, Counters
  <2>4. ToldInv'
    BY <1>6 DEF LastFlush, ToldInv, RingStage, Running, L
  <2>5. UnreadInv'
    BY <1>6 DEF LastFlush, UnreadInv, Running, M
  <2> QED BY <2>3, <2>4, <2>5
<1>7. CASE Notify
  <2>1. Flags'
    BY <1>7, Zenon DEF Notify, Sent, Lose, Flags
  <2>2. Counters' /\ CountersInv'
    BY <1>7 DEF Notify, Sent, Lose, Counters, Running, M
  <2>3. TypeOK' /\ CountersInv'
    BY <2>1, <2>2 DEF Flags, Counters
  <2>4. ToldInv'
    BY <1>7 DEF Notify, Sent, Lose, ToldInv, RingStage, Running, L
  <2>5. UnreadInv'
    BY <1>7 DEF Notify, Sent, Lose, UnreadInv, Running, M
  <2> QED BY <2>3, <2>4, <2>5
<1>8. CASE NotifyFails
  BY <1>8 DEF NotifyFails, Sent, Lose, ToldInv, UnreadInv, RingStage, Running, M, L
<1>9. CASE Listen
  BY <1>9 DEF Listen, ToldInv, UnreadInv, RingStage, Running, M, L
<1>10. CASE Reconnect
  BY <1>10 DEF Reconnect, ToldInv, UnreadInv, RingStage, Running, M, L
<1>11. CASE Receive
  <2>1. Flags'
    BY <1>11, Zenon DEF Receive, Flags
  <2>2. Counters' /\ CountersInv'
    BY <1>11 DEF Receive, Counters, Running, M
  <2>3. TypeOK' /\ CountersInv'
    BY <2>1, <2>2 DEF Flags, Counters
  <2>4. ToldInv'
    BY <1>11 DEF Receive, ToldInv, RingStage, Running, L
  <2>5. UnreadInv'
    BY <1>11 DEF Receive, UnreadInv, Running, M
  <2> QED BY <2>3, <2>4, <2>5
<1>12. CASE ListenBreaks
  <2>1. Flags'
    BY <1>12, Zenon DEF ListenBreaks, Broken, Lose, Flags
  <2>2. Counters' /\ CountersInv'
    BY <1>12 DEF ListenBreaks, Broken, Lose, Counters, Running, M
  <2>3. TypeOK' /\ CountersInv'
    BY <2>1, <2>2 DEF Flags, Counters
  <2>4. ToldInv'
    BY <1>12 DEF ListenBreaks, Broken, Lose, ToldInv, RingStage, Running, L
  <2>5. UnreadInv'
    BY <1>12 DEF ListenBreaks, Broken, Lose, UnreadInv, Running, M
  <2> QED BY <2>3, <2>4, <2>5
<1>13. CASE ListenEnds
  BY <1>13 DEF ListenEnds, ToldInv, UnreadInv, RingStage, Running, M, L
<1>14. CASE PollSnapshot
  BY <1>14 DEF PollSnapshot, ToldInv, UnreadInv, RingStage, Running, M, L
<1>15. CASE PollDone
  <2>1. Flags'
    BY <1>15, Zenon DEF PollDone, Flags
  <2>2. Counters' /\ CountersInv'
    BY <1>15 DEF PollDone, Counters, Running, M
  <2>3. TypeOK' /\ CountersInv'
    BY <2>1, <2>2 DEF Flags, Counters
  <2>4. ToldInv'
    BY <1>15 DEF PollDone, ToldInv, RingStage, Running, L
  <2>5. UnreadInv'
    BY <1>15 DEF PollDone, UnreadInv, Running, M
  <2> QED BY <2>3, <2>4, <2>5
<1>16. CASE PollFails
  BY <1>16 DEF PollFails, Polling, ToldInv, UnreadInv, RingStage, Running, M, L
<1>17. CASE Leading
  <2>1. Flags'
    BY <1>17, Zenon DEF Leading, Flags
  <2>2. Counters' /\ CountersInv'
    BY <1>17 DEF Leading, Counters, Running, M
  <2>3. TypeOK' /\ CountersInv'
    BY <2>1, <2>2 DEF Flags, Counters
  <2>4. ToldInv'
    BY <1>17 DEF Leading, ToldInv, RingStage, Running, L
  <2>5. UnreadInv'
    BY <1>17 DEF Leading, UnreadInv, Running, M
  <2> QED BY <2>3, <2>4, <2>5
<1>18. CASE Trailing
  <2>1. Flags'
    BY <1>18, Zenon DEF Trailing, Flags
  <2>2. Counters' /\ CountersInv'
    BY <1>18 DEF Trailing, Counters, Running, M
  <2>3. TypeOK' /\ CountersInv'
    BY <2>1, <2>2 DEF Flags, Counters
  <2>4. ToldInv'
    BY <1>18 DEF Trailing, ToldInv, RingStage, Running, L
  <2>5. UnreadInv'
    BY <1>18 DEF Trailing, UnreadInv, Running, M
  <2> QED BY <2>3, <2>4, <2>5
<1>19. CASE TimerFires
  BY <1>19 DEF TimerFires, ToldInv, UnreadInv, RingStage, Running, M, L
<1>20. CASE Stop \/ Shutdown \/ Joined
  <2>1. Flags'
    BY <1>20, Zenon DEF Stop, Shutdown, Joined, Flags
  <2>2. Counters' /\ CountersInv'
    BY <1>20 DEF Stop, Shutdown, Joined, Counters, Running, M
  <2>3. TypeOK' /\ CountersInv'
    BY <2>1, <2>2 DEF Flags, Counters
  <2>4. ToldInv'
    BY <1>20 DEF Stop, Shutdown, Joined, ToldInv, RingStage, Running, L
  <2>5. UnreadInv'
    BY <1>20 DEF Stop, Shutdown, Joined, UnreadInv, Running, M
  <2> QED BY <2>3, <2>4, <2>5
<1>21. CASE Tick
  BY <1>21 DEF Tick, Urgent, Older, Polling, ToldInv, UnreadInv, RingStage, Running, M, L
<1>22. CASE UNCHANGED vars
  BY <1>22 DEF vars, ToldInv, UnreadInv, RingStage, Running, M, L
<1> QED
  BY <1>2, <1>3, <1>4, <1>5, <1>6, <1>7, <1>8, <1>9, <1>10, <1>11, <1>12, <1>13,
     <1>14, <1>15, <1>16, <1>17, <1>18, <1>19, <1>20, <1>21, <1>22
  DEF Next, Debouncer, ListenLoop, Run

\* The inductive invariant holds for every window, floor, baseline interval and
\* poll time: where the oldest ring and the oldest unread commit can be, and how
\* old they can be there.
THEOREM DoorbellInvariant == Spec => []DoorbellInv
  BY InitInv, NextKeepsInv, PTL DEF Spec

\* Every channel, flag and countdown of the scheduler stays within its range.
THEOREM DoorbellTypeCorrect == Spec => []TypeOK
<1>1. DoorbellInv => TypeOK
  BY DEF DoorbellInv
<1> QED BY <1>1, DoorbellInvariant, PTL

\* R2, R13, R16: no debouncing, coalescing in doorbellCh or poll under way
\* swallows a ring.
THEOREM DoorbellNeverSwallowed == Spec => []DoorbellOnItsWay
<1>1. DoorbellInv => DoorbellOnItsWay
  BY DEF DoorbellInv, TypeOK, ToldInv, RingStage, DoorbellOnItsWay, Running
<1> QED BY <1>1, DoorbellInvariant, PTL

\* The bound of the fast path: the window or a poll and the floor, and a poll.
THEOREM RingsPolledPromptly == Spec => []PolledPromptly
<1>1. PollTime + Floor \in Nat /\ Window \in Nat /\ PollTime \in Nat /\ Floor \in Nat
  BY DoorbellAssumption
<1>2. LET L == Larger(Window, PollTime + Floor)
      IN  L \in Nat /\ L >= Window /\ L >= PollTime + Floor
  BY <1>1, LargerFacts
<1>3. DoorbellInv => PolledPromptly
  BY <1>1, <1>2
  DEF DoorbellInv, TypeOK, CountersInv, ToldInv, RingStage, PolledPromptly, Running, None
<1> QED BY <1>3, DoorbellInvariant, PTL

\* The bound of the slow path: whatever happens to doorbells, the baseline
\* interval (or the floor) and two polls.
THEOREM CommitsPolledEventually == Spec => []PolledEventually
<1>1. Baseline \in Nat /\ PollTime \in Nat /\ Floor \in Nat
  BY DoorbellAssumption
<1>2. Larger(Floor, Baseline) \in Nat
  BY <1>1, LargerFacts
<1>3. DoorbellInv => PolledEventually
  BY <1>1, <1>2
  DEF DoorbellInv, TypeOK, CountersInv, UnreadInv, PolledEventually, Running, None
<1> QED BY <1>3, DoorbellInvariant, PTL
=============================================================================
