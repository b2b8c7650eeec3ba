------------------------------ MODULE Doorbell ------------------------------
(***************************************************************************)
(* When a watcher polls: the Debouncer that turns the rings of writers     *)
(* into notifications, the goroutine listenLoop that turns notifications   *)
(* into doorbells, and the scheduler loop of Watcher.Run that polls on a   *)
(* doorbell, no more often than the debounce floor, or on its timer.       *)
(*                                                                         *)
(* Time is counted in ticks and passes only when no goroutine has anything *)
(* to do; a poll takes up to PollTime of them.  One GVK and one watcher.   *)
(* The backoff of listenLoop is left out: it may reconnect at any time.    *)
(* What a poll returns is the business of Watch.                           *)
(***************************************************************************)
EXTENDS Integers

CONSTANTS
    Window,     \* Debouncer.window
    Floor,      \* WatcherConfig.DebounceFloor
    Baseline,   \* WatcherConfig.BaselineInterval
    PollTime,   \* bound: the ticks a poll takes, delivery included
    Factory     \* whether there is a ListenConnFactory

ASSUME DoorbellAssumption ==
    /\ Window \in Nat \ {0}
    /\ Floor \in Nat \ {0}
    /\ Baseline \in Nat \ {0}
    /\ PollTime \in Nat
    /\ Factory \in BOOLEAN

VARIABLES
    dirty,      \* Debouncer.dirty holds the GVK
    closing,    \* Debouncer.Close was called
    dpc,        \* where the Debouncer's loop is
    tick,       \* ticks until its ticker fires
    lpc,        \* where listenLoop is
    inbox,      \* a notification waits on the LISTEN connection
    bell,       \* doorbellCh, a channel of capacity 1, is full
    rpc,        \* where Run is
    stop,       \* the watcher is told to stop
    pending,    \* doorbellPending
    since,      \* ticks since lastPoll, counted up to Floor
    timer,      \* ticks until the timer fires
    busy,       \* ticks that the poll has taken
    unread,     \* history: age of the oldest commit no poll has read
    told        \* history: age of the oldest ring no poll has followed

debVars == <<dirty, closing, dpc, tick>>
runVars == <<rpc, stop, pending, since, timer, busy>>
vars == <<debVars, lpc, inbox, bell, runVars, unread, told>>

None == -1

Polling == rpc \in {"poll", "deliver"}

Running == ~stop /\ rpc \in {"poll", "deliver", "wait"}

Init ==
    /\ dirty = FALSE /\ closing = FALSE /\ dpc = "loop" /\ tick = Window
    /\ lpc = "off" /\ inbox = FALSE /\ bell = FALSE
    /\ rpc = "poll" /\ stop = FALSE /\ pending = FALSE
    /\ since = 0 /\ timer = Baseline /\ busy = 0
    /\ unread = None /\ told = None

Started(age) == IF age = None THEN 0 ELSE age

-----------------------------------------------------------------------------
\* Writers and the Debouncer

\* A transaction commits. Its writer rings when it has the reply, if it lives
\* and has a doorbell.
WriteCommitted ==
    /\ unread' = Started(unread)
    /\ UNCHANGED <<debVars, lpc, inbox, bell, runVars, told>>

\* A ring counts until the Debouncer is closed.
Ring ==
    /\ dirty' = TRUE
    /\ told' = IF closing THEN told ELSE Started(told)
    /\ UNCHANGED <<closing, dpc, tick, lpc, inbox, bell, runVars, unread>>

Close ==
    /\ ~closing
    /\ closing' = TRUE
    /\ UNCHANGED <<dirty, dpc, tick, lpc, inbox, bell, runVars, unread, told>>

\* flush takes the dirty set and clears it before it sends anything.
Flush ==
    /\ dpc = "loop"
    /\ tick = 0
    /\ tick' = Window
    /\ dpc' = IF dirty THEN "send" ELSE "loop"
    /\ dirty' = FALSE
    /\ UNCHANGED <<closing, lpc, inbox, bell, runVars, unread, told>>

LastFlush ==
    /\ dpc = "loop"
    /\ closing
    /\ dpc' = IF dirty THEN "last" ELSE "done"
    /\ dirty' = FALSE
    /\ UNCHANGED <<closing, tick, lpc, inbox, bell, runVars, unread, told>>

\* A doorbell is lost; only a ring that is still in the dirty set counts on.
Lose == told' = IF dirty /\ ~closing THEN 0 ELSE None

Sent == dpc' = IF dpc = "send" THEN "loop" ELSE "done"

\* pg_notify reaches the connections that listen.
Notify ==
    /\ dpc \in {"send", "last"}
    /\ Sent
    /\ IF lpc = "up" THEN inbox' = TRUE /\ UNCHANGED told
                     ELSE Lose /\ UNCHANGED inbox
    /\ UNCHANGED <<dirty, closing, tick, lpc, bell, runVars, unread>>

\* An error of pg_notify is logged and forgotten.
NotifyFails ==
    /\ dpc \in {"send", "last"}
    /\ Sent
    /\ Lose
    /\ UNCHANGED <<dirty, closing, tick, lpc, inbox, bell, runVars, unread>>

-----------------------------------------------------------------------------
\* listenLoop

Broken == IF Factory /\ ~stop THEN "down" ELSE "ended"

Listen ==
    /\ lpc = "listen"
    /\ lpc' = "up"
    /\ UNCHANGED <<debVars, inbox, bell, runVars, unread, told>>

\* A new connection that listens asks for a poll to catch up.
Reconnect ==
    /\ lpc = "down"
    /\ lpc' = "up"
    /\ bell' = TRUE
    /\ told' = Started(told)
    /\ UNCHANGED <<debVars, inbox, runVars, unread>>

\* The send to doorbellCh never blocks: a full channel stays full.
Receive ==
    /\ lpc = "up"
    /\ inbox
    /\ inbox' = FALSE
    /\ bell' = TRUE
    /\ UNCHANGED <<debVars, lpc, runVars, unread, told>>

\* LISTEN or the wait for a notification fails.
ListenBreaks ==
    /\ lpc \in {"listen", "up"}
    /\ lpc' = Broken
    /\ inbox' = FALSE
    /\ IF inbox THEN Lose ELSE UNCHANGED told
    /\ UNCHANGED <<debVars, bell, runVars, unread>>

\* Mutant: listenLoop does not get a context that Run cancels.
ListenEnds_StopOnly ==
    /\ lpc = "down" /\ stop
    /\ lpc' = "ended"
    /\ UNCHANGED <<debVars, inbox, bell, runVars, unread, told>>

\* listenCancel, or stopCh while it waits to reconnect.
ListenEnds ==
    /\ \/ lpc \in {"listen", "up", "down"} /\ rpc = "stopping"
       \/ lpc = "down" /\ stop
    /\ lpc' = "ended"
    /\ UNCHANGED <<debVars, inbox, bell, runVars, unread, told>>

-----------------------------------------------------------------------------
\* Run

\* The poll takes its snapshot: it reads what was committed by now.
PollSnapshot ==
    /\ rpc = "poll"
    /\ rpc' = "deliver"
    /\ unread' = None
    /\ told' = None
    /\ UNCHANGED <<debVars, lpc, inbox, bell, stop, pending, since, timer, busy>>

\* Mutant: doorbells that came during the poll are taken for served.
PollDone_Drains ==
    /\ rpc = "deliver"
    /\ rpc' = "wait"
    /\ bell' = FALSE
    /\ since' = 0 /\ pending' = FALSE /\ timer' = Baseline /\ busy' = 0
    /\ lpc' = IF lpc = "off" THEN "listen" ELSE lpc
    /\ UNCHANGED <<debVars, inbox, stop, unread, told>>

\* The poll has delivered its events; the first one is followed by the start
\* of listenLoop.
PollDone ==
    /\ rpc = "deliver"
    /\ rpc' = "wait"
    /\ since' = 0 /\ pending' = FALSE /\ timer' = Baseline /\ busy' = 0
    /\ lpc' = IF lpc = "off" THEN "listen" ELSE lpc
    /\ UNCHANGED <<debVars, inbox, bell, stop, unread, told>>

PollFails ==
    /\ Polling
    /\ rpc' = "stopping"
    /\ UNCHANGED <<debVars, lpc, inbox, bell, stop, pending, since, timer, busy,
                   unread, told>>

Leading ==
    /\ rpc = "wait"
    /\ bell
    /\ since >= Floor
    /\ bell' = FALSE
    /\ rpc' = "poll"
    /\ UNCHANGED <<debVars, lpc, inbox, stop, pending, since, timer, busy, unread, told>>

\* Mutant: the timer starts again with the whole floor at every doorbell.
Trailing_WholeFloor ==
    /\ rpc = "wait"
    /\ bell
    /\ since < Floor
    /\ bell' = FALSE
    /\ pending' = TRUE
    /\ timer' = Floor
    /\ UNCHANGED <<debVars, lpc, inbox, rpc, stop, since, busy, unread, told>>

\* Mutant: the operands of the difference are swapped.
Trailing_Swapped ==
    /\ rpc = "wait"
    /\ bell
    /\ since < Floor
    /\ bell' = FALSE
    /\ pending' = TRUE
    /\ timer' = since - Floor
    /\ UNCHANGED <<debVars, lpc, inbox, rpc, stop, since, busy, unread, told>>

\* Within the floor: the timer is set to what is left of it.
Trailing ==
    /\ rpc = "wait"
    /\ bell
    /\ since < Floor
    /\ bell' = FALSE
    /\ pending' = TRUE
    /\ timer' = Floor - since
    /\ UNCHANGED <<debVars, lpc, inbox, rpc, stop, since, busy, unread, told>>

\* Mutant: without a doorbell the timer only starts again.
TimerFires_DoorbellOnly ==
    /\ rpc = "wait"
    /\ timer = 0
    /\ rpc' = IF pending THEN "poll" ELSE "wait"
    /\ timer' = Baseline
    /\ UNCHANGED <<debVars, lpc, inbox, bell, stop, pending, since, busy, unread, told>>

TimerFires ==
    /\ rpc = "wait"
    /\ timer = 0
    /\ rpc' = "poll"
    /\ UNCHANGED <<debVars, lpc, inbox, bell, stop, pending, since, timer, busy,
                   unread, told>>

Stop ==
    /\ ~stop
    /\ stop' = TRUE
    /\ UNCHANGED <<debVars, lpc, inbox, bell, rpc, pending, since, timer, busy,
                   unread, told>>

Shutdown ==
    /\ rpc = "wait"
    /\ stop
    /\ rpc' = "stopping"
    /\ UNCHANGED <<debVars, lpc, inbox, bell, stop, pending, since, timer, busy,
                   unread, told>>

\* Run returns once listenLoop has, if it was started at all.
Joined ==
    /\ rpc = "stopping"
    /\ lpc \in {"off", "ended"}
    /\ rpc' = "ended"
    /\ UNCHANGED <<debVars, lpc, inbox, bell, stop, pending, since, timer, busy,
                   unread, told>>

-----------------------------------------------------------------------------
\* Time

\* Some goroutine has something to do now.
Urgent ==
    \/ dpc = "loop" /\ (tick = 0 \/ closing)
    \/ dpc \in {"send", "last"}
    \/ lpc = "up" /\ inbox
    \/ rpc = "wait" /\ (bell \/ timer = 0 \/ stop)
    \/ Polling /\ busy >= PollTime
    \/ rpc = "stopping"

Older(age) == IF age = None \/ ~Running THEN age ELSE age + 1

Tick ==
    /\ ~Urgent
    /\ tick' = IF dpc = "loop" THEN tick - 1 ELSE tick
    /\ since' = IF rpc = "wait" /\ since < Floor THEN since + 1 ELSE since
    /\ timer' = IF rpc = "wait" THEN timer - 1 ELSE timer
    /\ busy' = IF Polling THEN busy + 1 ELSE busy
    /\ unread' = Older(unread)
    /\ told' = Older(told)
    /\ UNCHANGED <<dirty, closing, dpc, lpc, inbox, bell, rpc, stop, pending>>

Debouncer == Ring \/ Close \/ Flush \/ LastFlush \/ Notify \/ NotifyFails

ListenLoop == Listen \/ Reconnect \/ Receive \/ ListenBreaks \/ ListenEnds

Run ==
    \/ PollSnapshot \/ PollDone \/ PollFails
    \/ Leading \/ Trailing \/ TimerFires
    \/ Stop \/ Shutdown \/ Joined

Next == WriteCommitted \/ Debouncer \/ ListenLoop \/ Run \/ Tick

Spec == Init /\ [][Next]_vars

-----------------------------------------------------------------------------

TypeOK ==
    /\ dirty \in BOOLEAN /\ closing \in BOOLEAN
    /\ dpc \in {"loop", "send", "last", "done"}
    /\ tick \in 0..Window
    /\ lpc \in {"off", "listen", "up", "down", "ended"}
    /\ inbox \in BOOLEAN /\ bell \in BOOLEAN
    /\ rpc \in {"poll", "deliver", "wait", "stopping", "ended"}
    /\ stop \in BOOLEAN /\ pending \in BOOLEAN
    /\ since \in 0..Floor
    /\ timer \in Nat
    /\ busy \in 0..PollTime
    /\ unread \in Nat \cup {None}
    /\ told \in Nat \cup {None}

\* R2, R13, R16: a doorbell is never swallowed. A ring that no poll has
\* followed and that no failure has lost is in the dirty set, under way, in
\* doorbellCh, or served by a poll that is about to read or that the timer
\* was set for.
DoorbellOnItsWay ==
    Running /\ told # None =>
        \/ dirty /\ dpc \in {"loop", "send"}
        \/ dpc \in {"send", "last"}
        \/ inbox
        \/ bell
        \/ rpc = "poll"
        \/ rpc = "wait" /\ pending

Larger(a, b) == IF a > b THEN a ELSE b

\* The fast path keeps its promise: unless a doorbell is lost, a poll reads
\* within PollTime of the ring's notification or, when the ring came during a
\* poll, within PollTime of the end of that poll and of the floor after it.
PolledPromptly ==
    Running => told <= Larger(Window, PollTime + Floor) + PollTime

\* I3 with no doorbell at all: whatever doorbells do to the timer, lost ones,
\* bursts of them, reconnects, a commit is read within the baseline interval
\* and two polls.
PolledEventually ==
    Running => unread <= Larger(Floor, Baseline) + 2 * PollTime

\* Bounds of the counters.
CountersInv ==
    /\ timer <= Larger(Floor, Baseline)
    /\ rpc = "wait" => busy = 0
    /\ dpc \in {"last", "done"} => closing
    /\ Running /\ inbox => lpc = "up"

\* Where the oldest ring that counts is, and how old it can be there.
RingStage ==
    \/ dirty /\ dpc \in {"loop", "send"} /\ told + tick <= Window
    \/ (dpc \in {"send", "last"} \/ inbox) /\ told <= Window
    \/ bell /\ (rpc = "deliver" \/ told <= Window \/ told <= PollTime + since)
    \/ rpc = "wait" /\ pending /\ since + timer <= Floor /\ told <= PollTime + since

ToldInv ==
    Running /\ told # None =>
        /\ rpc = "poll" => told <= Larger(Window, PollTime + Floor) + busy
        /\ rpc = "deliver" => told <= busy
        /\ rpc = "wait" /\ since < Floor => told <= PollTime + since
        /\ rpc # "poll" => RingStage

UnreadInv ==
    Running /\ unread # None =>
        /\ rpc = "poll" => unread <= Larger(Floor, Baseline) + PollTime + busy
        /\ rpc = "deliver" => unread <= busy
        /\ rpc = "wait" /\ since < Floor => unread <= PollTime + since
        /\ rpc = "wait" => unread + timer <= Larger(Floor, Baseline) + PollTime

\* The inductive invariant of the scheduler and the doorbell.
DoorbellInv == TypeOK /\ CountersInv /\ ToldInv /\ UnreadInv

\* Every goroutine goes on; the choices of a select among the cases that are
\* ready are random, so a case that is ready again and again is taken.
Fairness ==
    /\ WF_vars(PollSnapshot) /\ WF_vars(PollDone) /\ WF_vars(Joined)
    /\ WF_vars(ListenEnds)
    /\ SF_vars(Shutdown)

FairSpec == Spec /\ Fairness

\* Stop, or the end of the context, makes Run return, and only after
\* listenLoop has: neither waits for the other for ever.
Stops == stop ~> rpc = "ended" /\ lpc \in {"off", "ended"}

=============================================================================
