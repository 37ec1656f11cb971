------------------------------- MODULE Canal -------------------------------
(***************************************************************************)
(* mysql/canal: the binlog is read event by event, every event goes to all *)
(* listeners concurrently, and when they are done the position behind it   *)
(* goes to the positioner.  The buffered Redis positioner                  *)
(* (positioner/redis) keeps the position in memory and saves it now and    *)
(* then; a new process starts from the position saved.                     *)
(*                                                                         *)
(* Position p is the place behind event p; 0 is the zero position.         *)
(***************************************************************************)
EXTENDS Naturals, FiniteSets

CONSTANTS
    Listeners,      \* the listeners of row events
    MaxEvent,       \* bound on the binlog
    FileSize,       \* events per binlog file
    Threshold,      \* the change of position that is saved at once
    BatchSize,
    MaxFaults       \* bound on crashes and on failing listeners and commands

VARIABLES
    log,        \* events in the binlog
    pc,         \* the canal: "down", "ready", "row", "sync", "stopped" or "closed"
    cursor,     \* the last event read
    running, failed,    \* listeners at work on it, and whether one failed
    handled,    \* history: the listeners that handled each event
    skipped,    \* history: events a start at the latest position left out
    lastPos, lastSaved, counter,    \* the positioner
    timer, callback,    \* the flush timer, and its callback
    getter, seen,       \* another Get: its place, and what it read
    saved,      \* the position in Redis
    faults

vars == <<log, pc, cursor, running, failed, handled, skipped,
          lastPos, lastSaved, counter, timer, callback, getter, seen, saved, faults>>
canal == <<log, pc, cursor, running, failed, handled, skipped>>
timing == <<timer, callback, getter, seen>>

Events == 1..MaxEvent

Init ==
    /\ log = 0 /\ pc = "down" /\ cursor = 0
    /\ running = {} /\ failed = FALSE /\ handled = [e \in Events |-> {}] /\ skipped = {}
    /\ lastPos = 0 /\ lastSaved = 0 /\ counter = 0
    /\ timer = "off" /\ callback = "idle" /\ getter = "idle" /\ seen = 0
    /\ saved = 0 /\ faults = 0

Fault == faults < MaxFaults /\ faults' = faults + 1

Commit ==
    /\ log < MaxEvent
    /\ log' = log + 1
    /\ UNCHANGED <<pc, cursor, running, failed, handled, skipped,
                   lastPos, lastSaved, counter, timing, saved, faults>>

-----------------------------------------------------------------------------
(* The positioner *)

IsValidPosition(p) == p # 0
File(p) == IF p = 0 THEN 0 ELSE 1 + (p - 1) \div FileSize

HasSignificantChange(p) ==
    \/ File(p) # File(lastSaved)
    \/ p > lastSaved /\ p - lastSaved > Threshold

\* Positioner.Set returned an error, with or without effect.
SetFails(pos, count) ==
    /\ Fault
    /\ saved' \in {saved, pos}
    /\ lastPos' = pos /\ lastSaved' = lastSaved /\ counter' = count

SetSucceeds(pos) ==
    /\ saved' = pos /\ lastPos' = pos /\ lastSaved' = pos /\ counter' = 0
    /\ UNCHANGED faults

DoFlush(pos, count) ==
    IF pos = lastSaved
      THEN lastPos' = pos /\ counter' = count /\ UNCHANGED <<lastSaved, saved, faults>>
      ELSE SetSucceeds(pos) \/ SetFails(pos, count)

FlushDue(pos) == HasSignificantChange(pos) \/ counter + 1 >= BatchSize

\* BufferedPositioner.Set, under its mutex.
SetPosition(pos) ==
    IF FlushDue(pos)
      THEN DoFlush(pos, counter + 1)
      ELSE lastPos' = pos /\ counter' = counter + 1 /\ UNCHANGED <<lastSaved, saved, faults>>

TimerFires ==
    /\ timer = "armed" /\ callback = "idle"
    /\ timer' = "off" /\ callback' = "flush"
    /\ UNCHANGED <<canal, lastPos, lastSaved, counter, getter, seen, saved, faults>>

PeriodicFlush ==
    /\ callback = "flush" /\ callback' = "reset"
    /\ DoFlush(lastPos, counter)
    /\ UNCHANGED <<canal, timer, getter, seen>>

\* The callback arms the timer again.
TimerReset ==
    /\ callback = "reset"
    /\ timer' = "armed" /\ callback' = "idle"
    /\ UNCHANGED <<canal, lastPos, lastSaved, counter, getter, seen, saved, faults>>

\* Get, called by the application as well, in three steps: look at the memory, read
\* Redis, store what was read.
GetLooks ==
    /\ getter = "idle" /\ pc \notin {"down", "closed"} /\ ~IsValidPosition(lastPos)
    /\ getter' = "read"
    /\ UNCHANGED <<canal, lastPos, lastSaved, counter, timer, callback, seen, saved, faults>>

GetReads ==
    /\ getter = "read"
    /\ seen' = saved /\ getter' = "update"
    /\ UNCHANGED <<canal, lastPos, lastSaved, counter, timer, callback, saved, faults>>

GetStores ==
    /\ getter = "update"
    /\ lastPos' = seen /\ lastSaved' = seen /\ getter' = "idle" /\ seen' = 0
    /\ UNCHANGED <<canal, counter, timer, callback, saved, faults>>

\* Close: the timer is stopped, then the position is saved.
Close ==
    /\ pc = "stopped" /\ pc' = "closed"
    /\ timer' = "off"
    /\ DoFlush(lastPos, counter)
    /\ UNCHANGED <<log, cursor, running, failed, handled, skipped, callback, getter, seen>>

-----------------------------------------------------------------------------
(* The canal *)

\* getStartPosition: the position saved or, without a valid one, the latest.
StartFrom(p) ==
    /\ cursor' = p
    /\ skipped' = skipped \cup (IF p > saved THEN (saved + 1)..p ELSE {})
    /\ pc' = "ready" /\ timer' = "armed"

Start ==
    /\ pc = "down"
    /\ IF IsValidPosition(saved) THEN StartFrom(saved) ELSE StartFrom(log)
    /\ lastPos' = saved /\ lastSaved' = saved
    /\ UNCHANGED <<log, running, failed, handled, counter, callback, getter, seen, saved, faults>>

\* Get failed: the canal starts at the latest position.
StartGetFails ==
    /\ pc = "down" /\ Fault
    /\ StartFrom(log)
    /\ UNCHANGED <<log, running, failed, handled, lastPos, lastSaved, counter, callback, getter, seen, saved>>

\* dispatch starts every listener on the next event.
Dispatch ==
    /\ pc = "ready" /\ cursor < log
    /\ cursor' = cursor + 1 /\ pc' = "row" /\ running' = Listeners
    /\ UNCHANGED <<log, failed, handled, skipped, lastPos, lastSaved, counter, timing, saved, faults>>

ListenerDone(l) ==
    /\ l \in running
    /\ running' = running \ {l}
    /\ handled' = [handled EXCEPT ![cursor] = @ \cup {l}]
    /\ UNCHANGED <<log, pc, cursor, failed, skipped, lastPos, lastSaved, counter, timing, saved, faults>>

ListenerFails(l) ==
    /\ l \in running /\ Fault
    /\ running' = running \ {l} /\ failed' = TRUE
    /\ UNCHANGED <<log, pc, cursor, handled, skipped, lastPos, lastSaved, counter, timing, saved>>

\* The outcome of the errgroup: an error ends RunFrom.
WaitEnds == pc' = IF failed THEN "stopped" ELSE "sync"

\* Mutant: the position is synced without waiting for all listeners.
AllDoneSome == running # Listeners

\* errgroup.Wait
AllDone == running = {}

Wait ==
    /\ pc = "row" /\ AllDone
    /\ WaitEnds /\ failed' = FALSE /\ running' = {}
    /\ UNCHANGED <<log, cursor, handled, skipped, lastPos, lastSaved, counter, timing, saved, faults>>

\* OnPosSynced; an error of Set ends RunFrom.
OnPosSynced ==
    /\ pc = "sync"
    /\ SetPosition(cursor)
    /\ pc' = IF faults' # faults THEN "stopped" ELSE "ready"
    /\ UNCHANGED <<log, cursor, running, failed, handled, skipped, timing>>

Stop ==
    /\ pc = "ready" /\ pc' = "stopped"
    /\ UNCHANGED <<log, cursor, running, failed, handled, skipped, lastPos, lastSaved, counter, timing, saved, faults>>

\* The process ends, in order or by a crash; a new one may start.
Reborn ==
    /\ pc' = "down" /\ cursor' = 0 /\ running' = {} /\ failed' = FALSE
    /\ lastPos' = 0 /\ lastSaved' = 0 /\ counter' = 0
    /\ timer' = "off" /\ callback' = "idle" /\ getter' = "idle" /\ seen' = 0
    /\ UNCHANGED <<log, handled, skipped, saved>>

Crash == pc # "down" /\ Fault /\ Reborn
Exit == pc = "closed" /\ Reborn /\ UNCHANGED faults

-----------------------------------------------------------------------------
Positioning == TimerFires \/ PeriodicFlush \/ TimerReset \/ GetLooks \/ GetReads \/ GetStores \/ Close

Reading ==
    \/ Start \/ StartGetFails \/ Dispatch \/ Wait \/ OnPosSynced \/ Stop
    \/ \E l \in Listeners : ListenerDone(l) \/ ListenerFails(l)

Next == Commit \/ Positioning \/ Reading \/ Crash \/ Exit

Spec == Init /\ [][Next]_vars

-----------------------------------------------------------------------------
(* Properties *)

HandledByAll(e) == handled[e] = Listeners

\* At-least-once: every event behind the saved position was handled by every
\* listener, or was left out because a process started at the latest position.
\* Neither a crash nor a failing listener or Redis command loses an event.
SavedIsHandled == \A e \in 1..saved : HandledByAll(e) \/ e \in skipped

\* No step moves the position in Redis back: a stale Get or a late callback cannot
\* make a later process repeat more.
SavedAdvances == saved' >= saved

\* Both, of every step.
PositionIsSafe == SavedAdvances /\ SavedIsHandled'

=============================================================================
