----------------------------- MODULE UDPServer -----------------------------
(***************************************************************************)
(* udp.Server: Start listens and reads packets into a bounded channel, one *)
(* goroutine hands them to the handler, Stop closes the connection.        *)
(* Start and Stop may be called from several threads; listening and        *)
(* reading may fail.                                                       *)
(***************************************************************************)
EXTENDS Naturals, Sequences, FiniteSets

CONSTANTS
    Starters, Stoppers,     \* callers of Start and of Stop
    ChanSize,               \* readChanSize
    MaxPackets,             \* bound on the packets
    MaxFaults               \* bound on failures of listen and read

ASSUME UDPAssumption ==
    /\ {"none", "new", "take", "done"} \cap Starters = {}
    /\ ChanSize \in Nat /\ MaxPackets \in Nat /\ MaxFaults \in Nat

VARIABLES
    stopped, starting,
    conn,       \* the starter whose connection is s.conn, or "none"
    open,       \* the starters with an open connection
    start,      \* the place or the result of each Start
    stop,       \* the place of each Stop; a starter: its connection is to be closed
    held,       \* the packet a Start has read
    chan,       \* readChan
    worker,     \* the handler goroutine: "none", "idle", "busy" or "exited"
    handled,    \* history: the packets handed to the handler
    packets, faults

vars == <<stopped, starting, conn, open, start, stop, held, chan, worker, handled, packets, faults>>

Returned == {"closed", "already", "failed"}

\* s.conn is an open connection: it is forgotten before it is closed.
TypeOK ==
    /\ stopped \in BOOLEAN /\ starting \in BOOLEAN
    /\ conn \in Starters \cup {"none"} /\ open \subseteq Starters
    /\ start \in [Starters -> {"new", "listen", "listened", "error", "read", "enqueue", "leave"} \cup Returned]
    /\ stop \in [Stoppers -> {"new", "take", "done"} \cup Starters]
    /\ conn # "none" => conn \in open
    /\ chan \in Seq(1..MaxPackets) /\ Len(chan) <= ChanSize /\ held \in 0..MaxPackets
    /\ handled \in Seq(1..MaxPackets) /\ packets \in 0..MaxPackets
    /\ worker \in {"none", "idle", "busy", "exited"} /\ faults \in 0..MaxFaults

Init ==
    /\ stopped = FALSE /\ starting = FALSE /\ conn = "none" /\ open = {}
    /\ start = [s \in Starters |-> "new"] /\ stop = [t \in Stoppers |-> "new"]
    /\ held = 0 /\ chan = <<>> /\ worker = "none" /\ handled = <<>>
    /\ packets = 0 /\ faults = 0

Goto(s, label) == start' = [start EXCEPT ![s] = label]
Fault == faults < MaxFaults /\ faults' = faults + 1

-----------------------------------------------------------------------------
(* Start *)

MayStart == ~starting /\ conn = "none"

Start(s) ==
    /\ start[s] = "new"
    /\ IF stopped THEN Goto(s, "closed") /\ UNCHANGED starting
       ELSE IF ~MayStart THEN Goto(s, "already") /\ UNCHANGED starting
       ELSE Goto(s, "listen") /\ starting' = TRUE
    /\ UNCHANGED <<stopped, conn, open, stop, held, chan, worker, handled, packets, faults>>

Listen(s) ==
    /\ start[s] = "listen"
    /\ Goto(s, "listened") /\ open' = open \cup {s}
    /\ UNCHANGED <<stopped, starting, conn, stop, held, chan, worker, handled, packets, faults>>

ListenFails(s) ==
    /\ start[s] = "listen" /\ Fault
    /\ Goto(s, "error")
    /\ UNCHANGED <<stopped, starting, conn, open, stop, held, chan, worker, handled, packets>>

ReturnError(s) ==
    /\ start[s] = "error" /\ starting' = FALSE
    /\ Goto(s, IF stopped THEN "closed" ELSE "failed")
    /\ UNCHANGED <<stopped, conn, open, stop, held, chan, worker, handled, packets, faults>>

\* The connection becomes s.conn, unless the server was stopped meanwhile.
Publish(s) ==
    /\ start[s] = "listened" /\ starting' = FALSE
    /\ IF stopped THEN open' = open \ {s} /\ Goto(s, "closed") /\ UNCHANGED <<conn, worker>>
                  ELSE conn' = s /\ worker' = "idle" /\ Goto(s, "read") /\ UNCHANGED open
    /\ UNCHANGED <<stopped, stop, held, chan, handled, packets, faults>>

Read(s) ==
    /\ start[s] = "read" /\ s \in open /\ packets < MaxPackets
    /\ packets' = packets + 1 /\ held' = packets + 1 /\ Goto(s, "enqueue")
    /\ UNCHANGED <<stopped, starting, conn, open, stop, chan, worker, handled, faults>>

\* The connection is closed, or broken.
ReadFails(s) ==
    /\ start[s] = "read" /\ (IF s \in open THEN Fault ELSE UNCHANGED faults)
    /\ stopped' = TRUE /\ Goto(s, "leave")
    /\ UNCHANGED <<starting, conn, open, stop, held, chan, worker, handled, packets>>

Enqueue(s) ==
    /\ start[s] = "enqueue" /\ Len(chan) < ChanSize
    /\ chan' = Append(chan, held) /\ held' = 0 /\ Goto(s, "read")
    /\ UNCHANGED <<stopped, starting, conn, open, stop, worker, handled, packets, faults>>

EnqueueStops(s) ==
    /\ start[s] = "enqueue" /\ stopped
    /\ held' = 0 /\ Goto(s, "leave")
    /\ UNCHANGED <<stopped, starting, conn, open, stop, chan, worker, handled, packets, faults>>

\* Mutant: the connection is left to Stop.
LeaveOpen(s) ==
    /\ start[s] = "leave" /\ Goto(s, "closed")
    /\ UNCHANGED <<stopped, starting, conn, open, stop, held, chan, worker, handled, packets, faults>>

\* The deferred function.
Leave(s) ==
    /\ start[s] = "leave" /\ Goto(s, "closed")
    /\ conn' = IF conn = s THEN "none" ELSE conn
    /\ open' = open \ {s}
    /\ UNCHANGED <<stopped, starting, stop, held, chan, worker, handled, packets, faults>>

-----------------------------------------------------------------------------
(* The handler goroutine *)

Handle ==
    /\ worker = "idle" /\ chan # <<>>
    /\ worker' = "busy" /\ handled' = Append(handled, Head(chan)) /\ chan' = Tail(chan)
    /\ UNCHANGED <<stopped, starting, conn, open, start, stop, held, packets, faults>>

HandlerReturns ==
    /\ worker = "busy" /\ worker' = "idle"
    /\ UNCHANGED <<stopped, starting, conn, open, start, stop, held, chan, handled, packets, faults>>

WorkerStops ==
    /\ worker = "idle" /\ stopped
    /\ worker' = "exited"
    /\ UNCHANGED <<stopped, starting, conn, open, start, stop, held, chan, handled, packets, faults>>

-----------------------------------------------------------------------------
(* Stop *)

Stop(t) ==
    /\ stop[t] = "new"
    /\ stopped' = TRUE /\ stop' = [stop EXCEPT ![t] = "take"]
    /\ UNCHANGED <<starting, conn, open, start, held, chan, worker, handled, packets, faults>>

\* s.conn is taken under the mutex, and closed after it.
StopTakes(t) ==
    /\ stop[t] = "take"
    /\ conn' = "none" /\ stop' = [stop EXCEPT ![t] = IF conn = "none" THEN "done" ELSE conn]
    /\ UNCHANGED <<stopped, starting, open, start, held, chan, worker, handled, packets, faults>>

StopCloses(t) ==
    /\ stop[t] \in Starters
    /\ open' = open \ {stop[t]} /\ stop' = [stop EXCEPT ![t] = "done"]
    /\ UNCHANGED <<stopped, starting, conn, start, held, chan, worker, handled, packets, faults>>

-----------------------------------------------------------------------------
Serving(s) ==
    \/ Listen(s) \/ ListenFails(s) \/ ReturnError(s) \/ Publish(s)
    \/ ReadFails(s) \/ Enqueue(s) \/ EnqueueStops(s) \/ Leave(s)

Next ==
    \/ \E s \in Starters : Start(s) \/ Serving(s) \/ Read(s)
    \/ \E t \in Stoppers : Stop(t) \/ StopTakes(t) \/ StopCloses(t)
    \/ Handle \/ HandlerReturns \/ WorkerStops

\* Packets need not come, and a handler may run for ever.
Fairness ==
    /\ \A s \in Starters : WF_vars(Serving(s)) /\ \A t \in Stoppers : WF_vars(StopTakes(t) \/ StopCloses(t))
    /\ WF_vars(WorkerStops)

Spec == Init /\ [][Next]_vars /\ Fairness

-----------------------------------------------------------------------------
(* Properties *)

\* A Start that has returned leaves no connection open, also when Stop came while it
\* was listening.
NoConnectionLeaks == \A s \in open : start[s] \notin Returned

\* At most one Start serves packets.
OneServes == Cardinality({s \in Starters : start[s] \notin {"new"} \cup Returned}) <= 1

\* Packets reach the handler in the order read, without a gap.
HandledInOrder == \A i \in DOMAIN handled : handled[i] = i

\* After a Stop every Start returns, although the handler hangs and the channel is full:
\* what has returned stays so, hence each call is among those that have.
StopEndsStart ==
    []<>(\A s \in Starters : stopped /\ start[s] # "new" => start[s] \in Returned)

=============================================================================
