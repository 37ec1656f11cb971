--------------------------- MODULE ServiceProofs ----------------------------
(***************************************************************************)
(* Proofs about the components of a service: UDPServer, OtlpClient,        *)
(* EventDispatcher, Lifecycle, SignalRouter and Health. They do not        *)
(* interact: the module extends the first, and the others are instances    *)
(* with variables of their own. Every theorem holds for all values of the  *)
(* constants that meet its hypotheses.                                     *)
(*                                                                         *)
(* That one Start of the UDP server serves at a time rests on what the two *)
(* flags and s.conn say together: while the server is not stopped, a Start *)
(* that is under way is visible as starting, and one that reads packets as *)
(* s.conn; once it is stopped, no further Start gets past its first look.  *)
(***************************************************************************)
EXTENDS UDPServer, TLAPS

-----------------------------------------------------------------------------
(* UDPServer *)

Opening == {"listen", "listened", "error"}
Reading == {"read", "enqueue", "leave"}

Exclusive ==
    /\ \A s, u \in Starters :
         start[s] \in Opening \cup Reading /\ start[u] \in Opening \cup Reading => s = u
    /\ \A s \in Starters : start[s] \in Opening => starting
    /\ \A s \in Starters : start[s] \in Reading /\ ~stopped => conn = s
    /\ conn # "none" => start[conn] \in Reading
    /\ \A s \in Starters : start[s] = "leave" => stopped
    /\ \A t \in Stoppers : stop[t] # "new" => stopped

\* An open connection belongs to a Start that has not returned; the one a Stop
\* took is not s.conn and was served.
Connections ==
    /\ \A s \in open : start[s] \in {"listened"} \cup Reading
    /\ \A s \in Starters : start[s] = "listened" => s \in open
    /\ \A t \in Stoppers : stop[t] \in Starters =>
         conn # stop[t] /\ start[stop[t]] \in {"closed"} \cup Reading

\* Packets are numbered in the order they are read: the handled ones, those in
\* the channel and the one in hand follow each other.
Numbered ==
    /\ \A i \in DOMAIN handled : handled[i] = i
    /\ \A i \in DOMAIN chan : chan[i] = Len(handled) + i
    /\ \A s \in Starters : start[s] = "enqueue" =>
         held = packets /\ packets = Len(handled) + Len(chan) + 1
    /\ \A s \in Starters : start[s] = "read" => packets = Len(handled) + Len(chan)
    /\ ~stopped /\ (\A s \in Starters : start[s] \notin {"read", "enqueue"})
         => packets = Len(handled) + Len(chan)

IInv == TypeOK /\ Exclusive /\ Connections /\ Numbered

\* The invariant holds of a server that was not started.
LEMMA InitIInv == Init => IInv
<1> SUFFICES ASSUME Init PROVE IInv
  BY Zenon
<1> USE UDPAssumption DEF Init
<1>1. TypeOK
  <2>1. held \in 0..MaxPackets /\ packets \in 0..MaxPackets /\ faults \in 0..MaxFaults /\ Len(chan) <= ChanSize
    OBVIOUS
  <2>2. chan \in Seq(1..MaxPackets) /\ handled \in Seq(1..MaxPackets)
    OBVIOUS
  <2> QED
    BY Zenon, <2>1, <2>2 DEF TypeOK
<1>2. Exclusive /\ Connections
  BY Zenon DEF Exclusive, Connections, Opening, Reading
<1>3. Numbered
  BY DEF Numbered
<1> QED
  BY Zenon, <1>1, <1>2, <1>3 DEF IInv

Label == {"new", "listen", "listened", "error", "read", "enqueue", "leave"} \cup Returned

\* Every step of a Start keeps the types.
LEMMA StartType ==
    ASSUME IInv, NEW s \in Starters, Start(s) \/ Serving(s) \/ Read(s)
    PROVE  TypeOK'
<1> USE UDPAssumption DEF IInv
<1>0. ASSUME NEW l \in Label, start' = [start EXCEPT ![s] = l] PROVE start' \in [Starters -> Label]
  BY Zenon, <1>0 DEF TypeOK, Label
<1>1. CASE Start(s)
  <2>1. start' \in [Starters -> Label]
    BY Zenon, <1>1 DEF Start, Goto, TypeOK, Label, Returned
  <2> QED
    BY Zenon, <1>1, <2>1 DEF Start, TypeOK, Label
<1>2. CASE Listen(s)
  <2>1. start' \in [Starters -> Label]
    BY Zenon, <1>0, <1>2 DEF Listen, Goto, Label
  <2> QED
    BY Zenon, <1>2, <2>1 DEF Listen, TypeOK, Label
<1>3. CASE ListenFails(s)
  <2>1. start' \in [Starters -> Label]
    BY Zenon, <1>0, <1>3 DEF ListenFails, Goto, Label
  <2>2. faults' \in 0..MaxFaults
    BY <1>3 DEF ListenFails, Fault, TypeOK
  <2> QED
    BY Zenon, <1>3, <2>1, <2>2 DEF ListenFails, TypeOK, Label
<1>4. CASE ReturnError(s)
  <2>1. start' \in [Starters -> Label]
    BY Zenon, <1>4 DEF ReturnError, Goto, TypeOK, Label, Returned
  <2> QED
    BY Zenon, <1>4, <2>1 DEF ReturnError, TypeOK, Label
<1>5. CASE Publish(s)
  <2>1. start' \in [Starters -> Label]
    BY Zenon, <1>5 DEF Publish, Goto, TypeOK, Label, Returned
  <2>2. conn # s
    BY Zenon, <1>5 DEF Publish, Exclusive, Reading, TypeOK
  <2>3. conn' # "none" => conn' \in open'
    BY <1>5, <2>2 DEF Publish, TypeOK, Exclusive, Opening, Reading, Connections
  <2> QED
    BY Zenon, <1>5, <2>1, <2>3 DEF Publish, TypeOK, Label
<1>6. CASE Read(s)
  <2>1. start' \in [Starters -> Label]
    BY Zenon, <1>0, <1>6 DEF Read, Goto, Label
  <2>2. packets' \in 0..MaxPackets /\ held' \in 0..MaxPackets
    BY <1>6 DEF Read, TypeOK
  <2> QED
    BY Zenon, <1>6, <2>1, <2>2 DEF Read, TypeOK, Label
<1>7. CASE ReadFails(s)
  <2>1. start' \in [Starters -> Label]
    BY Zenon, <1>0, <1>7 DEF ReadFails, Goto, Label
  <2>2. faults' \in 0..MaxFaults
    BY <1>7 DEF ReadFails, Fault, TypeOK
  <2> QED
    BY Zenon, <1>7, <2>1, <2>2 DEF ReadFails, TypeOK, Label
<1>8. CASE Enqueue(s)
  <2>0. held \in 1..MaxPackets
    BY <1>8 DEF Enqueue, Numbered, TypeOK
  <2>1. start' \in [Starters -> Label]
    BY Zenon, <1>0, <1>8 DEF Enqueue, Goto, Label
  <2>2. chan' \in Seq(1..MaxPackets) /\ Len(chan') <= ChanSize
    BY <1>8, <2>0 DEF Enqueue, TypeOK
  <2> QED
    BY <1>8, <2>1, <2>2 DEF Enqueue, TypeOK, Label
<1>9. CASE EnqueueStops(s)
  <2>1. start' \in [Starters -> Label]
    BY Zenon, <1>0, <1>9 DEF EnqueueStops, Goto, Label
  <2> QED
    BY <1>9, <2>1 DEF EnqueueStops, TypeOK, Label
<1>10. CASE Leave(s)
  <2>1. start' \in [Starters -> Label]
    BY Zenon, <1>0, <1>10 DEF Leave, Goto, Label, Returned
  <2> QED
    BY Zenon, <1>10, <2>1 DEF Leave, TypeOK, Label
<1> QED
  BY Zenon, <1>1, <1>2, <1>3, <1>4, <1>5, <1>6, <1>7, <1>8, <1>9, <1>10 DEF Serving

\* Every step of a Stop, and of the handler goroutine, keeps the types.
LEMMA StopType ==
    ASSUME IInv, \/ \E t \in Stoppers : Stop(t) \/ StopTakes(t) \/ StopCloses(t)
                 \/ Handle \/ HandlerReturns \/ WorkerStops
    PROVE  TypeOK'
<1> USE UDPAssumption DEF IInv
<1>1. ASSUME NEW t \in Stoppers, Stop(t) PROVE TypeOK'
  BY Zenon, <1>1 DEF Stop, TypeOK
<1>2. ASSUME NEW t \in Stoppers, StopTakes(t) PROVE TypeOK'
  BY Zenon, <1>2 DEF StopTakes, TypeOK
<1>3. ASSUME NEW t \in Stoppers, StopCloses(t) PROVE TypeOK'
  <2>1. conn # "none" => conn \in open \ {stop[t]}
    BY Zenon, <1>3 DEF StopCloses, TypeOK, Connections
  <2> QED
    BY Zenon, <1>3, <2>1 DEF StopCloses, TypeOK
<1>4. CASE Handle
  <2>1. chan' \in Seq(1..MaxPackets) /\ Len(chan') <= ChanSize
    BY <1>4 DEF Handle, TypeOK
  <2>2. handled' \in Seq(1..MaxPackets)
    BY <1>4 DEF Handle, TypeOK
  <2> QED
    BY Zenon, <1>4, <2>1, <2>2 DEF Handle, TypeOK
<1>5. CASE HandlerReturns \/ WorkerStops
  BY Zenon, <1>5 DEF HandlerReturns, WorkerStops, TypeOK
<1> QED
  BY Zenon, <1>1, <1>2, <1>3, <1>4, <1>5

\* A step of a Start keeps Starts exclusive and connections accounted for.
LEMMA StartExclusive ==
    ASSUME IInv, NEW s \in Starters, Start(s) \/ Serving(s) \/ Read(s)
    PROVE  Exclusive' /\ Connections'
<1> USE UDPAssumption DEF IInv
<1>0. /\ \A u \in Starters \ {s} : start'[u] = start[u]
      /\ stop' = stop
  BY Zenon DEF Start, Serving, Listen, ListenFails, ReturnError, Publish, Read, ReadFails, Enqueue,
         EnqueueStops, Leave, Goto, TypeOK
<1>1. CASE Start(s)
  <2>1. /\ start[s] = "new" /\ UNCHANGED <<stopped, conn, open>>
        /\ \/ start'[s] \in {"closed", "already"} /\ starting' = starting
           \/ start'[s] = "listen" /\ starting' = TRUE /\ ~stopped /\ ~starting /\ conn = "none"
    BY Zenon, <1>1 DEF Start, MayStart, Goto, TypeOK
  <2>2. start'[s] = "listen" => \A u \in Starters : start[u] \notin Opening \cup Reading
    BY Zenon, <2>1 DEF Exclusive, Opening, Reading
  <2>3. Exclusive'
    BY <1>0, <2>1, <2>2 DEF Exclusive, Opening, Reading, TypeOK
  <2>4. Connections'
    BY Zenon, <1>0, <2>1 DEF Connections, Opening, Reading, TypeOK
  <2> QED
    BY Zenon, <2>3, <2>4
<1>2. CASE Listen(s)
  <2>1. /\ start[s] = "listen" /\ start'[s] = "listened" /\ open' = open \cup {s}
        /\ UNCHANGED <<stopped, starting, conn>>
    BY Zenon, <1>2 DEF Listen, Goto, TypeOK
  <2>2. Exclusive'
    BY Zenon, <1>0, <2>1 DEF Exclusive, Opening, Reading, TypeOK
  <2>3. Connections'
    BY Zenon, <1>0, <2>1 DEF Connections, Opening, Reading, TypeOK
  <2> QED
    BY Zenon, <2>2, <2>3
<1>3. CASE ListenFails(s)
  <2>1. /\ start[s] = "listen" /\ start'[s] = "error" /\ UNCHANGED <<stopped, starting, conn, open>>
    BY Zenon, <1>3 DEF ListenFails, Goto, TypeOK
  <2>2. Exclusive'
    BY Zenon, <1>0, <2>1 DEF Exclusive, Opening, Reading, TypeOK
  <2>3. Connections'
    BY Zenon, <1>0, <2>1 DEF Connections, Opening, Reading, TypeOK
  <2> QED
    BY Zenon, <2>2, <2>3
<1>4. CASE ReturnError(s)
  <2>1. /\ start[s] = "error" /\ start'[s] \in {"closed", "failed"} /\ UNCHANGED <<stopped, conn, open>>
    BY Zenon, <1>4 DEF ReturnError, Goto, TypeOK
  <2>2. Exclusive'
    BY Zenon, <1>0, <2>1 DEF Exclusive, Opening, Reading, TypeOK
  <2>3. Connections'
    BY Zenon, <1>0, <2>1 DEF Connections, Opening, Reading, TypeOK
  <2> QED
    BY Zenon, <2>2, <2>3
<1>5. CASE Publish(s)
  <2>1. /\ start[s] = "listened" /\ stopped' = stopped
        /\ \/ stopped /\ open' = open \ {s} /\ start'[s] = "closed" /\ conn' = conn
           \/ ~stopped /\ conn' = s /\ start'[s] = "read" /\ open' = open
    BY Zenon, <1>5 DEF Publish, Goto, TypeOK
  <2>2. \A u \in Starters \ {s} : start[u] \notin Opening \cup Reading
    BY Zenon, <2>1 DEF Exclusive, Opening, Reading
  <2>3. conn # s
    BY Zenon, <2>1 DEF Exclusive, Reading, TypeOK
  <2>4. Exclusive'
    BY Zenon, <1>0, <2>1, <2>2, <2>3 DEF Exclusive, Opening, Reading, TypeOK
  <2>5. Connections'
    <3>1. \A u \in Starters : u # s => start'[u] = start[u]
      BY Zenon, <1>0
    <3>2. \A t \in Stoppers : stop[t] \in Starters => stop[t] # s
      BY Zenon, <2>1 DEF Connections, Reading
    <3>3. CASE stopped
      BY Zenon, <1>0, <2>1, <3>1, <3>2, <3>3 DEF Connections, Reading, TypeOK
    <3>4. CASE ~stopped
      BY Zenon, <1>0, <2>1, <3>1, <3>2, <3>4 DEF Connections, Reading, TypeOK
    <3> QED BY Zenon, <3>3, <3>4
  <2> QED
    BY Zenon, <2>4, <2>5
<1>6. CASE Read(s) \/ Enqueue(s)
  <2>1. /\ start[s] \in {"read", "enqueue"} /\ start'[s] \in {"read", "enqueue"}
        /\ UNCHANGED <<stopped, starting, conn, open>>
    BY Zenon, <1>6 DEF Read, Enqueue, Goto, TypeOK
  <2>2. Exclusive'
    BY <1>0, <2>1 DEF Exclusive, Opening, Reading, TypeOK
  <2>3. Connections'
    BY Zenon, <1>0, <2>1 DEF Connections, Opening, Reading, TypeOK
  <2> QED
    BY Zenon, <2>2, <2>3
<1>7. CASE ReadFails(s) \/ EnqueueStops(s)
  <2>1. /\ start[s] \in {"read", "enqueue"} /\ start'[s] = "leave" /\ stopped' = TRUE
        /\ UNCHANGED <<starting, conn, open>>
    BY Zenon, <1>7 DEF ReadFails, EnqueueStops, Goto, TypeOK
  <2>2. Exclusive'
    BY <1>0, <2>1 DEF Exclusive, Opening, Reading, TypeOK
  <2>3. Connections'
    BY Zenon, <1>0, <2>1 DEF Connections, Opening, Reading, TypeOK
  <2> QED
    BY Zenon, <2>2, <2>3
<1>8. CASE Leave(s)
  <2>1. /\ start[s] = "leave" /\ start'[s] = "closed" /\ UNCHANGED <<stopped, starting>>
        /\ conn' = (IF conn = s THEN "none" ELSE conn) /\ open' = open \ {s}
    BY Zenon, <1>8 DEF Leave, Goto, TypeOK
  <2>2. Exclusive'
    BY Zenon, <1>0, <2>1 DEF Exclusive, Opening, Reading, TypeOK
  <2>3. Connections'
    BY Zenon, <1>0, <2>1 DEF Connections, Opening, Reading, TypeOK
  <2> QED
    BY Zenon, <2>2, <2>3
<1> QED
  BY Zenon, <1>1, <1>2, <1>3, <1>4, <1>5, <1>6, <1>7, <1>8 DEF Serving

\* So does a step of a Stop.
LEMMA StopExclusive ==
    ASSUME IInv, NEW t \in Stoppers, Stop(t) \/ StopTakes(t) \/ StopCloses(t)
    PROVE  Exclusive' /\ Connections'
<1> USE UDPAssumption DEF IInv
<1>1. CASE Stop(t)
  BY <1>1 DEF Stop, Exclusive, Connections, TypeOK
<1>2. CASE StopTakes(t)
  <2>1. /\ stop[t] = "take" /\ conn' = "none" /\ UNCHANGED <<stopped, starting, open, start>>
        /\ stop' = [stop EXCEPT ![t] = IF conn = "none" THEN "done" ELSE conn]
    BY Zenon, <1>2 DEF StopTakes
  <2>2. \A u \in Starters : start[u] \in Reading => stopped
    BY Zenon, <2>1 DEF Exclusive
  <2>3. Exclusive'
    BY Zenon, <2>1, <2>2 DEF Exclusive, TypeOK
  <2>4. Connections'
    BY Zenon, <2>1 DEF Connections, Exclusive, TypeOK
  <2> QED
    BY Zenon, <2>3, <2>4
<1>3. CASE StopCloses(t)
  <2>1. start[stop[t]] # "listened"
    BY Zenon, <1>3 DEF StopCloses, Connections, Reading
  <2> QED
    BY <1>3, <2>1 DEF StopCloses, Exclusive, Connections, TypeOK
<1> QED
  BY Zenon, <1>1, <1>2, <1>3

\* The numbering of the packets survives every step.
LEMMA StartNumbered ==
    ASSUME IInv, NEW s \in Starters, Start(s) \/ Serving(s) \/ Read(s)
    PROVE  Numbered'
<1> USE UDPAssumption DEF IInv
<1>0. /\ \A u \in Starters \ {s} : start'[u] = start[u]
      /\ handled' = handled
  BY Zenon DEF Start, Serving, Listen, ListenFails, ReturnError, Publish, Read, ReadFails, Enqueue,
         EnqueueStops, Leave, Goto, TypeOK
<1>1. CASE Start(s) \/ Listen(s) \/ ListenFails(s) \/ ReturnError(s) \/ Leave(s)
  <2>1. /\ start[s] \in {"new", "listen", "error", "leave"}
        /\ start'[s] \in {"listen", "listened", "error", "closed", "already", "failed"}
        /\ UNCHANGED <<stopped, chan, packets, held>>
    BY Zenon, <1>1 DEF Start, Listen, ListenFails, ReturnError, Leave, Goto, TypeOK
  <2> QED
    BY Zenon, <1>0, <2>1 DEF Numbered
<1>2. CASE Publish(s)
  <2>1. /\ start[s] = "listened" /\ UNCHANGED <<stopped, chan, packets, held>>
        /\ start'[s] = IF stopped THEN "closed" ELSE "read"
    BY Zenon, <1>2 DEF Publish, Goto, TypeOK
  <2>2. \A u \in Starters : start[u] \notin {"read", "enqueue"}
    BY Zenon, <2>1 DEF Exclusive, Opening, Reading
  <2> QED
    BY Zenon, <1>0, <2>1, <2>2 DEF Numbered
<1>3. CASE Read(s)
  <2>1. /\ start[s] = "read" /\ start'[s] = "enqueue" /\ packets' = packets + 1 /\ held' = packets + 1
        /\ UNCHANGED <<stopped, chan>>
    BY Zenon, <1>3 DEF Read, Goto, TypeOK
  <2>2. \A u \in Starters \ {s} : start[u] \notin {"read", "enqueue"}
    BY Zenon, <2>1 DEF Exclusive, Opening, Reading
  <2> QED
    BY Zenon, <1>0, <2>1, <2>2 DEF Numbered, TypeOK
<1>4. CASE ReadFails(s) \/ EnqueueStops(s)
  <2>1. /\ start[s] \in {"read", "enqueue"} /\ start'[s] = "leave" /\ stopped' = TRUE
        /\ UNCHANGED <<chan, packets>>
    BY Zenon, <1>4 DEF ReadFails, EnqueueStops, Goto, TypeOK
  <2>2. \A u \in Starters \ {s} : start[u] \notin {"read", "enqueue"}
    BY Zenon, <2>1 DEF Exclusive, Opening, Reading
  <2> QED
    BY Zenon, <1>0, <2>1, <2>2 DEF Numbered
<1>5. CASE Enqueue(s)
  <2>1. /\ start[s] = "enqueue" /\ start'[s] = "read" /\ chan' = Append(chan, held)
        /\ UNCHANGED <<stopped, packets>>
    BY Zenon, <1>5 DEF Enqueue, Goto, TypeOK
  <2>2. \A u \in Starters \ {s} : start[u] \notin {"read", "enqueue"}
    BY Zenon, <2>1 DEF Exclusive, Opening, Reading
  <2>3. /\ held = Len(handled) + Len(chan) + 1 /\ packets = held
        /\ Len(chan') = Len(chan) + 1
    BY <2>1 DEF Numbered, TypeOK
  <2>4. \A i \in DOMAIN chan' : chan'[i] = Len(handled) + i
    <3> SUFFICES ASSUME NEW i \in DOMAIN chan' PROVE chan'[i] = Len(handled) + i
      BY Zenon
    <3>1. i \in 1..(Len(chan) + 1)
      BY <2>1 DEF TypeOK
    <3>2. CASE i = Len(chan) + 1
      BY <2>1, <2>3, <3>2 DEF TypeOK
    <3>3. CASE i \in 1..Len(chan)
      <4>1. chan'[i] = chan[i] /\ i \in DOMAIN chan
        BY <2>1, <3>3 DEF TypeOK
      <4> QED
        BY Zenon, <4>1 DEF Numbered
    <3> QED
      BY <3>1, <3>2, <3>3 DEF TypeOK
  <2>5. packets' = Len(handled') + Len(chan')
    BY <1>0, <2>1, <2>3 DEF TypeOK
  <2>6. \A u \in Starters : start'[u] # "enqueue"
    BY Zenon, <1>0, <2>1, <2>2
  <2> QED
    BY Zenon, <1>0, <2>4, <2>5, <2>6 DEF Numbered
<1> QED
  BY Zenon, <1>1, <1>2, <1>3, <1>4, <1>5 DEF Serving

\* A step of a Stop does not touch the packets; the handler moves one on.
LEMMA OtherNumbered ==
    ASSUME IInv, \/ \E t \in Stoppers : Stop(t) \/ StopTakes(t) \/ StopCloses(t)
                 \/ Handle \/ HandlerReturns \/ WorkerStops
    PROVE  Numbered'
<1> USE DEF IInv
<1>1. CASE \E t \in Stoppers : Stop(t) \/ StopTakes(t) \/ StopCloses(t)
  <2>1. UNCHANGED <<start, chan, handled, held, packets>> /\ (stopped => stopped')
    BY <1>1 DEF Stop, StopTakes, StopCloses
  <2> QED
    BY Zenon, <2>1 DEF Numbered
<1>2. CASE Handle
  <2>1. /\ chan # <<>> /\ chan' = Tail(chan) /\ handled' = Append(handled, Head(chan))
        /\ UNCHANGED <<start, stopped, held, packets>>
    BY Zenon, <1>2 DEF Handle
  <2>2. /\ Len(chan) > 0 /\ Len(chan') = Len(chan) - 1 /\ Len(handled') = Len(handled) + 1
        /\ \A i \in DOMAIN chan' : chan'[i] = chan[i + 1] /\ i + 1 \in DOMAIN chan /\ i \in Nat
    BY <2>1 DEF TypeOK
  <2>3. Head(chan) = Len(handled) + 1
    BY <2>1, <2>2 DEF TypeOK, Numbered
  <2>4. \A i \in DOMAIN handled' : handled'[i] = i
    BY <2>1, <2>3 DEF TypeOK, Numbered
  <2>5. \A i \in DOMAIN chan' : chan'[i] = Len(handled') + i
    BY <2>2 DEF TypeOK, Numbered
  <2>6. Len(handled') + Len(chan') = Len(handled) + Len(chan)
    BY <2>2 DEF TypeOK
  <2> QED
    BY Zenon, <2>1, <2>4, <2>5, <2>6 DEF Numbered
<1>3. CASE HandlerReturns \/ WorkerStops
  BY Zenon, <1>3 DEF HandlerReturns, WorkerStops, Numbered
<1> QED
  BY Zenon, <1>1, <1>2, <1>3

\* The strengthened invariant holds of every behaviour of the server, whatever the
\* interleaving of Start, Stop and the handler.
THEOREM Invariant == Spec => []IInv
<1>1. ASSUME IInv, [Next]_vars PROVE IInv'
  <2> USE <1>1
  <2>1. ASSUME NEW s \in Starters, Start(s) \/ Serving(s) \/ Read(s) PROVE IInv'
    BY Zenon, <2>1, StartType, StartExclusive, StartNumbered DEF IInv
  <2>2. ASSUME NEW t \in Stoppers, Stop(t) \/ StopTakes(t) \/ StopCloses(t) PROVE IInv'
    BY Zenon, <2>2, StopType, StopExclusive, OtherNumbered DEF IInv
  <2>3. CASE Handle \/ HandlerReturns \/ WorkerStops
    <3>1. TypeOK' /\ Numbered'
      BY Zenon, <2>3, StopType, OtherNumbered
    <3>2. Exclusive' /\ Connections'
      BY <2>3 DEF IInv, Handle, HandlerReturns, WorkerStops, Exclusive, Connections
    <3> QED
      BY Zenon, <3>1, <3>2 DEF IInv
  <2>4. CASE UNCHANGED vars
    BY Zenon, <2>4 DEF IInv, vars, TypeOK, Exclusive, Connections, Numbered
  <2> QED
    BY Zenon, <2>1, <2>2, <2>3, <2>4 DEF Next
<1> QED
  BY <1>1, InitIInv, PTL DEF Spec

\* NoConnectionLeaks: a Start that has returned left no connection open, also when a
\* Stop came between its listening and its taking the mutex again.
THEOREM ReturnedIsClosed == Spec => []NoConnectionLeaks
<1>1. IInv => NoConnectionLeaks
  BY Zenon DEF IInv, Connections, NoConnectionLeaks, Returned, Reading, TypeOK
<1> QED
  BY <1>1, Invariant, PTL

\* HandledInOrder: packets reach the handler in the order they were read, none left out.
THEOREM InOrder == Spec => []HandledInOrder
<1>1. IInv => HandledInOrder
  BY Zenon DEF IInv, Numbered, HandledInOrder
<1> QED
  BY <1>1, Invariant, PTL

-----------------------------------------------------------------------------
(* OtlpClient *)

CONSTANTS Configurers, Shutters, MaxCalls
VARIABLES signals, transports, otlpProvider, global, made, down, lock, configured, otlpShutdown, otlpPc, step, err,
          taken, calls
Otlp == INSTANCE OtlpClient WITH provider <- otlpProvider, shutdown <- otlpShutdown, pc <- otlpPc

\* The names of goroutines are not that of a free mutex, and some goroutine configures.
OtlpConstants ==
    /\ Cardinality(Configurers) \in Nat \ {0} /\ MaxCalls \in Nat \ {0}
    /\ "free" \notin Configurers \cup Shutters

\* The goroutines that call the client.
Goroutine == Configurers \cup Shutters

\* The client: every variable has the values its place allows.
OtlpTypeOK ==
    /\ otlpProvider \in [1..3 -> {0} \cup 1..3 \cup Otlp!NewProviders]
    /\ made = {otlpProvider[s] : s \in 1..3} \ {0}
    /\ \A s, t \in 1..3 : otlpProvider[s] # 0 /\ otlpProvider[s] = otlpProvider[t] => s = t
    /\ down \in [1..3 \cup Otlp!NewProviders -> Nat]
    /\ otlpPc \in [Goroutine -> {"idle", "configure", "signals", "shutdown", "closing"}]
    /\ step \in [Goroutine -> 1..4] /\ DOMAIN taken = Goroutine /\ DOMAIN err = Goroutine
    /\ otlpShutdown \in BOOLEAN

\* The mutex: one goroutine configures, and none after Shutdown.
Locked ==
    /\ \A g \in Goroutine : otlpPc[g] = "signals" => lock = g /\ ~otlpShutdown
    /\ ~otlpShutdown => \A g \in Goroutine : otlpPc[g] # "closing"

\* What is left of the providers when k of them were shut down.
Left(k) ==
    CASE k = 0 -> <<otlpProvider[1], otlpProvider[2], otlpProvider[3]>>
      [] k = 1 -> <<otlpProvider[2], otlpProvider[3]>>
      [] k = 2 -> <<otlpProvider[3]>>
      [] k = 3 -> <<>>

\* The first k providers were shut down once, and the others not at all.
DownTo(k) ==
    /\ \A s \in 1..3 : otlpProvider[s] # 0 => down[otlpProvider[s]] = IF s <= k THEN 1 ELSE 0
    /\ \A g \in Goroutine : otlpPc[g] = "closing" => taken[g] = Left(k)
    /\ \A g, h \in Goroutine : otlpPc[g] = "closing" /\ otlpPc[h] = "closing" => g = h
    /\ k = 3 \/ \E g \in Goroutine : otlpPc[g] = "closing"

\* The providers that Shutdown has reached are down, and before it none is.
Downs == /\ otlpShutdown => \E k \in 0..3 : DownTo(k)
         /\ ~otlpShutdown => \A n \in DOMAIN down : down[n] = 0

\* The inductive invariant.
OtlpInv == OtlpTypeOK /\ Locked /\ Downs

\* A new client has no provider.
LEMMA OtlpInit == Otlp!Init => OtlpInv
<1> SUFFICES ASSUME Otlp!Init PROVE OtlpInv
  BY Zenon
<1> USE DEF Otlp!Init, Otlp!Signals, Otlp!Goroutines, Goroutine
<1>1. otlpProvider \in [1..3 -> 0..3] /\ \A s \in 1..3 : otlpProvider[s] # 0 => otlpProvider[s] = s
  OBVIOUS
<1>2. \A s, t \in 1..3 : otlpProvider[s] # 0 /\ otlpProvider[s] = otlpProvider[t] => s = t
  BY Zenon, <1>1
<1>3. otlpProvider \in [1..3 -> {0} \cup 1..3 \cup Otlp!NewProviders]
  BY Zenon, <1>1
<1>4. OtlpTypeOK
  <2>1. down \in [1..3 \cup Otlp!NewProviders -> Nat]
    BY Zenon
  <2>2. made = {otlpProvider[s] : s \in 1..3} \ {0}
    BY Zenon
  <2>3. /\ otlpPc \in [Goroutine -> {"idle", "configure", "signals", "shutdown", "closing"}]
        /\ step \in [Goroutine -> 1..4] /\ DOMAIN taken = Goroutine /\ DOMAIN err = Goroutine
        /\ otlpShutdown \in BOOLEAN
    <3>1. 1 \in 1..4
      OBVIOUS
    <3>2. step \in [Goroutine -> 1..4]
      BY Zenon, <3>1
    <3>3. otlpPc \in [Goroutine -> {"idle", "configure", "signals", "shutdown", "closing"}] /\ otlpShutdown \in BOOLEAN
      BY Zenon
    <3>4. DOMAIN taken = Goroutine /\ DOMAIN err = Goroutine
      BY Zenon
    <3> QED BY Zenon, <3>2, <3>3, <3>4
  <2> HIDE DEF Otlp!Init
  <2> QED BY Zenon, <1>2, <1>3, <2>1, <2>2, <2>3 DEF OtlpTypeOK
<1>5. Locked /\ Downs
  BY Zenon DEF Locked, Downs
<1> QED BY Zenon, <1>4, <1>5 DEF OtlpInv

\* There is a number for a new provider of each signal.
LEMMA OtlpNumbers == ASSUME OtlpConstants PROVE 4..6 \subseteq Otlp!NewProviders
<1>1. Cardinality(Configurers) \in Nat /\ Cardinality(Configurers) # 0
  BY Zenon DEF OtlpConstants
<1>2. \A a, b \in Nat : a # 0 /\ b # 0 => 3 * a * b \in Nat /\ 3 * a * b >= 3
  <2> TAKE a, b \in Nat
  <2> HAVE a # 0 /\ b # 0
  <2>1. 3 * a \in Nat /\ 3 * a >= 3 /\ b >= 1
    OBVIOUS
  <2>2. \A c \in Nat : c * b \in Nat /\ c * b >= c
    <3> TAKE c \in Nat
    <3>1. c * b = c * (b - 1) + c /\ c * (b - 1) >= 0 /\ c * b \in Nat
      BY <2>1
    <3> QED BY <2>1, <3>1
  <2> QED BY <2>1, <2>2
<1>3. 3 * MaxCalls * Cardinality(Configurers) \in Nat /\ 3 * MaxCalls * Cardinality(Configurers) >= 3
  BY Zenon, <1>1, <1>2 DEF OtlpConstants
<1> DEFINE x == 3 * MaxCalls * Cardinality(Configurers)
<1>4. x \in Nat /\ x >= 3
  BY Zenon, <1>3
<1>5. Otlp!NewProviders = 4..(3 + x)
  BY Zenon DEF Otlp!NewProviders, Otlp!Cardinality, Cardinality
<1> HIDE DEF x
<1> QED BY <1>4, <1>5

\* A new provider is none of those made before.
LEMMA OtlpFresh ==
    ASSUME OtlpConstants, OtlpTypeOK, NEW s \in 1..3, otlpProvider[s] = 0
    PROVE  Otlp!Fresh \in Otlp!NewProviders /\ Otlp!Fresh \notin made
<1>1. \A n \in made : \E t \in 1..3 : t # s /\ otlpProvider[t] = n
  BY Zenon DEF OtlpTypeOK
<1>2. ~(4 \in made /\ 5 \in made /\ 6 \in made)
  BY <1>1
<1>3. \A k \in Otlp!NewProviders : (k < 5 => k = 4) /\ (k < 6 => k = 4 \/ k = 5) /\ ~(k < 4)
  BY DEF Otlp!NewProviders
<1>4. \E n \in Otlp!NewProviders : n \notin made /\ \A k \in Otlp!NewProviders : k < n => k \in made
  BY <1>2, <1>3, OtlpNumbers
<1> QED BY Zenon, <1>4 DEF Otlp!Fresh

\* The steps of Configure keep the invariant.
LEMMA OtlpConfigures ==
    ASSUME OtlpConstants, OtlpInv, NEW g \in Goroutine, Otlp!ConfigureSignal(g)
    PROVE  OtlpInv'
<1> USE DEF Otlp!Signals
<1>1. OtlpTypeOK /\ Locked /\ Downs
  BY Zenon DEF OtlpInv
<1>2. otlpPc[g] = "signals" /\ ~otlpShutdown /\ lock = g /\ step[g] \in 1..3 /\ UNCHANGED <<down, otlpShutdown, taken>>
  BY Zenon, <1>1 DEF Otlp!ConfigureSignal, Locked
<1>3. /\ \/ step' = [step EXCEPT ![g] = step[g] + 1] /\ UNCHANGED <<otlpPc, err, lock>>
         \/ UNCHANGED step /\ Otlp!Return(g, "provider")
      /\ \/ UNCHANGED <<otlpProvider, made>>
         \/ Otlp!Register(step[g], otlpProvider[step[g]]) /\ otlpProvider[step[g]] # 0
         \/ Otlp!Register(step[g], Otlp!Fresh) /\ otlpProvider[step[g]] = 0
  BY Zenon DEF Otlp!ConfigureSignal, Otlp!Existing
<1>4. /\ otlpProvider' \in [1..3 -> {0} \cup 1..3 \cup Otlp!NewProviders]
      /\ made' = {otlpProvider'[s] : s \in 1..3} \ {0}
      /\ \A s, t \in 1..3 : otlpProvider'[s] # 0 /\ otlpProvider'[s] = otlpProvider'[t] => s = t
  <2>1. CASE UNCHANGED <<otlpProvider, made>>
    BY <1>1, <2>1 DEF OtlpTypeOK
  <2>2. CASE Otlp!Register(step[g], otlpProvider[step[g]]) /\ otlpProvider[step[g]] # 0
    <3>1. otlpProvider' = otlpProvider
      BY Zenon, <1>1, <2>2 DEF Otlp!Register, OtlpTypeOK
    <3>2. made' = made
      BY <1>1, <1>2, <2>2 DEF Otlp!Register, OtlpTypeOK
    <3> QED BY <1>1, <3>1, <3>2 DEF OtlpTypeOK
  <2>3. CASE Otlp!Register(step[g], Otlp!Fresh) /\ otlpProvider[step[g]] = 0
    <3> DEFINE n == Otlp!Fresh
               s == step[g]
    <3>1. n \in Otlp!NewProviders /\ n \notin made
      BY Zenon, <1>1, <1>2, <2>3, OtlpFresh
    <3>2. n # 0
      BY <3>1 DEF Otlp!NewProviders
    <3>3. otlpProvider' = [otlpProvider EXCEPT ![s] = n] /\ made' = made \cup {n}
      BY Zenon, <2>3 DEF Otlp!Register
    <3> HIDE DEF n
    <3>4. s \in 1..3 /\ otlpProvider'[s] = n /\ \A t \in 1..3 : t # s => otlpProvider'[t] = otlpProvider[t]
      BY Zenon, <1>1, <1>2, <3>3 DEF OtlpTypeOK
    <3>5. otlpProvider' \in [1..3 -> {0} \cup 1..3 \cup Otlp!NewProviders]
      BY Zenon, <1>1, <3>1, <3>3 DEF OtlpTypeOK
    <3>6. \A t \in 1..3 : otlpProvider[t] # n
      BY Zenon, <1>1, <3>1, <3>2 DEF OtlpTypeOK
    <3>7. made' = {otlpProvider'[t] : t \in 1..3} \ {0}
      <4>1. made = {otlpProvider[t] : t \in 1..3} \ {0}
        BY Zenon, <1>1 DEF OtlpTypeOK
      <4>2. otlpProvider[s] = 0
        BY Zenon, <2>3
      <4> QED BY <3>2, <3>3, <3>4, <4>1, <4>2
    <3>8. \A t, u \in 1..3 : otlpProvider'[t] # 0 /\ otlpProvider'[t] = otlpProvider'[u] => t = u
      BY Zenon, <1>1, <3>4, <3>6 DEF OtlpTypeOK
    <3> QED BY Zenon, <3>5, <3>7, <3>8
  <2> QED BY Zenon, <1>3, <2>1, <2>2, <2>3
<1>5. /\ otlpPc' \in [Goroutine -> {"idle", "configure", "signals", "shutdown", "closing"}]
      /\ step' \in [Goroutine -> 1..4] /\ DOMAIN err' = Goroutine
      /\ \A h \in Goroutine : otlpPc'[h] \in {otlpPc[h], "idle"} /\ (h # g => otlpPc'[h] = otlpPc[h])
      /\ lock' = lock \/ otlpPc'[g] = "idle"
  <2>1. CASE step' = [step EXCEPT ![g] = step[g] + 1] /\ UNCHANGED <<otlpPc, err, lock>>
    BY <1>1, <1>2, <2>1 DEF OtlpTypeOK
  <2>2. CASE UNCHANGED step /\ Otlp!Return(g, "provider")
    BY Zenon, <1>1, <2>2 DEF OtlpTypeOK, Otlp!Return
  <2> QED BY Zenon, <1>3, <2>1, <2>2
<1>6. OtlpTypeOK'
  BY Zenon, <1>1, <1>2, <1>4, <1>5 DEF OtlpTypeOK
<1>7. Locked'
  BY Zenon, <1>1, <1>2, <1>5 DEF Locked, OtlpConstants, Goroutine
<1>8. Downs'
  BY Zenon, <1>1, <1>2 DEF Downs
<1> QED BY Zenon, <1>6, <1>7, <1>8 DEF OtlpInv

\* A call, the entry of Configure, its hooks, and a Shutdown that is not the first.
LEMMA OtlpCalls ==
    ASSUME OtlpConstants, OtlpInv, NEW g \in Goroutine,
           Otlp!Call(g) \/ Otlp!Configure(g) \/ Otlp!RunHooks(g) \/ (Otlp!Shutdown(g) /\ otlpShutdown)
    PROVE  OtlpInv'
<1>1. OtlpTypeOK /\ Locked /\ Downs
  BY Zenon DEF OtlpInv
<1>2. /\ UNCHANGED <<otlpProvider, made, down, otlpShutdown, taken>> /\ step' \in {step, [step EXCEPT ![g] = 1]}
  BY Zenon DEF Otlp!Call, Otlp!Configure, Otlp!RunHooks, Otlp!Shutdown
<1>3. DOMAIN err' = Goroutine
  BY Zenon, <1>1 DEF Otlp!Call, Otlp!Configure, Otlp!RunHooks, Otlp!Shutdown, Otlp!Return, Otlp!Goto, OtlpTypeOK
<1>4. PICK p \in {"idle", "configure", "signals", "shutdown"} :
        /\ otlpPc' = [otlpPc EXCEPT ![g] = p] /\ otlpPc[g] # "closing"
        /\ p = "signals" => ~otlpShutdown /\ lock = "free" /\ lock' = g
        /\ p # "signals" => lock' = lock \/ lock = "free" \/ otlpPc[g] = "signals"
  <2>1. CASE Otlp!Call(g)
    BY Zenon, <2>1 DEF Otlp!Call
  <2>2. CASE Otlp!Configure(g)
    BY Zenon, <2>2 DEF Otlp!Configure, Otlp!Return, Otlp!Refuses
  <2>3. CASE Otlp!RunHooks(g)
    BY Zenon, <2>3 DEF Otlp!RunHooks, Otlp!Return
  <2>4. CASE Otlp!Shutdown(g) /\ otlpShutdown
    BY Zenon, <2>4 DEF Otlp!Shutdown, Otlp!Return
  <2> QED BY Zenon, <2>1, <2>2, <2>3, <2>4
<1>5. OtlpTypeOK'
  BY <1>1, <1>2, <1>3, <1>4 DEF OtlpTypeOK
<1>6. \A h \in Goroutine : h # g => otlpPc'[h] = otlpPc[h]
  BY Zenon, <1>1, <1>4 DEF OtlpTypeOK
<1>7. otlpPc'[g] = p
  BY Zenon, <1>1, <1>4 DEF OtlpTypeOK
<1>8. Locked'
  BY Zenon, <1>1, <1>2, <1>4, <1>6, <1>7 DEF Locked, OtlpConstants, Goroutine
<1>9. Downs'
  <2>1. \A k : Left(k)' = Left(k)
    BY Zenon, <1>2 DEF Left
  <2>2. \A h \in Goroutine : otlpPc'[h] = "closing" <=> otlpPc[h] = "closing"
    BY Zenon, <1>4, <1>6, <1>7
  <2>3. \A k : DownTo(k) => DownTo(k)'
    BY Zenon, <1>2, <2>1, <2>2 DEF DownTo
  <2> QED BY Zenon, <1>1, <1>2, <2>3 DEF Downs
<1> QED BY Zenon, <1>5, <1>8, <1>9 DEF OtlpInv

\* Shutdown takes all providers over.
LEMMA OtlpShuts ==
    ASSUME OtlpConstants, OtlpInv, NEW g \in Goroutine, Otlp!Shutdown(g), ~otlpShutdown
    PROVE  OtlpInv'
<1>1. OtlpTypeOK /\ Locked /\ Downs
  BY Zenon DEF OtlpInv
<1>2. /\ otlpShutdown' = TRUE /\ taken' = [taken EXCEPT ![g] = <<otlpProvider[1], otlpProvider[2], otlpProvider[3]>>]
      /\ otlpPc' = [otlpPc EXCEPT ![g] = "closing"] /\ lock = "free"
      /\ UNCHANGED <<otlpProvider, made, down, step, err, lock>>
  BY Zenon DEF Otlp!Shutdown, Otlp!Goto, Otlp!ShutdownFlag
<1>3. OtlpTypeOK'
  BY <1>1, <1>2 DEF OtlpTypeOK
<1>4. Locked'
  BY Zenon, <1>1, <1>2 DEF Locked, OtlpConstants, OtlpTypeOK, Goroutine
<1>5. otlpPc'[g] = "closing" /\ taken'[g] = Left(0)' /\ \A h \in Goroutine : h # g => otlpPc'[h] # "closing"
  BY <1>1, <1>2 DEF Locked, OtlpTypeOK, Left
<1>6. \A s \in 1..3 : otlpProvider'[s] # 0 => down'[otlpProvider'[s]] = 0
  BY Zenon, <1>1, <1>2 DEF Downs, OtlpTypeOK
<1>7. DownTo(0)'
  BY <1>5, <1>6 DEF DownTo
<1> QED BY <1>2, <1>3, <1>4, <1>7 DEF OtlpInv, Downs

\* The steps of Shutdown keep the invariant: it goes on after an error.
LEMMA OtlpCloses ==
    ASSUME OtlpConstants, OtlpInv, NEW g \in Goroutine, Otlp!ShutdownProvider(g) \/ Otlp!ShutdownReturns(g)
    PROVE  OtlpInv'
<1>1. OtlpTypeOK /\ Locked /\ Downs
  BY Zenon DEF OtlpInv
<1>2. otlpPc[g] = "closing" /\ otlpShutdown /\ UNCHANGED <<otlpProvider, made, otlpShutdown, step, lock>>
  BY Zenon, <1>1 DEF Otlp!ShutdownProvider, Otlp!ShutdownReturns, Locked, OtlpTypeOK
<1>3. PICK k \in 0..3 : DownTo(k)
  BY Zenon, <1>1, <1>2 DEF Downs
<1>4. taken[g] = Left(k) /\ \A h \in Goroutine : h # g => otlpPc[h] # "closing"
  BY Zenon, <1>2, <1>3 DEF DownTo
<1>5. CASE Otlp!ShutdownProvider(g)
  <2>1. /\ taken[g] # <<>> /\ taken' = [taken EXCEPT ![g] = Tail(taken[g])] /\ UNCHANGED otlpPc
        /\ down' = IF Head(taken[g]) = 0 THEN down ELSE [down EXCEPT ![Head(taken[g])] = @ + 1]
        /\ DOMAIN err' = Goroutine
    BY Zenon, <1>1, <1>5 DEF Otlp!ShutdownProvider, OtlpTypeOK
  <2>2. k \in 0..2 /\ Head(taken[g]) = otlpProvider[k + 1] /\ Tail(taken[g]) = Left(k + 1)
    <3>1. k # 3
      BY <1>4, <2>1 DEF Left
    <3>2. CASE k = 0
      BY <1>4, <3>2 DEF Left
    <3>3. CASE k = 1
      BY <1>4, <3>3 DEF Left
    <3>4. CASE k = 2
      BY <1>4, <3>4 DEF Left
    <3> QED BY <3>1, <3>2, <3>3, <3>4
  <2>3. otlpProvider[k + 1] # 0 => otlpProvider[k + 1] \in DOMAIN down
    BY <1>1, <2>2 DEF OtlpTypeOK
  <2>4. \A s \in 1..3 : otlpProvider[s] # 0 => otlpProvider[s] \in DOMAIN down /\ (s # k + 1 => otlpProvider[s] # otlpProvider[k + 1])
    BY <1>1, <2>2 DEF OtlpTypeOK
  <2>5. \A s \in 1..3 : otlpProvider[s] # 0 => down[otlpProvider[s]] = IF s <= k THEN 1 ELSE 0
    BY Zenon, <1>3 DEF DownTo
  <2>6. \A s \in 1..3 : otlpProvider[s] # 0 => down'[otlpProvider[s]] = IF s <= k + 1 THEN 1 ELSE 0
    <3> TAKE s \in 1..3
    <3>1. CASE s = k + 1
      BY <2>1, <2>2, <2>4, <2>5, <3>1
    <3>2. CASE s # k + 1
      BY <2>1, <2>2, <2>4, <2>5, <3>2
    <3> QED BY Zenon, <3>1, <3>2
  <2>7. down' \in [1..3 \cup Otlp!NewProviders -> Nat]
    <3>1. down \in [1..3 \cup Otlp!NewProviders -> Nat]
      BY Zenon, <1>1 DEF OtlpTypeOK
    <3>2. CASE Head(taken[g]) = 0
      BY Zenon, <2>1, <3>1, <3>2
    <3>3. CASE Head(taken[g]) # 0
      <4>1. down' = [down EXCEPT ![otlpProvider[k + 1]] = down[otlpProvider[k + 1]] + 1]
        BY Zenon, <2>1, <2>2, <3>3
      <4>2. down[otlpProvider[k + 1]] \in Nat
        BY Zenon, <2>2, <2>3, <3>1, <3>3
      <4>3. down[otlpProvider[k + 1]] + 1 \in Nat
        BY <4>2
      <4> QED BY Zenon, <3>1, <4>1, <4>3
    <3> QED BY Zenon, <3>2, <3>3
  <2>8. DOMAIN taken' = Goroutine /\ taken'[g] = Left(k + 1)' /\ \A s \in 1..3 : otlpProvider'[s] = otlpProvider[s]
    BY Zenon, <1>1, <1>2, <2>1, <2>2 DEF OtlpTypeOK, Left
  <2>9. DownTo(k + 1)'
    BY Zenon, <1>2, <1>4, <2>1, <2>6, <2>8 DEF DownTo
  <2>10. OtlpTypeOK'
    BY <1>1, <1>2, <2>1, <2>7, <2>8 DEF OtlpTypeOK
  <2>11. Locked'
    BY Zenon, <1>1, <1>2, <2>1 DEF Locked
  <2> QED BY <1>2, <2>2, <2>9, <2>10, <2>11 DEF OtlpInv, Downs
<1>6. CASE Otlp!ShutdownReturns(g)
  <2>1. /\ taken[g] = <<>> /\ otlpPc' = [otlpPc EXCEPT ![g] = "idle"] /\ UNCHANGED <<taken, down>> /\ DOMAIN err' = Goroutine
    BY Zenon, <1>1, <1>6 DEF Otlp!ShutdownReturns, OtlpTypeOK
  <2>2. k = 3
    BY <1>4, <2>1 DEF Left
  <2>3. \A h \in Goroutine : otlpPc'[h] # "closing"
    BY Zenon, <1>1, <1>4, <2>1 DEF OtlpTypeOK
  <2>4. DownTo(3)'
    BY Zenon, <1>2, <1>3, <2>1, <2>2, <2>3 DEF DownTo
  <2>5. OtlpTypeOK'
    BY <1>1, <1>2, <2>1 DEF OtlpTypeOK
  <2>6. Locked'
    BY Zenon, <1>1, <1>2, <2>1, <2>3 DEF Locked, OtlpTypeOK
  <2> QED BY <1>2, <2>4, <2>5, <2>6 DEF OtlpInv, Downs
<1> QED BY Zenon, <1>5, <1>6

\* Every step keeps the invariant.
LEMMA OtlpStep == ASSUME OtlpConstants PROVE OtlpInv /\ [Otlp!Next]_(Otlp!vars) => OtlpInv'
<1> SUFFICES ASSUME OtlpInv, [Otlp!Next]_(Otlp!vars) PROVE OtlpInv'
  BY Zenon
<1>1. CASE UNCHANGED Otlp!vars
  <2>1. UNCHANGED <<otlpProvider, made, down, lock, otlpShutdown, otlpPc, step, err, taken>>
    BY Zenon, <1>1 DEF Otlp!vars
  <2>2. OtlpTypeOK' /\ Locked'
    BY Zenon, <2>1 DEF OtlpInv, OtlpTypeOK, Locked
  <2>3. Downs'
    BY <2>1 DEF OtlpInv, Downs, DownTo, Left
  <2> QED BY Zenon, <2>2, <2>3 DEF OtlpInv
<1>2. otlpShutdown \in BOOLEAN
  BY Zenon DEF OtlpInv, OtlpTypeOK
<1> QED BY Zenon, <1>1, <1>2, OtlpConfigures, OtlpCalls, OtlpShuts, OtlpCloses
        DEF Otlp!Next, Otlp!Run, Otlp!Goroutines, Goroutine

\* OtlpClient: every provider in use is shut down.
NoProviderLeaks == Otlp!NoProviderLeaks

\* otlp.Client: after Shutdown every provider that was made has been shut down once, for
\* any number of goroutines that configure and shut down.
THEOREM OtlpLeaksNothing == ASSUME OtlpConstants PROVE Otlp!Spec => []NoProviderLeaks
<1>1. OtlpInv => Otlp!NoProviderLeaks
  <2> SUFFICES ASSUME OtlpInv, otlpShutdown, \A g \in Goroutine : otlpPc[g] = "idle", NEW n \in made PROVE down[n] = 1
    BY Zenon DEF Otlp!NoProviderLeaks, Otlp!Goroutines, Goroutine
  <2>1. DownTo(3)
    BY Zenon DEF OtlpInv, Downs, DownTo
  <2>2. PICK s \in 1..3 : otlpProvider[s] = n /\ n # 0
    BY Zenon DEF OtlpInv, OtlpTypeOK
  <2> QED BY <2>1, <2>2 DEF DownTo
<1> QED BY OtlpInit, OtlpStep, <1>1, PTL DEF Otlp!Spec, NoProviderLeaks

-----------------------------------------------------------------------------
(* EventDispatcher *)

CONSTANTS Listeners, MaxWorkers, Callers
VARIABLES listeners, sub, unsub, d, w
Event == INSTANCE EventDispatcher

\* A dispatch: its place, its options, the listeners it found and what became of them.
Dispatches ==
    [pc : {"new", "run", "nil", "error"}, concurrency : 1..MaxWorkers, continue : BOOLEAN, entries : Seq(Listeners),
     next : Nat, ctx : BOOLEAN, stop : BOOLEAN, called : Seq(Listeners), failed : SUBSET Listeners]

\* Every variable has the values its place allows.
EventTypeOK ==
    /\ listeners \in Seq(Listeners) /\ d \in Dispatches
    /\ unsub \in [Callers -> {"new", "remove", "true", "false"} \X (Listeners \cup {"none"})]
    /\ w \in [1..MaxWorkers -> {"idle", "check", "claim", "begin", "call", "exit"} \X Nat]
    /\ \A x \in 1..MaxWorkers : w[x][1] \in {"begin", "call"} => w[x][2] \in 1..Len(d.entries)

\* Entry i has been called; a worker is about to call it.
Called(i) == \E k \in 1..Len(d.called) : d.called[k] = d.entries[i]
Begins(i) == \E x \in 1..MaxWorkers : w[x][1] = "begin" /\ w[x][2] = i

\* What a dispatch that no error and no context has stopped has done so far.
Progress ==
    /\ \A i \in 1..Len(d.entries) : i <= d.next => Called(i) \/ Begins(i) \/ d.stop
    /\ \A k \in 1..Len(d.called) : \E i \in 1..Len(d.entries) : d.called[k] = d.entries[i]
    /\ d.stop => d.ctx \/ d.failed # {}

\* The workers' places say where the dispatch is.
Places ==
    /\ d.pc = "new" => /\ \A x \in 1..MaxWorkers : w[x][1] = "idle"
                       /\ d.next = 0 /\ d.called = <<>> /\ d.failed = {} /\ d.entries = <<>>
    /\ d.pc = "run" => /\ \A x \in 1..MaxWorkers : w[x][1] # "idle"
                       /\ w[1][1] = "exit" => d.stop \/ d.next >= Len(d.entries)
    /\ d.pc \in {"nil", "error"} => \A x \in 1..MaxWorkers : w[x][1] = "exit"
    /\ d.pc = "nil" => d.failed = {} /\ ~d.ctx /\ \A i \in 1..Len(d.entries) : Called(i)

\* The inductive invariant.
EventInv == EventTypeOK /\ Progress /\ Places

\* Nothing is dispatched at first.
LEMMA EventInit == ASSUME MaxWorkers \in Nat PROVE Event!Init => EventInv
<1> SUFFICES ASSUME Event!Init PROVE EventInv
  BY Zenon
<1>1. <<>> \in Seq(Listeners) /\ Len(<<>>) = 0
  OBVIOUS
<1>2. PICK n \in 1..MaxWorkers, c \in BOOLEAN :
        d = [pc |-> "new", concurrency |-> n, continue |-> c, entries |-> <<>>, next |-> 0, ctx |-> FALSE,
             stop |-> FALSE, called |-> <<>>, failed |-> {}]
  BY Zenon DEF Event!Init, Event!Workers
<1>3. d \in Dispatches
  BY Zenon, <1>1, <1>2 DEF Dispatches
<1>4. w = [x \in 1..MaxWorkers |-> <<"idle", 0>>]
  BY Zenon DEF Event!Init, Event!Workers
<1>5. EventTypeOK
  BY <1>1, <1>3, <1>4 DEF Event!Init, EventTypeOK
<1>6. Progress
  BY <1>1, <1>2 DEF Progress
<1>7. Places
  BY Zenon, <1>1, <1>2, <1>4 DEF Places
<1> QED BY Zenon, <1>5, <1>6, <1>7 DEF EventInv

\* RemoveAt, as Unsubscribe uses it, keeps a list a list.
LEMMA EntryRemoved == ASSUME listeners \in Seq(Listeners), NEW l PROVE Event!Without(l) \in Seq(Listeners)
<1>1. CASE \E i \in DOMAIN listeners : listeners[i] = l
  <2> DEFINE i == CHOOSE i \in DOMAIN listeners : listeners[i] = l
  <2>1. i \in 1..Len(listeners)
    BY <1>1
  <2>2. SubSeq(listeners, 1, i - 1) \in Seq(Listeners) /\ SubSeq(listeners, i + 1, Len(listeners)) \in Seq(Listeners)
    <3> HIDE DEF i
    <3> QED BY <2>1
  <2>3. SubSeq(listeners, 1, i - 1) \o SubSeq(listeners, i + 1, Len(listeners)) \in Seq(Listeners)
    <3> HIDE DEF i
    <3> QED BY <2>2
  <2>4. Event!Without(l) = SubSeq(listeners, 1, i - 1) \o SubSeq(listeners, i + 1, Len(listeners))
    BY Zenon, <1>1 DEF Event!Without, Event!Range
  <2> QED BY Zenon, <2>3, <2>4
<1>2. CASE ~ \E i \in DOMAIN listeners : listeners[i] = l
  BY Zenon, <1>2 DEF Event!Without, Event!Range
<1> QED BY Zenon, <1>1, <1>2

\* Subscribing and unsubscribing do not touch the list of a dispatch under way.
LEMMA EventList ==
    ASSUME EventInv,
           \/ \E l \in Listeners : Event!Subscribe(l)
           \/ \E u \in Callers : Event!RemoveEntry(u) \/ \E l \in Listeners : Event!Unsubscribe(u, l)
    PROVE  EventInv'
<1>1. UNCHANGED <<d, w>>
  BY Zenon DEF Event!Subscribe, Event!RemoveEntry, Event!Unsubscribe
<1>2. listeners' \in Seq(Listeners)
  <2>1. \/ \E l \in Listeners : listeners' = Append(listeners, l)
        \/ UNCHANGED listeners
        \/ \E l : listeners' = Event!Without(l)
    BY Zenon DEF Event!Subscribe, Event!RemoveEntry, Event!Unsubscribe
  <2>2. listeners \in Seq(Listeners)
    BY Zenon DEF EventInv, EventTypeOK
  <2> QED BY <2>1, <2>2, EntryRemoved
<1>3. unsub' \in [Callers -> {"new", "remove", "true", "false"} \X (Listeners \cup {"none"})]
  <2>1. unsub \in [Callers -> {"new", "remove", "true", "false"} \X (Listeners \cup {"none"})]
    BY Zenon DEF EventInv, EventTypeOK
  <2>2. ASSUME NEW u \in Callers, Event!RemoveEntry(u)
        PROVE  unsub' \in [Callers -> {"new", "remove", "true", "false"} \X (Listeners \cup {"none"})]
    BY <2>1, <2>2 DEF Event!RemoveEntry
  <2>3. ASSUME NEW u \in Callers, NEW l \in Listeners, Event!Unsubscribe(u, l)
        PROVE  unsub' \in [Callers -> {"new", "remove", "true", "false"} \X (Listeners \cup {"none"})]
    BY <2>1, <2>3 DEF Event!Unsubscribe
  <2> QED BY Zenon, <2>1, <2>2, <2>3 DEF Event!Subscribe
<1>4. Progress' /\ Places'
  BY <1>1 DEF EventInv, Progress, Places, Called, Begins
<1> QED BY Zenon, <1>1, <1>2, <1>3, <1>4 DEF EventInv, EventTypeOK

\* A dispatch begins with a copy of the list.
LEMMA EventDispatch == ASSUME MaxWorkers \in Nat \ {0}, EventInv, Event!Dispatch PROVE EventInv'
<1> USE DEF EventInv
<1>1. /\ d.pc = "new" /\ d' = [d EXCEPT !.pc = d'.pc, !.entries = listeners]
      /\ d'.pc = IF d.ctx THEN "error" ELSE IF listeners = <<>> THEN "nil" ELSE "run"
      /\ UNCHANGED <<listeners, unsub>>
      /\ w' = [x \in 1..MaxWorkers |-> IF ~d.ctx /\ x <= Event!WorkerCount THEN <<"check", 0>> ELSE <<"exit", 0>>]
  BY Zenon DEF Event!Dispatch, Event!Workers, EventTypeOK, Dispatches
<1>2. d' \in Dispatches /\ d'.entries = listeners /\ d'.next = 0 /\ d'.called = <<>> /\ d'.failed = {}
      /\ (d'.ctx <=> d.ctx) /\ (d'.stop <=> d.stop)
  BY Zenon, <1>1 DEF EventTypeOK, Dispatches, Places
<1>3. EventTypeOK'
  BY Zenon, <1>1, <1>2 DEF EventTypeOK
<1>4. Progress'
  <2>1. Len(d'.called) = 0 /\ d.failed = {} /\ Len(d'.entries) \in Nat
    BY <1>1, <1>2 DEF Places, Dispatches
  <2> QED BY <1>2, <2>1 DEF Progress
<1>5. CASE d.ctx
  <2>1. \A x \in 1..MaxWorkers : w'[x][1] = "exit"
    BY Zenon, <1>1, <1>5
  <2>2. Places'
    BY Zenon, <1>1, <1>2, <1>5, <2>1 DEF Places
  <2> QED BY Zenon, <1>3, <1>4, <2>2
<1>6. CASE ~d.ctx /\ listeners = <<>>
  <2>1. Event!WorkerCount = 0
    BY <1>6 DEF Event!WorkerCount, EventTypeOK, Dispatches
  <2>2. \A x \in 1..MaxWorkers : w'[x] = <<"exit", 0>>
    BY <1>1, <2>1
  <2>3. Len(d'.entries) = 0
    BY <1>2, <1>6
  <2>4. Places'
    BY <1>1, <1>2, <1>6, <2>2, <2>3 DEF Places
  <2> QED BY Zenon, <1>3, <1>4, <2>4
<1>7. CASE ~d.ctx /\ listeners # <<>>
  <2>1. Event!WorkerCount >= 1
    BY <1>7 DEF Event!WorkerCount, EventTypeOK, Dispatches
  <2>2. w'[1] = <<"check", 0>> /\ \A x \in 1..MaxWorkers : w'[x][1] # "idle"
    BY <1>1, <1>7, <2>1
  <2>3. Places'
    BY <1>1, <1>2, <1>7, <2>2 DEF Places
  <2> QED BY Zenon, <1>3, <1>4, <2>3
<1>8. d.ctx \in BOOLEAN
  BY Zenon DEF EventTypeOK, Dispatches
<1> QED BY Zenon, <1>3, <1>4, <1>5, <1>6, <1>7, <1>8

\* A worker that changes its place leaves the others where they are.
LEMMA WorkerGoes ==
    ASSUME EventTypeOK, NEW x \in 1..MaxWorkers, NEW i \in Nat,
           NEW p \in {"idle", "check", "claim", "begin", "call", "exit"}, w' = [w EXCEPT ![x] = <<p, i>>]
    PROVE  /\ w' \in [1..MaxWorkers -> {"idle", "check", "claim", "begin", "call", "exit"} \X Nat]
           /\ w'[x][1] = p /\ w'[x][2] = i
           /\ \A y \in 1..MaxWorkers : y # x => w'[y] = w[y]
           /\ \A j : Begins(j) => Begins(j)' \/ (w[x][1] = "begin" /\ w[x][2] = j)
<1>1. /\ w' \in [1..MaxWorkers -> {"idle", "check", "claim", "begin", "call", "exit"} \X Nat]
      /\ w'[x][1] = p /\ w'[x][2] = i
      /\ \A y \in 1..MaxWorkers : y # x => w'[y] = w[y]
  BY Zenon DEF EventTypeOK
<1> QED BY Zenon, <1>1 DEF Begins

\* Every step of a worker keeps the invariant: it claims the next entry, and calls it
\* unless the dispatch was stopped.
LEMMA EventWork ==
    ASSUME MaxWorkers \in Nat \ {0}, EventInv, NEW x \in 1..MaxWorkers, Event!Work(x) PROVE EventInv'
<1>1. EventTypeOK /\ Progress /\ Places
  BY Zenon DEF EventInv
<1>2. d.pc = "run"
  BY Zenon, <1>1 DEF Event!Work, Event!Check, Event!Claim, Event!Begin, Event!Succeeds, Event!Fails, Places, EventTypeOK,
              Dispatches
<1>3. UNCHANGED <<listeners, unsub>>
  BY Zenon DEF Event!Work, Event!Check, Event!Claim, Event!Begin, Event!Succeeds, Event!Fails
<1>4. w[x][2] \in Nat /\ 1 \in 1..MaxWorkers /\ d \in Dispatches /\ d.next \in Nat /\ Len(d.entries) \in Nat
  <2>1. w[x][2] \in Nat /\ 1 \in 1..MaxWorkers /\ d \in Dispatches
    BY <1>1 DEF EventTypeOK
  <2>2. d.next \in Nat /\ d.entries \in Seq(Listeners)
    BY Zenon, <2>1 DEF Dispatches
  <2> QED BY <2>1, <2>2
<1>5. CASE Event!Check(x)
  <2>1. PICK p \in {"exit", "claim"} : w' = [w EXCEPT ![x] = <<p, w[x][2]>>] /\ (p = "exit" => d.stop)
    BY Zenon, <1>5 DEF Event!Check, Event!Go
  <2>2. w[x][1] = "check" /\ UNCHANGED d
    BY Zenon, <1>5 DEF Event!Check
  <2>3. /\ w' \in [1..MaxWorkers -> {"idle", "check", "claim", "begin", "call", "exit"} \X Nat]
        /\ w'[x][1] = p /\ w'[x][2] = w[x][2]
        /\ \A y \in 1..MaxWorkers : y # x => w'[y] = w[y]
        /\ \A j : Begins(j) => Begins(j)'
    BY Zenon, <1>1, <1>4, <2>1, <2>2, WorkerGoes
  <2>4. EventTypeOK'
    BY Zenon, <1>1, <1>3, <2>1, <2>2, <2>3 DEF EventTypeOK
  <2>5. Progress'
    BY Zenon, <1>1, <2>2, <2>3 DEF Progress, Called
  <2>6. Places'
    BY Zenon, <1>1, <1>2, <1>4, <2>1, <2>2, <2>3 DEF Places, Called
  <2> QED BY Zenon, <2>4, <2>5, <2>6 DEF EventInv
<1>6. CASE Event!Claim(x)
  <2>1. w[x][1] = "claim" /\ d' = [d EXCEPT !.next = d.next + 1]
    BY Zenon, <1>6 DEF Event!Claim
  <2>2. PICK p \in {"begin", "exit"}, i \in Nat :
          /\ w' = [w EXCEPT ![x] = <<p, i>>]
          /\ p = "begin" => i = d.next + 1 /\ i <= Len(d.entries)
          /\ p = "exit" => d.stop \/ d.next + 1 > Len(d.entries)
    <3>1. CASE d.next + 1 <= Len(d.entries) /\ ~d.stop
      BY <1>4, <1>6, <3>1 DEF Event!Claim, Event!Go, Event!Index
    <3>2. CASE ~(d.next + 1 <= Len(d.entries) /\ ~d.stop)
      BY <1>4, <1>6, <3>2 DEF Event!Claim, Event!Go, Event!Index
    <3> QED BY Zenon, <3>1, <3>2
  <2>3. /\ d' \in Dispatches /\ d'.next = d.next + 1 /\ d'.pc = d.pc /\ d'.entries = d.entries
        /\ d'.called = d.called /\ d'.failed = d.failed
    <3>1. d.next + 1 \in Nat
      BY <1>4
    <3> QED BY Zenon, <1>4, <2>1, <3>1 DEF Dispatches
  <2>4. (d'.ctx <=> d.ctx) /\ (d'.stop <=> d.stop)
    BY Zenon, <1>4, <2>1 DEF Dispatches
  <2>5. /\ w' \in [1..MaxWorkers -> {"idle", "check", "claim", "begin", "call", "exit"} \X Nat]
        /\ w'[x][1] = p /\ w'[x][2] = i
        /\ \A y \in 1..MaxWorkers : y # x => w'[y] = w[y]
        /\ \A j : Begins(j) => Begins(j)'
    BY Zenon, <1>1, <2>1, <2>2, WorkerGoes
  <2>6. EventTypeOK'
    BY <1>1, <1>3, <1>4, <2>2, <2>3, <2>5 DEF EventTypeOK
  <2>7. \A j : j = d.next + 1 /\ j <= Len(d.entries) => Begins(j)' \/ d.stop
    BY <1>4, <2>2, <2>5 DEF Begins
  <2>8. Progress'
    <3>1. \A j : Called(j)' <=> Called(j)
      BY Zenon, <2>3 DEF Called
    <3>2. \A j \in 1..Len(d.entries) : j <= d.next + 1 => j <= d.next \/ j = d.next + 1
      BY <1>4
    <3>3. \A j \in 1..Len(d'.entries) : j <= d'.next => Called(j)' \/ Begins(j)' \/ d'.stop
      BY <1>1, <2>3, <2>4, <2>5, <2>7, <3>1, <3>2 DEF Progress
    <3> QED BY <1>1, <2>3, <2>4, <3>3 DEF Progress
  <2>9. Places'
    BY <1>1, <1>2, <1>4, <2>2, <2>3, <2>4, <2>5 DEF Places
  <2> QED BY Zenon, <2>6, <2>8, <2>9 DEF EventInv
<1>7. CASE Event!Begin(x)
  <2> DEFINE e == w[x][2]
  <2>1. /\ w[x][1] = "begin" /\ w' = [w EXCEPT ![x] = <<"call", e>>] /\ e \in 1..Len(d.entries)
        /\ d' = [d EXCEPT !.called = Append(d.called, d.entries[e])]
    BY Zenon, <1>1, <1>7 DEF Event!Begin, Event!Go, Event!Entry, EventTypeOK
  <2>2. d.entries \in Seq(Listeners) /\ d.called \in Seq(Listeners) /\ d.entries[e] \in Listeners
    BY <1>4, <2>1 DEF Dispatches
  <2>3. /\ d'.called = Append(d.called, d.entries[e]) /\ d'.next = d.next
        /\ d'.pc = d.pc /\ d'.entries = d.entries /\ d'.failed = d.failed
        /\ (d'.ctx <=> d.ctx) /\ (d'.stop <=> d.stop)
    BY Zenon, <1>4, <2>1 DEF Dispatches
  <2>4. /\ d'.called \in Seq(Listeners) /\ Len(d'.called) = Len(d.called) + 1
        /\ d'.called[Len(d.called) + 1] = d.entries[e]
        /\ \A k \in 1..Len(d.called) : d'.called[k] = d.called[k]
    BY <2>2, <2>3
  <2>5. d' \in Dispatches
    BY Zenon, <1>4, <2>1, <2>3, <2>4 DEF Dispatches
  <2>6. /\ w' \in [1..MaxWorkers -> {"idle", "check", "claim", "begin", "call", "exit"} \X Nat]
        /\ w'[x][1] = "call" /\ w'[x][2] = e
        /\ \A y \in 1..MaxWorkers : y # x => w'[y] = w[y]
        /\ \A j : Begins(j) => Begins(j)' \/ j = e
    <3>1. e \in Nat
      BY Zenon, <1>1 DEF EventTypeOK
    <3>2. w' = [w EXCEPT ![x] = <<"call", e>>] /\ EventTypeOK
      BY Zenon, <1>1, <2>1
    <3> HIDE DEF e
    <3>3. /\ w' \in [1..MaxWorkers -> {"idle", "check", "claim", "begin", "call", "exit"} \X Nat]
          /\ w'[x][1] = "call" /\ w'[x][2] = e
          /\ \A y \in 1..MaxWorkers : y # x => w'[y] = w[y]
          /\ \A j : Begins(j) => Begins(j)' \/ (w[x][1] = "begin" /\ w[x][2] = j)
      BY ONLY Zenon, <3>1, <3>2, x \in 1..MaxWorkers, WorkerGoes
    <3> QED BY ONLY Zenon, <3>3 DEF e
  <2>7. EventTypeOK'
    BY Zenon, <1>1, <1>3, <2>1, <2>3, <2>5, <2>6 DEF EventTypeOK
  <2>8. \A i : Called(i) => Called(i)'
    BY <2>2, <2>3, <2>4 DEF Called
  <2>9. \A i : i = e => Called(i)'
    <3>1. Len(d.called) + 1 \in 1..Len(d'.called)
      BY <2>2, <2>4
    <3> QED BY <2>3, <2>4, <3>1 DEF Called
  <2>10. \A i \in 1..Len(d'.entries) : i <= d'.next => Called(i)' \/ Begins(i)' \/ d'.stop
    BY Zenon, <1>1, <2>3, <2>6, <2>8, <2>9 DEF Progress
  <2>11. \A k \in 1..Len(d'.called) : \E i \in 1..Len(d'.entries) : d'.called[k] = d'.entries[i]
    <3> TAKE k \in 1..Len(d'.called)
    <3>1. CASE k = Len(d.called) + 1
      BY <2>1, <2>3, <2>4, <3>1
    <3>2. CASE k # Len(d.called) + 1
      <4>1. k \in 1..Len(d.called)
        BY <2>2, <2>4, <3>2
      <4>2. \E i \in 1..Len(d.entries) : d.called[k] = d.entries[i]
        BY Zenon, <1>1, <4>1 DEF Progress
      <4> QED BY Zenon, <2>3, <2>4, <4>1, <4>2
    <3> QED BY Zenon, <3>1, <3>2
  <2>12. Progress'
    BY Zenon, <1>1, <2>3, <2>10, <2>11 DEF Progress
  <2>13. Places'
    BY Zenon, <1>1, <1>2, <1>4, <2>1, <2>3, <2>6 DEF Places
  <2> QED BY Zenon, <2>7, <2>12, <2>13 DEF EventInv
<1>8. CASE Event!Succeeds(x) \/ Event!Fails(x)
  <2> DEFINE e == w[x][2]
  <2>1. w[x][1] = "call" /\ e \in 1..Len(d.entries)
    BY Zenon, <1>1, <1>8 DEF Event!Succeeds, Event!Fails, EventTypeOK
  <2>2. d.entries \in Seq(Listeners) /\ d.entries[e] \in Listeners
    BY <1>4, <2>1 DEF Dispatches
  <2>3. PICK p \in {"check", "exit"} : w' = [w EXCEPT ![x] = <<p, e>>] /\ (p = "exit" => Event!Fails(x) /\ ~d.continue)
    BY Zenon, <1>8 DEF Event!Succeeds, Event!Fails, Event!Go
  <2>4. /\ d' \in Dispatches /\ d'.next = d.next /\ d'.called = d.called
        /\ d'.pc = d.pc /\ d'.entries = d.entries /\ (d'.ctx <=> d.ctx)
        /\ (d.stop => d'.stop) /\ (d'.stop => d.stop \/ d'.failed # {}) /\ (d.failed # {} => d'.failed # {})
        /\ (Event!Fails(x) /\ ~d.continue => d'.stop)
    <3>1. CASE ~Event!Fails(x)
      <4>1. UNCHANGED d
        BY Zenon, <1>8, <3>1 DEF Event!Succeeds
      <4> QED BY Zenon, <1>4, <3>1, <4>1
    <3>2. CASE Event!Fails(x)
      <4>1. d' = [d EXCEPT !.failed = d.failed \cup {d.entries[e]}, !.stop = d.stop \/ ~d.continue]
        BY Zenon, <3>2 DEF Event!Fails
      <4>2. d.failed \cup {d.entries[e]} \in SUBSET Listeners /\ (d.stop \/ ~d.continue) \in BOOLEAN
        BY Zenon, <1>4, <2>2 DEF Dispatches
      <4> QED BY Zenon, <1>4, <4>1, <4>2 DEF Dispatches
    <3> QED BY Zenon, <3>1, <3>2
  <2>5. /\ w' \in [1..MaxWorkers -> {"idle", "check", "claim", "begin", "call", "exit"} \X Nat]
        /\ w'[x][1] = p /\ w'[x][2] = e
        /\ \A y \in 1..MaxWorkers : y # x => w'[y] = w[y]
        /\ \A j : Begins(j) => Begins(j)'
    BY Zenon, <1>1, <1>4, <2>1, <2>3, WorkerGoes
  <2>6. EventTypeOK'
    BY Zenon, <1>1, <1>3, <2>1, <2>4, <2>5 DEF EventTypeOK
  <2>7. Progress'
    BY <1>1, <2>4, <2>5 DEF Progress, Called
  <2>8. Places'
    BY Zenon, <1>1, <1>2, <1>4, <2>3, <2>4, <2>5 DEF Places
  <2> QED BY Zenon, <2>6, <2>7, <2>8 DEF EventInv
<1> QED BY Zenon, <1>5, <1>6, <1>7, <1>8 DEF Event!Work

\* The end of the context, and the return of Dispatch when all workers have left.
LEMMA EventEnds == ASSUME MaxWorkers \in Nat \ {0}, EventInv, Event!Cancel \/ Event!Return PROVE EventInv'
<1> USE DEF EventInv
<1>1. CASE Event!Cancel
  <2>1. /\ d.pc \in {"new", "run"} /\ UNCHANGED <<listeners, unsub, w>>
        /\ d' \in Dispatches /\ d'.next = d.next /\ d'.called = d.called
        /\ d'.pc = d.pc /\ d'.entries = d.entries /\ d'.ctx /\ d'.stop /\ d'.failed = d.failed
    BY Zenon, <1>1 DEF Event!Cancel, EventTypeOK, Dispatches
  <2>2. EventTypeOK'
    BY Zenon, <2>1 DEF EventTypeOK
  <2>3. Progress'
    BY <2>1 DEF Progress, Called, Begins
  <2>4. Places'
    BY Zenon, <2>1 DEF Places
  <2> QED BY Zenon, <2>2, <2>3, <2>4
<1>2. CASE Event!Return
  <2>1. /\ d.pc = "run" /\ UNCHANGED <<listeners, unsub, w>> /\ \A x \in 1..MaxWorkers : w[x][1] = "exit"
        /\ d' \in Dispatches /\ d'.next = d.next /\ d'.called = d.called
        /\ d'.entries = d.entries /\ (d'.ctx <=> d.ctx) /\ (d'.stop <=> d.stop) /\ d'.failed = d.failed
        /\ d'.pc = IF d.failed = {} /\ ~d.ctx THEN "nil" ELSE "error"
    BY Zenon, <1>2 DEF Event!Return, Event!Result, Event!Workers, EventTypeOK, Dispatches
  <2>2. d'.pc = "nil" => \A i \in 1..Len(d.entries) : Called(i)
    <3> SUFFICES ASSUME d'.pc = "nil", NEW i \in 1..Len(d.entries) PROVE Called(i)
      BY Zenon
    <3>1. ~d.stop
      BY Zenon, <2>1 DEF Progress
    <3>2. d.next >= Len(d.entries)
      BY <2>1, <3>1 DEF Places
    <3>3. ~Begins(i)
      BY Zenon, <2>1 DEF Begins
    <3> QED BY <3>1, <3>2, <3>3 DEF Progress, EventTypeOK, Dispatches
  <2>3. EventTypeOK'
    BY Zenon, <2>1 DEF EventTypeOK
  <2>4. Progress'
    BY <2>1 DEF Progress, Called, Begins
  <2>5. Places'
    BY <2>1, <2>2 DEF Places, Called
  <2> QED BY Zenon, <2>3, <2>4, <2>5
<1> QED BY Zenon, <1>1, <1>2

\* Every step keeps the invariant.
LEMMA EventStep == ASSUME MaxWorkers \in Nat \ {0} PROVE EventInv /\ [Event!Next]_(Event!vars) => EventInv'
<1> SUFFICES ASSUME EventInv, [Event!Next]_(Event!vars) PROVE EventInv'
  BY Zenon
<1>1. CASE UNCHANGED Event!vars
  <2>1. UNCHANGED <<listeners, unsub, d, w>>
    BY Zenon, <1>1 DEF Event!vars
  <2>2. Progress' /\ Places'
    BY <2>1 DEF EventInv, Progress, Places, Called, Begins
  <2> QED BY Zenon, <2>1, <2>2 DEF EventInv, EventTypeOK
<1> QED BY Zenon, <1>1, EventList, EventDispatch, EventWork, EventEnds DEF Event!Next, Event!Workers

\* EventDispatcher: nil means that every handler of the snapshot succeeded.
NilMeansAllCalled == Event!NilMeansAllCalled

\* event.Dispatcher: a dispatch that returns nil has called every listener it found, for
\* any number of listeners, workers and callers.
THEOREM EventReachesAll == ASSUME MaxWorkers \in Nat \ {0} PROVE Event!Spec => []NilMeansAllCalled
<1>1. EventInv => Event!NilMeansAllCalled
  <2> SUFFICES ASSUME EventInv, d.pc = "nil" PROVE Event!Range(d.called) = Event!Range(d.entries)
    BY Zenon DEF Event!NilMeansAllCalled, EventInv, Places
  <2>1. DOMAIN d.called = 1..Len(d.called) /\ DOMAIN d.entries = 1..Len(d.entries)
    BY DEF EventInv, EventTypeOK, Dispatches
  <2>2. /\ \A i \in 1..Len(d.entries) : \E k \in 1..Len(d.called) : d.called[k] = d.entries[i]
        /\ \A k \in 1..Len(d.called) : \E i \in 1..Len(d.entries) : d.called[k] = d.entries[i]
    BY Zenon DEF EventInv, Places, Progress, Called
  <2>3. \A f, y : y \in Event!Range(f) <=> \E i \in DOMAIN f : f[i] = y
    BY Zenon DEF Event!Range
  <2>4. \A y : y \in Event!Range(d.called) <=> y \in Event!Range(d.entries)
    <3> TAKE y
    <3>1. ASSUME y \in Event!Range(d.called) PROVE y \in Event!Range(d.entries)
      <4>1. PICK k \in 1..Len(d.called) : d.called[k] = y
        BY Zenon, <2>1, <2>3, <3>1
      <4>2. PICK i \in 1..Len(d.entries) : d.called[k] = d.entries[i]
        BY Zenon, <2>2
      <4> QED BY Zenon, <2>1, <2>3, <4>1, <4>2
    <3>2. ASSUME y \in Event!Range(d.entries) PROVE y \in Event!Range(d.called)
      <4>1. PICK i \in 1..Len(d.entries) : d.entries[i] = y
        BY Zenon, <2>1, <2>3, <3>2
      <4>2. PICK k \in 1..Len(d.called) : d.called[k] = d.entries[i]
        BY Zenon, <2>2
      <4> QED BY Zenon, <2>1, <2>3, <4>1, <4>2
    <3> QED BY Zenon, <3>1, <3>2
  <2> QED BY Zenon, <2>4
<1>2. Event!Init => EventInv
  BY Zenon, EventInit
<1> QED BY <1>1, <1>2, EventStep, PTL DEF Event!Spec, NilMeansAllCalled

-----------------------------------------------------------------------------
(* Lifecycle *)

CONSTANTS Providers, Threads, MaxFailures
VARIABLES state, at, provider, failed, shutdownErr, op, pc, trace, lifeFaults
Life == INSTANCE Lifecycle WITH MaxFaults <- MaxFailures, faults <- lifeFaults

\* trace: the providers up to n have started, and the last m of them have stopped.
Mirror(n, m) ==
    /\ n \in 0..Providers /\ m \in 0..n
    /\ trace \in Seq({"start", "stop"} \X Nat) /\ Len(trace) = n + m
    /\ \A i \in 1..n : trace[i] = <<"start", i>>
    /\ \A i \in 1..m : trace[n + i] = <<"stop", n + 1 - i>>
    /\ DOMAIN provider = 1..Providers
    /\ \A i \in 1..Providers : provider[i] = "started" <=> i <= n - m

\* Where the runner stands says how far trace is.
Phase(n, m) ==
    /\ Mirror(n, m)
    /\ state = "new" => n = 0
    /\ state = "started" => n = Providers /\ m = 0
    /\ state = "stopping" => n = Providers /\ at = n - m
    /\ state = "stopped" => m = n
    /\ \A t \in Threads : /\ pc[t] = "bootstrap" => at = n + 1 /\ m = 0
                          /\ pc[t] = "rollback" => at = n - m

\* One thread starts or stops the providers.
Busy == {"bootstrap", "rollback", "stopping"}
\* One thread at a time starts, rolls back or stops providers.
OneBusy ==
    /\ DOMAIN pc = Threads /\ shutdownErr \in {"nil", "error"}
    /\ \A t \in Threads : /\ pc[t] \in {"bootstrap", "rollback"} => state = "starting"
                          /\ pc[t] = "stopping" => state = "stopping"
    /\ \A t, u \in Threads : pc[t] \in Busy /\ pc[u] \in Busy => t = u

\* The inductive invariant.
LifeInv == OneBusy /\ \E n, m \in Nat : Phase(n, m)

\* Nothing has started at first.
LEMMA LifeInit == ASSUME Providers \in Nat, Life!Init PROVE LifeInv
<1>1. OneBusy
  BY Zenon DEF Life!Init, OneBusy, Busy
<1>2. trace \in Seq({"start", "stop"} \X Nat) /\ Len(trace) = 0
  BY DEF Life!Init
<1>3. Phase(0, 0)
  BY <1>2 DEF Life!Init, Phase, Mirror
<1> QED BY Zenon, <1>1, <1>3 DEF LifeInv

\* The mutex and the state keep a second thread out.
LEMMA LifeBusy == ASSUME OneBusy, NEW t \in Threads, Life!Step(t) PROVE OneBusy'
<1> USE DEF OneBusy, Busy, Life!Goto
<1>1. CASE Life!Bootstrap(t)
  BY <1>1 DEF Life!Bootstrap, Life!MayStart
<1>2. CASE Life!ProviderStarts(t) \/ Life!ProviderStops(t) \/ Life!ProviderStopFails(t)
  BY Zenon, <1>2 DEF Life!ProviderStarts, Life!ProviderStops, Life!ProviderStopFails
<1>3. CASE Life!ProviderFails(t)
  BY <1>3 DEF Life!ProviderFails
<1>4. CASE Life!Started(t)
  BY <1>4 DEF Life!Started
<1>5. CASE Life!HandlerReturns(t)
  BY Zenon, <1>5 DEF Life!HandlerReturns
<1>6. CASE Life!Stopped(t)
  BY Zenon, <1>6 DEF Life!Stopped, Life!Outcome, Life!KeptError
<1>7. CASE Life!ShutdownStarted(t)
  BY <1>7 DEF Life!ShutdownStarted, Life!Calls
<1>8. CASE Life!ShutdownNew(t) \/ Life!ShutdownStarting(t) \/ Life!ShutdownStopping(t) \/ Life!ShutdownStopped(t)
           \/ Life!Woken(t)
  <2>1. /\ UNCHANGED <<state, shutdownErr>>
        /\ \E p \in {"nil", "error", "waitStart", "waitStop", "shutdown"} : pc' = [pc EXCEPT ![t] = p]
    BY Zenon, <1>8 DEF Life!ShutdownNew, Life!ShutdownStarting, Life!ShutdownStopping, Life!ShutdownStopped, Life!Woken
  <2> QED BY Zenon, <2>1
<1> QED BY Zenon, <1>1, <1>2, <1>3, <1>4, <1>5, <1>6, <1>7, <1>8 DEF Life!Step, Life!Shutdown

\* A step of a thread starts the next provider, or stops the last one that runs.
LEMMA LifePhase ==
    ASSUME Providers \in Nat, OneBusy, NEW n \in Nat, NEW m \in Nat, Phase(n, m), NEW t \in Threads, Life!Step(t)
    PROVE  \E k, l \in Nat : Phase(k, l)'
<1> USE DEF OneBusy, Busy
<1>1. CASE Life!Bootstrap(t)
  <2>1. Mirror(n, m)' /\ n \in 0..Providers /\ m \in 0..n
    BY Zenon, <1>1 DEF Life!Bootstrap, Phase, Mirror
  <2>2. CASE state = "new"
    <3>1. state' = "starting" /\ at' = 1 /\ pc' = [pc EXCEPT ![t] = "bootstrap"] /\ n = 0 /\ m = 0
      BY <1>1, <2>1, <2>2 DEF Life!Bootstrap, Life!MayStart, Life!Goto, Phase
    <3>2. \A u \in Threads : pc'[u] # "rollback"
      BY Zenon, <2>2, <3>1
    <3> QED BY <2>1, <3>1, <3>2 DEF Phase
  <2>3. CASE state # "new"
    <3>1. UNCHANGED <<state, at>> /\ pc' = [pc EXCEPT ![t] = "already"]
      BY Zenon, <1>1, <2>3 DEF Life!Bootstrap, Life!MayStart, Life!Goto
    <3> QED BY <2>1, <3>1 DEF Phase
  <2> QED BY Zenon, <2>2, <2>3
<1>2. CASE Life!ProviderStarts(t)
  <2> USE <1>2 DEF Life!ProviderStarts, Life!Mark
  <2>1. m = 0 /\ at = n + 1 /\ at <= Providers /\ state = "starting" /\ n \in 0..Providers
    BY Zenon DEF Phase, Mirror
  <2>2. trace' \in Seq({"start", "stop"} \X Nat) /\ Len(trace') = n + 1 /\ trace'[n + 1] = <<"start", n + 1>>
        /\ \A i \in 1..n : trace'[i] = trace[i]
    BY <2>1 DEF Phase, Mirror
  <2>3. Mirror(n + 1, 0)'
    BY <2>1, <2>2 DEF Phase, Mirror
  <2>4. Phase(n + 1, 0)'
    BY Zenon, <2>1, <2>3 DEF Phase
  <2> QED BY <2>1, <2>4
<1>3. CASE Life!ProviderFails(t)
  <2> USE <1>3 DEF Life!ProviderFails, Life!Fault, Life!RollbackFrom, Life!Goto
  <2>1. m = 0 /\ at = n + 1 /\ at <= Providers /\ state = "starting" /\ n \in 0..Providers
    BY Zenon DEF Phase, Mirror
  <2>2. Mirror(n, 0)'
    BY <2>1 DEF Phase, Mirror
  <2>3. Phase(n, 0)'
    BY <2>1, <2>2 DEF Phase
  <2> QED BY Zenon, <2>1, <2>3
<1>4. CASE Life!Started(t)
  <2> USE <1>4 DEF Life!Started, Life!Goto
  <2>1. m = 0 /\ n = Providers
    BY DEF Phase, Mirror
  <2>2. Phase(n, m)'
    BY Zenon, <2>1 DEF Phase, Mirror
  <2> QED BY Zenon, <2>2
<1>5. CASE Life!ProviderStops(t) \/ Life!ProviderStopFails(t)
  <2>1. /\ pc[t] \in {"rollback", "stopping"} /\ at >= 1 /\ at' = at - 1 /\ UNCHANGED <<state, pc>>
        /\ trace' = Append(trace, <<"stop", at>>)
        /\ \E s \in {"stopped", "stuck"} : provider' = [provider EXCEPT ![at] = s]
    BY Zenon, <1>5 DEF Life!ProviderStops, Life!ProviderStopFails, Life!Stops, Life!Mark, Life!AfterStopFails
  <2>2. at = n - m /\ m < n /\ n <= Providers /\ state \in {"starting", "stopping"} /\ at \in Nat
        /\ (state = "stopping" => n = Providers)
    BY <2>1 DEF Phase, Mirror
  <2>3. trace' \in Seq({"start", "stop"} \X Nat) /\ Len(trace') = n + (m + 1)
        /\ trace'[n + (m + 1)] = <<"stop", n - m>>
        /\ \A i \in 1..(n + m) : trace'[i] = trace[i]
    <3>1. trace \in Seq({"start", "stop"} \X Nat) /\ Len(trace) = n + m
      BY Zenon DEF Phase, Mirror
    <3>2. <<"stop", at>> \in {"start", "stop"} \X Nat
      BY Zenon, <2>2
    <3>3. /\ trace' \in Seq({"start", "stop"} \X Nat) /\ Len(trace') = Len(trace) + 1
          /\ trace'[Len(trace) + 1] = <<"stop", at>>
          /\ \A i \in 1..Len(trace) : trace'[i] = trace[i]
      <4> DEFINE Steps == {"start", "stop"} \X Nat
      <4>1. PICK e \in Steps : e = <<"stop", at>>
        BY Zenon, <3>2
      <4>2. trace' = Append(trace, e)
        BY Zenon, <2>1, <4>1
      <4>3. trace \in Seq(Steps) /\ e \in Steps
        BY Zenon, <3>1, <4>1
      <4> HIDE DEF Steps
      <4>4. Append(trace, e) \in Seq(Steps) /\ Len(Append(trace, e)) = Len(trace) + 1
        BY ONLY <4>3
      <4>5. Append(trace, e)[Len(trace) + 1] = e /\ \A i \in 1..Len(trace) : Append(trace, e)[i] = trace[i]
        BY ONLY <4>3
      <4> QED BY ONLY Zenon, <4>1, <4>2, <4>4, <4>5 DEF Steps
    <3>4. n + (m + 1) = Len(trace) + 1 /\ 1..(n + m) = 1..Len(trace)
      BY <3>1
    <3> QED BY Zenon, <2>2, <3>3, <3>4
  <2>4. Mirror(n, m + 1)'
    <3>1. \A i \in 1..n : trace'[i] = <<"start", i>>
      <4>1. \A i \in 1..n : trace[i] = <<"start", i>>
        BY Zenon DEF Phase, Mirror
      <4>2. \A i \in 1..n : i \in 1..(n + m)
        BY ONLY n \in Nat, m \in Nat
      <4> QED BY Zenon, <2>3, <4>1, <4>2
    <3>2. \A i \in 1..(m + 1) : trace'[n + i] = <<"stop", n + 1 - i>>
      <4> TAKE i \in 1..(m + 1)
      <4>1. CASE i \in 1..m
        <5>1. n + i \in 1..(n + m)
          BY <4>1
        <5>2. trace[n + i] = <<"stop", n + 1 - i>>
          BY Zenon, <4>1 DEF Phase, Mirror
        <5> QED BY Zenon, <2>3, <5>1, <5>2
      <4>2. CASE i = m + 1
        <5>1. n + 1 - i = n - m
          BY <4>2
        <5> QED BY Zenon, <2>3, <4>2, <5>1
      <4> QED BY <4>1, <4>2
    <3>3. \A i \in 1..Providers : provider'[i] = "started" <=> i <= n - (m + 1)
      <4> TAKE i \in 1..Providers
      <4>1. provider[i] = "started" <=> i <= n - m
        BY Zenon DEF Phase, Mirror
      <4>2. (i = at => provider'[i] # "started") /\ (i # at => provider'[i] = provider[i])
        BY Zenon, <2>1 DEF Phase, Mirror
      <4>3. (i <= n - (m + 1)) <=> (i <= n - m /\ i # at)
        BY <2>2
      <4> QED BY Zenon, <4>1, <4>2, <4>3
    <3>4. DOMAIN provider' = 1..Providers
      BY Zenon, <2>1 DEF Phase, Mirror
    <3>5. n \in 0..Providers /\ m + 1 \in 0..n
      BY <2>2
    <3> QED BY Zenon, <2>3, <3>1, <3>2, <3>3, <3>4, <3>5 DEF Mirror
  <2>5. Phase(n, m + 1)'
    BY <2>1, <2>2, <2>4 DEF Phase
  <2> QED BY <2>5
<1>6. CASE Life!Stopped(t)
  <2> USE <1>6 DEF Life!Stopped, Life!Outcome, Life!Goto
  <2>1. m = n
    BY DEF Phase, Mirror
  <2>2. Phase(n, m)'
    BY Zenon, <2>1 DEF Phase, Mirror
  <2> QED BY Zenon, <2>2
<1>7. CASE Life!ShutdownStarted(t)
  <2>1. /\ state = "started" /\ state' = "stopping" /\ at' = Providers /\ pc' = [pc EXCEPT ![t] = "stopping"]
        /\ UNCHANGED <<provider, trace>>
    BY Zenon, <1>7 DEF Life!ShutdownStarted, Life!Goto
  <2>2. n = Providers /\ m = 0 /\ Mirror(n, m)
    BY Zenon, <2>1 DEF Phase
  <2>3. Mirror(n, m)'
    BY Zenon, <2>1, <2>2 DEF Mirror
  <2>4. at' = n - m
    BY <2>1, <2>2
  <2>5. ASSUME NEW u \in Threads PROVE pc'[u] \notin {"bootstrap", "rollback"}
    BY Zenon, <2>1 DEF OneBusy
  <2>6. Phase(n, m)'
    BY Zenon, <2>1, <2>2, <2>3, <2>4, <2>5 DEF Phase
  <2> QED BY Zenon, <2>6
<1>8. CASE Life!ShutdownNew(t) \/ Life!ShutdownStarting(t) \/ Life!ShutdownStopping(t) \/ Life!ShutdownStopped(t)
           \/ Life!Woken(t) \/ Life!HandlerReturns(t)
  <2>1. /\ UNCHANGED <<state, at, provider, trace>>
        /\ \E p \in {"nil", "error", "waitStart", "waitStop", "shutdown"} : pc' = [pc EXCEPT ![t] = p]
    BY Zenon, <1>8 DEF Life!ShutdownNew, Life!ShutdownStarting, Life!ShutdownStopping, Life!ShutdownStopped, Life!Woken,
                Life!HandlerReturns, Life!Goto
  <2>2. Phase(n, m)'
    BY Zenon, <2>1 DEF Phase, Mirror
  <2> QED BY Zenon, <2>2
<1> QED BY Zenon, <1>1, <1>2, <1>3, <1>4, <1>5, <1>6, <1>7, <1>8 DEF Life!Step, Life!Shutdown

\* Every step keeps the invariant.
LEMMA LifeStep == ASSUME Providers \in Nat PROVE LifeInv /\ [Life!Next]_(Life!vars) => LifeInv'
<1> SUFFICES ASSUME LifeInv, [Life!Next]_(Life!vars) PROVE LifeInv'
  BY Zenon
<1>1. CASE UNCHANGED Life!vars
  <2>1. PICK n \in Nat, m \in Nat : Phase(n, m)
    BY Zenon DEF LifeInv
  <2>2. Phase(n, m)' /\ OneBusy'
    BY Zenon, <1>1, <2>1 DEF Life!vars, LifeInv, OneBusy, Phase, Mirror
  <2> QED BY Zenon, <2>2 DEF LifeInv
<1>2. ASSUME NEW t \in Threads, Life!Step(t) PROVE LifeInv'
  BY Zenon, <1>2, LifeBusy, LifePhase DEF LifeInv
<1> QED BY Zenon, <1>1, <1>2 DEF Life!Next

\* What the invariant says of the trace is what StopsMirrorStarts says.
LEMMA LifeMirrors == ASSUME Providers \in Nat, NEW n \in Nat, NEW m \in Nat, Phase(n, m) PROVE Life!StopsMirrorStarts
<1>1. ASSUME NEW i \in 1..Len(trace), NEW j \in 1..Len(trace)
      PROVE  /\ i # j => trace[i] # trace[j]
             /\ (i < j /\ trace[i][1] = "stop" /\ trace[j][1] = "stop") => trace[j][2] < trace[i][2]
             /\ trace[j][1] = "stop" => \E k \in 1..(j - 1) : trace[k] = <<"start", trace[j][2]>>
  <2>1. Len(trace) = n + m /\ m <= n
    BY DEF Phase, Mirror
  <2>2. \A k \in 1..(n + m) : \/ k <= n /\ trace[k] = <<"start", k>>
                              \/ k > n /\ trace[k] = <<"stop", 2 * n + 1 - k>>
    <3> TAKE k \in 1..(n + m)
    <3>1. CASE k <= n
      <4>1. k \in 1..n
        BY <3>1
      <4> QED BY Zenon, <3>1, <4>1 DEF Phase, Mirror
    <3>2. CASE k > n
      <4>1. k - n \in 1..m /\ n + (k - n) = k /\ n + 1 - (k - n) = 2 * n + 1 - k
        BY <3>2
      <4>2. \A l \in 1..m : trace[n + l] = <<"stop", n + 1 - l>>
        BY Zenon DEF Phase, Mirror
      <4>3. trace[n + (k - n)] = <<"stop", n + 1 - (k - n)>>
        BY Zenon, <4>1, <4>2
      <4> QED BY Zenon, <3>2, <4>1, <4>3
    <3> QED BY <3>1, <3>2
  <2>3. \A k \in 1..(n + m) : (k <= n => trace[k][1] = "start" /\ trace[k][2] = k)
                               /\ (k > n => trace[k][1] = "stop" /\ trace[k][2] = 2 * n + 1 - k)
    BY <2>2
  <2>4. i \in 1..(n + m) /\ j \in 1..(n + m)
    BY Zenon, <2>1
  <2>5. i # j => trace[i] # trace[j]
    <3>1. trace[i] = trace[j] => trace[i][1] = trace[j][1] /\ trace[i][2] = trace[j][2]
      BY Zenon
    <3>2. \A k \in 1..(n + m) : k <= n \/ k > n
      OBVIOUS
    <3>3. \A k, l \in 1..(n + m) : 2 * n + 1 - k = 2 * n + 1 - l => k = l
      OBVIOUS
    <3>4. "start" # "stop"
      OBVIOUS
    <3>5. CASE i <= n /\ j <= n
      BY Zenon, <2>3, <2>4, <3>1, <3>5
    <3>6. CASE i > n /\ j > n
      BY Zenon, <2>3, <2>4, <3>1, <3>3, <3>6
    <3>7. CASE i <= n /\ j > n
      BY Zenon, <2>3, <2>4, <3>1, <3>4, <3>7
    <3>8. CASE i > n /\ j <= n
      BY Zenon, <2>3, <2>4, <3>1, <3>4, <3>8
    <3> QED BY Zenon, <2>4, <3>2, <3>5, <3>6, <3>7, <3>8
  <2>6. (i < j /\ trace[i][1] = "stop" /\ trace[j][1] = "stop") => trace[j][2] < trace[i][2]
    BY <2>3, <2>4
  <2>7. ASSUME trace[j][1] = "stop" PROVE \E k \in 1..(j - 1) : trace[k] = <<"start", trace[j][2]>>
    <3>1. j > n /\ trace[j][2] = 2 * n + 1 - j
      BY <2>3, <2>4, <2>7
    <3>2. 2 * n + 1 - j \in 1..(j - 1) /\ 2 * n + 1 - j \in 1..(n + m) /\ 2 * n + 1 - j <= n
      BY <2>1, <2>4, <3>1
    <3>3. trace[2 * n + 1 - j] = <<"start", 2 * n + 1 - j>>
      BY <2>2, <3>2
    <3> QED BY Zenon, <3>1, <3>2, <3>3
  <2> QED BY Zenon, <2>5, <2>6, <2>7
<1>2. state = "stopped" => \A i \in 1..Providers : provider[i] # "started"
  BY DEF Phase, Mirror
<1> QED BY Zenon, <1>1, <1>2 DEF Life!StopsMirrorStarts

\* Lifecycle: providers stop once, in reverse order, also when some fail.
StopsMirrorStarts == Life!StopsMirrorStarts

\* lifecycle: providers are stopped in the reverse of the order they started in, each
\* once, whatever fails and whoever calls, for any number of providers and threads.
THEOREM LifeIsMirrored == ASSUME Providers \in Nat PROVE Life!Spec => []StopsMirrorStarts
<1>1. LifeInv => Life!StopsMirrorStarts
  BY Zenon, LifeMirrors DEF LifeInv
<1>2. Life!Init => LifeInv
  BY Zenon, LifeInit
<1> QED BY <1>2, LifeStep, <1>1, PTL DEF Life!Spec, StopsMirrorStarts

-----------------------------------------------------------------------------
(* SignalRouter *)

CONSTANTS Registrations, OSSignals, Routes, MaxSignals
VARIABLES sigState, registered, subscribed, run, offers, incoming, pending, sigWorker, cancelled, ctxDone, aborted,
          shutdown, result, sent
Router == INSTANCE SignalRouter WITH Signals <- OSSignals, state <- sigState, worker <- sigWorker

\* The inductive invariant: a shutdown whose context expired has aborted the router, and
\* Run ends with an error exactly when it was aborted or its context was done.
RouterInv ==
    /\ shutdown \in [Callers -> {"new", "wait", "nil", "error", "expired"}]
    /\ sigState \in {"new", "running", "stopping", "stopped"}
    /\ ctxDone \in BOOLEAN /\ aborted \in BOOLEAN /\ result \in {"nil", "error"}
    /\ \A c \in Callers : shutdown[c] = "expired" => aborted
    /\ run = "done" => sigState = "stopped" /\ (result = "error" <=> ctxDone \/ aborted)

\* Nobody has called Shutdown at first.
LEMMA RouterInit == Router!Init => RouterInv
BY Zenon DEF Router!Init, RouterInv

\* Every step of Run, of a handler and of a caller of Shutdown keeps it.
LEMMA RouterStep == RouterInv /\ [Router!Next]_(Router!vars) => RouterInv'
<1> SUFFICES ASSUME RouterInv, [Router!Next]_(Router!vars) PROVE RouterInv'
  BY Zenon
<1> USE DEF RouterInv
<1>1. CASE UNCHANGED Router!vars
  BY Zenon, <1>1 DEF Router!vars
<1>2. ASSUME NEW r \in Registrations,
             Router!Register(r) \/ Router!Worker(r) \/ Router!HandlerReturns(r) \/ Router!Offer(r)
      PROVE  RouterInv'
  <2>1. CASE Router!Register(r) \/ Router!Worker(r) \/ Router!HandlerReturns(r)
    <3>1. UNCHANGED <<shutdown, sigState, ctxDone, aborted, result, run>>
      BY Zenon, <2>1 DEF Router!Register, Router!Worker, Router!WorkerStops, Router!WorkerTakes, Router!WorkerAdmits,
                         Router!HandlerReturns
    <3> QED BY Zenon, <3>1
  <2>2. CASE Router!Offer(r)
    <3>1. run' \in {"check", "offer"} /\ UNCHANGED <<shutdown, sigState, ctxDone, aborted, result>>
      <4>1. CASE offers' = {}
        BY Zenon, <2>2, <4>1 DEF Router!Offer
      <4>2. CASE offers' # {}
        BY Zenon, <2>2, <4>2 DEF Router!Offer
      <4> QED BY Zenon, <4>1, <4>2
    <3> QED BY Zenon, <3>1
  <2> QED BY Zenon, <1>2, <2>1, <2>2
<1>3. ASSUME NEW s \in OSSignals, Router!Signal(s) PROVE RouterInv'
  BY Zenon, <1>3 DEF Router!Signal
<1>4. CASE Router!Run \/ Router!Subscribe \/ Router!ReceiveCheck \/ Router!ReceiveEnds \/ Router!Receive
           \/ Router!Unsubscribe \/ Router!Drain
  BY Zenon, <1>4 DEF Router!Run, Router!Subscribe, Router!ReceiveCheck, Router!ReceiveEnds, Router!Receive,
              Router!Unsubscribe, Router!Drain
<1>5. CASE Router!RunStops
  BY Zenon, <1>5 DEF Router!RunStops, Router!BeginShutdown
<1>6. CASE Router!RunReturns
  BY Zenon, <1>6 DEF Router!RunReturns, Router!RunResult
<1>7. CASE Router!CancelRun
  BY Zenon, <1>7 DEF Router!CancelRun
<1>8. ASSUME NEW c \in Callers, Router!Shutdown(c) PROVE RouterInv'
  <2>1. /\ sigState' \in {"new", "running", "stopping", "stopped"} /\ (sigState = "stopped" => sigState' = "stopped")
        /\ UNCHANGED <<run, ctxDone, aborted, result>>
    BY Zenon, <1>8 DEF Router!Shutdown, Router!BeginShutdown
  <2>2. PICK p \in {"wait", "nil", "error"} : shutdown' = [shutdown EXCEPT ![c] = p]
    BY Zenon, <1>8 DEF Router!Shutdown
  <2> QED BY Zenon, <2>1, <2>2
<1>9. ASSUME NEW c \in Callers, Router!ShutdownDone(c) \/ Router!ShutdownExpires(c) PROVE RouterInv'
  <2>1. UNCHANGED <<sigState, run, ctxDone, result>> /\ (sigState = "stopped" => UNCHANGED aborted)
        /\ (aborted => aborted') /\ aborted' \in BOOLEAN
    BY Zenon, <1>9 DEF Router!ShutdownDone, Router!ShutdownExpires, Router!Aborts
  <2>2. PICK p \in {"expired", "nil", "error"} : shutdown' = [shutdown EXCEPT ![c] = p] /\ (p = "expired" => aborted')
    BY Zenon, <1>9 DEF Router!ShutdownDone, Router!ShutdownExpires, Router!Aborts
  <2> QED BY <2>1, <2>2
<1> QED BY Zenon, <1>1, <1>2, <1>3, <1>4, <1>5, <1>6, <1>7, <1>8, <1>9 DEF Router!Next, Router!RunStep

\* SignalRouter: an aborted Shutdown is part of the result of Run.
AbortIsReported == Router!AbortIsReported

\* signal.Router: a Shutdown that gives up makes Run return an error, for any number of
\* registrations, signals and callers.
THEOREM RouterReports == Router!Spec => []AbortIsReported
<1>1. RouterInv => Router!AbortIsReported
  BY Zenon DEF RouterInv, Router!AbortIsReported
<1> QED BY RouterInit, RouterStep, <1>1, PTL DEF Router!Spec, AbortIsReported

-----------------------------------------------------------------------------

-----------------------------------------------------------------------------
(* Health *)

CONSTANTS Names, Concurrency, MaxRegisters
VARIABLES checks, panics, check, entries, results, next, done, checker
Registry == INSTANCE Health WITH worker <- checker

\* The inductive invariant: before Check there is no result, and a worker holds the
\* number of an entry.
HealthInv ==
    /\ check = "new" => DOMAIN results = {}
    /\ checker \in [Registry!Workers -> {"exit", "claim", "start", "check"} \X Nat]
    /\ next \in Nat /\ checks \in Seq(Names) /\ entries \in Seq(Names)

\* No check has begun at first.
LEMMA HealthInit == Registry!Init => HealthInv
<1> SUFFICES ASSUME Registry!Init PROVE HealthInv
  BY Zenon
<1>1. checks \in Seq(Names) /\ entries \in Seq(Names) /\ DOMAIN results = {}
  BY DEF Registry!Init
<1> QED BY Zenon, <1>1 DEF Registry!Init, HealthInv

\* Every step of a check and of its workers keeps it.
LEMMA HealthStep == HealthInv /\ [Registry!Next]_(Registry!vars) => HealthInv'
<1> SUFFICES ASSUME HealthInv, [Registry!Next]_(Registry!vars) PROVE HealthInv'
  BY Zenon
<1> USE DEF HealthInv
<1>1. CASE UNCHANGED Registry!vars \/ Registry!Timeout \/ Registry!ServeHTTP
  BY Zenon, <1>1 DEF Registry!vars, Registry!Timeout, Registry!ServeHTTP
<1>2. ASSUME NEW n \in Names, Registry!Register(n) PROVE HealthInv'
  <2>1. checks' = checks \/ checks' = Append(checks, n)
    BY Zenon, <1>2 DEF Registry!Register
  <2>2. checks' \in Seq(Names)
    <3>1. checks \in Seq(Names)
      BY Zenon
    <3> HIDE DEF HealthInv
    <3> QED BY <2>1, <3>1
  <2> QED BY Zenon, <1>2, <2>2 DEF Registry!Register
<1>3. CASE Registry!Check
  BY Zenon, <1>3 DEF Registry!Check
<1>4. ASSUME NEW g \in Registry!Workers, Registry!Work(g) PROVE HealthInv'
  <2>1. checker[g][2] \in Nat
    BY Zenon
  <2>2. next \in Nat /\ next + 1 \in Nat /\ 0 \in Nat
    <3>1. next \in Nat
      BY Zenon
    <3> QED BY ONLY <3>1
  <2>3. next' \in Nat /\ UNCHANGED <<check, checks, entries>>
    BY Zenon, <1>4, <2>2 DEF Registry!Work, Registry!Claim, Registry!Taken, Registry!Start, Registry!RunChecker
  <2>4. PICK p \in {"exit", "claim", "check", "start"}, i \in Nat : checker' = [checker EXCEPT ![g] = <<p, i>>]
    <3>1. CASE Registry!Claim(g)
      BY Zenon, <2>2, <3>1 DEF Registry!Claim, Registry!Go
    <3>2. CASE Registry!Start(g)
      BY Zenon, <2>1, <2>2, <3>2 DEF Registry!Start, Registry!Go
    <3>3. CASE Registry!RunChecker(g)
      BY Zenon, <2>2, <3>3 DEF Registry!RunChecker, Registry!Go
    <3> QED BY Zenon, <1>4, <3>1, <3>2, <3>3 DEF Registry!Work
  <2>5. checker' \in [Registry!Workers -> {"exit", "claim", "start", "check"} \X Nat]
    <3>1. checker \in [Registry!Workers -> {"exit", "claim", "start", "check"} \X Nat]
      BY Zenon
    <3>2. <<p, i>> \in {"exit", "claim", "start", "check"} \X Nat
      BY Zenon
    <3> QED BY Zenon, <2>4, <3>1, <3>2
  <2>6. DOMAIN results' = DOMAIN results
    BY Zenon, <1>4 DEF Registry!Work, Registry!Claim, Registry!Start, Registry!RunChecker, Registry!Report
  <2> QED BY Zenon, <2>3, <2>5, <2>6
<1> QED BY Zenon, <1>1, <1>2, <1>3, <1>4 DEF Registry!Next

\* Health: no check is healthy after the timeout.
NothingHealthyLate == [][Registry!NothingHealthyLate]_(Registry!vars)

\* health.Registry: no result that arrives after the deadline of Check is reported as
\* healthy, for any number of checks and workers.
THEOREM HealthIsTimely == Registry!Spec => NothingHealthyLate
<1>1. HealthInv /\ [Registry!Next]_(Registry!vars) => [Registry!NothingHealthyLate]_(Registry!vars)
  <2> SUFFICES ASSUME HealthInv, Registry!Next, NEW i \in DOMAIN results, done, results[i] = "none"
               PROVE  results'[i] # "healthy"
    BY Zenon DEF Registry!NothingHealthyLate
  <2>1. CASE UNCHANGED results
    BY Zenon, <2>1
  <2>2. CASE Registry!Check
    BY Zenon, <2>2 DEF Registry!Check, HealthInv
  <2>3. ASSUME NEW g \in Registry!Workers, Registry!Start(g) \/ Registry!RunChecker(g)
        PROVE  results'[i] # "healthy"
    <3>1. UNCHANGED results \/ \E r : r # "healthy" /\ results' = [results EXCEPT ![checker[g][2]] = r]
      BY Zenon, <2>3 DEF Registry!Start, Registry!RunChecker, Registry!Report, Registry!Skipped, Registry!WithCause
    <3> QED BY Zenon, <3>1
  <2>4. UNCHANGED results \/ Registry!Check
        \/ \E g \in Registry!Workers : Registry!Start(g) \/ Registry!RunChecker(g)
    BY Zenon DEF Registry!Next, Registry!Work, Registry!Claim, Registry!Register, Registry!Timeout, Registry!ServeHTTP
  <2> QED BY Zenon, <2>1, <2>2, <2>3, <2>4
<1> QED BY HealthInit, HealthStep, <1>1, PTL DEF Registry!Spec, NothingHealthyLate

-----------------------------------------------------------------------------
(* UDPServer, how many serve *)

INSTANCE FiniteSetTheorems

\* OneServes: of all concurrent calls of Start at most one is under way.
THEOREM ServesAlone == Spec => []OneServes
<1>1. ASSUME IInv PROVE OneServes
  <2> DEFINE S == {s \in Starters : start[s] \notin {"new"} \cup Returned}
  <2>1. \A s, u \in S : s = u
    BY <1>1 DEF IInv, Exclusive, Opening, Reading, Returned, TypeOK
  <2>2. CASE S = {}
    BY <2>2, FS_EmptySet DEF OneServes
  <2>3. CASE S # {}
    <3>1. PICK s \in S : TRUE
      BY Zenon, <2>3
    <3>2. S = {s}
      BY <2>1, <3>1
    <3>3. Cardinality({s}) = 1
      BY Zenon, FS_Singleton
    <3> QED
      BY <3>2, <3>3 DEF OneServes
  <2> QED
    BY Zenon, <2>2, <2>3
<1> QED
  BY <1>1, Invariant, PTL
=============================================================================
