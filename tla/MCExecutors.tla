----------------------------- MODULE MCExecutors -----------------------------
(***************************************************************************)
(* Instances of the components that run callbacks for concurrent callers.  *)
(* They share no state: a behaviour chooses one of them and leaves the     *)
(* others in their initial states, so the run visits every behaviour of    *)
(* each.                                                                   *)
(***************************************************************************)
EXTENDS ExecutorProofs

VARIABLES
    which,                                                                  \* the component that runs
    at, requests, accepted, admission, ended, wpc, then, batch, armed, calls, firstErr, barrier, finished,
        shutdown                                                            \* Batcher

\* A pool without a buffer; Pool has one.
Direct == INSTANCE Pool WITH Calls <- PoolCalls, Workers <- PoolWorkers, QueueSize <- 0

\* Three items and one barrier, batches of two, room for one request ...
Batch == INSTANCE Batcher WITH
    Items <- {"i1", "i2", "i3"}, Barriers <- {"b1"}, BatchSize <- 2, queue <- requests, closed <- admission

\* ... and for none, with two items.
Handoff == INSTANCE Batcher WITH
    Items <- {"i1", "i2"}, Barriers <- {"b1"}, QueueSize <- 0, BatchSize <- 2,
    queue <- requests, closed <- admission

\* Errors that tell the predicate and the markers apart.
RetryErrors == {<<"500">>, <<"404">>, <<"W", "P", "500">>, <<"A", "500">>, <<"Z", "500">>}

poolVars == <<call, cancelled, queue, tasksClosed, closed, worker, item, ran, stopper, stop>>
streamVars == <<supply, taken, next, gate, streamPc, streamValue, index, delivered, cause, stream, err>>
groupVars == <<failFast, groupPc, groupIndex, groupCall, outcome, parent, groupCause, groupErr, result>>
batchVars == <<at, requests, accepted, admission, ended, wpc, then, batch, armed, calls, firstErr, barrier, finished,
               shutdown>>
debounceVars == <<latestOf, done, pending, ready, running, due, handed, latest, wake, loop, timer, closing, context, fpc,
                  flushed, retry, seen, closer>>
retryVars == <<ctx, attempt, retryPc, handler, answer, channel, response, events>>
allVars == <<which, vars, poolVars, streamVars, groupVars, batchVars, debounceVars, retryVars>>

\* Calls are interchangeable: one assignment of fingerprints for each multiset of them.
Rank == [empty |-> 0, a |-> 1, b |-> 2]

RunInit ==
    /\ Init /\ Pool!Init /\ Stream!Init /\ Group!Init /\ Debounce!Init /\ Retrying!Init
    /\ which \in {"idempotency", "pool", "direct", "stream", "group", "batcher", "handoff", "debouncer", "retry"}
    /\ IF which = "handoff" THEN Handoff!Init ELSE Batch!Init
    /\ Rank[fp["c1"]] <= Rank[fp["c2"]] /\ Rank[fp["c2"]] <= Rank[fp["c3"]]
    /\ which # "idempotency" => fp = [c \in Calls |-> Empty]
    /\ which # "stream" => supply = 0
    /\ which # "group" => failFast

\* Callers that differ in nothing but their names call in the order of their names.
InOrder(place, first, second) == place[second] # "new" => place[first] # "new"

OnlyIdempotency == UNCHANGED <<which, poolVars, streamVars, groupVars, batchVars, debounceVars, retryVars>>
OnlyPool == UNCHANGED <<which, vars, streamVars, groupVars, batchVars, debounceVars, retryVars>>
OnlyStream == UNCHANGED <<which, vars, poolVars, groupVars, batchVars, debounceVars, retryVars>>
OnlyGroup == UNCHANGED <<which, vars, poolVars, streamVars, batchVars, debounceVars, retryVars>>
OnlyBatch == UNCHANGED <<which, vars, poolVars, streamVars, groupVars, debounceVars, retryVars>>
OnlyDebounce == UNCHANGED <<which, vars, poolVars, streamVars, groupVars, batchVars, retryVars>>
OnlyRetry == UNCHANGED <<which, vars, poolVars, streamVars, groupVars, batchVars, debounceVars>>

RunNext ==
    \/ which = "idempotency" /\ Next /\ OnlyIdempotency
    \/ which = "pool" /\ Pool!Next /\ OnlyPool /\ InOrder(call', "s1", "s2")
    \/ which = "direct" /\ Direct!Next /\ OnlyPool /\ InOrder(call', "s1", "s2")
    \/ which = "stream" /\ Stream!Next /\ OnlyStream
    \/ which = "group" /\ Group!Next /\ OnlyGroup
    \/ which = "batcher" /\ Batch!Next /\ OnlyBatch /\ InOrder(at', "i1", "i2") /\ InOrder(at', "i2", "i3")
    \/ which = "handoff" /\ Handoff!Next /\ OnlyBatch /\ InOrder(at', "i1", "i2")
    \/ which = "debouncer" /\ Debounce!Next /\ OnlyDebounce /\ InOrder(fpc', "f1", "f2")
    \/ which = "retry" /\ Retrying!Next /\ OnlyRetry

\* The workers of a pool, with a buffer or without, are scheduled and its tasks return.
RunSpec == RunInit /\ [][RunNext]_allVars
    /\ \A w \in PoolWorkers : WF_poolVars(which \in {"pool", "direct"} /\ Pool!WorkerStep(w))

-----------------------------------------------------------------------------
(* Properties of the components *)

\* Pool: every future completes, also when the pool is shut down meanwhile.
FuturesComplete == Pool!FuturesComplete

\* Batcher: a completed barrier stands for every item accepted before it.
FlushCoversEarlierItems ==
    IF which = "handoff" THEN Handoff!FlushCoversEarlierItems ELSE Batch!FlushCoversEarlierItems
=============================================================================
