------------------------------ MODULE MCStores -------------------------------
(***************************************************************************)
(* Instances of the components that keep state in a store.  They do not    *)
(* interact: a behaviour chooses one of them and leaves the others in      *)
(* their initial states, so the run visits every behaviour of each.        *)
(***************************************************************************)
EXTENDS StoreProofs

VARIABLES
    which,                                                      \* the component that runs
    fallback,                                                   \* CacheStore, when the store has no Add
    bucket, call, always, bucketCalls, bucketFaults,            \* ObjectStore
    file, data, fileCall, clean, staying, fileCalls, fileFaults \* LocalFiles

\* The Redis store of the rate limiter; Limiter is the one in memory.
Remote == INSTANCE RateLimit WITH Redis <- TRUE, log <- takes

\* A store without Add; Cache has one.  Its clients have places of their own, as the
\* promise of Add does not hold for them.
Fallback == INSTANCE CacheStore WITH Addable <- FALSE, pc <- fallback

\* The keys of the cache, on two pages.
CachePages == <<{"k1"}, {"k2"}>>

\* The calls of two clients on keys a, a/, a/b, a/b/d, a/c and e.
Do(name, path, dst) == [op |-> name, path |-> path, dst |-> dst]

Moves == INSTANCE ObjectStore WITH
    Keys <- <<<<"a">>, <<"a", "">>, <<"a", "b">>, <<"a", "b", "d">>, <<"a", "c">>, <<"e">>>>,
    Initial <- {<<"a", "b">>},
    Ops <- {Do("move", <<"a", "b">>, <<"e">>), Do("move", <<"a", "b">>, <<"a", "c">>), Do("copy", <<"e">>, <<"a">>),
            Do("move", <<"e">>, <<"a">>)},
    Limit <- 1, MaxCalls <- 4, MaxFaults <- 1, calls <- bucketCalls, faults <- bucketFaults

Reads == INSTANCE ObjectStore WITH
    Keys <- <<<<"a">>, <<"a", "">>, <<"a", "b">>, <<"a", "b", "d">>, <<"a", "c">>, <<"e">>>>,
    Initial <- {<<"a", "">>, <<"a", "b", "d">>, <<"a", "c">>},
    Ops <- {Do("open", <<"a">>, <<>>), Do("list", <<"a">>, <<>>), Do("stat", <<"a">>, <<>>), Do("put", <<"a">>, <<>>),
            Do("put", <<"a", "b">>, <<>>), Do("delete", <<"a">>, <<>>), Do("delete", <<"a", "b", "d">>, <<>>),
            Do("delete", <<"a", "c">>, <<>>)},
    Limit <- 1, MaxCalls <- 3, MaxFaults <- 1, calls <- bucketCalls, faults <- bucketFaults

\* The calls of two clients on a local directory.
On(name, src, dst, size) == [op |-> name, src |-> src, dst |-> dst, size |-> size]

Writes == INSTANCE LocalFiles WITH
    Names <- <<"a", "b", "c", "d">>,
    Ops <- {On("put", "", "a", 1), On("put", "", "b", 2), On("copy", "a", "b", 0), On("copy", "a", "a", 0),
            On("move", "a", "b", 0), On("link", "a", "c", 0), On("delete", "a", "", 0)},
    Limit <- 1, MaxCalls <- 3, MaxFaults <- 1,
    call <- fileCall, always <- staying, calls <- fileCalls, faults <- fileFaults

Lists == INSTANCE LocalFiles WITH
    Names <- <<"a", "b", "c", "d">>,
    Ops <- {On("list", "", "", 0), On("put", "", "b", 1), On("link", "a", "d", 0), On("delete", "b", "", 0),
            On("move", "a", "c", 0)},
    Limit <- 1, MaxCalls <- 4, MaxFaults <- 1,
    call <- fileCall, always <- staying, calls <- fileCalls, faults <- fileFaults

limitVars == <<limit, now, tat, until, takes>>
cacheVars == <<val, op, key, client, fallback, got, removals, flush, page, found, untouched, events>>
canalVars == <<log, canal, cursor, running, failed, handled, skipped, lastPos, lastSaved, counter, timer, callback,
               getter, seen, saved, canalFaults>>
snapshotVars == <<entry, stale, writer, reader, value, calls, gone, before, snapshotEvents>>
bucketVars == <<bucket, call, always, bucketCalls, bucketFaults>>
fileVars == <<file, data, fileCall, clean, staying, fileCalls, fileFaults>>
allVars == <<which, vars, limitVars, cacheVars, canalVars, snapshotVars, bucketVars, fileVars>>

\* A component that is not chosen rests in one of its initial states.
RunInit ==
    /\ which \in {"lock", "memory", "redis", "cache", "fallback", "canal", "snapshot", "moves", "reads", "writes", "lists"}
    /\ Init /\ Limiter!Init /\ Cache!Init /\ fallback = client /\ Binlog!Init /\ Snapshot!Init /\ Writes!Init
    /\ IF which = "reads" THEN Reads!Init ELSE Moves!Init
    /\ which # "lock" => wait = [c \in Clients |-> TRUE]
    /\ which \notin {"memory", "redis"} => limit = [rate |-> 1, period |-> 7, burst |-> 1]
    /\ which \notin {"cache", "fallback"} => op = [c \in Clients |-> "add"] /\ key = [c \in Clients |-> "k1"]

OnlyLock == UNCHANGED <<which, limitVars, cacheVars, canalVars, snapshotVars, bucketVars, fileVars>>
OnlyLimit == UNCHANGED <<which, vars, cacheVars, canalVars, snapshotVars, bucketVars, fileVars>>
OnlyCache == UNCHANGED <<which, vars, limitVars, canalVars, snapshotVars, bucketVars, fileVars>>
OnlyCanal == UNCHANGED <<which, vars, limitVars, cacheVars, snapshotVars, bucketVars, fileVars>>
OnlySnapshot == UNCHANGED <<which, vars, limitVars, cacheVars, canalVars, bucketVars, fileVars>>
OnlyBucket == UNCHANGED <<which, vars, limitVars, cacheVars, canalVars, snapshotVars, fileVars>>
OnlyFiles == UNCHANGED <<which, vars, limitVars, cacheVars, canalVars, snapshotVars, bucketVars>>

RunNext ==
    \/ which = "lock" /\ Next /\ OnlyLock
    \/ which = "memory" /\ Limiter!Next /\ OnlyLimit
    \/ which = "redis" /\ Remote!Next /\ OnlyLimit
    \/ which = "cache" /\ Cache!Next /\ OnlyCache /\ UNCHANGED fallback
    \/ which = "fallback" /\ Fallback!Next /\ OnlyCache /\ UNCHANGED client
    \/ which = "canal" /\ Binlog!Next /\ OnlyCanal
    \/ which = "snapshot" /\ Snapshot!Next /\ OnlySnapshot
    \/ which = "moves" /\ Moves!Next /\ OnlyBucket
    \/ which = "reads" /\ Reads!Next /\ OnlyBucket
    \/ which = "writes" /\ Writes!Next /\ OnlyFiles
    \/ which = "lists" /\ Lists!Next /\ OnlyFiles

RunSpec == RunInit /\ [][RunNext]_allVars

-----------------------------------------------------------------------------
(* Properties of the components *)

\* ObjectStore: Move loses no object, and Stat and ListFiles miss none that stays.
ObjectsAreKept ==
    /\ which = "moves" => Moves!MoveLosesNothing
    /\ which = "reads" => Reads!StatIsJustified /\ Reads!ListingIsComplete

\* LocalFiles: nil means the exact content, and a listing misses no file that stays.
FilesAreExact ==
    [][/\ which = "writes" => Writes!NilMeansExact
       /\ which = "lists" => Lists!ListingIsComplete']_allVars
=============================================================================
